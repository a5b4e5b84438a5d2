-------------------------- MODULE RowBuilderProofs --------------------------
(***************************************************************************)
(* Proofs about RowBuilder for every config a compiler may accept and      *)
(* every record: what the condition cache holds, that no row has a name    *)
(* twice, that the key set is the row's, the types, and at the end that    *)
(* the rows, or the error, are those that Rows says.                       *)
(***************************************************************************)
EXTENDS RowBuilder, Induction, FiniteSetTheorems

-----------------------------------------------------------------------------
(* The first index at which a sequence passes a test.                       *)

(* A set of naturals that is not empty has a least one. *)
LEMMA MinOfNats ==
  ASSUME NEW S \in SUBSET Nat, S # {}
  PROVE  Min(S) \in S
<1>1. \E x \in S : \A y \in S : x <= y
  BY LeastNumber
<1> QED
  BY <1>1 DEF Min

-----------------------------------------------------------------------------
(* Conditions.                                                              *)

(* What a source stands for depends on no derived value but the one it reads, *)
(* itself or through its from (text, mapValue).                             *)
LEMMA SourceSame ==
  ASSUME NEW src, NEW r, NEW dv, NEW dw,
         Origin(src).kind = "derived" => dv[Origin(src).idx] = dw[Origin(src).idx]
  PROVE  SourceValue(src, r, dv) = SourceValue(src, r, dw)
<1>1. PlainValue(Origin(src), r, dv) = PlainValue(Origin(src), r, dw)
  BY DEF PlainValue
<1> QED
  BY <1>1 DEF SourceValue

(* What a condition gives depends on nothing but what its sources stand for *)
(* (evalCond).                                                              *)
LEMMA EvalSame ==
  ASSUME NEW c, NEW r, NEW dv, NEW dw,
         IsASeq(c.srcs),
         \A s \in DOMAIN c.srcs : SourceValue(c.srcs[s], r, dv) = SourceValue(c.srcs[s], r, dw)
  PROVE  EvalCond(c, r, dv) <=> EvalCond(c, r, dw)
<1> DEFINE There(v) == {i \in 1..Len(c.srcs) : Present(c.srcs[i], SourceValue(c.srcs[i], r, v))}
           Spoken(v) == {i \in 1..Len(c.srcs) : HasText(c.srcs[i], SourceValue(c.srcs[i], r, v))}
<1>1. Len(c.srcs) \in Nat /\ DOMAIN c.srcs = 1..Len(c.srcs)
  BY DEF IsASeq
<1>2. There(dv) = There(dw) /\ Spoken(dv) = Spoken(dw)
  BY <1>1
<1>3. ASSUME NEW v
      PROVE  EvalCond(c, r, v) <=>
               IF c.op = "exists"
               THEN c.exists = ((IF There(v) # {} THEN Min(There(v)) ELSE 0) # 0)
               ELSE LET first == IF Spoken(v) # {} THEN Min(Spoken(v)) ELSE 0
                    IN  first # 0 /\ SourceValue(c.srcs[first], r, v).id \in c.want
  BY DEF EvalCond, FirstSource, SelectInSeq
<1> DEFINE first == IF Spoken(dv) # {} THEN Min(Spoken(dv)) ELSE 0
<1>4. first # 0 => first \in DOMAIN c.srcs
  <2>1. Spoken(dv) \in SUBSET Nat
    BY <1>1
  <2>2. Spoken(dv) # {} => Min(Spoken(dv)) \in Spoken(dv)
    BY <2>1, MinOfNats
  <2> QED
    BY <2>2, <1>1
<1>5. first # 0 => SourceValue(c.srcs[first], r, dv) = SourceValue(c.srcs[first], r, dw)
  BY <1>4
<1> HIDE DEF There, Spoken, first
<1>6. CASE c.op = "exists"
  BY <1>6, <1>2, <1>3
<1>7. CASE c.op # "exists"
  BY <1>7, <1>2, <1>3, <1>5 DEF first
<1> QED
  BY <1>6, <1>7

-----------------------------------------------------------------------------
(* The condition cache.                                                     *)

(* The derived values that the sources of a list read come before the n-th. *)
DerivedBefore(srcs, n) ==
  \A s \in DOMAIN srcs : Origin(srcs[s]).kind = "derived" => Origin(srcs[s]).idx < n

Truthful(cache) ==
  \A c \in DOMAIN t.conds : cache[c] # "unknown" =>
    (cache[c] = "true" <=> EvalCond(t.conds[c], rec, derivedVals))

Caches == [DOMAIN t.conds -> {"unknown", "true", "false"}]

(* The invariant. While derived values are still computed, CacheIsTruth     *)
(* alone is not inductive: the value a cached condition has read must never *)
(* be one that is still to come.                                            *)
CacheInv ==
  /\ t \in Configs
  /\ k \in Nat
  /\ DOMAIN derivedVals = DOMAIN t.derived
  /\ condCache \in Caches
  /\ pc \notin {"new", "done"} => Truthful(condCache)
  /\ pc = "derive" =>
       \A c \in DOMAIN t.conds : condCache[c] # "unknown" => DerivedBefore(t.conds[c].srcs, k)

(* Asking for a condition keeps the cache true (condOK). *)
LEMMA AskKeepsTruth ==
  ASSUME condCache \in Caches, NEW when
  PROVE  /\ CacheWith(when) \in Caches
         /\ Truthful(condCache) => Truthful(CacheWith(when))
         /\ \A c \in DOMAIN t.conds : c # when => CacheWith(when)[c] = condCache[c]
         /\ when = 0 => CacheWith(when) = condCache
<1>1. CASE when = 0
  BY <1>1 DEF CacheWith
<1>2. CASE when # 0
  <2>1. CacheWith(when) = [condCache EXCEPT ![when] = IF CondOK(when) THEN "true" ELSE "false"]
    BY <1>2 DEF CacheWith
  <2>2. CacheWith(when) \in Caches /\ \A c \in DOMAIN t.conds : c # when => CacheWith(when)[c] = condCache[c]
    BY <2>1 DEF Caches
  <2>3. ASSUME Truthful(condCache), when \in DOMAIN t.conds
        PROVE  CacheWith(when)[when] = "true" <=> EvalCond(t.conds[when], rec, derivedVals)
    <3>1. CacheWith(when)[when] = IF CondOK(when) THEN "true" ELSE "false"
      BY <2>1, <2>3 DEF Caches
    <3>2. CondOK(when) <=> EvalCond(t.conds[when], rec, derivedVals)
      BY <1>2, <2>3 DEF CondOK, Truthful
    <3> QED
      BY <3>1, <3>2
  <2> QED
    BY <1>2, <2>2, <2>3 DEF Truthful
<1> QED
  BY <1>1, <1>2

(* A derived value that is computed changes nothing that a condition asked  *)
(* before has read, however the condition is reached (computeDerived).      *)
LEMMA DerivedIsNew ==
  ASSUME CacheInv, k \in DOMAIN t.derived, NEW text,
         NEW c \in DOMAIN t.conds, DerivedBefore(t.conds[c].srcs, k)
  PROVE  EvalCond(t.conds[c], rec, derivedVals)
           <=> EvalCond(t.conds[c], rec, [derivedVals EXCEPT ![k] = text])
<1> DEFINE srcs == t.conds[c].srcs
           dw == [derivedVals EXCEPT ![k] = text]
<1>1. WellFormed(t)
  BY ConfigsAssumption DEF CacheInv
<1>2. AreSourcesOf(t, srcs)
  BY <1>1 DEF WellFormed
<1>3. DOMAIN t.derived \subseteq Int
  BY <1>1 DEF WellFormed, IsASeq
<1>4. ASSUME NEW s \in DOMAIN srcs
      PROVE  SourceValue(srcs[s], rec, derivedVals) = SourceValue(srcs[s], rec, dw)
  <2> DEFINE from == Origin(srcs[s])
  <2>1. ASSUME from.kind = "derived"
        PROVE  dw[from.idx] = derivedVals[from.idx]
    <3>1. from.idx < k /\ from.idx \in DOMAIN t.derived
      BY <2>1, <1>2 DEF AreSourcesOf, DerivedBefore
    <3>2. from.idx # k
      BY <3>1, <1>3
    <3> QED
      BY <3>1, <3>2 DEF CacheInv
  <2> HIDE DEF dw, srcs
  <2> QED
    BY <2>1, SourceSame
<1> QED
  BY <1>2, <1>4, EvalSame DEF AreSourcesOf

(* A step that asks for a condition, or for none, and goes on with the same *)
(* record, its derived values being complete.                               *)
LEMMA AskStep ==
  ASSUME CacheInv, pc \notin {"new", "done", "derive"}, pc' # "derive", k' \in Nat,
         UNCHANGED <<t, rec, derivedVals>>,
         condCache' = condCache \/ \E when : condCache' = CacheWith(when)
  PROVE  CacheInv'
<1>1. condCache' \in Caches /\ Truthful(condCache')
  BY AskKeepsTruth DEF CacheInv
<1> QED
  BY <1>1 DEF CacheInv, Caches, Truthful

LEMMA ComputeDerivedKeepsCache ==
  ASSUME CacheInv, ComputeDerived
  PROVE  CacheInv'
<1> DEFINE d == t.derived[k]
<1>1. PICK text : derivedVals' = [derivedVals EXCEPT ![k] = text]
  BY DEF ComputeDerived, ComputeDerivedWith
<1>2. /\ pc = "derive" /\ k \in DOMAIN t.derived
      /\ condCache' = CacheWith(d.when)
      /\ UNCHANGED <<t, rec>>
      /\ k' \in Nat /\ ((pc' = "derive" /\ k' = k + 1) \/ pc' = "done")
  <2>1. pc = "derive" /\ k \in DOMAIN t.derived /\ condCache' = CacheWith(d.when) /\ UNCHANGED <<t, rec>>
    BY DEF ComputeDerived, ComputeDerivedWith, Ask
  <2>2. Continue
    BY DEF ComputeDerived, ComputeDerivedWith
  <2> QED
    BY <2>1, <2>2 DEF Continue, Goto, CacheInv
<1>3. condCache' \in Caches /\ Truthful(condCache')
  BY <1>2, AskKeepsTruth DEF CacheInv
<1>4. WellFormed(t)
  BY ConfigsAssumption DEF CacheInv
<1>5. ASSUME NEW c \in DOMAIN t.conds, condCache'[c] # "unknown"
      PROVE  DerivedBefore(t.conds[c].srcs, k)
  <2>1. CASE c = d.when /\ d.when # 0
    <3>1. ReadsBefore(t.conds[d.when].srcs, k)
      BY <2>1, <1>2, <1>4 DEF WellFormed
    <3> QED
      BY <3>1, <2>1 DEF ReadsBefore, DerivedIdx, DerivedBefore
  <2>2. CASE c # d.when \/ d.when = 0
    <3>1. condCache'[c] = condCache[c]
      BY <2>2, <1>2, AskKeepsTruth DEF CacheInv
    <3> QED
      BY <3>1, <1>5, <1>2 DEF CacheInv
  <2> QED
    BY <2>1, <2>2
<1>6. ASSUME NEW c \in DOMAIN t.conds, condCache'[c] # "unknown"
      PROVE  /\ condCache'[c] = "true" <=> EvalCond(t.conds[c], rec, derivedVals')
             /\ DerivedBefore(t.conds[c].srcs, k + 1)
  <2>1. DerivedBefore(t.conds[c].srcs, k)
    BY <1>5, <1>6
  <2>2. condCache'[c] = "true" <=> EvalCond(t.conds[c], rec, derivedVals)
    BY <1>3, <1>6 DEF Truthful
  <2>3. EvalCond(t.conds[c], rec, derivedVals) <=> EvalCond(t.conds[c], rec, derivedVals')
    BY <2>1, <1>1, <1>2, DerivedIsNew
  <2>4. ASSUME NEW s \in DOMAIN t.conds[c].srcs, Origin(t.conds[c].srcs[s]).kind = "derived"
        PROVE  Origin(t.conds[c].srcs[s]).idx < k + 1
    <3>1. Origin(t.conds[c].srcs[s]).idx \in DOMAIN t.derived /\ DOMAIN t.derived \subseteq Int
      BY <1>4, <2>4 DEF WellFormed, AreSourcesOf, IsASeq
    <3>2. Origin(t.conds[c].srcs[s]).idx < k
      BY <2>1, <2>4 DEF DerivedBefore
    <3> QED
      BY <3>1, <3>2 DEF CacheInv
  <2> QED
    BY <2>2, <2>3, <2>4 DEF DerivedBefore
<1>7. DOMAIN derivedVals' = DOMAIN t.derived
  BY <1>1 DEF CacheInv
<1>8. Truthful(condCache)'
  BY <1>2, <1>6 DEF Truthful
<1>9. pc' = "derive" =>
        \A c \in DOMAIN t.conds : condCache'[c] # "unknown" => DerivedBefore(t.conds[c].srcs, k')
  BY <1>2, <1>6
<1> QED
  BY <1>2, <1>3, <1>7, <1>8, <1>9 DEF CacheInv, Caches

LEMMA BuildKeepsCache ==
  ASSUME CacheInv, NEW r, Build(r)
  PROVE  CacheInv'
<1>1. /\ UNCHANGED <<t, derivedVals>> /\ k' \in Nat
      /\ condCache' = IF r.container THEN [c \in DOMAIN condCache |-> "unknown"] ELSE condCache
      /\ r.container \/ pc' = "done"
  BY DEF Build, Goto
<1>2. condCache' \in Caches
  BY <1>1 DEF CacheInv, Caches
<1>3. r.container => \A c \in DOMAIN t.conds : condCache'[c] = "unknown"
  BY <1>1 DEF CacheInv, Caches
<1> QED
  BY <1>1, <1>2, <1>3 DEF CacheInv, Caches, Truthful

LEMMA PrepareKeepsCache ==
  ASSUME CacheInv, Prepare
  PROVE  CacheInv'
<1>1. /\ UNCHANGED <<t, rec, derivedVals, condCache>>
      /\ k' \in Nat /\ pc' \in {"groups", "sections", "reserve", "outputs"}
      /\ pc \notin {"new", "done"}
  BY DEF Prepare, Goto
<1> QED
  BY <1>1 DEF CacheInv, Caches, Truthful

LEMMA SwitchesKeepCache ==
  ASSUME CacheInv, SwitchGroup \/ SwitchSection \/ Reserve
  PROVE  CacheInv'
<1>1. /\ pc \in {"groups", "sections", "reserve"} /\ pc' = pc
      /\ UNCHANGED <<t, rec, derivedVals>> /\ k' \in Nat
  BY DEF SwitchGroup, SwitchSection, Reserve, CacheInv
<1>2. condCache' = condCache \/ \E when : condCache' = CacheWith(when)
  BY DEF SwitchGroup, SwitchSection, Reserve, Ask
<1> QED
  BY <1>1, <1>2, AskStep

LEMMA OpeningKeepsCache ==
  ASSUME CacheInv, SkipOutput \/ ExtendRow \/ FreshRow
  PROVE  CacheInv'
<1>1. /\ pc = "outputs" /\ pc' \in {"outputs", "walk", "columns"}
      /\ UNCHANGED <<t, rec, derivedVals>> /\ k' \in Nat
  BY DEF SkipOutput, ExtendRow, FreshRow, StartAnew, StartRow, Goto, CacheInv
<1>2. \E when : condCache' = CacheWith(when)
  BY DEF SkipOutput, ExtendRow, FreshRow, StartAnew, StartRow, Ask
<1> QED
  BY <1>1, <1>2, AskStep

LEMMA WriteColumnKeepsCache ==
  ASSUME CacheInv, WriteColumn
  PROVE  CacheInv'
<1>1. /\ pc = "columns" /\ pc' \in {"columns", "done"}
      /\ UNCHANGED <<t, rec, derivedVals>> /\ k' \in Nat
  BY DEF WriteColumn, Continue, Goto, CacheInv
<1>2. condCache' = condCache \/ \E when : condCache' = CacheWith(when)
  BY DEF WriteColumn, Ask
<1> QED
  BY <1>1, <1>2, AskStep

(* What follows the columns asks for no condition. *)
LEMMA RestKeepsCache ==
  ASSUME CacheInv,
         \/ EndColumns \/ NextSection \/ HandleNode \/ EndSection \/ EndSections
         \/ WriteMerge \/ EndMerges \/ WriteDefault \/ WriteRest \/ CloseRow \/ EndBuild
  PROVE  CacheInv'
<1>1. /\ pc \notin {"new", "done", "derive"} /\ pc' # "derive"
      /\ k' \in Nat
      /\ UNCHANGED <<t, rec, derivedVals, condCache>>
  <2>1. CASE EndColumns \/ NextSection \/ EndSection \/ EndSections
    BY <2>1 DEF EndColumns, NextSection, EndSection, LeaveSection, EndSections, Goto, perRecord, CacheInv
  <2>2. CASE HandleNode
    BY <2>2 DEF HandleNode, Continue, Goto, perRecord, CacheInv
  <2>3. CASE WriteMerge \/ WriteDefault
    <3>1. Continue /\ pc \in {"merges", "defaults"} /\ UNCHANGED <<t, rec, perRecord>>
      BY <2>3 DEF WriteMerge, WriteDefault
    <3> QED
      BY <3>1 DEF Continue, Goto, perRecord, CacheInv
  <2>4. CASE WriteRest
    BY <2>4 DEF WriteRest, Goto, perRecord, CacheInv
  <2>5. CASE EndMerges \/ CloseRow \/ EndBuild
    BY <2>5 DEF EndMerges, CloseRow, EndBuild, Goto, perRecord, CacheInv
  <2> QED
    BY <2>1, <2>2, <2>3, <2>4, <2>5
<1> QED
  BY <1>1, AskStep

LEMMA CacheInvariant == Spec => []CacheInv
<1>1. ASSUME Init
      PROVE  CacheInv
  <2>1. t \in Configs /\ k = 1 /\ pc = "new"
    BY <1>1 DEF Init
  <2>2. DOMAIN derivedVals = DOMAIN t.derived /\ condCache \in Caches
    BY <1>1 DEF Init, Caches
  <2> QED
    BY <2>1, <2>2 DEF CacheInv
<1>2. CacheInv /\ [Next]_vars => CacheInv'
  <2> SUFFICES ASSUME CacheInv, [Next]_vars
               PROVE  CacheInv'
    OBVIOUS
  <2>1. CASE UNCHANGED vars
    BY <2>1 DEF vars, perRecord, CacheInv, Caches, Truthful
  <2>2. ASSUME NEW r \in Records(t), Build(r)
        PROVE  CacheInv'
    BY <2>2, BuildKeepsCache
  <2>3. CASE Step
    BY <2>3, ComputeDerivedKeepsCache, PrepareKeepsCache, SwitchesKeepCache, OpeningKeepsCache,
       WriteColumnKeepsCache, RestKeepsCache DEF Step
  <2> QED
    BY <2>1, <2>2, <2>3 DEF Next
<1> QED
  BY <1>1, <1>2, PTL DEF Spec

(* Whatever config is compiled and whatever record it is given: a condition *)
(* that is cached holds what its evaluation would still give, although      *)
(* derived values are computed in between (condOK, computeDerived).         *)
THEOREM CacheIsTruthHolds == Spec => []CacheIsTruth
<1>1. CacheInv => CacheIsTruth
  BY DEF CacheInv, Caches, Truthful, CacheIsTruth
<1> QED
  BY <1>1, CacheInvariant, PTL

-----------------------------------------------------------------------------
(* The names of a row.                                                      *)

NamesOf(b) == {b[p][1] : p \in DOMAIN b}

Distinct(b) == \A p, q \in DOMAIN b : b[p][1] = b[q][1] => p = q

Written == {name \in DOMAIN colWritten : colWritten[name]}

LEMMA AppendASeq ==
  ASSUME NEW s, IsASeq(s), NEW e
  PROVE  /\ IsASeq(Append(s, e))
         /\ Len(s) \in Nat /\ Len(Append(s, e)) = Len(s) + 1
         /\ DOMAIN s = 1..Len(s)
         /\ DOMAIN Append(s, e) = 1..(Len(s) + 1)
         /\ \A p \in DOMAIN s : Append(s, e)[p] = s[p]
         /\ Append(s, e)[Len(s) + 1] = e
<1> DEFINE both == Range(s) \cup {e}
<1>1. s \in Seq(Range(s)) /\ s \in Seq(both) /\ e \in both
  BY DEF IsASeq
<1>2. /\ Append(s, e) \in Seq(both)
      /\ Len(s) \in Nat /\ Len(Append(s, e)) = Len(s) + 1
      /\ DOMAIN s = 1..Len(s)
      /\ DOMAIN Append(s, e) = 1..(Len(s) + 1)
      /\ \A p \in DOMAIN s : Append(s, e)[p] = s[p]
      /\ Append(s, e)[Len(s) + 1] = e
  BY <1>1
<1> HIDE DEF both
<1>3. IsASeq(Append(s, e))
  <2> DEFINE a == Append(s, e)
  <2>1. \A p \in 1..Len(a) : a[p] \in Range(a)
    BY <1>2 DEF Range
  <2>2. a \in Seq(both) /\ DOMAIN a = 1..Len(a) /\ Len(a) \in Nat
    BY <1>2
  <2> HIDE DEF a
  <2>3. a \in Seq(Range(a))
    BY <2>1, <2>2
  <2> QED
    BY <2>3 DEF IsASeq, a
<1> QED
  BY <1>2, <1>3

(* A new name at the end of a row is one more of its names, and no name is  *)
(* there twice (writeKey).                                                  *)
LEMMA NewName ==
  ASSUME NEW b, IsASeq(b), Distinct(b), NEW name, NEW value, name \notin NamesOf(b)
  PROVE  LET a == Append(b, <<name, value>>)
         IN  IsASeq(a) /\ Distinct(a) /\ NamesOf(a) = NamesOf(b) \cup {name}
<1> DEFINE a == Append(b, <<name, value>>)
<1>1. /\ IsASeq(a) /\ Len(b) \in Nat
      /\ DOMAIN b = 1..Len(b) /\ DOMAIN a = 1..(Len(b) + 1)
      /\ \A p \in DOMAIN b : a[p] = b[p]
      /\ a[Len(b) + 1] = <<name, value>>
  BY AppendASeq
<1> HIDE DEF a
<1>2. DOMAIN a = DOMAIN b \cup {Len(b) + 1}
  BY <1>1
<1>3. NamesOf(a) = NamesOf(b) \cup {name}
  BY <1>1, <1>2 DEF NamesOf
<1>4. Distinct(a)
  <2> SUFFICES ASSUME NEW p \in DOMAIN a, NEW q \in DOMAIN a, a[p][1] = a[q][1]
               PROVE  p = q
    BY DEF Distinct
  <2>1. \A x \in DOMAIN b : b[x][1] \in NamesOf(b)
    BY DEF NamesOf
  <2>2. CASE p \in DOMAIN b /\ q \in DOMAIN b
    BY <2>2, <1>1 DEF Distinct
  <2>3. CASE p = Len(b) + 1 /\ q \in DOMAIN b
    BY <2>1, <2>3, <1>1
  <2>4. CASE p \in DOMAIN b /\ q = Len(b) + 1
    BY <2>1, <2>4, <1>1
  <2> QED
    BY <2>2, <2>3, <2>4, <1>2
<1> QED
  BY <1>1, <1>3, <1>4 DEF a

-----------------------------------------------------------------------------
(* The invariant of the names.                                              *)

Preparing == {"derive", "groups", "sections", "reserve"}
InRow == {"columns", "walk", "nodes", "merges", "defaults", "close"}

(* The loop over the columns has reserved the name of a column, or found    *)
(* the column off; the cache keeps it off.                                  *)
ColumnSettled(c) ==
  LET when == t.columns[c].when
  IN  \/ reserved[t.columns[c].name] # "free"
      \/ when # 0 /\ condCache[when] = "false"

NameTypes ==
  /\ t \in Configs
  /\ k \in Nat \ {0}
  /\ condCache \in Caches
  /\ reserved \in [ColumnNames(t) -> {"free", "reserved", "quiet"}]
  /\ colWritten \in [ColumnNames(t) -> BOOLEAN]
  /\ IsASeq(rows)

Settled ==
  /\ pc = "reserve" => \A c \in DOMAIN t.columns : c < k => ColumnSettled(c)
  /\ pc \in InRow \cup {"outputs"} => \A c \in DOMAIN t.columns : ColumnSettled(c)

(* The key set knows the names of the row but those of columns, which are   *)
(* all reserved.                                                            *)
KeysKnown ==
  /\ keys = NamesOf(body) \ Written
  /\ \A name \in Written : reserved[name] # "free"

Once == IsASeq(body) /\ Distinct(body)

Known ==
  /\ pc \in InRow => KeysKnown
  /\ pc = "columns" => keys = {}
  /\ pc = "outputs" /\ rows # <<>> => KeysKnown /\ Previous.body = body

NameInv ==
  /\ NameTypes
  /\ pc \in {"new", "done", "outputs"} \cup Preparing \cup InRow
  /\ pc \in Preparing => rows = <<>>
  /\ Settled
  /\ t.collision # "keep" => Once /\ Known

AskedAtMost == condCache' = condCache \/ \E when : condCache' = CacheWith(when)

(* What is settled stays so: neither a reservation nor a cached condition   *)
(* changes before the next record (condOK).                                 *)
LEMMA SettledStays ==
  ASSUME NameTypes, AskedAtMost, UNCHANGED <<t, reserved>>
  PROVE  /\ condCache' \in Caches
         /\ \A c \in DOMAIN t.columns : ColumnSettled(c) => ColumnSettled(c)'
<1>1. condCache' \in Caches
  BY AskKeepsTruth DEF AskedAtMost, NameTypes
<1>2. ASSUME NEW x, condCache[x] = "false"
      PROVE  condCache'[x] = "false"
  <2>1. CASE condCache' = condCache
    BY <2>1, <1>2
  <2>2. ASSUME NEW when, condCache' = CacheWith(when)
        PROVE  condCache'[x] = "false"
    <3>1. CASE when = 0
      BY <3>1, <2>2, <1>2 DEF CacheWith
    <3>2. CASE when # 0 /\ x # when
      BY <3>2, <2>2, <1>2 DEF CacheWith, NameTypes, Caches
    <3>3. CASE when # 0 /\ x = when /\ x \in DOMAIN condCache
      <4>1. ~CondOK(x)
        BY <3>3, <1>2 DEF CondOK
      <4> QED
        BY <4>1, <3>3, <2>2 DEF CacheWith
    <3>4. CASE when # 0 /\ x \notin DOMAIN condCache
      BY <3>4, <2>2, <1>2 DEF CacheWith, NameTypes, Caches
    <3> QED
      BY <3>1, <3>2, <3>3, <3>4
  <2> QED
    BY <2>1, <2>2 DEF AskedAtMost
<1> QED
  BY <1>1, <1>2 DEF ColumnSettled

(* A step that leaves the row as it is, and starts none. *)
LEMMA SameRow ==
  ASSUME NameInv, AskedAtMost, UNCHANGED <<t, reserved, colWritten, keys, body, rows>>,
         k' \in Nat \ {0},
         \/ pc' \in InRow \ {"columns"} /\ pc \in InRow
         \/ pc' \in {"columns", "outputs"} /\ pc = pc'
         \/ pc' = "done"
  PROVE  NameInv'
<1>1. NameTypes'
  BY SettledStays DEF NameInv, NameTypes, Caches
<1>2. Settled'
  BY SettledStays DEF NameInv, Settled, InRow
<1>3. t.collision # "keep" => (Once /\ Known)'
  BY DEF NameInv, Once, Known, KeysKnown, Written, Previous, InRow
<1> QED
  BY <1>1, <1>2, <1>3 DEF NameInv, Preparing, InRow

(* claim: the name is new, since one that is not is the name of a column or *)
(* in the key set.                                                          *)
LEMMA ClaimStep ==
  ASSUME NameInv, NEW name, NEW value, NEW bad, Claim(name, value, bad),
         UNCHANGED <<t, condCache, reserved, colWritten, rows>>,
         k' \in Nat \ {0},
         pc \in InRow \ {"columns"}, pc' \in (InRow \ {"columns"}) \cup {"done"}
  PROVE  NameInv'
<1>1. NameTypes'
  BY DEF NameInv, NameTypes, Caches
<1>2. Settled'
  BY DEF NameInv, Settled, ColumnSettled, InRow
<1>3. ASSUME t.collision # "keep"
      PROVE  (Once /\ KeysKnown)'
  <2>1. Once /\ KeysKnown
    BY <1>3 DEF NameInv, Known
  <2>2. CASE UNCHANGED <<body, keys>>
    BY <2>1, <2>2 DEF Once, KeysKnown, Written
  <2>3. CASE /\ Owner(name) = "free" /\ name \notin keys
             /\ keys' = keys \cup {name} /\ body' = Append(body, <<name, value>>)
    <3>1. name \notin Written
      <4> SUFFICES ASSUME name \in Written
                   PROVE  FALSE
        OBVIOUS
      <4>1. name \in DOMAIN reserved /\ reserved[name] # "free"
        BY <2>1 DEF KeysKnown, Written, NameInv, NameTypes
      <4> QED
        BY <4>1, <2>3 DEF Owner
    <3>2. name \notin NamesOf(body)
      BY <2>1, <2>3, <3>1 DEF KeysKnown
    <3>3. IsASeq(body') /\ Distinct(body') /\ NamesOf(body') = NamesOf(body) \cup {name}
      BY <2>1, <2>3, <3>2, NewName DEF Once
    <3> QED
      BY <2>1, <2>3, <3>1, <3>3 DEF Once, KeysKnown, Written
  <2> QED
    BY <1>3, <2>2, <2>3 DEF Claim, ClaimIn, Write
<1> QED
  BY <1>1, <1>2, <1>3 DEF NameInv, Known, Preparing, InRow

-----------------------------------------------------------------------------
(* Each step keeps the invariant of the names.                              *)

LEMMA BuildKeepsNames ==
  ASSUME NameInv, NEW r, Build(r)
  PROVE  NameInv'
<1>1. /\ UNCHANGED <<t, reserved, colWritten, keys, body>>
      /\ k' = 1 /\ rows' = <<>> /\ pc' \in {"derive", "done"}
      /\ condCache' = IF r.container THEN [c \in DOMAIN condCache |-> "unknown"] ELSE condCache
  BY DEF Build, Goto, perRow
<1>2. condCache' \in Caches
  BY <1>1 DEF NameInv, NameTypes, Caches
<1>3. IsASeq(rows')
  BY <1>1 DEF IsASeq
<1>4. NameTypes'
  BY <1>1, <1>2, <1>3 DEF NameInv, NameTypes, Caches
<1> QED
  BY <1>1, <1>4 DEF NameInv, Settled, Once, Known, Preparing, InRow

(* The loops that precede the rows. *)
LEMMA LoopsKeepNames ==
  ASSUME NameInv, ComputeDerived \/ SwitchGroup \/ SwitchSection
  PROVE  NameInv'
<1>1. /\ UNCHANGED <<t, reserved, colWritten, keys, body, rows>>
      /\ pc \in Preparing /\ pc' \in (Preparing \ {"reserve"}) \cup {"done"}
      /\ k' \in Nat \ {0}
  <2>1. CASE ComputeDerived
    <3>1. /\ pc = "derive" /\ Continue
          /\ UNCHANGED <<t, reserved, perRow, rows>>
      BY <2>1 DEF ComputeDerived, ComputeDerivedWith
    <3> QED
      BY <3>1 DEF Continue, Goto, perRow, Preparing, NameInv, NameTypes
  <2>2. CASE SwitchGroup \/ SwitchSection
    BY <2>2 DEF SwitchGroup, SwitchSection, perRow, Preparing, NameInv, NameTypes
  <2> QED
    BY <2>1, <2>2
<1>2. AskedAtMost
  <2>1. CASE ComputeDerived
    BY <2>1 DEF ComputeDerived, ComputeDerivedWith, Ask, AskedAtMost
  <2>2. CASE SwitchGroup \/ SwitchSection
    BY <2>2 DEF SwitchGroup, SwitchSection, Ask, AskedAtMost
  <2> QED
    BY <2>1, <2>2
<1>3. NameTypes'
  BY <1>1, <1>2, SettledStays DEF NameInv, NameTypes, Caches
<1> QED
  BY <1>1, <1>3 DEF NameInv, Settled, Once, Known, Preparing, InRow

LEMMA PrepareKeepsNames ==
  ASSUME NameInv, Prepare
  PROVE  NameInv'
<1>1. /\ UNCHANGED <<t, condCache, colWritten, keys, body, rows>>
      /\ k' = 1 /\ pc \in Preparing
      /\ \/ pc' \in {"groups", "sections"} /\ UNCHANGED reserved
         \/ pc' = "reserve" /\ reserved' = AllFree
         \/ pc = "reserve" /\ k \notin DOMAIN t.columns /\ pc' = "outputs" /\ UNCHANGED reserved
  BY DEF Prepare, Goto, perRow, Preparing
<1>2. NameTypes'
  <2>1. AllFree \in [ColumnNames(t) -> {"free", "reserved", "quiet"}]
    BY DEF AllFree
  <2> QED
    BY <1>1, <2>1 DEF NameInv, NameTypes, Caches
<1>3. IsASeq(t.columns)
  BY ConfigsAssumption DEF NameInv, NameTypes, WellFormed
<1>4. DOMAIN t.columns = 1..Len(t.columns) /\ Len(t.columns) \in Nat
  BY <1>3 DEF IsASeq
<1>5. Settled'
  <2>1. CASE pc' = "reserve"
    BY <2>1, <1>1, <1>4 DEF Settled, InRow
  <2>2. CASE pc' \in {"groups", "sections"}
    BY <2>2 DEF Settled, InRow
  <2>3. CASE pc = "reserve" /\ k \notin DOMAIN t.columns /\ pc' = "outputs" /\ UNCHANGED reserved
    <3>1. \A c \in DOMAIN t.columns : c < k
      BY <2>3, <1>4 DEF NameInv, NameTypes
    <3>2. \A c \in DOMAIN t.columns : ColumnSettled(c)
      BY <3>1, <2>3 DEF NameInv, Settled
    <3> QED
      BY <3>2, <2>3, <1>1 DEF Settled, ColumnSettled
  <2> QED
    BY <1>1, <2>1, <2>2, <2>3
<1>6. rows = <<>>
  BY <1>1 DEF NameInv
<1> QED
  BY <1>1, <1>2, <1>5, <1>6 DEF NameInv, Once, Known, Preparing, InRow

(* Reserve settles the column it looks at: its name is reserved, or its     *)
(* condition is cached as false.                                            *)
LEMMA ReserveKeepsNames ==
  ASSUME NameInv, Reserve
  PROVE  NameInv'
<1> DEFINE c == t.columns[k]
<1>1. /\ UNCHANGED <<t, colWritten, keys, body, rows>>
      /\ pc = "reserve" /\ pc' = "reserve" /\ k \in DOMAIN t.columns /\ k' = k + 1
      /\ \/ reserved[c.name] # "free" /\ UNCHANGED <<condCache, reserved>>
         \/ reserved[c.name] = "free" /\ condCache' = CacheWith(c.when) /\ ~CondOK(c.when)
              /\ reserved' = reserved
         \/ reserved[c.name] = "free" /\ condCache' = CacheWith(c.when)
              /\ \E how \in {"reserved", "quiet"} : reserved' = [reserved EXCEPT ![c.name] = how]
  BY DEF Reserve, Ask, perRow
<1> HIDE DEF c
<1>2. c.name \in DOMAIN reserved
  BY <1>1 DEF c, NameInv, NameTypes, ColumnNames
<1>3. reserved' \in [ColumnNames(t) -> {"free", "reserved", "quiet"}]
  BY <1>1 DEF NameInv, NameTypes
<1>4. AskedAtMost
  BY <1>1 DEF AskedAtMost
<1>5. condCache' \in Caches
  BY <1>4, AskKeepsTruth DEF AskedAtMost, NameInv, NameTypes
<1>6. NameTypes'
  BY <1>1, <1>3, <1>5 DEF NameInv, NameTypes, Caches
<1>7. ASSUME NEW x \in DOMAIN t.columns, ColumnSettled(x)
      PROVE  ColumnSettled(x)'
  <2>1. CASE UNCHANGED reserved
    BY <2>1, <1>1, <1>4, <1>7, SettledStays DEF NameInv
  <2>2. CASE \E how \in {"reserved", "quiet"} : reserved' = [reserved EXCEPT ![c.name] = how]
    <3>1. reserved[t.columns[x].name] # "free" => reserved'[t.columns[x].name] # "free"
      BY <2>2, <1>2 DEF NameInv, NameTypes, ColumnNames
    <3>2. ASSUME t.columns[x].when # 0, condCache[t.columns[x].when] = "false"
          PROVE  condCache'[t.columns[x].when] = "false"
      <4> DEFINE w == t.columns[x].when
      <4>1. w \in DOMAIN t.conds
        BY <3>2, ConfigsAssumption DEF NameInv, NameTypes, WellFormed
      <4>2. CASE condCache' = condCache
        BY <4>2, <3>2
      <4>3. CASE condCache' = CacheWith(c.when) /\ c.when # w
        BY <4>1, <4>3, <3>2, AskKeepsTruth DEF NameInv, NameTypes
      <4>4. CASE condCache' = CacheWith(w)
        <5>1. ~CondOK(w)
          BY <3>2 DEF CondOK
        <5> QED
          BY <5>1, <4>1, <4>4, <3>2 DEF CacheWith, NameInv, NameTypes, Caches
      <4> QED
        BY <1>1, <4>2, <4>3, <4>4
    <3> QED
      BY <1>1, <1>7, <3>1, <3>2 DEF ColumnSettled
  <2> QED
    BY <1>1, <2>1, <2>2
<1>8. ASSUME NEW x \in DOMAIN t.columns, x = k
      PROVE  ColumnSettled(x)'
  <2>1. CASE reserved'[c.name] # "free"
    BY <2>1, <1>1, <1>8 DEF c, ColumnSettled
  <2>2. CASE condCache' = CacheWith(c.when) /\ ~CondOK(c.when)
    <3>1. c.when # 0 /\ c.when \in DOMAIN t.conds
      BY <2>2, <1>1, ConfigsAssumption DEF c, CondOK, NameInv, NameTypes, WellFormed
    <3>2. condCache'[c.when] = "false"
      BY <3>1, <2>2 DEF CacheWith, NameInv, NameTypes, Caches
    <3> QED
      BY <3>1, <3>2, <1>1, <1>8 DEF c, ColumnSettled
  <2> QED
    BY <1>1, <1>2, <2>1, <2>2 DEF NameInv, NameTypes
<1>9. \A x \in DOMAIN t.columns : x < k' => x < k \/ x = k
  <2>1. IsASeq(t.columns)
    BY ConfigsAssumption DEF NameInv, NameTypes, WellFormed
  <2>2. DOMAIN t.columns \subseteq Int
    BY <2>1 DEF IsASeq
  <2> QED
    BY <2>2, <1>1 DEF NameInv, NameTypes
<1>10. Settled'
  BY <1>1, <1>7, <1>8, <1>9 DEF NameInv, Settled, InRow
<1> QED
  BY <1>1, <1>6, <1>10 DEF NameInv, Once, Known, Preparing, InRow

LEMMA OpeningKeepsNames ==
  ASSUME NameInv, SkipOutput \/ ExtendRow \/ FreshRow
  PROVE  NameInv'
<1>1. AskedAtMost /\ pc = "outputs" /\ UNCHANGED <<t, reserved, rows>>
  <2>1. CASE SkipOutput
    BY <2>1 DEF SkipOutput, Ask, AskedAtMost
  <2>2. CASE ExtendRow \/ FreshRow
    BY <2>2 DEF ExtendRow, FreshRow, StartAnew, StartRow, Ask, AskedAtMost
  <2> QED
    BY <2>1, <2>2
<1>2. CASE SkipOutput
  <2>1. pc' = "outputs" /\ UNCHANGED <<k, colWritten, keys, body>>
    BY <1>2 DEF SkipOutput, perRow
  <2> QED
    BY <2>1, <1>1, SameRow DEF NameInv, NameTypes
<1>3. CASE ExtendRow
  <2>1. pc' = "walk" /\ k' = 1 /\ rows # <<>> /\ body' = Previous.body /\ UNCHANGED <<colWritten, keys>>
    BY <1>3 DEF ExtendRow, CanExtend, Goto
  <2>2. NameTypes' /\ Settled'
    BY <2>1, <1>1, SettledStays DEF NameInv, NameTypes, Caches, Settled, InRow
  <2>3. ASSUME t.collision # "keep"
        PROVE  (Once /\ KeysKnown)'
    BY <2>1, <1>1, <2>3 DEF NameInv, Once, Known, KeysKnown, Written
  <2> QED
    BY <2>1, <2>2, <2>3, <1>1 DEF NameInv, Known, Preparing, InRow
<1>4. CASE FreshRow
  <2>1. /\ pc' = "columns" /\ k' = 1 /\ body' = <<>>
        /\ t.collision # "keep" => keys' = {}
        /\ colWritten' = [name \in DOMAIN colWritten |-> FALSE]
    BY <1>4 DEF FreshRow, StartAnew, Goto
  <2>2. colWritten' \in [ColumnNames(t) -> BOOLEAN]
    BY <2>1 DEF NameInv, NameTypes
  <2>3. NameTypes' /\ Settled'
    BY <2>1, <2>2, <1>1, SettledStays DEF NameInv, NameTypes, Caches, Settled, InRow
  <2>4. Written' = {} /\ NamesOf(body') = {}
    BY <2>1 DEF Written, NamesOf
  <2>5. Once'
    BY <2>1 DEF Once, IsASeq, Distinct
  <2> QED
    BY <2>1, <2>3, <2>4, <2>5, <1>1 DEF NameInv, Known, KeysKnown, Preparing, InRow
<1> QED
  BY <1>2, <1>3, <1>4

(* A column that is written has its name reserved, and no other name is in  *)
(* the row yet (writeColumns).                                              *)
LEMMA WriteColumnKeepsNames ==
  ASSUME NameInv, WriteColumn
  PROVE  NameInv'
<1> DEFINE c == t.columns[k]
<1>1. /\ pc = "columns" /\ k \in DOMAIN t.columns /\ Continue
      /\ UNCHANGED <<t, reserved, keys, rows>>
  BY DEF WriteColumn
<1>2. pc' \in {"columns", "done"} /\ k' \in Nat \ {0}
  BY <1>1 DEF Continue, Goto, NameInv, NameTypes
<1>3. AskedAtMost
  BY DEF WriteColumn, Ask, AskedAtMost
<1>4. CASE UNCHANGED <<body, colWritten>>
  BY <1>1, <1>2, <1>3, <1>4, SameRow
<1>5. ASSUME NEW value,
             ~colWritten[c.name], CondOK(c.when),
             body' = Append(body, <<c.name, value>>),
             colWritten' = [colWritten EXCEPT ![c.name] = TRUE]
      PROVE  NameInv'
  <2>1. c.name \in ColumnNames(t)
    BY <1>1 DEF ColumnNames
  <2>2. reserved[c.name] # "free"
    <3>1. ColumnSettled(k)
      BY <1>1 DEF NameInv, Settled, InRow
    <3>2. ~ (c.when # 0 /\ condCache[c.when] = "false")
      BY <1>5 DEF CondOK
    <3> QED
      BY <3>1, <3>2 DEF ColumnSettled
  <2> HIDE DEF c
  <2>3. NameTypes'
    <3>1. colWritten' \in [ColumnNames(t) -> BOOLEAN]
      BY <1>5 DEF NameInv, NameTypes
    <3> QED
      BY <3>1, <1>1, <1>2, <1>3, SettledStays DEF NameInv, NameTypes, Caches
  <2>4. Settled'
    BY <1>1, <1>2, <1>3, SettledStays DEF NameInv, Settled, InRow
  <2>5. ASSUME t.collision # "keep"
        PROVE  (Once /\ KeysKnown)' /\ keys' = {}
    <3>1. Once /\ KeysKnown /\ keys = {}
      BY <1>1, <2>5 DEF NameInv, Known, InRow
    <3>2. Written' = Written \cup {c.name} /\ c.name \notin Written
      BY <1>5, <2>1 DEF Written, NameInv, NameTypes
    <3>3. c.name \notin NamesOf(body)
      BY <3>1, <3>2 DEF KeysKnown
    <3>4. IsASeq(body') /\ Distinct(body') /\ NamesOf(body') = NamesOf(body) \cup {c.name}
      BY <3>1, <3>3, <1>5, NewName DEF Once
    <3>5. keys' = NamesOf(body') \ Written'
      BY <3>1, <3>2, <3>4, <1>1 DEF KeysKnown
    <3>6. \A name \in Written' : reserved'[name] # "free"
      BY <3>1, <3>2, <2>2, <1>1 DEF KeysKnown
    <3> QED
      BY <3>1, <3>4, <3>5, <3>6, <1>1 DEF Once, KeysKnown
  <2> QED
    BY <1>1, <1>2, <2>3, <2>4, <2>5 DEF NameInv, Known, Preparing
<1> QED
  BY <1>4, <1>5 DEF WriteColumn, Write

(* The walk of the sections and what follows: each entry is claimed, or the *)
(* row stays as it is.                                                      *)
LEMMA WalkKeepsNames ==
  ASSUME NameInv, EndColumns \/ NextSection \/ EndSection \/ EndSections \/ EndMerges \/ EndBuild
  PROVE  NameInv'
<1>1. /\ UNCHANGED <<t, condCache, reserved, colWritten, keys, body, rows>>
      /\ k' \in Nat \ {0}
      /\ \/ pc \in InRow /\ pc' \in InRow \ {"columns"}
         \/ pc' = "done"
  <2>1. CASE EndColumns
    BY <2>1 DEF EndColumns, Goto, perRecord, perRow, InRow
  <2>2. CASE NextSection
    BY <2>2 DEF NextSection, Goto, perRecord, InRow, NameInv, NameTypes
  <2>3. CASE EndSection
    BY <2>3 DEF EndSection, LeaveSection, Goto, perRecord, InRow
  <2>4. CASE EndSections \/ EndMerges
    BY <2>4 DEF EndSections, EndMerges, Goto, perRecord, perRow, InRow
  <2>5. CASE EndBuild
    BY <2>5 DEF EndBuild, Goto, perRecord, perRow
  <2> QED
    BY <2>1, <2>2, <2>3, <2>4, <2>5
<1> QED
  BY <1>1, SameRow DEF AskedAtMost

LEMMA EntriesKeepNames ==
  ASSUME NameInv, HandleNode \/ WriteMerge \/ WriteDefault \/ WriteRest
  PROVE  NameInv'
<1>1. /\ UNCHANGED <<t, condCache, reserved, colWritten, rows>>
      /\ pc \in InRow \ {"columns"} /\ pc' \in (InRow \ {"columns"}) \cup {"done"}
      /\ k' \in Nat \ {0}
  <2>1. CASE HandleNode
    <3>1. Continue /\ pc = "nodes" /\ UNCHANGED <<t, perRecord, colWritten, rows>>
      BY <2>1 DEF HandleNode
    <3> QED
      BY <3>1 DEF Continue, Goto, perRecord, InRow, NameInv, NameTypes
  <2>2. CASE WriteMerge \/ WriteDefault
    <3>1. Continue /\ pc \in {"merges", "defaults"} /\ UNCHANGED <<t, perRecord, colWritten, rows>>
      BY <2>2 DEF WriteMerge, WriteDefault
    <3> QED
      BY <3>1 DEF Continue, Goto, perRecord, InRow, NameInv, NameTypes
  <2>3. CASE WriteRest
    <3>1. /\ pc = "defaults" /\ k' = 1 /\ pc' \in {"close", "done"}
          /\ UNCHANGED <<t, perRecord, colWritten, rows>>
      BY <2>3 DEF WriteRest, Goto
    <3> QED
      BY <3>1 DEF perRecord, InRow
  <2> QED
    BY <2>1, <2>2, <2>3
<1>2. \/ UNCHANGED <<body, keys>>
      \/ \E name, value, bad : Claim(name, value, bad)
  <2>1. CASE HandleNode
    BY <2>1 DEF HandleNode, Collect
  <2>2. CASE WriteMerge
    BY <2>2 DEF WriteMerge
  <2>3. CASE WriteDefault \/ WriteRest
    BY <2>3 DEF WriteDefault, WriteRest
  <2> QED
    BY <2>1, <2>2, <2>3
<1>3. CASE UNCHANGED <<body, keys>>
  BY <1>1, <1>3, SameRow DEF AskedAtMost
<1> QED
  BY <1>1, <1>2, <1>3, ClaimStep

LEMMA CloseRowKeepsNames ==
  ASSUME NameInv, CloseRow
  PROVE  NameInv'
<1> DEFINE row == [output |-> out, body |-> body, dropped |-> dropped]
<1>1. /\ pc = "close" /\ pc' = "outputs" /\ k' = 1
      /\ UNCHANGED <<t, condCache, reserved, colWritten, keys, body>>
      /\ rows' = Append(rows, row)
  BY DEF CloseRow, Goto, perRecord, perRow
<1>2. row.body = body
  OBVIOUS
<1> HIDE DEF row
<1>3. IsASeq(rows') /\ Previous' = row
  BY <1>1, AppendASeq DEF Previous, NameInv, NameTypes
<1>4. NameTypes' /\ Settled'
  BY <1>1, <1>3 DEF NameInv, NameTypes, Caches, Settled, ColumnSettled, InRow
<1>5. t.collision # "keep" => (Once /\ KeysKnown)'
  BY <1>1 DEF NameInv, Known, InRow, Once, KeysKnown, Written
<1> QED
  BY <1>1, <1>2, <1>3, <1>4, <1>5 DEF NameInv, Known, Preparing, InRow

LEMMA NameInvariant == Spec => []NameInv
<1>1. ASSUME Init
      PROVE  NameInv
  <2>1. /\ t \in Configs /\ pc = "new" /\ k = 1 /\ rows = <<>> /\ body = <<>>
        /\ condCache \in Caches
        /\ reserved \in [ColumnNames(t) -> {"free", "reserved", "quiet"}]
        /\ colWritten \in [ColumnNames(t) -> BOOLEAN]
    <3>1. t \in Configs /\ pc = "new" /\ k = 1 /\ rows = <<>> /\ body = <<>>
      BY <1>1 DEF Init
    <3>2. condCache \in Caches /\ reserved = AllFree
          /\ colWritten = [name \in ColumnNames(t) |-> FALSE]
      BY <1>1 DEF Init, Caches
    <3> QED
      BY <3>1, <3>2 DEF AllFree
  <2>2. IsASeq(<<>>) /\ Distinct(<<>>)
    BY DEF IsASeq, Distinct
  <2> QED
    BY <2>1, <2>2 DEF NameInv, NameTypes, Settled, Once, Known, Preparing, InRow
<1>2. NameInv /\ [Next]_vars => NameInv'
  <2> SUFFICES ASSUME NameInv, [Next]_vars
               PROVE  NameInv'
    OBVIOUS
  <2>1. CASE UNCHANGED vars
    <3>1. UNCHANGED <<t, pc, k, condCache, reserved, colWritten, keys, body, rows>>
      BY <2>1 DEF vars, perRecord, perRow
    <3> QED
      BY <3>1 DEF NameInv, NameTypes, Caches, Settled, ColumnSettled, Once, Known, KeysKnown, Written,
         Previous
  <2>2. ASSUME NEW r \in Records(t), Build(r)
        PROVE  NameInv'
    BY <2>2, BuildKeepsNames
  <2>3. CASE Step
    BY <2>3, LoopsKeepNames, PrepareKeepsNames, ReserveKeepsNames, OpeningKeepsNames,
       WriteColumnKeepsNames, WalkKeepsNames, EntriesKeepNames, CloseRowKeepsNames DEF Step
  <2> QED
    BY <2>1, <2>2, <2>3 DEF Next
<1> QED
  BY <1>1, <1>2, PTL DEF Spec

(* Whatever the config and the record: unless on_collision is keep, no name *)
(* is in a row twice, not even while it grows and not in a row that started *)
(* as a copy of another (claim, writeColumns, openRow).                     *)
THEOREM NamesOnceHolds == Spec => []NamesOnce
<1>1. NameInv => NamesOnce
  BY DEF NameInv, Once, Distinct, NamesOnce
<1> QED
  BY <1>1, NameInvariant, PTL

(* Whatever the config and the record: the key set holds the names of the   *)
(* row that are no columns, also when the row starts as a copy and the key  *)
(* set is that of the row before (openRow, claim).                          *)
THEOREM KeysOfBodyHolds == Spec => []KeysOfBody
<1>1. NameInv => KeysOfBody
  BY DEF NameInv, Known, KeysKnown, NamesOf, Written, Preparing, InRow, KeysOfBody
<1> QED
  BY <1>1, NameInvariant, PTL
-----------------------------------------------------------------------------
(* Types.                                                                   *)

Stages == {"new", "done", "derive", "groups", "sections", "reserve", "outputs", "columns",
           "walk", "nodes", "merges", "defaults", "close"}
Errs == {"none", "ErrRootNotContainer", "ErrRequired", "ErrCollision",
         "ErrInvalidNumber", "ErrNoOutput"}

(* Where the builder is, and what it may look up from there: a record with   *)
(* the sources of the config, a section that there is.                       *)
PlaceTypes ==
  /\ pc \in Stages
  /\ out \in Nat /\ sec \in Nat
  /\ pc \notin {"new", "done"} => rec \in Records(t) /\ rec.container
  /\ pc = "nodes" => sec \in DOMAIN t.sections

Texts == {""} \cup STRING

RecordTypes ==
  /\ derivedVals \in [DOMAIN t.derived -> Texts]
  /\ groupOn \in [DOMAIN t.groups -> BOOLEAN]
  /\ secOn \in [DOMAIN t.sections -> BOOLEAN]

SlotTypes == DOMAIN slots = Slots /\ \A s \in Slots : IsValue(slots[s])

EntryTypes ==
  /\ dropped \in Nat
  /\ seen \in [DOMAIN t.defaults -> BOOLEAN]
  /\ quiet \in BOOLEAN
  /\ err \in Errs

(* The invariant, to go with NameInv, which has the other types. TypeOK is   *)
(* not inductive: it does not say that the record in hand is one of the      *)
(* config's, which every text and value is read from.                        *)
TypeInv == PlaceTypes /\ RecordTypes /\ SlotTypes /\ EntryTypes

(* A condition holds or does not (condOK, evalCond). *)
LEMMA CondIsBoolean ==
  ASSUME NEW when
  PROVE  CondOK(when) \in BOOLEAN
<1>1. EvalCond(t.conds[when], rec, derivedVals) \in BOOLEAN
  <2> DEFINE c == t.conds[when]
  <2>1. CASE c.op = "exists"
    BY <2>1 DEF EvalCond
  <2>2. CASE c.op # "exists"
    BY <2>2 DEF EvalCond
  <2> QED
    BY <2>1, <2>2
<1> QED
  BY <1>1 DEF CondOK

(* A slot that captured nothing holds a value too. *)
LEMMA MissingIsValue == IsValue(Missing)
<1>1. Missing.text = "none"
  BY DEF Missing
<1>2. DOMAIN Missing = {"id", "type", "text", "bad"}
  BY DEF Missing
<1> QED
  BY <1>1, <1>2 DEF IsValue, TextKinds

LEMMA LookupIsValue ==
  ASSUME NEW c, NEW r, IsRecordOf(c, r), NEW p, HasPath(r, p)
  PROVE  IsValue(Lookup(p, r))
<1>1. IsValue(Missing) /\ IsValue(ValueAt(r.src, p.name))
  BY MissingIsValue DEF IsRecordOf, HasPath, ValueAt
<1>2. p.inherit => IsValue(ValueAt(r.env, p.name))
  BY MissingIsValue DEF IsRecordOf, HasPath, ValueAt
<1> QED
  BY <1>1, <1>2 DEF Lookup

LEMMA TextIsValue ==
  ASSUME NEW text \in STRING
  PROVE  IsValue(TextValue(text))
BY DEF TextValue, IsValue, ValueTypes, TextKinds

(* What a path or a variable stands for is a value (lookup, text). *)
LEMMA PlainIsValue ==
  ASSUME NEW c, NEW r, IsRecordOf(c, r), NEW from, Answers(r, from), NEW dv,
         from.kind = "derived" => dv[from.idx] \in Texts
  PROVE  IsValue(PlainValue(from, r, dv))
<1> DEFINE v == PlainValue(from, r, dv)
<1>1. IsValue(Missing)
  BY MissingIsValue
<1>2. CASE from.kind = "derived"
  <2>1. dv[from.idx] # "" => IsValue(TextValue(dv[from.idx]))
    BY <1>2, TextIsValue DEF Texts
  <2>2. v = IF dv[from.idx] = "" THEN Missing ELSE TextValue(dv[from.idx])
    BY <1>2 DEF PlainValue
  <2> HIDE DEF v
  <2> QED
    BY <1>1, <2>1, <2>2 DEF v
<1>3. CASE from.kind = "path"
  <2>1. v = Lookup(from, r)
    BY <1>3 DEF PlainValue
  <2> QED
    BY <1>3, <2>1, LookupIsValue DEF Answers
<1>4. CASE from.kind = "var"
  <2>1. v \in {Missing, r.vars[from.name]}
    BY <1>4 DEF PlainValue
  <2> QED
    BY <1>1, <1>4, <2>1 DEF Answers, IsRecordOf
<1>5. CASE from.kind \notin {"derived", "path", "var"}
  <2>1. v \in {Missing, TextValue(r.skewed), TextValue(r.now)}
    BY <1>5 DEF PlainValue
  <2>2. IsValue(TextValue(r.skewed)) /\ IsValue(TextValue(r.now))
    BY TextIsValue DEF IsRecordOf
  <2> QED
    BY <1>1, <2>1, <2>2
<1> QED
  BY <1>2, <1>3, <1>4, <1>5

(* What a source of a derived value stands for is a value (text, mapValue). *)
LEMMA SourceIsValue ==
  ASSUME NEW c, NEW r, HasTables(c), IsRecordOf(c, r),
         NEW dv \in [DOMAIN c.derived -> Texts],
         NEW d \in DOMAIN c.derived, NEW s \in DOMAIN c.derived[d].srcs
  PROVE  IsValue(SourceValue(c.derived[d].srcs[s], r, dv))
<1> DEFINE src == c.derived[d].srcs[s]
           v == PlainValue(Origin(src), r, dv)
<1>1. IsValue(Missing)
  BY MissingIsValue
<1>2. Answers(r, Origin(src)) /\ HasValues(src)
  BY DEF IsRecordOf, HasTables
<1>3. Origin(src).kind = "derived" => dv[Origin(src).idx] \in Texts
  BY DEF HasTables, AreSourcesOf
<1>4. IsValue(v)
  BY <1>2, <1>3, PlainIsValue
<1>5. SourceValue(src, r, dv) = IF src.kind = "map" THEN MapValue(src, v)
                               ELSE IF src.kind = "lower" THEN Lowered(src, v) ELSE v
  BY DEF SourceValue
<1> HIDE DEF v, src
<1>6. src.kind = "map" => IsValue(MapValue(src, v))
  BY <1>1, <1>2 DEF MapValue, HasValues
<1>7. src.kind = "lower" => IsValue(Lowered(src, v))
  BY <1>1, <1>2, <1>4 DEF Lowered, HasValues
<1>8. IsValue(SourceValue(src, r, dv))
  BY <1>4, <1>5, <1>6, <1>7
<1> QED
  BY <1>8 DEF src

(* A derived value is a text, whatever the record has (appendDerived). *)
LEMMA DerivedIsText ==
  ASSUME NEW c, NEW r, HasTables(c), IsRecordOf(c, r),
         NEW dv \in [DOMAIN c.derived -> Texts], NEW d \in DOMAIN c.derived
  PROVE  DerivedText(c.derived[d], r, dv) \in Texts
<1> DEFINE srcs == c.derived[d].srcs
           norm == c.derived[d].norm
           Speaks(src) == HasText(src, SourceValue(src, r, dv))
           Spoken == {i \in 1..Len(srcs) : Speaks(srcs[i])}
           first == IF Spoken # {} THEN Min(Spoken) ELSE 0
           text == SourceValue(srcs[first], r, dv).id
<1>1. DerivedText(c.derived[d], r, dv) =
        IF first = 0 THEN "" ELSE IF text \in DOMAIN norm THEN norm[text] ELSE text
  BY DEF DerivedText, FirstSource, SelectInSeq
<1>2. Len(srcs) \in Nat /\ DOMAIN srcs = 1..Len(srcs)
  BY DEF HasTables, AreSourcesOf, IsASeq
<1>3. Spoken # {} => Min(Spoken) \in Spoken
  <2>1. Spoken \in SUBSET Nat
    BY <1>2
  <2> QED
    BY <2>1, MinOfNats
<1>4. ASSUME first # 0
      PROVE  text \in STRING
  <2> DEFINE s == first
  <2>1. s \in DOMAIN srcs /\ Speaks(srcs[s])
    BY <1>2, <1>3, <1>4
  <2> HIDE DEF first
  <2>2. IsValue(SourceValue(srcs[s], r, dv))
    BY <2>1, SourceIsValue
  <2> QED
    BY <2>1, <2>2 DEF IsValue, HasText
<1>5. text \in DOMAIN norm => norm[text] \in STRING
  BY DEF HasTables
<1> HIDE DEF first, text, norm
<1> QED
  BY <1>1, <1>4, <1>5 DEF Texts

(* A row that extends another goes on with a section or with none (openRow). *)
LEMMA FirstOwnIsNat ==
  ASSUME HasTables(t), NEW a, NEW b \in DOMAIN t.outputs
  PROVE  FirstOwn(a, b) \in Nat
<1> DEFINE own == ActiveIn(b) \ ActiveIn(a)
<1>1. DOMAIN t.sections = 1..Len(t.sections) /\ Len(t.sections) \in Nat
  BY DEF HasTables, IsASeq
<1>2. own \subseteq DOMAIN t.sections
  BY DEF HasTables, ActiveIn
<1>3. own \in SUBSET Nat
  BY <1>1, <1>2
<1>4. ASSUME own # {}
      PROVE  (CHOOSE s \in own : \A x \in own : s <= x) \in own
  <2>1. \E s \in own : \A x \in own : s <= x
    <3> HIDE DEF own
    <3> QED
      BY <1>3, <1>4, LeastNumber
  <2> QED
    BY <2>1
<1> HIDE DEF own
<1>5. CASE own = {}
  BY <1>1, <1>5 DEF FirstOwn, own
<1>6. CASE own # {}
  BY <1>3, <1>4, <1>6 DEF FirstOwn, own
<1> QED
  BY <1>5, <1>6

(* Writing an entry, or leaving it out, keeps what is known of entries      *)
(* (claim, writeKey).                                                       *)
LEMMA WriteKeepsTypes ==
  ASSUME seen \in [DOMAIN t.defaults -> BOOLEAN], err \in Errs, UNCHANGED t,
         NEW name, NEW value, NEW bad, Write(name, value, bad)
  PROVE  seen' \in [DOMAIN t.defaults -> BOOLEAN] /\ err' \in Errs
<1>1. seen' = [d \in DOMAIN t.defaults |-> seen[d] \/ t.defaults[d].key = name]
  BY DEF Write
<1>2. err' \in Errs
  BY DEF Write, Errs
<1> QED
  BY <1>1, <1>2

LEMMA ClaimKeepsTypes ==
  ASSUME dropped \in Nat, seen \in [DOMAIN t.defaults -> BOOLEAN], err \in Errs, UNCHANGED t,
         NEW name, NEW value, NEW bad, Claim(name, value, bad)
  PROVE  dropped' \in Nat /\ seen' \in [DOMAIN t.defaults -> BOOLEAN] /\ err' \in Errs
<1>1. CASE Owner(name) # "free"
  <2>1. /\ UNCHANGED <<seen, err>>
        /\ dropped' = IF Owner(name) = "reserved" /\ ~quiet THEN dropped + 1 ELSE dropped
    BY <1>1 DEF Claim, ClaimIn
  <2> QED
    BY <2>1
<1>2. CASE Owner(name) = "free" /\ t.collision # "keep" /\ name \in keys
  <2>1. /\ dropped' = IF quiet \/ t.collision = "error" THEN dropped ELSE dropped + 1
        /\ err' = IF ~quiet /\ t.collision = "error" THEN "ErrCollision" ELSE err
        /\ UNCHANGED seen
    BY <1>2 DEF Claim, ClaimIn
  <2> QED
    BY <2>1 DEF Errs
<1>3. CASE Owner(name) = "free" /\ ~ (t.collision # "keep" /\ name \in keys)
  <2>1. UNCHANGED dropped /\ Write(name, value, bad)
    BY <1>3 DEF Claim, ClaimIn
  <2> QED
    BY <2>1, WriteKeepsTypes
<1> QED
  BY <1>1, <1>2, <1>3

(* A step within a record goes from one place to another and leaves the     *)
(* record as it is.                                                         *)
LEMMA MoveKeepsPlace ==
  ASSUME PlaceTypes, pc \notin {"new", "done"}, UNCHANGED <<t, rec>>,
         pc' \in Stages, out' \in Nat, sec' \in Nat,
         pc' = "nodes" => sec' \in DOMAIN t.sections
  PROVE  PlaceTypes'
BY DEF PlaceTypes

LEMMA BuildKeepsTypes ==
  ASSUME TypeInv, NEW r \in Records(t), Build(r)
  PROVE  TypeInv'
<1>1. /\ rec' = r
      /\ \/ r.container /\ pc' = "derive" /\ err' = "none"
         \/ pc' = "done" /\ err' = "ErrRootNotContainer"
      /\ UNCHANGED <<t, derivedVals, groupOn, secOn, out, sec, slots, seen, quiet, dropped>>
  BY DEF Build, Goto, perRow
<1>2. PlaceTypes'
  BY <1>1 DEF TypeInv, PlaceTypes, Stages
<1>3. RecordTypes' /\ SlotTypes' /\ EntryTypes'
  BY <1>1 DEF TypeInv, RecordTypes, SlotTypes, Slots, EntryTypes, Errs
<1> QED
  BY <1>2, <1>3 DEF TypeInv

LEMMA ComputeDerivedKeepsTypes ==
  ASSUME NameInv, TypeInv, ComputeDerived
  PROVE  TypeInv'
<1> DEFINE d == t.derived[k]
           text == IF CondOK(d.when) THEN DerivedText(d, rec, derivedVals) ELSE ""
<1>1. /\ pc = "derive" /\ k \in DOMAIN t.derived /\ Continue
      /\ derivedVals' = [derivedVals EXCEPT ![k] = text]
      /\ err' \in {"ErrRequired", err}
      /\ UNCHANGED <<t, rec, groupOn, secOn, out, sec, slots, seen, quiet, dropped>>
  BY DEF ComputeDerived, ComputeDerivedWith, perRow
<1>2. HasTables(t) /\ IsRecordOf(t, rec)
  <2>1. rec \in Records(t) /\ rec.container
    BY <1>1 DEF TypeInv, PlaceTypes
  <2>2. t \in Configs
    BY DEF NameInv, NameTypes
  <2> QED
    BY <2>1, <2>2, ConfigsAssumption
<1>3. text \in Texts
  <2>1. DerivedText(d, rec, derivedVals) \in Texts
    BY <1>1, <1>2, DerivedIsText DEF TypeInv, RecordTypes
  <2> QED
    BY <2>1 DEF Texts
<1> HIDE DEF text
<1>4. RecordTypes'
  <2>1. derivedVals' \in [DOMAIN t.derived -> Texts]
    BY <1>1, <1>3 DEF TypeInv, RecordTypes
  <2> QED
    BY <1>1, <2>1 DEF TypeInv, RecordTypes
<1>5. PlaceTypes'
  <2>1. pc' \in {"derive", "done"}
    BY <1>1 DEF Continue, Goto
  <2> QED
    BY <1>1, <2>1, MoveKeepsPlace DEF TypeInv, PlaceTypes, Stages
<1>6. SlotTypes' /\ EntryTypes'
  BY <1>1 DEF TypeInv, SlotTypes, Slots, EntryTypes, Errs
<1> QED
  BY <1>4, <1>5, <1>6 DEF TypeInv

LEMMA PrepareKeepsTypes ==
  ASSUME TypeInv, Prepare
  PROVE  TypeInv'
<1>1. /\ pc \notin {"new", "done"} /\ pc' \in {"groups", "sections", "reserve", "outputs"}
      /\ out' \in {1, out}
      /\ UNCHANGED <<t, rec, derivedVals, groupOn, secOn, sec, slots, seen, quiet, dropped, err>>
  BY DEF Prepare, Goto, perRow
<1>2. PlaceTypes'
  BY <1>1, MoveKeepsPlace DEF TypeInv, PlaceTypes, Stages
<1>3. RecordTypes' /\ SlotTypes' /\ EntryTypes'
  BY <1>1 DEF TypeInv, RecordTypes, SlotTypes, Slots, EntryTypes
<1> QED
  BY <1>2, <1>3 DEF TypeInv

(* A switch is on or off. *)
LEMMA Switched ==
  ASSUME NEW D, NEW f \in [D -> BOOLEAN], NEW i, NEW b \in BOOLEAN
  PROVE  [f EXCEPT ![i] = b] \in [D -> BOOLEAN]
OBVIOUS

LEMMA SwitchesKeepTypes ==
  ASSUME TypeInv, SwitchGroup \/ SwitchSection \/ Reserve
  PROVE  TypeInv'
<1>1. /\ pc \in {"groups", "sections", "reserve"} /\ pc' = pc
      /\ UNCHANGED <<t, rec, derivedVals, out, sec, slots, seen, quiet, dropped, err>>
  BY DEF SwitchGroup, SwitchSection, Reserve, perRow
<1>2. groupOn' \in [DOMAIN t.groups -> BOOLEAN] /\ secOn' \in [DOMAIN t.sections -> BOOLEAN]
  <2>1. CASE SwitchGroup
    <3>1. groupOn' = [groupOn EXCEPT ![k] = CondOK(t.groups[k].when)] /\ UNCHANGED secOn
      BY <2>1 DEF SwitchGroup
    <3>2. CondOK(t.groups[k].when) \in BOOLEAN
      BY CondIsBoolean
    <3> QED
      BY <3>1, <3>2, Switched DEF TypeInv, RecordTypes
  <2>2. CASE SwitchSection
    <3> DEFINE on == ~t.sections[k].dead /\ CondOK(t.sections[k].when)
    <3>1. secOn' = [secOn EXCEPT ![k] = on] /\ UNCHANGED groupOn
      BY <2>2 DEF SwitchSection
    <3>2. on \in BOOLEAN
      OBVIOUS
    <3> HIDE DEF on
    <3> QED
      BY <3>1, <3>2, Switched DEF TypeInv, RecordTypes
  <2>3. CASE Reserve
    BY <2>3 DEF Reserve, TypeInv, RecordTypes
  <2> QED
    BY <2>1, <2>2, <2>3
<1>3. PlaceTypes'
  BY <1>1, MoveKeepsPlace DEF TypeInv, PlaceTypes, Stages
<1>4. SlotTypes' /\ EntryTypes'
  BY <1>1 DEF TypeInv, SlotTypes, Slots, EntryTypes
<1> QED
  BY <1>1, <1>2, <1>3, <1>4 DEF TypeInv, RecordTypes

LEMMA OpeningKeepsTypes ==
  ASSUME NameInv, TypeInv, SkipOutput \/ ExtendRow \/ FreshRow
  PROVE  TypeInv'
<1>1. /\ pc = "outputs" /\ out \in DOMAIN t.outputs
      /\ UNCHANGED <<t, rec, derivedVals, groupOn, secOn, quiet, err>>
  <2>1. CASE SkipOutput
    BY <2>1 DEF SkipOutput, perRow
  <2>2. CASE ExtendRow
    BY <2>2 DEF ExtendRow, StartRow
  <2>3. CASE FreshRow
    BY <2>3 DEF FreshRow, StartAnew, StartRow
  <2> QED
    BY <2>1, <2>2, <2>3
<1>2. CASE SkipOutput
  <2>1. pc' = pc /\ out' = out + 1 /\ UNCHANGED <<sec, slots, seen, dropped>>
    BY <1>2 DEF SkipOutput, perRow
  <2>2. PlaceTypes'
    BY <1>1, <2>1, MoveKeepsPlace DEF TypeInv, PlaceTypes, Stages
  <2>3. RecordTypes' /\ SlotTypes' /\ EntryTypes'
    BY <1>1, <2>1 DEF TypeInv, RecordTypes, SlotTypes, Slots, EntryTypes
  <2> QED
    BY <2>2, <2>3 DEF TypeInv
<1>3. CASE ExtendRow
  <2>1. pc' = "walk" /\ sec' = FirstOwn(Previous.output, out) /\ UNCHANGED <<out, slots, seen, dropped>>
    BY <1>3 DEF ExtendRow, StartRow, Goto
  <2>2. sec' \in Nat
    <3>1. HasTables(t)
      BY ConfigsAssumption DEF NameInv, NameTypes
    <3> QED
      BY <1>1, <2>1, <3>1, FirstOwnIsNat
  <2>3. PlaceTypes'
    BY <1>1, <2>1, <2>2, MoveKeepsPlace DEF TypeInv, PlaceTypes, Stages
  <2>4. RecordTypes' /\ SlotTypes' /\ EntryTypes'
    BY <1>1, <2>1 DEF TypeInv, RecordTypes, SlotTypes, Slots, EntryTypes
  <2> QED
    BY <2>3, <2>4 DEF TypeInv
<1>4. CASE FreshRow
  <2>1. /\ pc' = "columns" /\ sec' = 1 /\ UNCHANGED out
        /\ slots' = [s \in DOMAIN slots |-> Missing]
        /\ seen' = [d \in DOMAIN seen |-> FALSE]
        /\ dropped' = 0
    BY <1>4 DEF FreshRow, StartAnew, StartRow, ClearSlots, Goto
  <2>2. PlaceTypes'
    BY <1>1, <2>1, MoveKeepsPlace DEF TypeInv, PlaceTypes, Stages
  <2>3. SlotTypes'
    BY <1>1, <2>1, MissingIsValue DEF TypeInv, SlotTypes, Slots
  <2>4. RecordTypes' /\ EntryTypes'
    BY <1>1, <2>1 DEF TypeInv, RecordTypes, EntryTypes
  <2> QED
    BY <2>2, <2>3, <2>4 DEF TypeInv
<1> QED
  BY <1>2, <1>3, <1>4

LEMMA WriteColumnKeepsTypes ==
  ASSUME TypeInv, WriteColumn
  PROVE  TypeInv'
<1> DEFINE v == ColumnValue(t.columns[k], rec, derivedVals)
<1>1. /\ pc = "columns" /\ Continue
      /\ UNCHANGED <<t, rec, derivedVals, groupOn, secOn, out, sec, slots, quiet, dropped>>
  BY DEF WriteColumn
<1>2. UNCHANGED <<seen, err>> \/ Write(t.columns[k].name, <<v.id>>, v.bad)
  BY DEF WriteColumn
<1>3. seen' \in [DOMAIN t.defaults -> BOOLEAN] /\ err' \in Errs
  BY <1>1, <1>2, WriteKeepsTypes DEF TypeInv, EntryTypes
<1>4. pc' \in {"columns", "done"}
  BY <1>1 DEF Continue, Goto
<1>5. PlaceTypes'
  BY <1>1, <1>4, MoveKeepsPlace DEF TypeInv, PlaceTypes, Stages
<1>6. RecordTypes' /\ SlotTypes' /\ EntryTypes'
  BY <1>1, <1>3 DEF TypeInv, RecordTypes, SlotTypes, Slots, EntryTypes
<1> QED
  BY <1>5, <1>6 DEF TypeInv

(* What a merge captures from a node is a value (handle, capture). *)
LEMMA HandleNodeKeepsTypes ==
  ASSUME NameInv, TypeInv, HandleNode
  PROVE  TypeInv'
<1> DEFINE node == rec.nodes[sec][k]
           key == FixedKey(t, groupOn, node.key)
<1>1. /\ pc = "nodes" /\ k \in DOMAIN rec.nodes[sec] /\ Continue
      /\ quiet' = (quiet /\ err' = "none")
      /\ UNCHANGED <<t, rec, derivedVals, groupOn, secOn, out, sec>>
  BY DEF HandleNode, perRecord
<1>2. IsValue(node.val)
  <2>1. rec \in Records(t) /\ rec.container /\ sec \in DOMAIN t.sections /\ t \in Configs
    BY <1>1 DEF TypeInv, PlaceTypes, NameInv, NameTypes
  <2>2. HasTables(t) /\ IsRecordOf(t, rec)
    BY <2>1, ConfigsAssumption
  <2>3. sec \in DOMAIN rec.nodes
    BY <2>1, <2>2 DEF HasTables, IsRecordOf, IsASeq
  <2> QED
    BY <1>1, <2>2, <2>3 DEF IsRecordOf
<1>3. SlotTypes'
  <2>1. slots' = slots
        \/ slots' = [s \in DOMAIN slots |-> IF s \in node.slots THEN node.val ELSE slots[s]]
    BY DEF HandleNode
  <2> HIDE DEF node
  <2> QED
    BY <1>1, <1>2, <2>1 DEF TypeInv, SlotTypes, Slots
<1>4. dropped' \in Nat /\ seen' \in [DOMAIN t.defaults -> BOOLEAN] /\ err' \in Errs
  <2>1. \/ UNCHANGED <<seen, dropped, err>>
        \/ UNCHANGED <<seen, dropped>> /\ err' \in {"ErrInvalidNumber", err}
        \/ Claim(key, <<node.val.id>>, node.val.bad)
    BY DEF HandleNode, Collect
  <2> HIDE DEF key, node
  <2>2. CASE UNCHANGED <<seen, dropped>> /\ err' \in {"ErrInvalidNumber", err}
    BY <2>2 DEF TypeInv, EntryTypes, Errs
  <2>3. CASE Claim(key, <<node.val.id>>, node.val.bad)
    BY <1>1, <2>3, ClaimKeepsTypes DEF TypeInv, EntryTypes
  <2> QED
    BY <2>1, <2>2, <2>3
<1>5. PlaceTypes'
  <2>1. pc' \in {"nodes", "done"}
    BY <1>1 DEF Continue, Goto
  <2> QED
    BY <1>1, <2>1, MoveKeepsPlace DEF TypeInv, PlaceTypes, Stages
<1>6. RecordTypes' /\ EntryTypes'
  BY <1>1, <1>4 DEF TypeInv, RecordTypes, EntryTypes
<1> QED
  BY <1>3, <1>5, <1>6 DEF TypeInv

LEMMA WalkKeepsTypes ==
  ASSUME NameInv, TypeInv,
         \/ EndColumns \/ NextSection \/ EndSection \/ EndSections
         \/ EndMerges \/ CloseRow \/ EndBuild
  PROVE  TypeInv'
<1>1. UNCHANGED <<t, rec, derivedVals, groupOn, secOn, slots, seen, dropped>>
  BY DEF EndColumns, NextSection, EndSection, LeaveSection, EndSections, EndMerges, CloseRow,
     EndBuild, perRecord, perRow
<1>2. HasTables(t)
  BY ConfigsAssumption DEF NameInv, NameTypes
<1>3. /\ pc \notin {"new", "done"} /\ pc' \in Stages
      /\ out' \in {out, out + 1} /\ sec' \in {sec, sec + 1}
      /\ pc' = "nodes" => sec' \in DOMAIN t.sections
  <2>1. CASE EndColumns \/ EndSections \/ EndMerges \/ EndBuild
    BY <2>1 DEF EndColumns, EndSections, EndMerges, EndBuild, Goto, Stages
  <2>2. CASE NextSection
    <3>1. /\ pc = "walk" /\ UNCHANGED out
          /\ \/ pc' = "nodes" /\ sec' = sec /\ sec \in DOMAIN t.sections
             \/ pc' = pc /\ sec' = sec + 1
      BY <2>2 DEF NextSection, Goto
    <3> QED
      BY <3>1 DEF Stages
  <2>3. CASE EndSection
    BY <2>3 DEF EndSection, LeaveSection, Goto, Stages
  <2>4. CASE CloseRow
    BY <2>4 DEF CloseRow, Goto, Stages
  <2> QED
    BY <2>1, <2>2, <2>3, <2>4
<1>4. quiet' \in BOOLEAN
  <2>1. UNCHANGED quiet \/ quiet' = FALSE \/ (sec \in DOMAIN t.sections /\ quiet' = t.sections[sec].quiet)
    BY DEF EndColumns, NextSection, EndSection, LeaveSection, EndSections, EndMerges, CloseRow,
       EndBuild, perRecord, perRow
  <2> QED
    BY <1>2, <2>1 DEF TypeInv, EntryTypes, HasTables
<1>5. err' \in Errs
  <2>1. err' \in {"ErrNoOutput", err}
    BY DEF EndColumns, NextSection, EndSection, LeaveSection, EndSections, EndMerges, CloseRow, EndBuild
  <2> QED
    BY <2>1 DEF TypeInv, EntryTypes, Errs
<1>6. PlaceTypes'
  BY <1>1, <1>3, MoveKeepsPlace DEF TypeInv, PlaceTypes
<1>7. RecordTypes' /\ SlotTypes' /\ EntryTypes'
  BY <1>1, <1>4, <1>5 DEF TypeInv, RecordTypes, SlotTypes, Slots, EntryTypes
<1> QED
  BY <1>6, <1>7 DEF TypeInv

LEMMA EntriesKeepTypes ==
  ASSUME TypeInv, WriteMerge \/ WriteDefault \/ WriteRest
  PROVE  TypeInv'
<1>1. /\ pc \in {"merges", "defaults"} /\ pc' \in {"merges", "defaults", "close", "done"}
      /\ UNCHANGED <<t, rec, derivedVals, groupOn, secOn, out, sec, slots, quiet>>
  <2>1. CASE WriteMerge \/ WriteDefault
    <3>1. /\ Continue /\ pc \in {"merges", "defaults"}
          /\ UNCHANGED <<t, rec, perRecord, out, sec, slots, quiet>>
      BY <2>1 DEF WriteMerge, WriteDefault
    <3> QED
      BY <3>1 DEF Continue, Goto, perRecord
  <2>2. CASE WriteRest
    BY <2>2 DEF WriteRest, Goto, perRecord
  <2> QED
    BY <2>1, <2>2
<1>2. dropped' \in Nat /\ seen' \in [DOMAIN t.defaults -> BOOLEAN] /\ err' \in Errs
  <2>1. \/ UNCHANGED <<seen, dropped>> /\ err' \in {"ErrInvalidNumber", err}
        \/ \E name, value, bad : Claim(name, value, bad)
    <3>1. CASE WriteMerge
      <4> DEFINE m == t.merges[k]
                 result == Merged(m.mode, [p \in DOMAIN m.slots |-> slots[m.slots[p]]])
      <4>1. \/ UNCHANGED <<seen, dropped>> /\ err' \in {"ErrInvalidNumber", err}
            \/ Claim(m.to, result.value, FALSE)
        BY <3>1 DEF WriteMerge
      <4> HIDE DEF m, result
      <4> QED
        BY <4>1
    <3>2. CASE WriteDefault
      <4>1. UNCHANGED <<seen, dropped, err>> \/ Claim(t.defaults[k].key, <<t.defaults[k].value>>, FALSE)
        BY <3>2 DEF WriteDefault
      <4> QED
        BY <4>1
    <3>3. CASE WriteRest
      <4>1. UNCHANGED <<seen, dropped, err>> \/ Claim(t.rest, rest, FALSE)
        BY <3>3 DEF WriteRest
      <4> QED
        BY <4>1
    <3> QED
      BY <3>1, <3>2, <3>3
  <2>2. CASE UNCHANGED <<seen, dropped>> /\ err' \in {"ErrInvalidNumber", err}
    BY <2>2 DEF TypeInv, EntryTypes, Errs
  <2>3. CASE \E name, value, bad : Claim(name, value, bad)
    BY <1>1, <2>3, ClaimKeepsTypes DEF TypeInv, EntryTypes
  <2> QED
    BY <2>1, <2>2, <2>3
<1>3. PlaceTypes'
  BY <1>1, MoveKeepsPlace DEF TypeInv, PlaceTypes, Stages
<1>4. RecordTypes' /\ SlotTypes' /\ EntryTypes'
  BY <1>1, <1>2 DEF TypeInv, RecordTypes, SlotTypes, Slots, EntryTypes
<1> QED
  BY <1>3, <1>4 DEF TypeInv

LEMMA TypeInvariant == Spec => []TypeInv
<1>1. ASSUME Init
      PROVE  TypeInv
  <2>1. PlaceTypes
    BY <1>1 DEF Init, PlaceTypes, Stages
  <2>2. RecordTypes
    BY <1>1 DEF Init, RecordTypes, Texts
  <2>3. SlotTypes
    BY <1>1, MissingIsValue DEF Init, SlotTypes
  <2>4. EntryTypes
    BY <1>1 DEF Init, EntryTypes, Errs
  <2> QED
    BY <2>1, <2>2, <2>3, <2>4 DEF TypeInv
<1>2. NameInv /\ TypeInv /\ [Next]_vars => TypeInv'
  <2> SUFFICES ASSUME NameInv, TypeInv, [Next]_vars
               PROVE  TypeInv'
    OBVIOUS
  <2>1. CASE UNCHANGED vars
    <3>1. UNCHANGED <<t, rec, pc, derivedVals, groupOn, secOn, out, sec, slots, seen, quiet, dropped, err>>
      BY <2>1 DEF vars, perRecord, perRow
    <3> QED
      BY <3>1 DEF TypeInv, PlaceTypes, RecordTypes, SlotTypes, Slots, EntryTypes
  <2>2. ASSUME NEW r \in Records(t), Build(r)
        PROVE  TypeInv'
    BY <2>2, BuildKeepsTypes
  <2>3. CASE Step
    BY <2>3, ComputeDerivedKeepsTypes, PrepareKeepsTypes, SwitchesKeepTypes, OpeningKeepsTypes,
       WriteColumnKeepsTypes, HandleNodeKeepsTypes, WalkKeepsTypes, EntriesKeepTypes DEF Step
  <2> QED
    BY <2>1, <2>2, <2>3 DEF Next
<1> QED
  BY <1>1, <1>2, NameInvariant, PTL DEF Spec

(* Whatever the config and the record, the builder's variables keep their   *)
(* types over any number of records: derived values are texts, merge slots  *)
(* hold values of the record or nothing, and the tables fit the config.     *)
THEOREM RowBuilderTypeCorrect == Spec => []TypeOK
<1>1. NameInv /\ TypeInv => TypeOK
  BY DEF NameInv, NameTypes, Caches, TypeInv, PlaceTypes, RecordTypes, SlotTypes, EntryTypes,
     Stages, Texts, Errs, TypeOK
<1> QED
  BY <1>1, NameInvariant, TypeInvariant, PTL


-----------------------------------------------------------------------------
(* Places and listings.                                                     *)

AllPlaces == Nat \X Nat \X Nat

LEMMA PrecedesOrders ==
  /\ \A a, b \in AllPlaces : Precedes(a, b) \/ Precedes(b, a) \/ a = b
  /\ \A a, b \in AllPlaces : Precedes(a, b) => ~Precedes(b, a) /\ a # b
  /\ \A a, b, c \in AllPlaces : Precedes(a, b) /\ Precedes(b, c) => Precedes(a, c)
<1>1. \A a \in AllPlaces : a[1] \in Nat /\ a[2] \in Nat /\ a[3] \in Nat /\ a = <<a[1], a[2], a[3]>>
  BY DEF AllPlaces
<1> QED
  BY <1>1 DEF Precedes

(* f goes through the places S in their order. *)
Orders(f, n, S) ==
  /\ \A p \in 1..n : f[p] \in S
  /\ \A p, q \in 1..n : p < q => Precedes(f[p], f[q])
  /\ \A a \in S : \E p \in 1..n : f[p] = a

(* A sequence has the values of F at the places S, in their order. *)
IsListing(seq, S, F) ==
  /\ IsASeq(seq)
  /\ \E f : Orders(f, Len(seq), S) /\ \A p \in 1..Len(seq) : seq[p] = F[f[p]]

(* There are as many places as their order has steps. *)
LEMMA OrderedCount ==
  ASSUME NEW n \in Nat, NEW S, S \subseteq AllPlaces, NEW f, Orders(f, n, S)
  PROVE  Cardinality(S) = n
<1> DEFINE g == [p \in 1..n |-> f[p]]
<1>1. g \in [1..n -> S]
  BY DEF Orders
<1>2. ASSUME NEW p \in 1..n, NEW q \in 1..n, g[p] = g[q]
      PROVE  p = q
  <2>1. f[p] \in AllPlaces /\ f[q] \in AllPlaces /\ f[p] = f[q]
    BY <1>2 DEF Orders
  <2>2. ~ Precedes(f[p], f[q]) /\ ~ Precedes(f[q], f[p])
    BY <2>1, PrecedesOrders
  <2> QED
    BY <2>2 DEF Orders
<1>3. \A a \in S : \E p \in 1..n : g[p] = a
  BY DEF Orders
<1> HIDE DEF g
<1>4. g \in Injection(1..n, S)
  BY <1>1, <1>2 DEF Injection, IsInjective
<1>5. g \in Surjection(1..n, S)
  BY <1>1, <1>3 DEF Surjection
<1>6. ExistsBijection(1..n, S)
  BY <1>4, <1>5 DEF ExistsBijection, Bijection
<1> QED
  BY <1>6, FS_CountingElements

(* The places before the p-th are the p - 1 first. *)
LEMMA OrderedBefore ==
  ASSUME NEW n \in Nat, NEW S, S \subseteq AllPlaces, NEW f, Orders(f, n, S), NEW p \in 1..n
  PROVE  Cardinality(Before(S, f[p])) = p - 1
<1> DEFINE B == Before(S, f[p])
<1>1. \A q \in 1..n : f[q] \in B <=> q < p
  <2> TAKE q \in 1..n
  <2>1. f[p] \in AllPlaces /\ f[q] \in AllPlaces /\ f[q] \in S
    BY DEF Orders
  <2>2. q < p => Precedes(f[q], f[p])
    BY DEF Orders
  <2>3. p < q => Precedes(f[p], f[q])
    BY DEF Orders
  <2>4. q < p \/ p < q \/ p = q
    OBVIOUS
  <2> QED
    BY <2>1, <2>2, <2>3, <2>4, PrecedesOrders DEF Before
<1>2. B \subseteq S
  BY DEF Before
<1> HIDE DEF B
<1>3. Orders(f, p - 1, B)
  <2>1. \A q \in 1..(p - 1) : q \in 1..n /\ q < p
    OBVIOUS
  <2>2. ASSUME NEW a \in B
        PROVE  \E q \in 1..(p - 1) : f[q] = a
    <3>1. PICK q \in 1..n : f[q] = a
      BY <1>2 DEF Orders
    <3>2. q < p
      BY <1>1, <3>1
    <3> QED
      BY <3>1, <3>2
  <2> QED
    BY <1>1, <2>1, <2>2 DEF Orders
<1> QED
  BY <1>2, <1>3, OrderedCount DEF B

(* There is one listing. *)
LEMMA ListingIsListed ==
  ASSUME NEW seq, NEW S, S \subseteq AllPlaces, NEW F, IsListing(seq, S, F)
  PROVE  seq = Listed(S, F) /\ (seq = <<>> <=> S = {})
<1>1. Len(seq) \in Nat /\ DOMAIN seq = 1..Len(seq) /\ seq = [p \in 1..Len(seq) |-> seq[p]]
  BY DEF IsListing, IsASeq
<1>2. PICK f : Orders(f, Len(seq), S) /\ \A p \in 1..Len(seq) : seq[p] = F[f[p]]
  BY DEF IsListing
<1>3. Cardinality(S) = Len(seq)
  BY <1>1, <1>2, OrderedCount
<1>4. \A q \in 1..Len(seq) : f[q] \in S
  BY <1>2 DEF Orders
<1>5. ASSUME NEW q \in 1..Len(seq)
      PROVE  Cardinality(Before(S, f[q])) = q - 1
  <2> DEFINE n == Len(seq)
  <2>1. n \in Nat /\ q \in 1..n /\ Orders(f, n, S)
    BY <1>1, <1>2
  <2> HIDE DEF n
  <2> QED
    BY <2>1, OrderedBefore
<1>6. ASSUME NEW p \in 1..Len(seq)
      PROVE  Nth(S, p) = f[p]
  <2> DEFINE At == {b \in S : Cardinality(Before(S, b)) = p - 1}
  <2>1. f[p] \in At
    BY <1>4, <1>5
  <2>2. ASSUME NEW b \in At
        PROVE  b = f[p]
    <3>1. PICK q \in 1..Len(seq) : f[q] = b
      BY <1>2 DEF Orders
    <3>2. Cardinality(Before(S, b)) = q - 1
      BY <3>1, <1>5
    <3>3. q - 1 = p - 1
      BY <3>2
    <3> QED
      BY <1>1, <3>1, <3>3
  <2> QED
    BY <2>1, <2>2 DEF Nth
<1>7. seq = Listed(S, F)
  BY <1>1, <1>2, <1>3, <1>6 DEF Listed
<1>8. seq = <<>> <=> Len(seq) = 0
  BY <1>1
<1>9. Len(seq) = 0 <=> S = {}
  BY <1>1, <1>2 DEF Orders
<1> QED
  BY <1>7, <1>8, <1>9

LEMMA ListingNone == \A F : IsListing(<<>>, {}, F)
BY DEF IsListing, IsASeq, Orders

(* A place after all others adds the last value. *)
LEMMA ListingMore ==
  ASSUME NEW seq, NEW S, NEW F, IsListing(seq, S, F), NEW x, \A a \in S : Precedes(a, x)
  PROVE  IsListing(Append(seq, F[x]), S \cup {x}, F)
<1> DEFINE more == Append(seq, F[x])
           n == Len(seq)
<1>1. /\ IsASeq(more) /\ n \in Nat /\ Len(more) = n + 1
      /\ \A p \in 1..n : more[p] = seq[p]
      /\ more[n + 1] = F[x]
  BY AppendASeq DEF IsListing
<1> HIDE DEF more
<1>2. PICK f : Orders(f, n, S) /\ \A p \in 1..n : seq[p] = F[f[p]]
  BY DEF IsListing
<1> HIDE DEF n
<1> DEFINE g == [p \in 1..(n + 1) |-> IF p = n + 1 THEN x ELSE f[p]]
<1>3. g[n + 1] = x /\ \A p \in 1..n : g[p] = f[p]
  BY <1>1
<1>4. \A p \in 1..(n + 1) : p \in 1..n \/ p = n + 1
  BY <1>1
<1> HIDE DEF g
<1>5. Orders(g, n + 1, S \cup {x})
  <2>1. \A p \in 1..(n + 1) : g[p] \in S \cup {x}
    BY <1>2, <1>3, <1>4 DEF Orders
  <2>2. ASSUME NEW p \in 1..(n + 1), NEW q \in 1..(n + 1), p < q
        PROVE  Precedes(g[p], g[q])
    <3>1. p \in 1..n
      BY <1>1, <2>2
    <3>2. CASE q \in 1..n
      BY <1>2, <1>3, <2>2, <3>1, <3>2 DEF Orders
    <3>3. CASE q = n + 1
      BY <1>2, <1>3, <3>1, <3>3 DEF Orders
    <3> QED
      BY <1>4, <3>2, <3>3
  <2>3. ASSUME NEW a \in S \cup {x}
        PROVE  \E p \in 1..(n + 1) : g[p] = a
    <3>1. CASE a = x
      BY <1>1, <1>3, <3>1
    <3>2. CASE a \in S
      <4>1. PICK p \in 1..n : f[p] = a
        BY <1>2, <3>2 DEF Orders
      <4> QED
        BY <1>1, <1>3, <4>1
    <3> QED
      BY <3>1, <3>2
  <2> QED
    BY <2>1, <2>2, <2>3 DEF Orders
<1>6. \A p \in 1..(n + 1) : more[p] = F[g[p]]
  BY <1>1, <1>2, <1>3, <1>4
<1> QED
  BY <1>1, <1>5, <1>6 DEF IsListing, more

(* What F is elsewhere does not matter. *)
LEMMA ListingSame ==
  ASSUME NEW seq, NEW S, NEW F, NEW G, IsListing(seq, S, F), \A a \in S : F[a] = G[a]
  PROVE  IsListing(seq, S, G)
BY DEF IsListing, Orders

-----------------------------------------------------------------------------
(* The row of an output, as Rows has it.                                    *)

Fx == Facts(t, rec)
RowNodes(o) == Nodes(t, rec, Fx, o)
Cands(o) == Wanted(t, rec, Fx, RowNodes(o))
Wins(o) == Winners(t, Fx, Cands(o))
Lost(o) == Losers(t, Fx, Cands(o))
Clashes(o) == Collisions(t, Fx, Cands(o))
BadOnes(o) == InvalidNumbers(t, rec, Fx, RowNodes(o), Cands(o))
RestOf(o) == RestNodes(t, rec, Fx, RowNodes(o))
RestEntry(o) == [a \in RowNodes(o) |-> <<KeyOf(t, rec, Fx, a), NodeOf(rec, a).val.id>>]
Entries(o) == [a \in DOMAIN Cands(o) |-> <<Cands(o)[a].name, Cands(o)[a].value>>]
Result(o, m) == MergeResult(t, rec, RowNodes(o), m)

(* Where something may stand that wants to be in the row. *)
PlacesOf(o) ==
  {ColumnAt(c) : c \in DOMAIN t.columns} \cup RowNodes(o)
    \cup {MergeAt(m) : m \in DOMAIN t.merges} \cup {DefaultAt(d) : d \in DOMAIN t.defaults}
    \cup {RestAt}

(* A record is at hand, and an output. *)
AtHand(o) == t \in Configs /\ rec \in Records(t) /\ rec.container /\ o \in DOMAIN t.outputs

LEMMA Tables ==
  ASSUME NEW o, AtHand(o)
  PROVE  /\ WellFormed(t) /\ HasTables(t) /\ IsRecordOf(t, rec)
         /\ Len(t.columns) \in Nat /\ DOMAIN t.columns = 1..Len(t.columns)
         /\ Len(t.sections) \in Nat /\ DOMAIN t.sections = 1..Len(t.sections)
         /\ Len(t.merges) \in Nat /\ DOMAIN t.merges = 1..Len(t.merges)
         /\ Len(t.defaults) \in Nat /\ DOMAIN t.defaults = 1..Len(t.defaults)
         /\ Len(t.outputs) \in Nat /\ DOMAIN t.outputs = 1..Len(t.outputs)
         /\ DOMAIN rec.nodes = DOMAIN t.sections
         /\ t.outputs[o].member \subseteq DOMAIN t.sections
         /\ \A s \in DOMAIN rec.nodes :
              Len(rec.nodes[s]) \in Nat /\ DOMAIN rec.nodes[s] = 1..Len(rec.nodes[s])
<1>1. WellFormed(t) /\ HasTables(t) /\ IsRecordOf(t, rec)
  BY ConfigsAssumption DEF AtHand
<1>2. IsASeq(t.columns) /\ IsASeq(t.sections) /\ IsASeq(t.merges) /\ IsASeq(t.defaults)
      /\ IsASeq(t.outputs) /\ IsASeq(rec.nodes) /\ Len(rec.nodes) = Len(t.sections)
      /\ \A s \in DOMAIN rec.nodes : IsASeq(rec.nodes[s])
  BY <1>1 DEF WellFormed, HasTables, IsRecordOf
<1>3. \A s : IsASeq(s) => Len(s) \in Nat /\ DOMAIN s = 1..Len(s)
  BY DEF IsASeq
<1>4. t.outputs[o].member \subseteq DOMAIN t.sections
  BY <1>1 DEF HasTables, AtHand
<1> QED
  BY <1>1, <1>2, <1>3, <1>4

(* A node of the row is one of a section that is on. *)
LEMMA RowNodeIs ==
  ASSUME NEW o
  PROVE  \A a : a \in RowNodes(o) <=>
           \E s \in t.outputs[o].member : IsOn(t, Fx, s) /\ \E p \in DOMAIN rec.nodes[s] : a = NodeAt(s, p)
BY DEF RowNodes, Nodes

LEMMA PlacesInside ==
  ASSUME NEW o, AtHand(o)
  PROVE  /\ PlacesOf(o) \subseteq AllPlaces
         /\ RowNodes(o) \subseteq PlacesOf(o)
         /\ \A a \in PlacesOf(o) :
              /\ a[1] \in {1, 2, 3, 4, 5}
              /\ a[1] = 1 => a[2] \in DOMAIN t.columns /\ a = ColumnAt(a[2])
              /\ a[1] = 2 <=> a \in RowNodes(o)
              /\ a[1] = 3 => a[2] \in DOMAIN t.merges /\ a = MergeAt(a[2])
              /\ a[1] = 4 => a[2] \in DOMAIN t.defaults /\ a = DefaultAt(a[2])
              /\ a[1] = 5 => a = RestAt
         /\ \A a \in RowNodes(o) :
              /\ a[2] \in t.outputs[o].member /\ IsOn(t, Fx, a[2])
              /\ a[3] \in DOMAIN rec.nodes[a[2]]
              /\ a = NodeAt(a[2], a[3])
<1>1. \A a \in RowNodes(o) :
        /\ a[1] = 2 /\ a[2] \in t.outputs[o].member /\ IsOn(t, Fx, a[2])
        /\ a[3] \in DOMAIN rec.nodes[a[2]]
        /\ a = NodeAt(a[2], a[3])
  BY RowNodeIs DEF NodeAt
<1>2. \A a \in RowNodes(o) : a \in AllPlaces
  <2> TAKE a \in RowNodes(o)
  <2>1. a[2] \in DOMAIN t.sections /\ a[3] \in 1..Len(rec.nodes[a[2]])
    BY <1>1, Tables
  <2>2. a[2] \in Nat /\ a[3] \in Nat
    BY <2>1, Tables
  <2> QED
    BY <1>1, <2>2 DEF NodeAt, AllPlaces
<1>3. /\ \A c \in DOMAIN t.columns : ColumnAt(c) \in AllPlaces
      /\ \A m \in DOMAIN t.merges : MergeAt(m) \in AllPlaces
      /\ \A d \in DOMAIN t.defaults : DefaultAt(d) \in AllPlaces
      /\ RestAt \in AllPlaces
  BY Tables DEF ColumnAt, MergeAt, DefaultAt, RestAt, AllPlaces
<1>4. PlacesOf(o) \subseteq AllPlaces /\ RowNodes(o) \subseteq PlacesOf(o)
  BY <1>2, <1>3 DEF PlacesOf
<1>5. ASSUME NEW a \in PlacesOf(o)
      PROVE  /\ a[1] \in {1, 2, 3, 4, 5}
             /\ a[1] = 1 => a[2] \in DOMAIN t.columns /\ a = ColumnAt(a[2])
             /\ a[1] = 2 <=> a \in RowNodes(o)
             /\ a[1] = 3 => a[2] \in DOMAIN t.merges /\ a = MergeAt(a[2])
             /\ a[1] = 4 => a[2] \in DOMAIN t.defaults /\ a = DefaultAt(a[2])
             /\ a[1] = 5 => a = RestAt
  <2>1. \/ \E c \in DOMAIN t.columns : a = ColumnAt(c)
        \/ a \in RowNodes(o)
        \/ \E m \in DOMAIN t.merges : a = MergeAt(m)
        \/ \E d \in DOMAIN t.defaults : a = DefaultAt(d)
        \/ a = RestAt
    BY DEF PlacesOf
  <2> QED
    BY <1>1, <2>1 DEF ColumnAt, MergeAt, DefaultAt, RestAt
<1> QED
  BY <1>1, <1>4, <1>5

At(o, a) == CandidateAt(t, rec, Fx, RowNodes(o), a)
EarlyOf(o) == Early(t, rec, Fx, RowNodes(o))
EarlyCands(o) == CandidatesAt(t, rec, Fx, RowNodes(o), EarlyOf(o))
TakenOf(o) == {EarlyCands(o)[a].name : a \in Winners(t, Fx, EarlyCands(o))}

FirstFilled(c) ==
  /\ c \in Filled(t, rec, Fx)
  /\ \A b \in Filled(t, rec, Fx) : t.columns[b].name = t.columns[c].name => c <= b

LEMMA EarlyIs ==
  ASSUME NEW o, AtHand(o)
  PROVE  /\ EarlyOf(o) \subseteq PlacesOf(o)
         /\ \A a \in EarlyOf(o) : a[1] \in {1, 2, 3}
         /\ \A c \in DOMAIN t.columns : ColumnAt(c) \in EarlyOf(o) <=> FirstFilled(c)
         /\ \A a \in RowNodes(o) : a \in EarlyOf(o) <=>
              Survives(t, NodeOf(rec, a)) /\ Verdict(t, KeyOf(t, rec, Fx, a)) = "written"
         /\ \A m \in DOMAIN t.merges : MergeAt(m) \in EarlyOf(o) <=> ~Result(o, m).empty
<1> DEFINE Cs == {ColumnAt(c) : c \in {c \in DOMAIN t.columns : FirstFilled(c)}}
           Ns == {a \in RowNodes(o) : Survives(t, NodeOf(rec, a))
                                        /\ Verdict(t, KeyOf(t, rec, Fx, a)) = "written"}
           Ms == {MergeAt(m) : m \in {m \in DOMAIN t.merges : ~Result(o, m).empty}}
<1>1. ColumnPlaces(t, rec, Fx) = Cs
  <2>1. Filled(t, rec, Fx) \subseteq DOMAIN t.columns
    BY DEF Filled, ActiveColumns
  <2> QED
    BY <2>1 DEF ColumnPlaces, FirstFilled
<1>2. EarlyOf(o) = Cs \cup Ns \cup Ms
  BY <1>1 DEF EarlyOf, Early, WithVerdict, Result
<1>3. /\ \A a \in Cs : a[1] = 1
      /\ \A a \in Ns : a[1] = 2
      /\ \A a \in Ms : a[1] = 3
  <2>1. \A a \in RowNodes(o) : a[1] = 2
    BY PlacesInside
  <2> QED
    BY <2>1 DEF ColumnAt, MergeAt
<1>4. EarlyOf(o) \subseteq PlacesOf(o)
  BY <1>2 DEF PlacesOf
<1>5. ASSUME NEW c \in DOMAIN t.columns
      PROVE  ColumnAt(c) \in EarlyOf(o) <=> FirstFilled(c)
  <2>1. ColumnAt(c)[1] = 1 /\ \A b : ColumnAt(c) = ColumnAt(b) => b = c
    BY DEF ColumnAt
  <2>2. ColumnAt(c) \in EarlyOf(o) <=> ColumnAt(c) \in Cs
    BY <1>2, <1>3, <2>1
  <2> HIDE DEF FirstFilled
  <2> QED
    BY <2>1, <2>2
<1>6. ASSUME NEW a \in RowNodes(o)
      PROVE  a \in EarlyOf(o) <=> a \in Ns
  <2>1. a[1] = 2
    BY PlacesInside
  <2> QED
    BY <1>2, <1>3, <2>1
<1>7. ASSUME NEW m \in DOMAIN t.merges
      PROVE  MergeAt(m) \in EarlyOf(o) <=> ~Result(o, m).empty
  <2>1. MergeAt(m)[1] = 3 /\ \A b : MergeAt(m) = MergeAt(b) => b = m
    BY DEF MergeAt
  <2>2. MergeAt(m) \in EarlyOf(o) <=> MergeAt(m) \in Ms
    BY <1>2, <1>3, <2>1
  <2> QED
    BY <2>1, <2>2
<1>8. \A a \in EarlyOf(o) : a[1] \in {1, 2, 3}
  BY <1>2, <1>3
<1> QED
  BY <1>4, <1>5, <1>6, <1>7, <1>8

(* What wants to be in the row, place by place. *)
LEMMA CandsAre ==
  ASSUME NEW o, AtHand(o)
  PROVE  /\ DOMAIN Cands(o) \subseteq PlacesOf(o)
         /\ \A a \in DOMAIN Cands(o) : Cands(o)[a] = At(o, a)
         /\ \A a \in PlacesOf(o) : a[1] \in {1, 2, 3} => (a \in DOMAIN Cands(o) <=> a \in EarlyOf(o))
         /\ \A d \in DOMAIN t.defaults :
              DefaultAt(d) \in DOMAIN Cands(o) <=> t.defaults[d].key \notin TakenOf(o)
         /\ RestAt \in DOMAIN Cands(o) <=> RestOf(o) # {}
<1> DEFINE Ds == {DefaultAt(d) : d \in {d \in DOMAIN t.defaults : t.defaults[d].key \notin TakenOf(o)}}
           Rs == IF RestOf(o) = {} THEN {} ELSE {RestAt}
<1>1. Late(t, rec, Fx, RowNodes(o)) = Ds \cup Rs
  BY DEF Late, TakenOf, EarlyCands, EarlyOf, RestOf
<1>2. Cands(o) = [a \in EarlyOf(o) \cup Ds \cup Rs |-> At(o, a)]
  BY <1>1 DEF Cands, Wanted, CandidatesAt, EarlyOf, At
<1>3. DOMAIN Cands(o) = EarlyOf(o) \cup Ds \cup Rs /\ \A a \in DOMAIN Cands(o) : Cands(o)[a] = At(o, a)
  BY <1>2
<1>4. /\ \A a \in EarlyOf(o) : a[1] \in {1, 2, 3}
      /\ \A a \in Ds : a[1] = 4
      /\ \A a \in Rs : a[1] = 5
  BY EarlyIs DEF DefaultAt, RestAt
<1>5. DOMAIN Cands(o) \subseteq PlacesOf(o)
  BY <1>3, EarlyIs DEF PlacesOf
<1>6. \A a \in PlacesOf(o) : a[1] \in {1, 2, 3} => (a \in DOMAIN Cands(o) <=> a \in EarlyOf(o))
  BY <1>3, <1>4
<1>7. ASSUME NEW d \in DOMAIN t.defaults
      PROVE  DefaultAt(d) \in DOMAIN Cands(o) <=> t.defaults[d].key \notin TakenOf(o)
  <2>1. DefaultAt(d)[1] = 4 /\ \A b : DefaultAt(d) = DefaultAt(b) => b = d
    BY DEF DefaultAt
  <2>2. DefaultAt(d) \in DOMAIN Cands(o) <=> DefaultAt(d) \in Ds
    BY <1>3, <1>4, <2>1
  <2> QED
    BY <2>1, <2>2
<1>8. RestAt \in DOMAIN Cands(o) <=> RestOf(o) # {}
  <2>1. RestAt[1] = 5
    BY DEF RestAt
  <2> QED
    BY <1>3, <1>4, <2>1
<1> QED
  BY <1>3, <1>5, <1>6, <1>7, <1>8

(* What is wanted at a place. *)
LEMMA ColumnCand ==
  ASSUME NEW o, AtHand(o), NEW c, ColumnAt(c) \in DOMAIN Cands(o)
  PROVE  /\ Cands(o)[ColumnAt(c)].name = t.columns[c].name
         /\ Cands(o)[ColumnAt(c)].value = <<ColumnValue(t.columns[c], rec, Fx.derived).id>>
         /\ Cands(o)[ColumnAt(c)].bad = ColumnValue(t.columns[c], rec, Fx.derived).bad
<1> DEFINE v == ColumnValue(t.columns[c], rec, Fx.derived)
<1>1. At(o, ColumnAt(c)) = Candidate(t.columns[c].name, <<v.id>>, FALSE, v.bad)
  BY DEF At, CandidateAt, ColumnAt
<1> QED
  BY <1>1, CandsAre DEF Candidate

LEMMA NodeCand ==
  ASSUME NEW o, AtHand(o), NEW a \in RowNodes(o), a \in DOMAIN Cands(o)
  PROVE  /\ Cands(o)[a].name = KeyOf(t, rec, Fx, a)
         /\ Cands(o)[a].value = <<NodeOf(rec, a).val.id>>
         /\ Cands(o)[a].quiet = t.sections[a[2]].quiet
         /\ Cands(o)[a].bad = NodeOf(rec, a).val.bad
<1> DEFINE v == NodeOf(rec, a).val
<1>1. a[1] = 2
  BY PlacesInside
<1>2. At(o, a) = Candidate(KeyOf(t, rec, Fx, a), <<v.id>>, t.sections[a[2]].quiet, v.bad)
  BY <1>1 DEF At, CandidateAt
<1> QED
  BY <1>2, CandsAre DEF Candidate

LEMMA MergeCand ==
  ASSUME NEW o, AtHand(o), NEW m, MergeAt(m) \in DOMAIN Cands(o)
  PROVE  /\ Cands(o)[MergeAt(m)].name = t.merges[m].to
         /\ Cands(o)[MergeAt(m)].value = Result(o, m).value
         /\ Cands(o)[MergeAt(m)].quiet = FALSE /\ Cands(o)[MergeAt(m)].bad = FALSE
<1>1. At(o, MergeAt(m)) = Candidate(t.merges[m].to, Result(o, m).value, FALSE, FALSE)
  BY DEF At, CandidateAt, MergeAt, Result
<1> QED
  BY <1>1, CandsAre DEF Candidate

LEMMA DefaultCand ==
  ASSUME NEW o, AtHand(o), NEW d, DefaultAt(d) \in DOMAIN Cands(o)
  PROVE  /\ Cands(o)[DefaultAt(d)].name = t.defaults[d].key
         /\ Cands(o)[DefaultAt(d)].value = <<t.defaults[d].value>>
         /\ Cands(o)[DefaultAt(d)].quiet = FALSE /\ Cands(o)[DefaultAt(d)].bad = FALSE
<1>1. At(o, DefaultAt(d)) = Candidate(t.defaults[d].key, <<t.defaults[d].value>>, FALSE, FALSE)
  BY DEF At, CandidateAt, DefaultAt
<1> QED
  BY <1>1, CandsAre DEF Candidate

LEMMA RestCand ==
  ASSUME NEW o, AtHand(o), RestAt \in DOMAIN Cands(o)
  PROVE  /\ Cands(o)[RestAt].name = t.rest
         /\ Cands(o)[RestAt].value = Listed(RestOf(o), RestEntry(o))
         /\ Cands(o)[RestAt].quiet = FALSE /\ Cands(o)[RestAt].bad = FALSE
<1>1. At(o, RestAt) = Candidate(t.rest, Listed(RestOf(o), RestEntry(o)), FALSE, FALSE)
  BY DEF At, CandidateAt, RestAt, RestValue, RestOf, RestEntry
<1> QED
  BY <1>1, CandsAre DEF Candidate

(* The candidates that win, are reported, clash or fail. *)
LEMMA SetsAre ==
  ASSUME NEW o, AtHand(o)
  PROVE  /\ \A a : a \in Wins(o) <=>
              /\ a \in DOMAIN Cands(o)
              /\ \/ a[1] = 1
                 \/ /\ Cands(o)[a].name \notin Owned(t, Fx)
                    /\ \/ t.collision = "keep"
                       \/ \A b \in DOMAIN Cands(o) : Precedes(b, a) => Cands(o)[b].name # Cands(o)[a].name
         /\ \A a : a \in Lost(o) <=>
              /\ a \in DOMAIN Cands(o) /\ a \notin Wins(o)
              /\ ~Cands(o)[a].quiet /\ Cands(o)[a].name \notin OwnedQuietly(t, Fx)
         /\ \A a : a \in Clashes(o) <=>
              /\ a \in DOMAIN Cands(o) /\ a \notin Wins(o)
              /\ t.collision = "error" /\ ~Cands(o)[a].quiet /\ Cands(o)[a].name \notin Owned(t, Fx)
         /\ \A a : a \in BadOnes(o) <=>
              \/ a \in Wins(o) /\ Cands(o)[a].bad
              \/ \E m \in DOMAIN t.merges : a = MergeAt(m) /\ Result(o, m).bad
              \/ a \in RestOf(o) /\ NodeOf(rec, a).val.bad
         /\ \A a : a \in RestOf(o) <=>
              /\ a \in RowNodes(o)
              /\ Survives(t, NodeOf(rec, a)) /\ Verdict(t, KeyOf(t, rec, Fx, a)) = "notKept"
              /\ t.rest # NoName /\ KeyOf(t, rec, Fx, a) \notin Owned(t, Fx)
         /\ Wins(o) \subseteq PlacesOf(o) /\ Lost(o) \subseteq PlacesOf(o)
         /\ Clashes(o) \subseteq PlacesOf(o) /\ BadOnes(o) \subseteq PlacesOf(o)
         /\ RestOf(o) \subseteq PlacesOf(o)
<1>1. \A a : a \in Wins(o) <=>
        /\ a \in DOMAIN Cands(o)
        /\ \/ a[1] = 1
           \/ /\ Cands(o)[a].name \notin Owned(t, Fx)
              /\ \/ t.collision = "keep"
                 \/ \A b \in DOMAIN Cands(o) : Precedes(b, a) => Cands(o)[b].name # Cands(o)[a].name
  BY DEF Wins, Winners, Before
<1>2. \A a : a \in Lost(o) <=>
        /\ a \in DOMAIN Cands(o) /\ a \notin Wins(o)
        /\ ~Cands(o)[a].quiet /\ Cands(o)[a].name \notin OwnedQuietly(t, Fx)
  BY DEF Lost, Losers, Wins
<1>3. \A a : a \in Clashes(o) <=>
        /\ a \in DOMAIN Cands(o) /\ a \notin Wins(o)
        /\ t.collision = "error" /\ ~Cands(o)[a].quiet /\ Cands(o)[a].name \notin Owned(t, Fx)
  BY DEF Clashes, Collisions, Wins
<1>4. \A a : a \in BadOnes(o) <=>
        \/ a \in Wins(o) /\ Cands(o)[a].bad
        \/ \E m \in DOMAIN t.merges : a = MergeAt(m) /\ Result(o, m).bad
        \/ a \in RestOf(o) /\ NodeOf(rec, a).val.bad
  BY DEF BadOnes, InvalidNumbers, Wins, Result, RestOf
<1>5. \A a : a \in RestOf(o) <=>
        /\ a \in RowNodes(o)
        /\ Survives(t, NodeOf(rec, a)) /\ Verdict(t, KeyOf(t, rec, Fx, a)) = "notKept"
        /\ t.rest # NoName /\ KeyOf(t, rec, Fx, a) \notin Owned(t, Fx)
  BY DEF RestOf, RestNodes, WithVerdict
<1>6. DOMAIN Cands(o) \subseteq PlacesOf(o) /\ RowNodes(o) \subseteq PlacesOf(o)
      /\ \A m \in DOMAIN t.merges : MergeAt(m) \in PlacesOf(o)
  BY CandsAre DEF PlacesOf
<1>7. Wins(o) \subseteq PlacesOf(o) /\ Lost(o) \subseteq PlacesOf(o)
  BY <1>1, <1>2, <1>6
<1>8. Clashes(o) \subseteq PlacesOf(o) /\ RestOf(o) \subseteq PlacesOf(o)
  BY <1>3, <1>5, <1>6
<1>9. BadOnes(o) \subseteq PlacesOf(o)
  BY <1>4, <1>6, <1>7, <1>8
<1> QED
  BY <1>1, <1>2, <1>3, <1>4, <1>5, <1>7, <1>8, <1>9

(* An active column owns its name, with a value or without. *)
LEMMA ColumnNamesOwned ==
  ASSUME NEW o, AtHand(o)
  PROVE  \A a \in DOMAIN Cands(o) : a[1] = 1 =>
           a \in Wins(o) /\ Cands(o)[a].name \in Owned(t, Fx)
<1> TAKE a \in DOMAIN Cands(o)
<1> HAVE a[1] = 1
<1>1. a \in PlacesOf(o) /\ a \in EarlyOf(o)
  BY CandsAre
<1>2. PICK c \in DOMAIN t.columns : a = ColumnAt(c)
  BY <1>1, PlacesInside
<1>3. FirstFilled(c)
  BY <1>1, <1>2, EarlyIs
<1>4. Cands(o)[a].name = t.columns[c].name
  BY <1>2, ColumnCand
<1> QED
  BY <1>3, <1>4, SetsAre DEF FirstFilled, Filled, Owned

-----------------------------------------------------------------------------
(* A row as far as it is written.                                           *)

(* What all places of P have put into the row, and what is kept of that. *)
AreEntries(o, P, b, names, count, known) ==
  /\ IsListing(b, Wins(o) \cap P, Entries(o))
  /\ t.collision # "keep" =>
       names = {Cands(o)[a].name : a \in DOMAIN Cands(o) \cap P} \ Owned(t, Fx)
  /\ IsFiniteSet(Lost(o) \cap P) /\ count = Cardinality(Lost(o) \cap P)
  /\ known \in [DOMAIN t.defaults -> BOOLEAN]
  /\ \A d \in DOMAIN t.defaults :
       known[d] <=> \E a \in Wins(o) \cap P : Cands(o)[a].name = t.defaults[d].key
  /\ Clashes(o) \cap P = {} /\ BadOnes(o) \cap P = {}

EntryState(o, P) == AreEntries(o, P, body, keys, dropped, seen)

(* What they have left for the rest column, and for merges. *)
RestState(o, P) == IsListing(rest, RestOf(o) \cap P, RestEntry(o))
SlotState(o, P) == \A s \in Slots : slots[s] = Captured(rec, RowNodes(o) \cap P, s)

(* x is the first place that is not in P. *)
IsNext(o, P, x) ==
  /\ P \subseteq PlacesOf(o) /\ x \in PlacesOf(o)
  /\ \A a \in PlacesOf(o) : a \in P <=> Precedes(a, x)

(* The reservations are those of the record. *)
OwnersKnown ==
  \A name :
    /\ Owner(name) \in {"free", "reserved", "quiet"}
    /\ Owner(name) # "free" <=> name \in Owned(t, Fx)
    /\ Owner(name) = "quiet" <=> name \in OwnedQuietly(t, Fx)

RowErr(o) == RowErrors(t, rec, Fx, o)

LEMMA RecordStays ==
  ASSUME UNCHANGED <<t, rec>>
  PROVE  /\ Fx' = Fx /\ Slots' = Slots
         /\ \A o : /\ PlacesOf(o)' = PlacesOf(o) /\ RowNodes(o)' = RowNodes(o)
                   /\ Cands(o)' = Cands(o) /\ Wins(o)' = Wins(o) /\ Lost(o)' = Lost(o)
                   /\ Clashes(o)' = Clashes(o) /\ BadOnes(o)' = BadOnes(o)
                   /\ RestOf(o)' = RestOf(o) /\ RestEntry(o)' = RestEntry(o)
                   /\ Entries(o)' = Entries(o) /\ RowErr(o)' = RowErr(o)
<1>1. Fx' = Fx
  BY DEF Fx
<1>2. Slots' = Slots
  BY DEF Slots
<1>3. ASSUME NEW o
      PROVE  /\ PlacesOf(o)' = PlacesOf(o) /\ RowNodes(o)' = RowNodes(o)
             /\ Cands(o)' = Cands(o) /\ Wins(o)' = Wins(o) /\ Lost(o)' = Lost(o)
             /\ Clashes(o)' = Clashes(o) /\ BadOnes(o)' = BadOnes(o)
             /\ RestOf(o)' = RestOf(o) /\ RestEntry(o)' = RestEntry(o)
             /\ Entries(o)' = Entries(o) /\ RowErr(o)' = RowErr(o)
  <2>1. RowNodes(o)' = RowNodes(o)
    BY <1>1 DEF RowNodes
  <2>2. Cands(o)' = Cands(o) /\ RestOf(o)' = RestOf(o) /\ RowErr(o)' = RowErr(o)
    BY <1>1, <2>1 DEF Cands, RestOf, RowErr
  <2>3. PlacesOf(o)' = PlacesOf(o)
    BY <2>1 DEF PlacesOf
  <2>4. RestEntry(o)' = RestEntry(o)
    BY <1>1, <2>1 DEF RestEntry
  <2>5. Entries(o)' = Entries(o)
    BY <2>2 DEF Entries
  <2>6. Wins(o)' = Wins(o) /\ Lost(o)' = Lost(o) /\ Clashes(o)' = Clashes(o)
    BY <1>1, <2>2 DEF Wins, Lost, Clashes
  <2>7. BadOnes(o)' = BadOnes(o)
    BY <1>1, <2>1, <2>2 DEF BadOnes
  <2> QED
    BY <2>1, <2>2, <2>3, <2>4, <2>5, <2>6, <2>7
<1> QED
  BY <1>1, <1>2, <1>3

LEMMA EntryPrimed ==
  ASSUME NEW o, NEW P, UNCHANGED <<t, rec>>
  PROVE  EntryState(o, P)' <=> AreEntries(o, P, body', keys', dropped', seen')
<1>1. /\ Cands(o)' = Cands(o) /\ Wins(o)' = Wins(o) /\ Lost(o)' = Lost(o)
      /\ Clashes(o)' = Clashes(o) /\ BadOnes(o)' = BadOnes(o)
      /\ Entries(o)' = Entries(o) /\ Fx' = Fx /\ t' = t
  BY RecordStays
<1> QED
  BY <1>1 DEF EntryState, AreEntries

LEMMA RowErrIs ==
  ASSUME NEW o
  PROVE  /\ "ErrCollision" \in RowErr(o) <=> Clashes(o) # {}
         /\ "ErrInvalidNumber" \in RowErr(o) <=> BadOnes(o) # {}
         /\ RowErr(o) \subseteq {"ErrCollision", "ErrInvalidNumber"}
BY DEF RowErr, RowErrors, Clashes, BadOnes, Cands, RowNodes

LEMMA NextIsNew ==
  ASSUME NEW o, AtHand(o), NEW P, NEW x, IsNext(o, P, x)
  PROVE  x \notin P /\ \A a \in P : Precedes(a, x)
<1>1. x \in AllPlaces /\ P \subseteq AllPlaces
  BY PlacesInside DEF IsNext
<1> QED
  BY <1>1, PrecedesOrders DEF IsNext

(* A place that nothing is wanted at, or fails at, leaves the row as it is. *)
LEMMA NothingThere ==
  ASSUME NEW o, NEW P, NEW x, EntryState(o, P), AtHand(o),
         x \notin DOMAIN Cands(o), x \notin BadOnes(o),
         UNCHANGED <<t, rec, body, keys, dropped, seen>>
  PROVE  EntryState(o, P \cup {x})'
<1> DEFINE Q == P \cup {x}
<1>1. x \notin Wins(o) /\ x \notin Lost(o) /\ x \notin Clashes(o)
  BY SetsAre
<1>2. /\ Wins(o) \cap Q = Wins(o) \cap P
      /\ Lost(o) \cap Q = Lost(o) \cap P
      /\ Clashes(o) \cap Q = Clashes(o) \cap P
      /\ BadOnes(o) \cap Q = BadOnes(o) \cap P
      /\ DOMAIN Cands(o) \cap Q = DOMAIN Cands(o) \cap P
  BY <1>1
<1> HIDE DEF Q
<1>3. AreEntries(o, Q, body, keys, dropped, seen)
  BY <1>2 DEF EntryState, AreEntries
<1>4. EntryState(o, Q)'
  BY <1>3, EntryPrimed
<1> QED
  BY <1>4 DEF Q

LEMMA SameEntries ==
  ASSUME NEW o, NEW P, EntryState(o, P), UNCHANGED <<t, rec, body, keys, dropped, seen>>
  PROVE  EntryState(o, P)'
<1>1. AreEntries(o, P, body', keys', dropped', seen')
  BY DEF EntryState
<1> QED
  BY <1>1, EntryPrimed

(* A candidate that wins is written. *)
LEMMA WinnerIsWritten ==
  ASSUME NEW o, NEW P, NEW x, EntryState(o, P), AtHand(o), IsNext(o, P, x),
         x \in Wins(o), err = "none",
         NEW name, NEW value, NEW bad,
         name = Cands(o)[x].name, value = Cands(o)[x].value, bad = Cands(o)[x].bad,
         bad \/ x \notin BadOnes(o),
         UNCHANGED <<t, rec, dropped>>,
         t.collision # "keep" => keys' = (keys \cup {name}) \ Owned(t, Fx),
         Write(name, value, bad)
  PROVE  IF bad THEN err' = "ErrInvalidNumber" /\ err' \in RowErr(o)
         ELSE err' = "none" /\ EntryState(o, P \cup {x})'
<1> DEFINE Q == P \cup {x}
<1>1. x \in DOMAIN Cands(o) /\ x \notin Lost(o) /\ x \notin Clashes(o)
  BY SetsAre
<1>2. CASE bad
  <2>1. x \in BadOnes(o)
    BY <1>2, SetsAre
  <2> QED
    BY <1>2, <2>1, RowErrIs DEF Write
<1>3. CASE ~bad
  <2>1. err' = "none"
    BY <1>3 DEF Write
  <2>2. x \notin P /\ \A a \in P : Precedes(a, x)
    BY NextIsNew
  <2>3. /\ Wins(o) \cap Q = (Wins(o) \cap P) \cup {x}
        /\ Lost(o) \cap Q = Lost(o) \cap P
        /\ Clashes(o) \cap Q = Clashes(o) \cap P
        /\ BadOnes(o) \cap Q = BadOnes(o) \cap P
        /\ DOMAIN Cands(o) \cap Q = (DOMAIN Cands(o) \cap P) \cup {x}
    BY <1>1, <1>3
  <2> HIDE DEF Q
  <2>4. IsListing(body', Wins(o) \cap Q, Entries(o))
    <3>1. Entries(o)[x] = <<name, value>>
      BY <1>1 DEF Entries
    <3>2. body' = Append(body, Entries(o)[x])
      BY <3>1 DEF Write
    <3>3. IsListing(body, Wins(o) \cap P, Entries(o))
      BY DEF EntryState, AreEntries
    <3>4. IsListing(Append(body, Entries(o)[x]), (Wins(o) \cap P) \cup {x}, Entries(o))
      BY <2>2, <3>3, ListingMore
    <3> QED
      BY <2>3, <3>2, <3>4
  <2>5. t.collision # "keep" =>
          keys' = {Cands(o)[a].name : a \in DOMAIN Cands(o) \cap Q} \ Owned(t, Fx)
    BY <2>3 DEF EntryState, AreEntries
  <2>6. seen' = [d \in DOMAIN t.defaults |-> seen[d] \/ t.defaults[d].key = name]
    BY DEF Write, EntryState, AreEntries
  <2>7. \A d \in DOMAIN t.defaults :
          seen'[d] <=> \E a \in Wins(o) \cap Q : Cands(o)[a].name = t.defaults[d].key
    BY <2>3, <2>6 DEF EntryState, AreEntries
  <2>8. seen' \in [DOMAIN t.defaults -> BOOLEAN]
    <3>1. \A d \in DOMAIN t.defaults : (seen[d] \/ t.defaults[d].key = name) \in BOOLEAN
      OBVIOUS
    <3> QED
      BY <2>6, <3>1
  <2>9. /\ IsFiniteSet(Lost(o) \cap Q) /\ dropped' = Cardinality(Lost(o) \cap Q)
        /\ Clashes(o) \cap Q = {} /\ BadOnes(o) \cap Q = {}
    BY <2>3 DEF EntryState, AreEntries
  <2>10. AreEntries(o, Q, body', keys', dropped', seen')
    BY <2>4, <2>5, <2>7, <2>8, <2>9 DEF AreEntries
  <2>11. EntryState(o, Q)'
    BY <2>10, EntryPrimed
  <2> QED
    BY <1>3, <2>1, <2>11 DEF Q
<1> QED
  BY <1>2, <1>3

(* A candidate that does not win is left out, and counted if it is reported. *)
LEMMA LoserIsLeftOut ==
  ASSUME NEW o, NEW P, NEW x, EntryState(o, P), AtHand(o), IsNext(o, P, x),
         x \in DOMAIN Cands(o), x \notin Wins(o), x \notin Clashes(o), x \notin BadOnes(o),
         t.collision # "keep" => Cands(o)[x].name \in keys \cup Owned(t, Fx),
         UNCHANGED <<t, rec, body, keys, seen>>,
         dropped' = IF x \in Lost(o) THEN dropped + 1 ELSE dropped
  PROVE  EntryState(o, P \cup {x})'
<1> DEFINE Q == P \cup {x}
<1>1. x \notin P
  BY NextIsNew
<1>2. /\ Wins(o) \cap Q = Wins(o) \cap P
      /\ Clashes(o) \cap Q = Clashes(o) \cap P
      /\ BadOnes(o) \cap Q = BadOnes(o) \cap P
      /\ DOMAIN Cands(o) \cap Q = (DOMAIN Cands(o) \cap P) \cup {x}
  OBVIOUS
<1>3. Lost(o) \cap Q = IF x \in Lost(o) THEN (Lost(o) \cap P) \cup {x} ELSE Lost(o) \cap P
  OBVIOUS
<1> HIDE DEF Q
<1>4. IsFiniteSet(Lost(o) \cap Q) /\ dropped' = Cardinality(Lost(o) \cap Q)
  <2>1. IsFiniteSet(Lost(o) \cap P) /\ dropped = Cardinality(Lost(o) \cap P)
    BY DEF EntryState, AreEntries
  <2>2. CASE x \in Lost(o)
    <3>1. /\ IsFiniteSet((Lost(o) \cap P) \cup {x})
          /\ Cardinality((Lost(o) \cap P) \cup {x}) = Cardinality(Lost(o) \cap P) + 1
      BY <2>1, <1>1, FS_AddElement
    <3> QED
      BY <2>1, <2>2, <3>1, <1>3
  <2>3. CASE x \notin Lost(o)
    BY <2>1, <2>3, <1>3
  <2> QED
    BY <2>2, <2>3
<1>5. t.collision # "keep" =>
        keys' = {Cands(o)[a].name : a \in DOMAIN Cands(o) \cap Q} \ Owned(t, Fx)
  BY <1>2 DEF EntryState, AreEntries
<1>6. AreEntries(o, Q, body', keys', dropped', seen')
  BY <1>2, <1>4, <1>5 DEF EntryState, AreEntries
<1>7. EntryState(o, Q)'
  BY <1>6, EntryPrimed
<1> QED
  BY <1>7 DEF Q

(* claim treats a candidate as Rows has it, whatever becomes of it. *)
LEMMA ClaimEntry ==
  ASSUME NEW o, NEW P, NEW x, EntryState(o, P), AtHand(o), IsNext(o, P, x), OwnersKnown,
         x \in DOMAIN Cands(o), x[1] # 1, err = "none", quiet = Cands(o)[x].quiet,
         x \in BadOnes(o) => x \in Wins(o) /\ Cands(o)[x].bad,
         NEW name, NEW value, NEW bad,
         name = Cands(o)[x].name, value = Cands(o)[x].value, bad = Cands(o)[x].bad,
         UNCHANGED <<t, rec>>,
         Claim(name, value, bad)
  PROVE  \/ err' = "none" /\ EntryState(o, P \cup {x})'
         \/ err' # "none" /\ err' \in RowErr(o)
<1>1. /\ Owner(name) # "free" <=> name \in Owned(t, Fx)
      /\ Owner(name) = "quiet" <=> name \in OwnedQuietly(t, Fx)
      /\ Owner(name) \in {"free", "reserved", "quiet"}
  BY DEF OwnersKnown
<1>2. CASE Owner(name) # "free"
  <2>1. x \notin Wins(o) /\ x \notin Clashes(o) /\ x \notin BadOnes(o)
    BY <1>1, <1>2, SetsAre
  <2>2. x \in Lost(o) <=> Owner(name) = "reserved" /\ ~quiet
    BY <1>1, <1>2, <2>1, SetsAre
  <2>3. /\ dropped' = IF x \in Lost(o) THEN dropped + 1 ELSE dropped
        /\ UNCHANGED <<body, seen, keys, err>>
    BY <1>2, <2>2 DEF Claim, ClaimIn
  <2> QED
    BY <1>1, <1>2, <2>1, <2>3, LoserIsLeftOut
<1>3. CASE Owner(name) = "free" /\ t.collision # "keep" /\ name \in keys
  <2>1. /\ dropped' = IF quiet \/ t.collision = "error" THEN dropped ELSE dropped + 1
        /\ err' = IF ~quiet /\ t.collision = "error" THEN "ErrCollision" ELSE err
        /\ UNCHANGED <<body, seen, keys>>
    BY <1>3 DEF Claim, ClaimIn
  <2>2. PICK b \in DOMAIN Cands(o) \cap P : Cands(o)[b].name = name
    BY <1>3 DEF EntryState, AreEntries
  <2>3. Precedes(b, x)
    BY <2>2, NextIsNew
  <2>4. x \notin Wins(o)
    BY <1>3, <2>2, <2>3, SetsAre
  <2>5. name \notin Owned(t, Fx) /\ name \notin OwnedQuietly(t, Fx)
    BY <1>1, <1>3
  <2>6. x \in Lost(o) <=> ~quiet
    BY <2>4, <2>5, SetsAre
  <2>7. x \in Clashes(o) <=> ~quiet /\ t.collision = "error"
    BY <2>4, <2>5, SetsAre
  <2>8. CASE x \in Clashes(o)
    BY <2>1, <2>7, <2>8, RowErrIs
  <2>9. CASE x \notin Clashes(o)
    <3>1. dropped' = IF x \in Lost(o) THEN dropped + 1 ELSE dropped
      BY <2>1, <2>6, <2>7, <2>9
    <3> QED
      BY <1>3, <2>1, <2>4, <2>7, <2>9, <3>1, LoserIsLeftOut
  <2> QED
    BY <2>8, <2>9
<1>4. CASE Owner(name) = "free" /\ ~ (t.collision # "keep" /\ name \in keys)
  <2>1. /\ t.collision # "keep" => keys' = keys \cup {name}
        /\ UNCHANGED dropped
        /\ Write(name, value, bad)
    BY <1>4 DEF Claim, ClaimIn
  <2>2. name \notin Owned(t, Fx)
    BY <1>1, <1>4
  <2>3. x \in Wins(o)
    <3>1. ASSUME t.collision # "keep", NEW b \in DOMAIN Cands(o), Precedes(b, x)
          PROVE  Cands(o)[b].name # name
      <4>1. b \in P
        BY <3>1, CandsAre DEF IsNext
      <4> QED
        BY <1>4, <2>2, <3>1, <4>1 DEF EntryState, AreEntries
    <3> QED
      BY <2>2, <3>1, SetsAre
  <2>4. t.collision # "keep" => keys' = (keys \cup {name}) \ Owned(t, Fx)
    BY <2>1, <2>2 DEF EntryState, AreEntries
  <2>5. bad \/ x \notin BadOnes(o)
    OBVIOUS
  <2> QED
    BY <2>1, <2>3, <2>4, <2>5, WinnerIsWritten
<1> QED
  BY <1>2, <1>3, <1>4

-----------------------------------------------------------------------------
(* How far a row is written.                                                *)

EndAt == <<6, 0, 0>>
Upto(o, b) == Before(PlacesOf(o), b)

RowState(o, P) == EntryState(o, P) /\ RestState(o, P) /\ SlotState(o, P)

(* From b to c there is one place, or none. *)
OnePlace(o, b, c, x) == IsNext(o, Upto(o, b), x) /\ Upto(o, c) = Upto(o, b) \cup {x}
NoPlace(o, b, c) == Upto(o, c) = Upto(o, b)

LEMMA ColumnIsNext ==
  ASSUME NEW o, AtHand(o), NEW c \in DOMAIN t.columns
  PROVE  OnePlace(o, ColumnAt(c), ColumnAt(c + 1), ColumnAt(c))
<1>1. c \in Nat
  BY Tables
<1>2. ColumnAt(c) \in PlacesOf(o)
  BY DEF PlacesOf
<1>3. ASSUME NEW a \in PlacesOf(o)
      PROVE  Precedes(a, ColumnAt(c + 1)) <=> Precedes(a, ColumnAt(c)) \/ a = ColumnAt(c)
  <2>1. a[1] \in {1, 2, 3, 4, 5} /\ (a[1] = 1 => a[2] \in Nat /\ a = ColumnAt(a[2]))
    BY PlacesInside, Tables
  <2>2. CASE a[1] = 1
    BY <1>1, <2>1, <2>2 DEF Precedes, ColumnAt
  <2>3. CASE a[1] # 1
    BY <1>1, <2>1, <2>3 DEF Precedes, ColumnAt
  <2> QED
    BY <2>2, <2>3
<1> QED
  BY <1>2, <1>3 DEF OnePlace, IsNext, Upto, Before

LEMMA NodeIsNext ==
  ASSUME NEW o, AtHand(o), NEW s \in Nat, NEW p \in Nat, NodeAt(s, p) \in RowNodes(o)
  PROVE  OnePlace(o, NodeAt(s, p), NodeAt(s, p + 1), NodeAt(s, p))
<1>1. NodeAt(s, p) \in PlacesOf(o)
  BY DEF PlacesOf
<1>2. ASSUME NEW a \in PlacesOf(o)
      PROVE  Precedes(a, NodeAt(s, p + 1)) <=> Precedes(a, NodeAt(s, p)) \/ a = NodeAt(s, p)
  <2>1. a \in AllPlaces
    BY PlacesInside
  <2>2. a[1] \in Nat /\ a[2] \in Nat /\ a[3] \in Nat /\ a = <<a[1], a[2], a[3]>>
    BY <2>1 DEF AllPlaces
  <2> QED
    BY <2>2 DEF Precedes, NodeAt
<1> QED
  BY <1>1, <1>2 DEF OnePlace, IsNext, Upto, Before

LEMMA MergeIsNext ==
  ASSUME NEW o, AtHand(o), NEW m \in DOMAIN t.merges
  PROVE  OnePlace(o, MergeAt(m), MergeAt(m + 1), MergeAt(m))
<1>1. m \in Nat
  BY Tables
<1>2. MergeAt(m) \in PlacesOf(o)
  BY DEF PlacesOf
<1>3. ASSUME NEW a \in PlacesOf(o)
      PROVE  Precedes(a, MergeAt(m + 1)) <=> Precedes(a, MergeAt(m)) \/ a = MergeAt(m)
  <2>1. a[1] \in {1, 2, 3, 4, 5} /\ (a[1] = 3 => a[2] \in Nat /\ a = MergeAt(a[2]))
    BY PlacesInside, Tables
  <2>2. CASE a[1] = 3
    BY <1>1, <2>1, <2>2 DEF Precedes, MergeAt
  <2>3. CASE a[1] # 3
    BY <1>1, <2>1, <2>3 DEF Precedes, MergeAt
  <2> QED
    BY <2>2, <2>3
<1> QED
  BY <1>2, <1>3 DEF OnePlace, IsNext, Upto, Before

LEMMA DefaultIsNext ==
  ASSUME NEW o, AtHand(o), NEW d \in DOMAIN t.defaults
  PROVE  OnePlace(o, DefaultAt(d), DefaultAt(d + 1), DefaultAt(d))
<1>1. d \in Nat
  BY Tables
<1>2. DefaultAt(d) \in PlacesOf(o)
  BY DEF PlacesOf
<1>3. ASSUME NEW a \in PlacesOf(o)
      PROVE  Precedes(a, DefaultAt(d + 1)) <=> Precedes(a, DefaultAt(d)) \/ a = DefaultAt(d)
  <2>1. a[1] \in {1, 2, 3, 4, 5} /\ (a[1] = 4 => a[2] \in Nat /\ a = DefaultAt(a[2]))
    BY PlacesInside, Tables
  <2>2. CASE a[1] = 4
    BY <1>1, <2>1, <2>2 DEF Precedes, DefaultAt
  <2>3. CASE a[1] # 4
    BY <1>1, <2>1, <2>3 DEF Precedes, DefaultAt
  <2> QED
    BY <2>2, <2>3
<1> QED
  BY <1>2, <1>3 DEF OnePlace, IsNext, Upto, Before

(* What is before the rest column, when the defaults are through, is all    *)
(* but it.                                                                  *)
LEMMA RestIsNext ==
  ASSUME NEW o, AtHand(o), NEW d \in Nat \ {0}, d \notin DOMAIN t.defaults
  PROVE  OnePlace(o, DefaultAt(d), EndAt, RestAt)
<1>1. RestAt \in PlacesOf(o)
  BY DEF PlacesOf
<1>2. ASSUME NEW a \in PlacesOf(o)
      PROVE  /\ Precedes(a, DefaultAt(d)) <=> Precedes(a, RestAt)
             /\ Precedes(a, EndAt)
             /\ a = RestAt <=> ~Precedes(a, RestAt)
  <2>1. /\ a[1] \in {1, 2, 3, 4, 5} /\ a \in AllPlaces
        /\ a[1] = 4 => a[2] \in 1..Len(t.defaults)
        /\ a[1] = 5 => a = RestAt
    BY PlacesInside, Tables
  <2>2. a[1] = 4 => a[2] \in Nat /\ a[2] < d
    BY <2>1, Tables
  <2> QED
    BY <2>1, <2>2 DEF Precedes, DefaultAt, RestAt, EndAt, AllPlaces
<1> QED
  BY <1>1, <1>2 DEF OnePlace, IsNext, Upto, Before

LEMMA AfterColumns ==
  ASSUME NEW o, AtHand(o), NEW c \in Nat \ {0}, c \notin DOMAIN t.columns
  PROVE  NoPlace(o, ColumnAt(c), NodeAt(1, 1))
<1>1. ASSUME NEW a \in PlacesOf(o)
      PROVE  Precedes(a, ColumnAt(c)) <=> Precedes(a, NodeAt(1, 1))
  <2>1. /\ a[1] \in {1, 2, 3, 4, 5}
        /\ a[1] = 1 => a[2] \in 1..Len(t.columns)
        /\ a[1] = 2 => a[2] \in 1..Len(t.sections) /\ a[3] \in 1..Len(rec.nodes[a[2]])
    BY PlacesInside, Tables
  <2>2. a[1] = 1 => a[2] \in Nat /\ a[2] < c
    BY <2>1, Tables
  <2>3. a[1] = 2 => a[2] \in Nat \ {0} /\ a[3] \in Nat \ {0}
    BY <2>1, Tables
  <2> QED
    BY <2>1, <2>2, <2>3 DEF Precedes, ColumnAt, NodeAt
<1> QED
  BY <1>1 DEF NoPlace, Upto, Before

(* A section that is not walked, and one that is through. *)
LEMMA AfterSection ==
  ASSUME NEW o, AtHand(o), NEW s \in Nat, NEW p \in Nat \ {0},
         \A a \in RowNodes(o) : a[2] = s => a[3] < p
  PROVE  NoPlace(o, NodeAt(s, p), NodeAt(s + 1, 1))
<1>1. ASSUME NEW a \in PlacesOf(o)
      PROVE  Precedes(a, NodeAt(s, p)) <=> Precedes(a, NodeAt(s + 1, 1))
  <2>1. /\ a[1] \in {1, 2, 3, 4, 5} /\ a \in AllPlaces
        /\ a[1] = 2 => a \in RowNodes(o)
        /\ a[1] = 2 => a[2] \in 1..Len(t.sections) /\ a[3] \in 1..Len(rec.nodes[a[2]])
    BY PlacesInside, Tables
  <2>2. a[1] = 2 => a[2] \in Nat \ {0} /\ a[3] \in Nat \ {0} /\ (a[2] = s => a[3] < p)
    BY <2>1, Tables
  <2> QED
    BY <2>1, <2>2 DEF Precedes, NodeAt, AllPlaces
<1> QED
  BY <1>1 DEF NoPlace, Upto, Before

LEMMA AfterSections ==
  ASSUME NEW o, AtHand(o), NEW s \in Nat \ {0}, s \notin DOMAIN t.sections
  PROVE  NoPlace(o, NodeAt(s, 1), MergeAt(1)) /\ RowNodes(o) \subseteq Upto(o, MergeAt(1))
<1>1. ASSUME NEW a \in PlacesOf(o)
      PROVE  Precedes(a, NodeAt(s, 1)) <=> Precedes(a, MergeAt(1))
  <2>1. /\ a[1] \in {1, 2, 3, 4, 5}
        /\ a[1] = 2 => a[2] \in 1..Len(t.sections)
        /\ a[1] = 3 => a[2] \in 1..Len(t.merges) /\ a = MergeAt(a[2])
    BY PlacesInside, Tables
  <2>2. a[1] = 2 => a[2] \in Nat /\ a[2] < s
    BY <2>1, Tables
  <2>3. a[1] = 3 => a[2] \in Nat \ {0} /\ a = MergeAt(a[2])
    BY <2>1, Tables
  <2> QED
    BY <2>1, <2>2, <2>3 DEF Precedes, NodeAt, MergeAt
<1>2. \A a \in RowNodes(o) : a \in PlacesOf(o) /\ a[1] = 2
  BY PlacesInside
<1>3. \A a \in RowNodes(o) : Precedes(a, MergeAt(1))
  BY <1>2 DEF Precedes, MergeAt
<1> QED
  BY <1>1, <1>2, <1>3 DEF NoPlace, Upto, Before

LEMMA AfterMerges ==
  ASSUME NEW o, AtHand(o), NEW m \in Nat \ {0}, m \notin DOMAIN t.merges
  PROVE  NoPlace(o, MergeAt(m), DefaultAt(1))
<1>1. ASSUME NEW a \in PlacesOf(o)
      PROVE  Precedes(a, MergeAt(m)) <=> Precedes(a, DefaultAt(1))
  <2>1. /\ a[1] \in {1, 2, 3, 4, 5}
        /\ a[1] = 3 => a[2] \in 1..Len(t.merges)
        /\ a[1] = 4 => a[2] \in 1..Len(t.defaults) /\ a = DefaultAt(a[2])
    BY PlacesInside, Tables
  <2>2. a[1] = 3 => a[2] \in Nat /\ a[2] < m
    BY <2>1, Tables
  <2>3. a[1] = 4 => a[2] \in Nat \ {0} /\ a = DefaultAt(a[2])
    BY <2>1, Tables
  <2> QED
    BY <2>1, <2>2, <2>3 DEF Precedes, MergeAt, DefaultAt
<1> QED
  BY <1>1 DEF NoPlace, Upto, Before

(* A row begins with nothing, and ends with all. *)
LEMMA FirstAndLast ==
  ASSUME NEW o, AtHand(o)
  PROVE  Upto(o, ColumnAt(1)) = {} /\ Upto(o, EndAt) = PlacesOf(o)
<1>1. ASSUME NEW a \in PlacesOf(o)
      PROVE  ~Precedes(a, ColumnAt(1)) /\ Precedes(a, EndAt)
  <2>1. /\ a[1] \in {1, 2, 3, 4, 5}
        /\ a[1] = 1 => a[2] \in 1..Len(t.columns) /\ a = ColumnAt(a[2])
    BY PlacesInside, Tables
  <2>2. a[1] = 1 => a[2] \in Nat \ {0} /\ a = ColumnAt(a[2])
    BY <2>1, Tables
  <2> QED
    BY <2>1, <2>2 DEF Precedes, ColumnAt, EndAt
<1> QED
  BY <1>1 DEF Upto, Before

-----------------------------------------------------------------------------
(* The derived values of a record.                                          *)

ValueAfter(c, r, n, before) ==
  LET d == c.derived[n]
      on == d.when = 0 \/ EvalCond(c.conds[d.when], r, before)
  IN  IF on THEN DerivedText(d, r, before) ELSE ""

(* The recursion of DerivedUpTo has a solution, as each goes back to the    *)
(* one before.                                                              *)
LEMMA DerivedUnfold ==
  ASSUME NEW c, NEW r, Len(c.derived) \in Nat
  PROVE  /\ DerivedUpTo(c, r)[0] = <<>>
         /\ \A n \in 1..Len(c.derived) :
              DerivedUpTo(c, r)[n]
                = Append(DerivedUpTo(c, r)[n - 1], ValueAfter(c, r, n, DerivedUpTo(c, r)[n - 1]))
<1> DEFINE size == Len(c.derived)
           From(h, n) == IF n = 0 THEN <<>> ELSE Append(h[n - 1], ValueAfter(c, r, n, h[n - 1]))
           IsUpTo(k1, h) == h = [n \in 0 .. k1 |-> From(h, n)]
           Undefined == {k1 \in 0 .. size : ~ \E h : IsUpTo(k1, h)}
<1>1. Undefined = {}
  <2> SUFFICES ASSUME Undefined # {} PROVE FALSE
    OBVIOUS
  <2>1. PICK m \in Undefined : \A j \in Undefined : m <= j
    <3>1. Undefined \subseteq Nat
      OBVIOUS
    <3> HIDE DEF Undefined
    <3> QED
      BY <3>1, LeastNumber
  <2>2. m \in 0 .. size
    OBVIOUS
  <2>3. CASE m = 0
    <3> DEFINE h == [n \in 0 .. 0 |-> <<>>]
    <3>1. IsUpTo(0, h)
      OBVIOUS
    <3> QED
      BY <2>3, <3>1
  <2>4. CASE m # 0
    <3>1. m - 1 \in 0 .. size /\ m - 1 \notin Undefined
      <4> HIDE DEF Undefined
      <4> QED
        BY <2>1, <2>2, <2>4
    <3>2. PICK h : IsUpTo(m - 1, h)
      BY <3>1
    <3> DEFINE g == [n \in 0 .. m |-> From(h, n)]
    <3>3. ASSUME NEW n \in 0 .. m
          PROVE  From(h, n) = From(g, n)
      <4>1. CASE n = 0
        BY <4>1
      <4>2. CASE n # 0
        <5>1. n - 1 \in 0 .. m - 1 /\ n - 1 \in 0 .. m
          BY <4>2, <2>2
        <5>2. h[n - 1] = From(h, n - 1)
          <6> HIDE DEF From
          <6> QED
            BY <3>2, <5>1, Zenon
        <5>3. g[n - 1] = From(h, n - 1)
          BY <5>1
        <5> HIDE DEF g
        <5> QED
          BY <5>2, <5>3
      <4> QED
        BY <4>1, <4>2
    <3>4. IsUpTo(m, g)
      BY <3>3
    <3> QED
      BY <3>4
  <2> QED
    BY <2>3, <2>4
<1>2. \E h : IsUpTo(size, h)
  <2> HIDE DEF IsUpTo, From
  <2>1. size \in 0 .. size
    OBVIOUS
  <2> HIDE DEF size
  <2> QED
    BY <1>1, <2>1
<1> DEFINE dv == CHOOSE h : IsUpTo(size, h)
<1>3. IsUpTo(size, dv)
  <2> HIDE DEF IsUpTo, From, size
  <2> QED
    BY <1>2
<1>4. DerivedUpTo(c, r) = dv
  BY DEF DerivedUpTo, ValueAfter
<1> HIDE DEF dv
<1>5. \A n \in 0 .. size : dv[n] = From(dv, n)
  <2> HIDE DEF From
  <2> QED
    BY <1>3, Zenon
<1>6. dv[0] = <<>>
  BY <1>5
<1>7. ASSUME NEW n \in 1 .. size
      PROVE  dv[n] = Append(dv[n - 1], ValueAfter(c, r, n, dv[n - 1]))
  <2>1. n \in 0 .. size /\ n # 0
    OBVIOUS
  <2> QED
    BY <1>5, <2>1
<1> QED
  BY <1>4, <1>6, <1>7

(* The first n derived values. *)
LEMMA DerivedShape ==
  ASSUME NEW c, NEW r, Len(c.derived) \in Nat
  PROVE  \A n \in 0 .. Len(c.derived) :
           /\ IsASeq(DerivedUpTo(c, r)[n]) /\ Len(DerivedUpTo(c, r)[n]) = n
           /\ \A d \in 1 .. n :
                DerivedUpTo(c, r)[n][d] = ValueAfter(c, r, d, DerivedUpTo(c, r)[d - 1])
<1> DEFINE dv == DerivedUpTo(c, r)
           Right(n) == /\ IsASeq(dv[n]) /\ Len(dv[n]) = n
                       /\ \A d \in 1 .. n : dv[n][d] = ValueAfter(c, r, d, dv[d - 1])
           Wrong == {n \in 0 .. Len(c.derived) : ~Right(n)}
<1>1. dv[0] = <<>> /\ \A n \in 1 .. Len(c.derived) : dv[n] = Append(dv[n - 1], ValueAfter(c, r, n, dv[n - 1]))
  BY DerivedUnfold
<1> HIDE DEF dv
<1>2. ASSUME Wrong # {}
      PROVE  FALSE
  <2>1. PICK m \in Wrong : \A j \in Wrong : m <= j
    <3>1. Wrong \subseteq Nat
      OBVIOUS
    <3> HIDE DEF Wrong
    <3> QED
      BY <1>2, <3>1, LeastNumber
  <2>2. m \in 0 .. Len(c.derived) /\ ~Right(m)
    OBVIOUS
  <2>3. CASE m = 0
    <3>1. Right(0)
      BY <1>1 DEF IsASeq
    <3> QED
      BY <2>2, <2>3, <3>1
  <2>4. CASE m # 0
    <3>1. m - 1 \in 0 .. Len(c.derived) /\ m - 1 \notin Wrong
      <4> HIDE DEF Wrong
      <4> QED
        BY <2>1, <2>2, <2>4
    <3>2. Right(m - 1)
      BY <3>1
    <3> DEFINE before == dv[m - 1]
               value == ValueAfter(c, r, m, before)
    <3>3. dv[m] = Append(before, value)
      BY <1>1, <2>2, <2>4
    <3> HIDE DEF before, value
    <3>4. IsASeq(before) /\ Len(before) = m - 1
      BY <3>2 DEF before
    <3>5. /\ IsASeq(dv[m]) /\ Len(dv[m]) = m
          /\ \A d \in 1 .. m - 1 : dv[m][d] = before[d]
          /\ dv[m][m] = value
      <4>1. /\ IsASeq(Append(before, value)) /\ Len(Append(before, value)) = Len(before) + 1
            /\ DOMAIN before = 1 .. Len(before)
            /\ \A d \in DOMAIN before : Append(before, value)[d] = before[d]
            /\ Append(before, value)[Len(before) + 1] = value
        BY <3>4, AppendASeq
      <4>2. Len(before) + 1 = m
        BY <2>2, <3>4
      <4> QED
        BY <3>3, <3>4, <4>1, <4>2
    <3>6. ASSUME NEW d \in 1 .. m
          PROVE  dv[m][d] = ValueAfter(c, r, d, dv[d - 1])
      <4>1. CASE d = m
        BY <4>1, <3>5 DEF value, before
      <4>2. CASE d # m
        <5>1. d \in 1 .. m - 1
          BY <2>2, <4>2
        <5>2. dv[m][d] = dv[m - 1][d]
          BY <3>5, <5>1 DEF before
        <5>3. dv[m - 1][d] = ValueAfter(c, r, d, dv[d - 1])
          BY <3>2, <5>1
        <5> QED
          BY <5>2, <5>3
      <4> QED
        BY <4>1, <4>2
    <3> QED
      BY <2>2, <3>5, <3>6
  <2> QED
    BY <2>3, <2>4
<1> QED
  BY <1>2 DEF dv

(* The same for the text of a derived value (appendDerived). *)
LEMMA TextSame ==
  ASSUME NEW d, NEW r, NEW dv, NEW dw,
         IsASeq(d.srcs),
         \A s \in DOMAIN d.srcs : SourceValue(d.srcs[s], r, dv) = SourceValue(d.srcs[s], r, dw)
  PROVE  DerivedText(d, r, dv) = DerivedText(d, r, dw)
<1> DEFINE Spoken(v) == {i \in 1..Len(d.srcs) : HasText(d.srcs[i], SourceValue(d.srcs[i], r, v))}
<1>1. Len(d.srcs) \in Nat /\ DOMAIN d.srcs = 1..Len(d.srcs)
  BY DEF IsASeq
<1>2. Spoken(dv) = Spoken(dw)
  BY <1>1
<1>3. ASSUME NEW v
      PROVE  DerivedText(d, r, v) =
               LET first == IF Spoken(v) # {} THEN Min(Spoken(v)) ELSE 0
                   text == SourceValue(d.srcs[first], r, v).id
               IN  IF first = 0 THEN "" ELSE IF text \in DOMAIN d.norm THEN d.norm[text] ELSE text
  BY DEF DerivedText, FirstSource, SelectInSeq
<1> DEFINE first == IF Spoken(dv) # {} THEN Min(Spoken(dv)) ELSE 0
<1>4. first # 0 => first \in DOMAIN d.srcs
  <2>1. Spoken(dv) \in SUBSET Nat
    BY <1>1
  <2>2. Spoken(dv) # {} => Min(Spoken(dv)) \in Spoken(dv)
    BY <2>1, MinOfNats
  <2> QED
    BY <2>2, <1>1
<1>5. first # 0 => SourceValue(d.srcs[first], r, dv) = SourceValue(d.srcs[first], r, dw)
  BY <1>4
<1> HIDE DEF Spoken
<1> QED
  BY <1>2, <1>3, <1>5

LEMMA FactsAre ==
  /\ Fx.derived = DerivedUpTo(t, rec)[Len(t.derived)]
  /\ \A c \in DOMAIN t.conds : Fx.holds[c] <=> EvalCond(t.conds[c], rec, Fx.derived)
<1> DEFINE dv == DerivedUpTo(t, rec)[Len(t.derived)]
<1>1. Fx = [derived |-> dv, holds |-> [c \in DOMAIN t.conds |-> EvalCond(t.conds[c], rec, dv)]]
  BY DEF Fx, Facts
<1> HIDE DEF dv
<1>2. Fx.derived = dv /\ Fx.holds = [c \in DOMAIN t.conds |-> EvalCond(t.conds[c], rec, dv)]
  BY <1>1
<1> QED
  BY <1>2 DEF dv

(* A required derived value that is on is empty. *)
MissesAt(n) ==
  LET d == t.derived[n]
      before == DerivedUpTo(t, rec)[n - 1]
  IN  /\ d.required
      /\ d.when = 0 \/ EvalCond(t.conds[d.when], rec, before)
      /\ DerivedText(d, rec, before) = ""

DerivedKnown(n) ==
  \A d \in DOMAIN t.derived : d < n => derivedVals[d] = Fx.derived[d] /\ ~MissesAt(d)

LEMMA MissingIs == RequiredMissing(t, rec) <=> \E n \in DOMAIN t.derived : MissesAt(n)
BY DEF RequiredMissing, MissesAt

LEMMA DerivedTable ==
  ASSUME t \in Configs
  PROVE  Len(t.derived) \in Nat /\ DOMAIN t.derived = 1..Len(t.derived)
<1>1. IsASeq(t.derived)
  BY ConfigsAssumption DEF WellFormed
<1> QED
  BY <1>1 DEF IsASeq

LEMMA FactValues ==
  ASSUME t \in Configs
  PROVE  /\ Fx.derived = [d \in DOMAIN t.derived |-> Fx.derived[d]]
         /\ \A d \in DOMAIN t.derived :
              /\ Fx.derived[d] = ValueAfter(t, rec, d, DerivedUpTo(t, rec)[d - 1])
              /\ \A n \in 0..Len(t.derived) : d <= n => DerivedUpTo(t, rec)[n][d] = Fx.derived[d]
<1>1. Len(t.derived) \in Nat /\ DOMAIN t.derived = 1..Len(t.derived)
  BY DerivedTable
<1> DEFINE dv == DerivedUpTo(t, rec)
<1>2. \A n \in 0 .. Len(t.derived) :
        /\ IsASeq(dv[n]) /\ Len(dv[n]) = n
        /\ \A d \in 1 .. n : dv[n][d] = ValueAfter(t, rec, d, dv[d - 1])
  BY <1>1, DerivedShape
<1>3. Fx.derived = dv[Len(t.derived)]
  BY FactsAre
<1> HIDE DEF dv
<1>4. Len(t.derived) \in 0..Len(t.derived)
  BY <1>1
<1>5. Fx.derived = [d \in DOMAIN t.derived |-> Fx.derived[d]]
  <2>1. \A s : IsASeq(s) => s = [p \in 1..Len(s) |-> s[p]]
    BY DEF IsASeq
  <2> QED
    BY <2>1, <1>1, <1>2, <1>3, <1>4
<1>6. \A d \in DOMAIN t.derived : Fx.derived[d] = ValueAfter(t, rec, d, dv[d - 1])
  BY <1>1, <1>2, <1>3, <1>4
<1>7. \A d \in DOMAIN t.derived, n \in 0..Len(t.derived) : d <= n => dv[n][d] = Fx.derived[d]
  <2> TAKE d \in DOMAIN t.derived, n \in 0..Len(t.derived)
  <2>1. d <= n => d \in 1..n
    BY <1>1
  <2> QED
    BY <2>1, <1>2, <1>6
<1> QED
  BY <1>5, <1>6, <1>7 DEF dv

(* What comes before the n-th derived value gives a list of sources that    *)
(* reads no later one all it needs.                                         *)
LEMMA KnownSources ==
  ASSUME t \in Configs, NEW n \in DOMAIN t.derived, DerivedKnown(n),
         NEW srcs, AreSourcesOf(t, srcs), DerivedBefore(srcs, n)
  PROVE  \A s \in DOMAIN srcs :
           SourceValue(srcs[s], rec, derivedVals)
             = SourceValue(srcs[s], rec, DerivedUpTo(t, rec)[n - 1])
<1> DEFINE dv == DerivedUpTo(t, rec)[n - 1]
<1> TAKE s \in DOMAIN srcs
<1> DEFINE from == Origin(srcs[s])
<1>1. CASE from.kind = "derived"
  <2> DEFINE i == from.idx
  <2>1. i \in DOMAIN t.derived /\ i < n
    BY <1>1 DEF AreSourcesOf, DerivedBefore
  <2>2. derivedVals[i] = Fx.derived[i]
    BY <2>1 DEF DerivedKnown
  <2>3. n - 1 \in 0..Len(t.derived) /\ i <= n - 1
    BY <2>1, DerivedTable
  <2>4. dv[i] = Fx.derived[i]
    BY <2>1, <2>3, FactValues
  <2> HIDE DEF dv
  <2>5. derivedVals[from.idx] = dv[from.idx]
    BY <2>2, <2>4
  <2> HIDE DEF i
  <2>6. SourceValue(srcs[s], rec, derivedVals) = SourceValue(srcs[s], rec, dv)
    BY <2>5, SourceSame
  <2> QED
    BY <2>6 DEF dv
<1>2. CASE from.kind # "derived"
  BY <1>2, SourceSame
<1> QED
  BY <1>1, <1>2

(* A derived value reads earlier ones only, and so does its condition. *)
LEMMA DerivedReads ==
  ASSUME t \in Configs, NEW n \in DOMAIN t.derived
  PROVE  /\ AreSourcesOf(t, t.derived[n].srcs) /\ DerivedBefore(t.derived[n].srcs, n)
         /\ t.derived[n].when # 0 =>
              /\ t.derived[n].when \in DOMAIN t.conds
              /\ AreSourcesOf(t, t.conds[t.derived[n].when].srcs)
              /\ DerivedBefore(t.conds[t.derived[n].when].srcs, n)
<1>1. WellFormed(t) /\ HasTables(t)
  BY ConfigsAssumption
<1>2. ASSUME NEW srcs, ReadsBefore(srcs, n)
      PROVE  DerivedBefore(srcs, n)
  BY <1>2 DEF ReadsBefore, DerivedIdx, DerivedBefore
<1>3. AreSourcesOf(t, t.derived[n].srcs) /\ IsWhen(t, t.derived[n].when)
  BY <1>1 DEF HasTables
<1>4. /\ ReadsBefore(t.derived[n].srcs, n)
      /\ t.derived[n].when # 0 => ReadsBefore(t.conds[t.derived[n].when].srcs, n)
      /\ \A c \in DOMAIN t.conds : AreSourcesOf(t, t.conds[c].srcs)
  BY <1>1 DEF WellFormed
<1>5. t.derived[n].when # 0 => t.derived[n].when \in DOMAIN t.conds
  BY <1>3 DEF IsWhen
<1> QED
  BY <1>2, <1>3, <1>4, <1>5

(* computeDerived gives what Rows has. *)
LEMMA DerivedStep ==
  ASSUME CacheInv, pc = "derive", k \in DOMAIN t.derived, DerivedKnown(k)
  PROVE  LET d == t.derived[k]
             text == IF CondOK(d.when) THEN DerivedText(d, rec, derivedVals) ELSE ""
         IN  /\ text = Fx.derived[k]
             /\ CondOK(d.when) /\ d.required /\ text = "" <=> MissesAt(k)
<1> DEFINE d == t.derived[k]
           dv == DerivedUpTo(t, rec)[k - 1]
<1>1. t \in Configs /\ WellFormed(t) /\ HasTables(t)
  BY ConfigsAssumption DEF CacheInv
<1>2. CondOK(d.when) <=> d.when = 0 \/ EvalCond(t.conds[d.when], rec, dv)
  <2>1. CASE d.when = 0
    BY <2>1 DEF CondOK
  <2>2. CASE d.when # 0
    <3> DEFINE c == t.conds[d.when]
    <3>1. d.when \in DOMAIN t.conds /\ AreSourcesOf(t, c.srcs) /\ DerivedBefore(c.srcs, k)
      BY <1>1, <2>2, DerivedReads
    <3>2. CondOK(d.when) <=> EvalCond(c, rec, derivedVals)
      BY <2>2, <3>1 DEF CondOK, CacheInv, Truthful
    <3> HIDE DEF c
    <3>3. \A s \in DOMAIN c.srcs : SourceValue(c.srcs[s], rec, derivedVals) = SourceValue(c.srcs[s], rec, dv)
      BY <1>1, <3>1, KnownSources
    <3> HIDE DEF dv
    <3>4. EvalCond(c, rec, derivedVals) <=> EvalCond(c, rec, dv)
      BY <3>1, <3>3, EvalSame DEF AreSourcesOf
    <3> QED
      BY <2>2, <3>2, <3>4 DEF c
  <2> QED
    BY <2>1, <2>2
<1>3. DerivedText(d, rec, derivedVals) = DerivedText(d, rec, dv)
  <2>1. AreSourcesOf(t, d.srcs) /\ DerivedBefore(d.srcs, k)
    BY <1>1, DerivedReads
  <2> HIDE DEF d
  <2>2. \A s \in DOMAIN d.srcs : SourceValue(d.srcs[s], rec, derivedVals) = SourceValue(d.srcs[s], rec, dv)
    BY <1>1, <2>1, KnownSources
  <2> HIDE DEF dv
  <2> QED
    BY <2>1, <2>2, TextSame DEF AreSourcesOf
<1>4. Fx.derived[k] = IF d.when = 0 \/ EvalCond(t.conds[d.when], rec, dv)
                      THEN DerivedText(d, rec, dv) ELSE ""
  BY <1>1, FactValues DEF ValueAfter
<1>5. MissesAt(k) <=> /\ d.required
                      /\ d.when = 0 \/ EvalCond(t.conds[d.when], rec, dv)
                      /\ DerivedText(d, rec, dv) = ""
  BY DEF MissesAt
<1> HIDE DEF d, dv
<1> QED
  BY <1>2, <1>3, <1>4, <1>5 DEF d

(* Once the derived values are there, conditions are asked what Rows asks.  *)
LEMMA AskIs ==
  ASSUME CacheInv, pc \notin {"new", "done", "derive"}, derivedVals = Fx.derived,
         NEW when, IsWhen(t, when)
  PROVE  CondOK(when) <=> Holds(Fx, when)
<1>1. CASE when = 0
  BY <1>1 DEF CondOK, Holds
<1>2. CASE when # 0
  <2>1. when \in DOMAIN t.conds
    BY <1>2 DEF IsWhen
  <2>2. CondOK(when) <=> EvalCond(t.conds[when], rec, derivedVals)
    BY <1>2, <2>1 DEF CondOK, CacheInv, Truthful
  <2> QED
    BY <1>2, <2>1, <2>2, FactsAre DEF Holds
<1> QED
  BY <1>1, <1>2

-----------------------------------------------------------------------------
(* What a record decides for all of its rows, and what is kept of it.       *)

(* The first n groups and sections are on as Rows has them, and the first n *)
(* columns have reserved their names if they are active.                    *)
GroupsKnown(n) == \A g \in DOMAIN t.groups : g <= n => (groupOn[g] <=> Holds(Fx, t.groups[g].when))

SectionsKnown(n) == \A s \in DOMAIN t.sections : s <= n => (secOn[s] <=> IsOn(t, Fx, s))

ActiveUpto(n) == {c \in ActiveColumns(t, Fx) : c <= n}

ReservedBy(n, c) ==
  /\ c \in ActiveUpto(n)
  /\ \A b \in ActiveUpto(n) : t.columns[b].name = t.columns[c].name => c <= b

NameKnown(name, n) ==
  /\ reserved[name] # "free" <=> \E c \in ActiveUpto(n) : t.columns[c].name = name
  /\ reserved[name] = "quiet" <=>
       \E c \in ActiveUpto(n) : t.columns[c].name = name /\ t.columns[c].quiet /\ ReservedBy(n, c)

ReservedKnown(n) == \A name \in ColumnNames(t) : NameKnown(name, n)

FactInv ==
  /\ pc \notin {"new", "done"} => err = "none"
  /\ pc = "derive" => DerivedKnown(k)
  /\ pc \in {"groups", "sections", "reserve", "outputs"} \cup InRow =>
       derivedVals = Fx.derived /\ ~RequiredMissing(t, rec)
  /\ pc = "groups" => GroupsKnown(k - 1)
  /\ pc \in {"sections", "reserve", "outputs"} \cup InRow => GroupsKnown(Len(t.groups))
  /\ pc = "sections" => SectionsKnown(k - 1)
  /\ pc \in {"reserve", "outputs"} \cup InRow => SectionsKnown(Len(t.sections))
  /\ pc = "reserve" => ReservedKnown(k - 1)
  /\ pc \in {"outputs"} \cup InRow => ReservedKnown(Len(t.columns))

LEMMA MoreTables ==
  ASSUME t \in Configs
  PROVE  /\ WellFormed(t) /\ HasTables(t)
         /\ Len(t.groups) \in Nat /\ DOMAIN t.groups = 1..Len(t.groups)
         /\ Len(t.sections) \in Nat /\ DOMAIN t.sections = 1..Len(t.sections)
         /\ Len(t.columns) \in Nat /\ DOMAIN t.columns = 1..Len(t.columns)
         /\ \A g \in DOMAIN t.groups : IsWhen(t, t.groups[g].when)
         /\ \A s \in DOMAIN t.sections : IsWhen(t, t.sections[s].when)
         /\ \A c \in DOMAIN t.columns : IsWhen(t, t.columns[c].when)
         /\ \A o \in DOMAIN t.outputs : IsWhen(t, t.outputs[o].when)
<1>1. WellFormed(t) /\ HasTables(t)
  BY ConfigsAssumption
<1>2. IsASeq(t.groups) /\ IsASeq(t.sections) /\ IsASeq(t.columns)
  BY <1>1 DEF WellFormed, HasTables
<1>3. \A s : IsASeq(s) => Len(s) \in Nat /\ DOMAIN s = 1..Len(s)
  BY DEF IsASeq
<1>4. \A c \in DOMAIN t.columns : IsWhen(t, t.columns[c].when)
  BY <1>1 DEF WellFormed, IsWhen
<1>5. /\ \A g \in DOMAIN t.groups : IsWhen(t, t.groups[g].when)
      /\ \A s \in DOMAIN t.sections : IsWhen(t, t.sections[s].when)
      /\ \A o \in DOMAIN t.outputs : IsWhen(t, t.outputs[o].when)
  BY <1>1 DEF HasTables
<1> QED
  BY <1>1, <1>2, <1>3, <1>4, <1>5

(* What is known is so in the next state, if nothing it is about changes. *)
LEMMA FactsStay ==
  ASSUME UNCHANGED <<t, rec>>
  PROVE  /\ derivedVals = Fx.derived /\ ~RequiredMissing(t, rec) /\ UNCHANGED derivedVals
              => (derivedVals = Fx.derived /\ ~RequiredMissing(t, rec))'
         /\ \A n : GroupsKnown(n) /\ UNCHANGED groupOn => GroupsKnown(n)'
         /\ \A n : SectionsKnown(n) /\ UNCHANGED secOn => SectionsKnown(n)'
         /\ \A n : ReservedKnown(n) /\ UNCHANGED reserved => ReservedKnown(n)'
<1>1. Fx' = Fx
  BY RecordStays
<1>2. ASSUME NEW n, GroupsKnown(n), UNCHANGED groupOn
      PROVE  GroupsKnown(n)'
  BY <1>1, <1>2 DEF GroupsKnown
<1>3. ASSUME NEW n, SectionsKnown(n), UNCHANGED secOn
      PROVE  SectionsKnown(n)'
  BY <1>1, <1>3 DEF SectionsKnown
<1>4. ASSUME NEW n, ReservedKnown(n), UNCHANGED reserved
      PROVE  ReservedKnown(n)'
  <2>1. ActiveUpto(n)' = ActiveUpto(n)
    BY <1>1 DEF ActiveUpto
  <2>2. \A c : ReservedBy(n, c)' <=> ReservedBy(n, c)
    BY <2>1 DEF ReservedBy
  <2>3. ASSUME NEW name
        PROVE  NameKnown(name, n)' <=> NameKnown(name, n)
    BY <1>4, <2>1, <2>2 DEF NameKnown
  <2> QED
    BY <1>4, <2>3 DEF ReservedKnown
<1>5. derivedVals = Fx.derived /\ ~RequiredMissing(t, rec) /\ UNCHANGED derivedVals
        => (derivedVals = Fx.derived /\ ~RequiredMissing(t, rec))'
  BY <1>1
<1> QED
  BY <1>1, <1>2, <1>3, <1>4, <1>5

LEMMA RowKeepsFacts ==
  ASSUME FactInv, UNCHANGED <<t, rec, derivedVals, groupOn, secOn, reserved>>,
         pc \in {"outputs"} \cup InRow,
         pc' = "done" \/ (pc' \in {"outputs"} \cup InRow /\ err' = "none")
  PROVE  FactInv'
<1>1. CASE pc' = "done"
  BY <1>1 DEF FactInv, InRow
<1>2. CASE pc' \in {"outputs"} \cup InRow /\ err' = "none"
  <2>1. /\ (derivedVals = Fx.derived /\ ~RequiredMissing(t, rec))'
        /\ GroupsKnown(Len(t.groups))' /\ SectionsKnown(Len(t.sections))' /\ ReservedKnown(Len(t.columns))'
    <3>1. /\ derivedVals = Fx.derived /\ ~RequiredMissing(t, rec)
          /\ GroupsKnown(Len(t.groups)) /\ SectionsKnown(Len(t.sections)) /\ ReservedKnown(Len(t.columns))
      BY DEF FactInv
    <3> DEFINE g == Len(t.groups)
               s == Len(t.sections)
               c == Len(t.columns)
    <3>2. g' = g /\ s' = s /\ c' = c
      OBVIOUS
    <3> QED
      BY <3>1, <3>2, FactsStay
  <2> QED
    BY <1>2, <2>1 DEF FactInv, InRow
<1> QED
  BY <1>1, <1>2

LEMMA ComputeDerivedKeepsFacts ==
  ASSUME CacheInv, FactInv, ComputeDerived
  PROVE  FactInv' /\ (pc' = "done" => err' = "ErrRequired" /\ RequiredMissing(t, rec)')
<1> DEFINE d == t.derived[k]
           text == IF CondOK(d.when) THEN DerivedText(d, rec, derivedVals) ELSE ""
<1>1. /\ pc = "derive" /\ k \in DOMAIN t.derived /\ UNCHANGED <<t, rec>>
      /\ derivedVals' = [derivedVals EXCEPT ![k] = text]
      /\ err' = IF CondOK(d.when) /\ d.required /\ text = "" THEN "ErrRequired" ELSE err
      /\ Continue
  BY DEF ComputeDerived, ComputeDerivedWith
<1>2. DerivedKnown(k) /\ err = "none"
  BY <1>1 DEF FactInv
<1>3. /\ text = Fx.derived[k]
      /\ CondOK(d.when) /\ d.required /\ text = "" <=> MissesAt(k)
  BY <1>1, <1>2, DerivedStep
<1> HIDE DEF text, d
<1>4. CASE MissesAt(k)
  <2>1. RequiredMissing(t, rec)
    BY <1>1, <1>4, MissingIs
  <2>2. err' = "ErrRequired" /\ pc' = "done"
    BY <1>1, <1>3, <1>4 DEF Continue, Goto
  <2> QED
    BY <1>1, <2>1, <2>2 DEF FactInv, InRow
<1>5. CASE ~MissesAt(k)
  <2>1. err' = "none" /\ pc' = "derive" /\ k' = k + 1
    BY <1>1, <1>2, <1>3, <1>5 DEF Continue
  <2>2. Fx' = Fx
    BY <1>1, RecordStays
  <2>3. \A n : MissesAt(n)' <=> MissesAt(n)
    BY <1>1 DEF MissesAt
  <2>4. ASSUME NEW n \in DOMAIN t.derived, n < k + 1
        PROVE  derivedVals'[n] = Fx.derived[n] /\ ~MissesAt(n)
    <3>1. CASE n = k
      BY <3>1, <1>1, <1>3, <1>5 DEF CacheInv
    <3>2. CASE n # k
      <4>1. n < k
        BY <2>4, <3>2, DerivedTable DEF CacheInv
      <4> QED
        BY <4>1, <3>2, <1>1, <1>2 DEF DerivedKnown, CacheInv
    <3> QED
      BY <3>1, <3>2
  <2>5. DerivedKnown(k)'
    BY <1>1, <2>1, <2>2, <2>3, <2>4 DEF DerivedKnown
  <2> QED
    BY <2>1, <2>5 DEF FactInv, InRow
<1> QED
  BY <1>4, <1>5

LEMMA SwitchGroupKeepsFacts ==
  ASSUME CacheInv, NameTypes, TypeInv, FactInv, SwitchGroup
  PROVE  FactInv'
<1> DEFINE when == t.groups[k].when
<1>1. /\ pc = "groups" /\ k \in DOMAIN t.groups
      /\ groupOn' = [groupOn EXCEPT ![k] = CondOK(when)]
      /\ pc' = pc /\ k' = k + 1 /\ UNCHANGED <<t, rec, derivedVals, err>>
  BY DEF SwitchGroup
<1>2. CondOK(when) <=> Holds(Fx, when)
  BY <1>1, AskIs, MoreTables DEF CacheInv, FactInv
<1>3. Fx' = Fx /\ (derivedVals = Fx.derived /\ ~RequiredMissing(t, rec))'
  BY <1>1, RecordStays, FactsStay DEF FactInv
<1>4. ASSUME NEW g \in DOMAIN t.groups, g <= k
      PROVE  groupOn'[g] <=> Holds(Fx, t.groups[g].when)
  <2>1. CASE g = k
    BY <2>1, <1>1, <1>2 DEF TypeInv, RecordTypes
  <2>2. CASE g # k
    <3>1. g <= k - 1
      BY <1>4, <2>2, MoreTables DEF NameTypes
    <3>2. groupOn[g] <=> Holds(Fx, t.groups[g].when)
      BY <3>1, <1>1 DEF FactInv, GroupsKnown
    <3> QED
      BY <3>2, <2>2, <1>1 DEF TypeInv, RecordTypes
  <2> QED
    BY <2>1, <2>2
<1>5. GroupsKnown(k - 1)'
  <2>1. k' - 1 = k
    BY <1>1 DEF NameTypes
  <2> QED
    BY <1>1, <1>3, <1>4, <2>1 DEF GroupsKnown
<1> QED
  BY <1>1, <1>3, <1>5 DEF FactInv, InRow

LEMMA SwitchSectionKeepsFacts ==
  ASSUME CacheInv, NameTypes, TypeInv, FactInv, SwitchSection
  PROVE  FactInv'
<1> DEFINE section == t.sections[k]
<1>1. /\ pc = "sections" /\ k \in DOMAIN t.sections
      /\ secOn' = [secOn EXCEPT ![k] = ~section.dead /\ CondOK(section.when)]
      /\ pc' = pc /\ k' = k + 1 /\ UNCHANGED <<t, rec, derivedVals, groupOn, err>>
  BY DEF SwitchSection
<1>2. CondOK(section.when) <=> Holds(Fx, section.when)
  BY <1>1, AskIs, MoreTables DEF CacheInv, FactInv
<1>3. /\ Fx' = Fx /\ (derivedVals = Fx.derived /\ ~RequiredMissing(t, rec))'
      /\ GroupsKnown(Len(t.groups))'
  <2>1. derivedVals = Fx.derived /\ ~RequiredMissing(t, rec) /\ GroupsKnown(Len(t.groups))
    BY <1>1 DEF FactInv
  <2> DEFINE g == Len(t.groups)
  <2>2. g' = g
    BY <1>1
  <2> HIDE DEF g
  <2>3. GroupsKnown(g)'
    BY <1>1, <2>1, <2>2, FactsStay DEF g
  <2> QED
    BY <1>1, <2>1, <2>3, RecordStays, FactsStay DEF g
<1>4. ASSUME NEW s \in DOMAIN t.sections, s <= k
      PROVE  secOn'[s] <=> IsOn(t, Fx, s)
  <2>1. CASE s = k
    BY <2>1, <1>1, <1>2 DEF TypeInv, RecordTypes, IsOn
  <2>2. CASE s # k
    <3>1. s <= k - 1
      BY <1>4, <2>2, MoreTables DEF NameTypes
    <3>2. secOn[s] <=> IsOn(t, Fx, s)
      BY <3>1, <1>1 DEF FactInv, SectionsKnown
    <3> QED
      BY <3>2, <2>2, <1>1 DEF TypeInv, RecordTypes
  <2> QED
    BY <2>1, <2>2
<1>5. SectionsKnown(k - 1)'
  <2>1. k' - 1 = k
    BY <1>1 DEF NameTypes
  <2> QED
    BY <1>1, <1>3, <1>4, <2>1 DEF SectionsKnown
<1> QED
  BY <1>1, <1>3, <1>5 DEF FactInv, InRow

(* The first active column of a name is the first to reserve it. *)
LEMMA ReserveStep ==
  ASSUME NameTypes, NEW c \in DOMAIN t.columns, ReservedKnown(c - 1),
         NEW on, on <=> Holds(Fx, t.columns[c].when),
         UNCHANGED <<t, rec>>,
         reserved' = IF reserved[t.columns[c].name] # "free" \/ ~on THEN reserved
                     ELSE [reserved EXCEPT ![t.columns[c].name] =
                            IF t.columns[c].quiet THEN "quiet" ELSE "reserved"]
  PROVE  ReservedKnown(c)'
<1> DEFINE own == t.columns[c].name
<1>1. c \in Nat /\ DOMAIN t.columns \subseteq Nat
  BY MoreTables DEF NameTypes
<1>2. ActiveUpto(c) = IF on THEN ActiveUpto(c - 1) \cup {c} ELSE ActiveUpto(c - 1)
  BY <1>1 DEF ActiveUpto, ActiveColumns
<1>3. \A b \in ActiveUpto(c - 1) : b \in Nat /\ b < c
  BY <1>1 DEF ActiveUpto, ActiveColumns
<1>4. own \in ColumnNames(t)
  BY DEF ColumnNames
<1>5. Fx' = Fx
  BY RecordStays
<1>6. ASSUME NEW name \in ColumnNames(t)
      PROVE  /\ reserved'[name] # "free" <=> \E b \in ActiveUpto(c) : t.columns[b].name = name
             /\ reserved'[name] = "quiet" <=>
                  \E b \in ActiveUpto(c) : t.columns[b].name = name /\ t.columns[b].quiet /\ ReservedBy(c, b)
  <2>1. NameKnown(name, c - 1)
    BY DEF ReservedKnown
  <2>2. CASE name # own \/ ~on
    <3>1. reserved'[name] = reserved[name]
      BY <2>2, <1>4 DEF NameTypes
    <3>2. \A b : b \in ActiveUpto(c) /\ t.columns[b].name = name
                   <=> b \in ActiveUpto(c - 1) /\ t.columns[b].name = name
      BY <2>2, <1>2
    <3>3. \A b : t.columns[b].name = name => (ReservedBy(c, b) <=> ReservedBy(c - 1, b))
      BY <3>2 DEF ReservedBy
    <3> QED
      BY <2>1, <3>1, <3>2, <3>3 DEF NameKnown
  <2>3. CASE name = own /\ on /\ reserved[own] # "free"
    <3>1. reserved' = reserved
      BY <2>3
    <3>2. PICK a \in ActiveUpto(c - 1) : t.columns[a].name = own
      BY <2>1, <2>3 DEF NameKnown
    <3>3. ~ReservedBy(c, c)
      BY <3>2, <1>1, <1>2, <1>3 DEF ReservedBy
    <3>4. \A b \in ActiveUpto(c - 1) : ReservedBy(c, b) <=> ReservedBy(c - 1, b)
      BY <1>1, <1>2, <1>3, <2>3 DEF ReservedBy
    <3>5. ActiveUpto(c) = ActiveUpto(c - 1) \cup {c}
      BY <1>2, <2>3
    <3> QED
      BY <2>1, <2>3, <3>1, <3>2, <3>3, <3>4, <3>5 DEF NameKnown
  <2>4. CASE name = own /\ on /\ reserved[own] = "free"
    <3>1. reserved'[own] = IF t.columns[c].quiet THEN "quiet" ELSE "reserved"
      BY <2>4, <1>4 DEF NameTypes
    <3>2. \A b \in ActiveUpto(c - 1) : t.columns[b].name # own
      BY <2>1, <2>4 DEF NameKnown
    <3>3. c \in ActiveUpto(c) /\ \A b \in ActiveUpto(c) : t.columns[b].name = own => b = c
      BY <3>2, <1>2, <2>4
    <3>4. ReservedBy(c, c)
      BY <3>3, <1>1 DEF ReservedBy
    <3> QED
      BY <2>4, <3>1, <3>3, <3>4
  <2> QED
    BY <2>2, <2>3, <2>4
<1> QED
  <2>1. ActiveUpto(c)' = ActiveUpto(c) /\ \A b : ReservedBy(c, b)' <=> ReservedBy(c, b)
    BY <1>5 DEF ActiveUpto, ReservedBy
  <2>2. ASSUME NEW name \in ColumnNames(t)
        PROVE  NameKnown(name, c)'
    BY <1>6, <2>1 DEF NameKnown
  <2> QED
    BY <2>2 DEF ReservedKnown

LEMMA ReserveKeepsFacts ==
  ASSUME CacheInv, NameTypes, FactInv, Reserve
  PROVE  FactInv'
<1> DEFINE c == t.columns[k]
<1>1. /\ pc = "reserve" /\ k \in DOMAIN t.columns
      /\ reserved' = IF reserved[c.name] # "free" \/ ~CondOK(c.when) THEN reserved
                     ELSE [reserved EXCEPT ![c.name] = IF c.quiet THEN "quiet" ELSE "reserved"]
      /\ pc' = pc /\ k' = k + 1 /\ UNCHANGED <<t, rec, derivedVals, groupOn, secOn, err>>
  <2>1. CASE reserved[c.name] # "free"
    BY <2>1 DEF Reserve
  <2>2. CASE reserved[c.name] = "free"
    BY <2>2 DEF Reserve
  <2> QED
    BY <2>1, <2>2
<1>2. CondOK(c.when) <=> Holds(Fx, c.when)
  BY <1>1, AskIs, MoreTables DEF CacheInv, FactInv
<1>3. ReservedKnown(k - 1)
  BY <1>1 DEF FactInv
<1>4. ReservedKnown(k - 1)'
  <2>1. PICK n : n = k
    OBVIOUS
  <2>2. /\ n \in DOMAIN t.columns /\ ReservedKnown(n - 1)
        /\ reserved' = IF reserved[t.columns[n].name] # "free" \/ ~CondOK(t.columns[n].when) THEN reserved
                       ELSE [reserved EXCEPT ![t.columns[n].name] =
                              IF t.columns[n].quiet THEN "quiet" ELSE "reserved"]
        /\ CondOK(t.columns[n].when) <=> Holds(Fx, t.columns[n].when)
    BY <1>1, <1>2, <1>3, <2>1
  <2>3. ReservedKnown(n)'
    BY <1>1, <2>2, ReserveStep
  <2>4. k' - 1 = n
    BY <1>1, <2>1 DEF NameTypes
  <2> QED
    BY <2>3, <2>4
<1>5. /\ (derivedVals = Fx.derived /\ ~RequiredMissing(t, rec))'
      /\ GroupsKnown(Len(t.groups))' /\ SectionsKnown(Len(t.sections))'
  <2>1. /\ derivedVals = Fx.derived /\ ~RequiredMissing(t, rec)
        /\ GroupsKnown(Len(t.groups)) /\ SectionsKnown(Len(t.sections))
    BY <1>1 DEF FactInv
  <2> DEFINE g == Len(t.groups)
             s == Len(t.sections)
  <2>2. g' = g /\ s' = s
    BY <1>1
  <2> HIDE DEF g, s
  <2>3. GroupsKnown(g)' /\ SectionsKnown(s)'
    BY <1>1, <2>1, <2>2, FactsStay DEF g, s
  <2> QED
    BY <1>1, <2>1, <2>3, FactsStay DEF g, s
<1> QED
  BY <1>1, <1>4, <1>5 DEF FactInv, InRow

(* The end of a loop finds all that it went through. *)
LEMMA PrepareKeepsFacts ==
  ASSUME CacheInv, NameTypes, TypeInv, FactInv, Prepare
  PROVE  FactInv'
<1>1. /\ UNCHANGED <<t, rec, derivedVals, groupOn, secOn, err>> /\ k' = 1 /\ err = "none"
      /\ k \in Nat \ {0} /\ t \in Configs
      /\ \/ pc = "derive" /\ k \notin DOMAIN t.derived /\ pc' = "groups"
         \/ pc = "groups" /\ k \notin DOMAIN t.groups /\ pc' = "sections"
         \/ pc = "sections" /\ k \notin DOMAIN t.sections /\ pc' = "reserve" /\ reserved' = AllFree
         \/ pc = "reserve" /\ k \notin DOMAIN t.columns /\ pc' = "outputs" /\ UNCHANGED reserved
  BY DEF Prepare, Goto, FactInv, NameTypes
<1> DEFINE g == Len(t.groups)
           s == Len(t.sections)
           c == Len(t.columns)
<1>2. /\ UNCHANGED <<g, s, c>>
      /\ g \in Nat /\ DOMAIN t.groups = 1..g
      /\ s \in Nat /\ DOMAIN t.sections = 1..s
      /\ c \in Nat /\ DOMAIN t.columns = 1..c
  BY <1>1, MoreTables
<1>3. Fx' = Fx
  BY <1>1, RecordStays
<1> HIDE DEF g, s, c
<1>4. CASE pc' = "groups"
  <2>1. pc = "derive" /\ k \notin DOMAIN t.derived /\ DerivedKnown(k)
    BY <1>1, <1>4 DEF FactInv
  <2>2. \A d \in DOMAIN t.derived : d < k
    BY <1>1, <2>1, DerivedTable
  <2>3. ~RequiredMissing(t, rec) /\ \A d \in DOMAIN t.derived : derivedVals[d] = Fx.derived[d]
    BY <2>1, <2>2, MissingIs DEF DerivedKnown
  <2>4. derivedVals = [d \in DOMAIN t.derived |-> derivedVals[d]]
    BY DEF TypeInv, RecordTypes
  <2>5. derivedVals = Fx.derived
    BY <1>1, <2>3, <2>4, FactValues
  <2>6. GroupsKnown(k - 1)'
    BY <1>1, <1>2 DEF GroupsKnown
  <2> QED
    BY <1>1, <1>3, <1>4, <2>3, <2>5, <2>6 DEF FactInv, InRow
<1>5. CASE pc' = "sections"
  <2>1. pc = "groups" /\ k \notin DOMAIN t.groups /\ GroupsKnown(k - 1)
        /\ derivedVals = Fx.derived /\ ~RequiredMissing(t, rec)
    BY <1>1, <1>5 DEF FactInv
  <2>2. GroupsKnown(g)'
    BY <1>1, <1>2, <1>3, <2>1 DEF GroupsKnown
  <2>3. SectionsKnown(k - 1)'
    BY <1>1, <1>2 DEF SectionsKnown
  <2> QED
    BY <1>1, <1>3, <1>5, <2>1, <2>2, <2>3 DEF FactInv, InRow, g
<1>6. CASE pc' = "reserve"
  <2>1. pc = "sections" /\ k \notin DOMAIN t.sections /\ SectionsKnown(k - 1) /\ GroupsKnown(g)
        /\ derivedVals = Fx.derived /\ ~RequiredMissing(t, rec)
    BY <1>1, <1>6 DEF FactInv, g
  <2>2. SectionsKnown(s)'
    BY <1>1, <1>2, <1>3, <2>1 DEF SectionsKnown
  <2>3. GroupsKnown(g)'
    BY <1>1, <1>2, <2>1, FactsStay
  <2>4. ReservedKnown(k - 1)'
    <3>1. reserved' = [name \in ColumnNames(t) |-> "free"]
      BY <1>1, <1>6 DEF AllFree
    <3>2. ActiveUpto(k - 1)' = {}
      BY <1>1, <1>2 DEF ActiveUpto, ActiveColumns
    <3>3. ASSUME NEW name \in ColumnNames(t)
          PROVE  NameKnown(name, k - 1)'
      BY <3>1, <3>2 DEF NameKnown
    <3> QED
      BY <1>1, <3>3 DEF ReservedKnown
  <2> QED
    BY <1>1, <1>3, <1>6, <2>1, <2>2, <2>3, <2>4 DEF FactInv, InRow, g, s
<1>7. CASE pc' = "outputs"
  <2>1. /\ pc = "reserve" /\ k \notin DOMAIN t.columns /\ ReservedKnown(k - 1)
        /\ SectionsKnown(s) /\ GroupsKnown(g)
        /\ derivedVals = Fx.derived /\ ~RequiredMissing(t, rec)
        /\ UNCHANGED reserved
    BY <1>1, <1>7 DEF FactInv, g, s
  <2>2. SectionsKnown(s)' /\ GroupsKnown(g)'
    BY <1>1, <1>2, <2>1, FactsStay
  <2>3. ReservedKnown(c)
    <3>1. ActiveUpto(k - 1) = ActiveUpto(c)
      BY <1>1, <1>2, <2>1 DEF ActiveUpto, ActiveColumns
    <3>2. \A b : ReservedBy(k - 1, b) <=> ReservedBy(c, b)
      BY <3>1 DEF ReservedBy
    <3>3. ASSUME NEW name \in ColumnNames(t)
          PROVE  NameKnown(name, c)
      BY <2>1, <3>1, <3>2 DEF NameKnown, ReservedKnown
    <3> QED
      BY <3>3 DEF ReservedKnown
  <2>4. ReservedKnown(c)'
    BY <1>1, <1>2, <2>1, <2>3, FactsStay
  <2> QED
    BY <1>1, <1>3, <1>7, <2>1, <2>2, <2>4 DEF FactInv, InRow, g, s, c
<1> QED
  BY <1>1, <1>4, <1>5, <1>6, <1>7

LEMMA BuildKeepsFacts ==
  ASSUME CacheInv, NEW r, Build(r)
  PROVE  FactInv'
<1>1. \/ pc' = "derive" /\ err' = "none" /\ k' = 1 /\ UNCHANGED t
      \/ pc' = "done"
  BY DEF Build, Goto
<1>2. ASSUME k' = 1, UNCHANGED t
      PROVE  DerivedKnown(k)'
  BY <1>2, DerivedTable DEF DerivedKnown, CacheInv
<1> QED
  BY <1>1, <1>2 DEF FactInv, InRow

(* What rows are made from is what Rows makes them from. *)
LEMMA OwnersAreKnown ==
  ASSUME t \in Configs, NameTypes, ReservedKnown(Len(t.columns))
  PROVE  OwnersKnown
<1> DEFINE n == Len(t.columns)
<1>1. n \in Nat /\ DOMAIN t.columns = 1..n
  BY MoreTables
<1>2. ReservedKnown(n)
  OBVIOUS
<1> HIDE DEF n
<1>3. ActiveUpto(n) = ActiveColumns(t, Fx)
  BY <1>1 DEF ActiveUpto, ActiveColumns
<1>4. \A name : /\ name \in Owned(t, Fx) <=> \E c \in ActiveUpto(n) : t.columns[c].name = name
                /\ name \in OwnedQuietly(t, Fx) <=>
                     \E c \in ActiveUpto(n) : /\ t.columns[c].name = name
                                              /\ t.columns[c].quiet /\ ReservedBy(n, c)
  BY <1>3 DEF Owned, OwnedQuietly, ReservedBy
<1>5. ASSUME NEW name
      PROVE  /\ Owner(name) \in {"free", "reserved", "quiet"}
             /\ Owner(name) # "free" <=> name \in Owned(t, Fx)
             /\ Owner(name) = "quiet" <=> name \in OwnedQuietly(t, Fx)
  <2>1. CASE name \in ColumnNames(t)
    <3>1. Owner(name) = reserved[name] /\ reserved[name] \in {"free", "reserved", "quiet"}
      BY <2>1 DEF Owner, NameTypes
    <3>2. NameKnown(name, n)
      BY <1>2, <2>1 DEF ReservedKnown
    <3> QED
      BY <3>1, <3>2, <1>4 DEF NameKnown
  <2>2. CASE name \notin ColumnNames(t)
    <3>1. Owner(name) = "free"
      BY <2>2 DEF Owner, NameTypes
    <3>2. \A c \in ActiveUpto(n) : t.columns[c].name # name
      BY <2>2, <1>3 DEF ActiveColumns, ColumnNames
    <3> QED
      BY <3>1, <3>2, <1>4
  <2> QED
    BY <2>1, <2>2
<1> QED
  BY <1>5 DEF OwnersKnown

LEMMA KeyIs ==
  ASSUME t \in Configs, TypeInv, GroupsKnown(Len(t.groups)), NEW a
  PROVE  FixedKey(t, groupOn, NodeOf(rec, a).key) = KeyOf(t, rec, Fx, a)
<1> DEFINE key == NodeOf(rec, a).key
           on == [g \in DOMAIN t.groups |-> Holds(Fx, t.groups[g].when)]
           Hits(f) == {g \in DOMAIN t.groups : f[g] /\ key \in DOMAIN t.groups[g].to}
<1>1. \A g \in DOMAIN t.groups : groupOn[g] <=> on[g]
  BY MoreTables DEF GroupsKnown
<1>2. Hits(groupOn) = Hits(on)
  BY <1>1
<1> HIDE DEF on
<1>3. ASSUME NEW f
      PROVE  FixedKey(t, f, key) =
               LET aliased == IF Hits(f) = {} THEN key
                              ELSE t.groups[CHOOSE g \in Hits(f) : \A x \in Hits(f) : g <= x].to[key]
               IN  IF aliased \in DOMAIN t.digit THEN t.digit[aliased] ELSE aliased
  BY DEF FixedKey
<1>4. KeyOf(t, rec, Fx, a) = FixedKey(t, on, key)
  BY DEF KeyOf, on
<1> HIDE DEF key, Hits
<1>5. FixedKey(t, groupOn, key) = FixedKey(t, on, key)
  BY <1>2, <1>3
<1> QED
  BY <1>4, <1>5 DEF key

LEMMA ActiveIs ==
  ASSUME NEW o, AtHand(o), SectionsKnown(Len(t.sections))
  PROVE  /\ \A s : s \in ActiveIn(o) <=> s \in t.outputs[o].member /\ IsOn(t, Fx, s)
         /\ \A a : a \in RowNodes(o) <=>
              \E s \in ActiveIn(o) : \E p \in DOMAIN rec.nodes[s] : a = NodeAt(s, p)
<1>1. \A s \in t.outputs[o].member : secOn[s] <=> IsOn(t, Fx, s)
  BY Tables DEF SectionsKnown
<1>2. \A s : s \in ActiveIn(o) <=> s \in t.outputs[o].member /\ IsOn(t, Fx, s)
  BY <1>1 DEF ActiveIn
<1> QED
  BY <1>2, RowNodeIs

(* An output matches exactly if its row is started. *)
LEMMA MatchIs ==
  ASSUME CacheInv, FactInv, pc = "outputs", NEW o \in DOMAIN t.outputs
  PROVE  o \in Matching(t, Fx) <=> CondOK(t.outputs[o].when) /\ IsNamed(t.outputs[o])
<1>1. CondOK(t.outputs[o].when) <=> Holds(Fx, t.outputs[o].when)
  BY AskIs, MoreTables DEF CacheInv, FactInv
<1>2. IsNamed(t.outputs[o]) <=> t.outputs[o].nameFrom = 0 \/ Fx.derived[t.outputs[o].nameFrom] # ""
  BY DEF IsNamed, FactInv
<1> QED
  BY <1>1, <1>2 DEF Matching

-----------------------------------------------------------------------------
(* What merges and the rest column are left.                                *)

LEMMA SameRest ==
  ASSUME NEW o, NEW P, NEW Q, RestState(o, P), RestOf(o) \cap Q = RestOf(o) \cap P, UNCHANGED <<t, rec, rest>>
  PROVE  RestState(o, Q)'
<1>1. RestOf(o)' = RestOf(o) /\ RestEntry(o)' = RestEntry(o)
  BY RecordStays
<1> QED
  BY <1>1 DEF RestState

LEMMA SameSlots ==
  ASSUME NEW o, NEW P, NEW Q, SlotState(o, P), RowNodes(o) \cap Q = RowNodes(o) \cap P,
         UNCHANGED <<t, rec, slots>>
  PROVE  SlotState(o, Q)'
<1>1. RowNodes(o)' = RowNodes(o) /\ Slots' = Slots
  BY RecordStays
<1> QED
  BY <1>1 DEF SlotState

(* collect adds a key that keep has removed (collect). *)
LEMMA CollectedIsListed ==
  ASSUME NEW o, NEW P, NEW x, AtHand(o), IsNext(o, P, x), RestState(o, P), x \in RestOf(o),
         UNCHANGED <<t, rec>>,
         rest' = Append(rest, <<KeyOf(t, rec, Fx, x), NodeOf(rec, x).val.id>>)
  PROVE  RestState(o, P \cup {x})'
<1> DEFINE Q == P \cup {x}
<1>1. RestOf(o)' = RestOf(o) /\ RestEntry(o)' = RestEntry(o)
  BY RecordStays
<1>2. x \in RowNodes(o)
  BY SetsAre
<1>3. rest' = Append(rest, RestEntry(o)[x])
  BY <1>2 DEF RestEntry
<1>4. \A a \in RestOf(o) \cap P : Precedes(a, x)
  BY NextIsNew
<1>5. IsListing(rest, RestOf(o) \cap P, RestEntry(o))
  BY DEF RestState
<1>6. IsListing(Append(rest, RestEntry(o)[x]), (RestOf(o) \cap P) \cup {x}, RestEntry(o))
  BY <1>4, <1>5, ListingMore
<1>7. RestOf(o) \cap Q = (RestOf(o) \cap P) \cup {x}
  OBVIOUS
<1> HIDE DEF Q
<1>8. RestState(o, Q)'
  BY <1>1, <1>3, <1>6, <1>7 DEF RestState
<1> QED
  BY <1>8 DEF Q

(* The last node that a slot names is the one it holds (handle). *)
LEMMA LastIsCaptured ==
  ASSUME NEW o, NEW P, NEW x, AtHand(o), IsNext(o, P, x), SlotState(o, P), x \in RowNodes(o),
         DOMAIN slots = Slots, UNCHANGED <<t, rec>>,
         slots' = IF Capturable(NodeOf(rec, x).val)
                  THEN [s \in DOMAIN slots |-> IF s \in NodeOf(rec, x).slots THEN NodeOf(rec, x).val
                                               ELSE slots[s]]
                  ELSE slots
  PROVE  SlotState(o, P \cup {x})'
<1> DEFINE Old == RowNodes(o) \cap P
           New == RowNodes(o) \cap (P \cup {x})
           Hits(nodes, s) == {a \in nodes : s \in NodeOf(rec, a).slots /\ Capturable(NodeOf(rec, a).val)}
           Final(hits) == CHOOSE a \in hits : \A b \in hits : ~Precedes(a, b)
<1>1. New = Old \cup {x} /\ \A a \in Old : Precedes(a, x)
  BY NextIsNew
<1>2. ~Precedes(x, x) /\ \A a \in Old : a # x
  <2>1. x \in AllPlaces /\ P \subseteq AllPlaces
    BY PlacesInside DEF IsNext
  <2> QED
    BY <2>1, <1>1, PrecedesOrders
<1> HIDE DEF Old, New
<1>3. \A nodes, s : Captured(rec, nodes, s) = IF Hits(nodes, s) = {} THEN Missing
                                              ELSE NodeOf(rec, Final(Hits(nodes, s))).val
  BY DEF Captured
<1>4. ASSUME NEW s \in Slots
      PROVE  slots'[s] = Captured(rec, New, s)
  <2>1. slots[s] = Captured(rec, Old, s)
    BY DEF SlotState, Old
  <2>2. CASE Capturable(NodeOf(rec, x).val) /\ s \in NodeOf(rec, x).slots
    <3>1. slots'[s] = NodeOf(rec, x).val
      BY <2>2
    <3>2. Hits(New, s) = Hits(Old, s) \cup {x}
      BY <1>1, <2>2
    <3>3. x \in Hits(New, s) /\ \A b \in Hits(New, s) : ~Precedes(x, b)
      <4>1. \A b \in Old : ~Precedes(x, b)
        <5>1. x \in AllPlaces /\ P \subseteq AllPlaces
          BY PlacesInside DEF IsNext
        <5> QED
          BY <5>1, <1>1, PrecedesOrders DEF Old
      <4> QED
        BY <4>1, <3>2, <1>2
    <3>4. \A a \in Hits(New, s) : a # x => Precedes(a, x)
      BY <3>2, <1>1
    <3> HIDE DEF Hits
    <3>5. Final(Hits(New, s)) = x
      BY <3>3, <3>4
    <3> QED
      BY <1>3, <3>1, <3>3, <3>5
  <2>3. CASE ~(Capturable(NodeOf(rec, x).val) /\ s \in NodeOf(rec, x).slots)
    <3>1. slots'[s] = slots[s]
      BY <2>3
    <3>2. Hits(New, s) = Hits(Old, s)
      BY <1>1, <2>3
    <3> HIDE DEF Hits, Final
    <3> QED
      BY <1>3, <2>1, <3>1, <3>2
  <2> QED
    BY <2>2, <2>3
<1>5. RowNodes(o)' = RowNodes(o) /\ Slots' = Slots
  BY RecordStays
<1> QED
  BY <1>4, <1>5 DEF SlotState, New

(* When the sections are through, a merge finds what it is made from. *)
LEMMA MergeFinds ==
  ASSUME NEW o, AtHand(o), NEW m \in DOMAIN t.merges, NEW P, RowNodes(o) \subseteq P, SlotState(o, P)
  PROVE  Merged(t.merges[m].mode, [p \in DOMAIN t.merges[m].slots |-> slots[t.merges[m].slots[p]]])
           = Result(o, m)
<1>1. \A p \in DOMAIN t.merges[m].slots : t.merges[m].slots[p] \in Slots
  BY DEF Slots
<1>2. RowNodes(o) \cap P = RowNodes(o)
  OBVIOUS
<1>3. \A p \in DOMAIN t.merges[m].slots :
        slots[t.merges[m].slots[p]] = Captured(rec, RowNodes(o), t.merges[m].slots[p])
  BY <1>1, <1>2 DEF SlotState
<1>4. [p \in DOMAIN t.merges[m].slots |-> slots[t.merges[m].slots[p]]]
        = [p \in DOMAIN t.merges[m].slots |-> Captured(rec, RowNodes(o), t.merges[m].slots[p])]
  BY <1>3
<1> QED
  BY <1>4 DEF Result, MergeResult

-----------------------------------------------------------------------------
(* The rows of a record.                                                    *)

(* The row of the output at hand is written as far as b. *)
Reached(b) == RowState(out, Upto(out, b))

(* The columns before the n-th have been looked at. *)
ColumnsWritten(n) ==
  \A name \in ColumnNames(t) :
    colWritten[name] <=> \E c \in Filled(t, rec, Fx) : c < n /\ t.columns[c].name = name

(* The rows of the outputs before the n-th are there. *)
RowsKnown(n) ==
  /\ {rows[p].output : p \in DOMAIN rows} = {o \in Matching(t, Fx) : o < n}
  /\ \A p, q \in DOMAIN rows : p < q => rows[p].output < rows[q].output
  /\ \A p \in DOMAIN rows : /\ rows[p] = Row(t, rec, Fx, rows[p].output)
                            /\ RowErr(rows[p].output) = {}

(* What the row before has left is what it was made from. *)
PreviousKnown ==
  rows # <<>> =>
    RowState(Previous.output, PlacesOf(Previous.output)) /\ Previous.body = body

RowsInv ==
  /\ IsASeq(rows)
  /\ pc # "nodes" => quiet = FALSE
  /\ pc = "nodes" => sec \in ActiveIn(out) /\ quiet = t.sections[sec].quiet
  /\ pc \in {"walk", "nodes"} => sec \in Nat \ {0}
  /\ pc \in {"outputs"} \cup InRow => out \in Nat \ {0} /\ RowsKnown(out)
  /\ pc \in InRow => out \in Matching(t, Fx)
  /\ pc = "outputs" => PreviousKnown
  /\ pc = "columns" => sec = 1 /\ Reached(ColumnAt(k)) /\ ColumnsWritten(k)
  /\ pc = "walk" => Reached(NodeAt(sec, 1))
  /\ pc = "nodes" => Reached(NodeAt(sec, k))
  /\ pc = "merges" => Reached(MergeAt(k))
  /\ pc = "defaults" => Reached(DefaultAt(k))
  /\ pc = "close" => Reached(EndAt)
  /\ RowsAsSpecified /\ FailsAsSpecified

(* All that is known between two steps. *)
KnownInv == CacheInv /\ NameInv /\ TypeInv /\ FactInv /\ RowsInv

LEMMA KnownHere ==
  ASSUME KnownInv, pc \in {"outputs"} \cup InRow
  PROVE  /\ t \in Configs /\ rec \in Records(t) /\ rec.container
         /\ err = "none" /\ ~RequiredMissing(t, rec) /\ derivedVals = Fx.derived
         /\ OwnersKnown /\ GroupsKnown(Len(t.groups)) /\ SectionsKnown(Len(t.sections))
         /\ pc \in InRow => AtHand(out)
         /\ k \in Nat \ {0} /\ quiet \in BOOLEAN /\ out \in Nat \ {0}
<1>1. /\ t \in Configs /\ rec \in Records(t) /\ rec.container
      /\ err = "none" /\ ~RequiredMissing(t, rec) /\ derivedVals = Fx.derived
      /\ GroupsKnown(Len(t.groups)) /\ SectionsKnown(Len(t.sections))
      /\ k \in Nat \ {0} /\ quiet \in BOOLEAN /\ out \in Nat \ {0}
  BY DEF KnownInv, CacheInv, NameInv, NameTypes, TypeInv, PlaceTypes, EntryTypes, FactInv, RowsInv, InRow
<1>2. OwnersKnown
  <2>1. ReservedKnown(Len(t.columns)) /\ NameTypes
    BY DEF KnownInv, FactInv, NameInv
  <2> QED
    BY <1>1, <2>1, OwnersAreKnown
<1>3. pc \in InRow => AtHand(out)
  BY <1>1 DEF KnownInv, RowsInv, Matching, AtHand
<1> QED
  BY <1>1, <1>2, <1>3

(* A row that fails makes its record fail, with its error. *)
LEMMA FailIs ==
  ASSUME rec.container, ~RequiredMissing(t, rec), NEW o \in Matching(t, Fx), NEW e \in RowErr(o)
  PROVE  e \in Errors(t, rec) /\ e # "none"
<1>1. Errors(t, rec) = UNION {RowErrors(t, rec, Fx, x) : x \in Matching(t, Fx)}
  BY DEF Errors, Fx
<1>2. e # "none"
  BY RowErrIs
<1> QED
  BY <1>1, <1>2 DEF RowErr

(* A record that fails in the row of an output. *)
LEMMA FailedIsKnown ==
  ASSUME KnownInv, pc \in InRow, UNCHANGED <<t, rec, rows>>, pc' = "done", quiet' = FALSE,
         err' \in RowErr(out)
  PROVE  RowsInv'
<1>1. rec.container /\ ~RequiredMissing(t, rec) /\ out \in Matching(t, Fx) /\ IsASeq(rows)
  BY KnownHere DEF KnownInv, RowsInv
<1>2. err' \in Errors(t, rec) /\ err' # "none"
  BY <1>1, FailIs
<1>3. RowsAsSpecified' /\ FailsAsSpecified'
  BY <1>2 DEF RowsAsSpecified, FailsAsSpecified
<1> QED
  BY <1>1, <1>3 DEF RowsInv, InRow

(* What is known of the record's rows stays while one is written. *)
LEMMA RowsStay ==
  ASSUME UNCHANGED <<t, rec, rows>>, NEW n, RowsKnown(n)
  PROVE  RowsKnown(n)'
<1>1. Fx' = Fx /\ \A o : RowErr(o)' = RowErr(o)
  BY RecordStays
<1> QED
  BY <1>1 DEF RowsKnown

RowBegun ==
  /\ IsASeq(rows) /\ out \in Nat \ {0} /\ RowsKnown(out) /\ out \in Matching(t, Fx)
  /\ RowsAsSpecified /\ FailsAsSpecified

LEMMA InRowStays ==
  ASSUME KnownInv, pc \in InRow, pc' \in InRow, UNCHANGED <<t, rec, out, rows>>
  PROVE  RowBegun'
<1>1. IsASeq(rows) /\ out \in Nat \ {0} /\ RowsKnown(out) /\ out \in Matching(t, Fx)
  BY DEF KnownInv, RowsInv
<1>2. RowsKnown(out)'
  <2>1. PICK n : n = out
    OBVIOUS
  <2>2. RowsKnown(n)'
    BY <1>1, <2>1, RowsStay
  <2> QED
    BY <2>1, <2>2
<1>3. Fx' = Fx
  BY RecordStays
<1> QED
  BY <1>1, <1>2, <1>3 DEF RowBegun, RowsAsSpecified, FailsAsSpecified, Finished, InRow

(* All there is up to b is written after the step. *)
LEMMA ReachedAfter ==
  ASSUME NEW o, out = o, UNCHANGED <<t, rec, out>>, NEW b, NEW Q, Upto(o, b) = Q, RowState(o, Q)'
  PROVE  Reached(b)'
<1>1. PlacesOf(o)' = PlacesOf(o)
  BY RecordStays
<1>2. Upto(o, b)' = Q
  BY <1>1 DEF Upto
<1> QED
  BY <1>2 DEF Reached

LEMMA StateStays ==
  ASSUME NEW o, NEW P, RowState(o, P), UNCHANGED <<t, rec, body, keys, dropped, seen, rest, slots>>
  PROVE  RowState(o, P)'
BY SameEntries, SameRest, SameSlots DEF RowState

(* A step that goes on from b to c, with no place in between. *)
LEMMA NothingBetween ==
  ASSUME NEW b, NEW c, Reached(b), NoPlace(out, b, c),
         UNCHANGED <<t, rec, out, body, keys, dropped, seen, rest, slots>>
  PROVE  Reached(c)'
<1>1. PICK o : o = out
  OBVIOUS
<1>2. PICK Q : Q = Upto(o, b)
  OBVIOUS
<1>3. RowState(o, Q) /\ Upto(o, c) = Q
  BY <1>1, <1>2 DEF Reached, NoPlace
<1>4. RowState(o, Q)'
  BY <1>3, StateStays
<1> QED
  BY <1>1, <1>3, <1>4, ReachedAfter

LEMMA EndColumnsKeepsRows ==
  ASSUME KnownInv, EndColumns
  PROVE  RowsInv'
<1>1. /\ pc = "columns" /\ k \notin DOMAIN t.columns /\ pc' = "walk"
      /\ UNCHANGED <<t, rec, out, sec, quiet, rows, body, keys, dropped, seen, rest, slots>>
  BY DEF EndColumns, Goto, perRow
<1>2. AtHand(out) /\ k \in Nat \ {0} /\ Reached(ColumnAt(k)) /\ quiet = FALSE /\ sec = 1
  <2>1. pc \in InRow
    BY <1>1 DEF InRow
  <2> QED
    BY <1>1, <2>1, KnownHere DEF KnownInv, RowsInv
<1>3. NoPlace(out, ColumnAt(k), NodeAt(1, 1))
  BY <1>1, <1>2, AfterColumns
<1>4. Reached(NodeAt(1, 1))'
  BY <1>1, <1>2, <1>3, NothingBetween
<1>5. RowBegun'
  <2>1. pc \in InRow /\ pc' \in InRow
    BY <1>1 DEF InRow
  <2> QED
    BY <1>1, <2>1, InRowStays
<1> QED
  BY <1>1, <1>2, <1>4, <1>5 DEF RowsInv, RowBegun

(* A section that is not walked has no place. *)
LEMMA NextSectionKeepsRows ==
  ASSUME KnownInv, NextSection
  PROVE  RowsInv'
<1>1. /\ pc = "walk" /\ sec \in DOMAIN t.sections
      /\ IF sec \in ActiveIn(out)
         THEN pc' = "nodes" /\ k' = 1 /\ quiet' = t.sections[sec].quiet /\ UNCHANGED sec
         ELSE sec' = sec + 1 /\ UNCHANGED <<pc, k, quiet>>
      /\ UNCHANGED <<t, rec, out, secOn, rows, body, keys, dropped, seen, rest, slots>>
  BY DEF NextSection, Goto, perRecord
<1>2. pc \in InRow /\ pc' \in InRow
  BY <1>1 DEF InRow
<1>3. AtHand(out) /\ Reached(NodeAt(sec, 1)) /\ sec \in Nat \ {0} /\ SectionsKnown(Len(t.sections))
      /\ quiet = FALSE
  BY <1>1, <1>2, KnownHere DEF KnownInv, RowsInv
<1>4. RowBegun'
  BY <1>1, <1>2, InRowStays
<1>5. PICK s : s = sec
  OBVIOUS
<1>6. CASE sec \in ActiveIn(out)
  <2>1. pc' = "nodes" /\ k' = 1 /\ quiet' = t.sections[sec].quiet /\ sec' = sec
    BY <1>1, <1>6
  <2>2. NoPlace(out, NodeAt(s, 1), NodeAt(s, 1))
    BY DEF NoPlace
  <2>3. Reached(NodeAt(s, 1))'
    BY <1>1, <1>3, <1>5, <2>2, NothingBetween
  <2>4. (sec \in ActiveIn(out) /\ quiet = t.sections[sec].quiet)'
    BY <1>1, <1>6, <2>1 DEF ActiveIn
  <2> QED
    BY <1>3, <1>4, <1>5, <2>1, <2>3, <2>4 DEF RowsInv, RowBegun
<1>7. CASE sec \notin ActiveIn(out)
  <2>1. sec' = s + 1 /\ pc' = "walk" /\ quiet' = FALSE /\ s + 1 \in Nat \ {0}
    BY <1>1, <1>3, <1>5, <1>7
  <2>2. \A a \in RowNodes(out) : a[2] # s
    BY <1>3, <1>5, <1>7, ActiveIs DEF NodeAt
  <2>3. NoPlace(out, NodeAt(s, 1), NodeAt(s + 1, 1))
    BY <1>3, <1>5, <2>2, AfterSection
  <2>4. Reached(NodeAt(s + 1, 1))'
    BY <1>1, <1>3, <1>5, <2>3, NothingBetween
  <2> QED
    BY <1>4, <2>1, <2>4 DEF RowsInv, RowBegun
<1> QED
  BY <1>6, <1>7

LEMMA EndSectionKeepsRows ==
  ASSUME KnownInv, EndSection
  PROVE  RowsInv'
<1>1. /\ pc = "nodes" /\ k \notin DOMAIN rec.nodes[sec]
      /\ pc' = "walk" /\ quiet' = FALSE /\ sec' = sec + 1
      /\ UNCHANGED <<t, rec, out, rows, body, keys, dropped, seen, rest, slots>>
  BY DEF EndSection, LeaveSection, Goto
<1>2. pc \in InRow /\ pc' \in InRow
  BY <1>1 DEF InRow
<1>3. AtHand(out) /\ Reached(NodeAt(sec, k)) /\ sec \in Nat \ {0} /\ k \in Nat \ {0}
      /\ sec \in ActiveIn(out)
  BY <1>1, <1>2, KnownHere DEF KnownInv, RowsInv
<1>4. RowBegun'
  BY <1>1, <1>2, InRowStays
<1>5. PICK s, p : s = sec /\ p = k
  OBVIOUS
<1>6. \A a \in RowNodes(out) : a[2] = s => a[3] < p
  <2>1. sec \in DOMAIN rec.nodes
    BY <1>3, Tables DEF ActiveIn
  <2>2. Len(rec.nodes[sec]) \in Nat /\ DOMAIN rec.nodes[sec] = 1..Len(rec.nodes[sec])
    BY <1>3, <2>1, Tables
  <2>3. \A a \in RowNodes(out) : a[3] \in DOMAIN rec.nodes[a[2]]
    BY <1>3, PlacesInside
  <2> QED
    BY <1>1, <1>3, <1>5, <2>2, <2>3
<1>7. NoPlace(out, NodeAt(s, p), NodeAt(s + 1, 1))
  BY <1>3, <1>5, <1>6, AfterSection
<1>8. Reached(NodeAt(s + 1, 1))'
  BY <1>1, <1>3, <1>5, <1>7, NothingBetween
<1> QED
  BY <1>1, <1>3, <1>4, <1>5, <1>8 DEF RowsInv, RowBegun

LEMMA EndSectionsKeepsRows ==
  ASSUME KnownInv, EndSections
  PROVE  RowsInv'
<1>1. /\ pc = "walk" /\ sec \notin DOMAIN t.sections /\ pc' = "merges" /\ k' = 1
      /\ UNCHANGED <<t, rec, out, quiet, rows, body, keys, dropped, seen, rest, slots>>
  BY DEF EndSections, Goto, perRow
<1>2. pc \in InRow /\ pc' \in InRow
  BY <1>1 DEF InRow
<1>3. AtHand(out) /\ Reached(NodeAt(sec, 1)) /\ sec \in Nat \ {0} /\ quiet = FALSE
  BY <1>1, <1>2, KnownHere DEF KnownInv, RowsInv
<1>4. RowBegun'
  BY <1>1, <1>2, InRowStays
<1>5. PICK s : s = sec
  OBVIOUS
<1>6. NoPlace(out, NodeAt(s, 1), MergeAt(1))
  BY <1>1, <1>3, <1>5, AfterSections
<1>7. Reached(MergeAt(1))'
  BY <1>1, <1>3, <1>5, <1>6, NothingBetween
<1> QED
  BY <1>1, <1>3, <1>4, <1>7 DEF RowsInv, RowBegun

LEMMA EndMergesKeepsRows ==
  ASSUME KnownInv, EndMerges
  PROVE  RowsInv'
<1>1. /\ pc = "merges" /\ k \notin DOMAIN t.merges /\ pc' = "defaults" /\ k' = 1
      /\ UNCHANGED <<t, rec, out, quiet, rows, body, keys, dropped, seen, rest, slots>>
  BY DEF EndMerges, Goto, perRow
<1>2. pc \in InRow /\ pc' \in InRow
  BY <1>1 DEF InRow
<1>3. AtHand(out) /\ Reached(MergeAt(k)) /\ k \in Nat \ {0} /\ quiet = FALSE
  BY <1>1, <1>2, KnownHere DEF KnownInv, RowsInv
<1>4. RowBegun'
  BY <1>1, <1>2, InRowStays
<1>5. PICK m : m = k
  OBVIOUS
<1>6. NoPlace(out, MergeAt(m), DefaultAt(1))
  BY <1>1, <1>3, <1>5, AfterMerges
<1>7. Reached(DefaultAt(1))'
  BY <1>1, <1>3, <1>5, <1>6, NothingBetween
<1> QED
  BY <1>1, <1>3, <1>4, <1>7 DEF RowsInv, RowBegun

(* A place that is no node leaves nothing for the rest column and for merges. *)
LEMMA NoNodeThere ==
  ASSUME NEW o, AtHand(o), NEW P, NEW x, x \notin RowNodes(o),
         RestState(o, P), SlotState(o, P), UNCHANGED <<t, rec, rest, slots>>
  PROVE  RestState(o, P \cup {x})' /\ SlotState(o, P \cup {x})'
<1> DEFINE Q == P \cup {x}
<1>1. RowNodes(o) \cap Q = RowNodes(o) \cap P /\ RestOf(o) \cap Q = RestOf(o) \cap P
  BY SetsAre
<1> HIDE DEF Q
<1>2. RestState(o, Q)' /\ SlotState(o, Q)'
  BY <1>1, SameRest, SameSlots
<1> QED
  BY <1>2 DEF Q

(* The column whose value is written is the first of its name. *)
LEMMA ColumnTurn ==
  ASSUME KnownInv, pc = "columns", NEW n \in DOMAIN t.columns, n = k
  PROVE  /\ n \in Filled(t, rec, Fx) <=>
              CondOK(t.columns[n].when) /\ ColumnSource(t.columns[n], rec, derivedVals) # 0
         /\ FirstFilled(n) <=> n \in Filled(t, rec, Fx) /\ ~colWritten[t.columns[n].name]
<1>1. pc \in InRow
  BY DEF InRow
<1>2. t \in Configs /\ derivedVals = Fx.derived /\ CacheInv /\ ColumnsWritten(n)
  BY <1>1, KnownHere DEF KnownInv, RowsInv
<1>3. CondOK(t.columns[n].when) <=> Holds(Fx, t.columns[n].when)
  BY <1>2, AskIs, MoreTables
<1>4. n \in Filled(t, rec, Fx) <=>
        CondOK(t.columns[n].when) /\ ColumnSource(t.columns[n], rec, derivedVals) # 0
  BY <1>2, <1>3 DEF Filled, ActiveColumns
<1>5. colWritten[t.columns[n].name] <=>
        \E b \in Filled(t, rec, Fx) : b < n /\ t.columns[b].name = t.columns[n].name
  BY <1>2 DEF ColumnsWritten, ColumnNames
<1>6. n \in Nat /\ Filled(t, rec, Fx) \subseteq Nat
  BY <1>2, MoreTables DEF Filled, ActiveColumns
<1>7. \A b \in Filled(t, rec, Fx) : n <= b <=> ~(b < n)
  BY <1>6
<1> QED
  BY <1>4, <1>5, <1>7 DEF FirstFilled

LEMMA ColumnsGoOn ==
  ASSUME NameTypes, NEW n \in DOMAIN t.columns, ColumnsWritten(n), UNCHANGED <<t, rec>>,
         IF n \in Filled(t, rec, Fx) /\ ~colWritten[t.columns[n].name]
         THEN colWritten' = [colWritten EXCEPT ![t.columns[n].name] = TRUE]
         ELSE UNCHANGED colWritten
  PROVE  ColumnsWritten(n + 1)'
<1> DEFINE own == t.columns[n].name
           F == Filled(t, rec, Fx)
<1>1. n \in Nat /\ F \subseteq Nat /\ own \in ColumnNames(t)
  BY MoreTables DEF NameTypes, Filled, ActiveColumns, ColumnNames
<1>2. \A b \in F : b < n + 1 <=> b < n \/ b = n
  BY <1>1
<1>3. n < n + 1
  BY <1>1
<1>4. Fx' = Fx
  BY RecordStays
<1>5. ASSUME NEW name \in ColumnNames(t)
      PROVE  colWritten'[name] <=> \E b \in F : b < n + 1 /\ t.columns[b].name = name
  <2> HIDE DEF F
  <2>1. colWritten[name] <=> \E b \in F : b < n /\ t.columns[b].name = name
    BY DEF ColumnsWritten, F
  <2>2. CASE n \in F /\ ~colWritten[own] /\ name = own
    <3>1. colWritten'[name]
      BY <1>1, <2>2 DEF NameTypes, F
    <3> QED
      BY <1>3, <2>2, <3>1
  <2>3. CASE n \in F /\ ~colWritten[own] /\ name # own
    <3>1. colWritten'[name] = colWritten[name]
      BY <1>1, <2>3 DEF NameTypes, F
    <3> QED
      BY <1>2, <2>1, <2>3, <3>1
  <2>4. CASE n \notin F \/ colWritten[own]
    <3>1. colWritten' = colWritten
      BY <2>4 DEF F
    <3>2. CASE n \notin F
      BY <1>2, <2>1, <3>1, <3>2
    <3>3. CASE colWritten[own]
      <4>1. name = own => colWritten[name]
        BY <3>3
      <4> QED
        BY <1>2, <2>1, <3>1, <4>1
    <3> QED
      BY <2>4, <3>2, <3>3
  <2> QED
    BY <2>2, <2>3, <2>4
<1> QED
  BY <1>4, <1>5 DEF ColumnsWritten

LEMMA WriteColumnKeepsRows ==
  ASSUME KnownInv, WriteColumn
  PROVE  RowsInv'
<1> DEFINE c == t.columns[k]
           v == ColumnValue(c, rec, derivedVals)
           Turn == /\ ~colWritten[c.name] /\ CondOK(c.when)
                   /\ ColumnSource(c, rec, derivedVals) # 0
<1>1. /\ pc = "columns" /\ k \in DOMAIN t.columns /\ Continue
      /\ UNCHANGED <<t, rec, derivedVals, out, sec, keys, slots, quiet, rest, dropped, rows>>
      /\ Turn => /\ Write(c.name, <<v.id>>, v.bad)
                 /\ colWritten' = [colWritten EXCEPT ![c.name] = TRUE]
      /\ ~Turn => UNCHANGED <<body, seen, err, colWritten>>
  BY DEF WriteColumn
<1>2. pc \in InRow
  BY <1>1 DEF InRow
<1>3. /\ AtHand(out) /\ k \in Nat \ {0} /\ err = "none" /\ derivedVals = Fx.derived
      /\ Reached(ColumnAt(k)) /\ ColumnsWritten(k) /\ quiet = FALSE /\ sec = 1
  BY <1>1, <1>2, KnownHere DEF KnownInv, RowsInv
<1>4. PICK o, n, P, x : o = out /\ n = k /\ P = Upto(o, ColumnAt(n)) /\ x = ColumnAt(n)
  OBVIOUS
<1>5. IsNext(o, P, x) /\ Upto(o, ColumnAt(n + 1)) = P \cup {x}
  BY <1>1, <1>3, <1>4, ColumnIsNext DEF OnePlace
<1>6. AtHand(o) /\ EntryState(o, P) /\ RestState(o, P) /\ SlotState(o, P)
  BY <1>3, <1>4 DEF Reached, RowState
<1>7. /\ n \in Filled(t, rec, Fx) <=> CondOK(c.when) /\ ColumnSource(c, rec, derivedVals) # 0
      /\ FirstFilled(n) <=> Turn
  BY <1>1, <1>4, ColumnTurn
<1>8. x \in DOMAIN Cands(o) <=> Turn
  <2>1. x \in PlacesOf(o) /\ x[1] = 1
    BY <1>4, <1>5 DEF IsNext, ColumnAt
  <2>2. x \in EarlyOf(o) <=> FirstFilled(n)
    BY <1>1, <1>4, <1>6, EarlyIs
  <2> HIDE DEF Turn
  <2> QED
    BY <1>6, <1>7, <2>1, <2>2, CandsAre
<1>9. x \notin RowNodes(o) /\ x[1] = 1 /\ \A m : x # MergeAt(m)
  <2>1. x[1] = 1
    BY <1>4 DEF ColumnAt
  <2> QED
    BY <2>1, <1>6, PlacesInside DEF MergeAt
<1>10. x \in BadOnes(o) <=> x \in Wins(o) /\ Cands(o)[x].bad
  BY <1>6, <1>9, SetsAre
<1>11. RestState(o, P \cup {x})' /\ SlotState(o, P \cup {x})'
  BY <1>1, <1>6, <1>9, NoNodeThere
<1>12. ASSUME err' = "none", EntryState(o, P \cup {x})', ColumnsWritten(n + 1)'
       PROVE  RowsInv'
  <2>1. pc' = "columns" /\ k' = n + 1 /\ pc' \in InRow
    BY <1>1, <1>4, <1>12 DEF Continue, InRow
  <2>2. RowBegun'
    BY <1>1, <1>2, <2>1, InRowStays
  <2>3. PICK Q : Q = P \cup {x}
    OBVIOUS
  <2>4. RowState(o, Q)'
    BY <1>11, <1>12, <2>3 DEF RowState
  <2>5. Reached(ColumnAt(n + 1))'
    BY <1>1, <1>4, <1>5, <2>3, <2>4, ReachedAfter
  <2> QED
    BY <1>1, <1>3, <1>12, <2>1, <2>2, <2>5 DEF RowsInv, RowBegun
<1>13. NameTypes
  BY DEF KnownInv, NameInv
<1>14. CASE Turn
  <2>1. x \in Wins(o) /\ Cands(o)[x].name \in Owned(t, Fx)
    BY <1>6, <1>8, <1>9, <1>14, ColumnNamesOwned
  <2>2. /\ Cands(o)[x].name = c.name /\ Cands(o)[x].value = <<v.id>> /\ Cands(o)[x].bad = v.bad
    BY <1>3, <1>4, <1>6, <1>8, <1>14, ColumnCand
  <2>3. PICK name, value, bad : name = c.name /\ value = <<v.id>> /\ bad = v.bad
    OBVIOUS
  <2>4. Write(name, value, bad) /\ (bad \/ x \notin BadOnes(o))
    BY <1>1, <1>10, <1>14, <2>2, <2>3
  <2>5. t.collision # "keep" => keys' = (keys \cup {name}) \ Owned(t, Fx)
    <3>1. t.collision # "keep" => keys \cap Owned(t, Fx) = {}
      BY <1>6 DEF EntryState, AreEntries
    <3> QED
      BY <1>1, <2>1, <2>2, <2>3, <3>1
  <2>6. IF bad THEN err' = "ErrInvalidNumber" /\ err' \in RowErr(o)
        ELSE err' = "none" /\ EntryState(o, P \cup {x})'
    BY <1>1, <1>3, <1>5, <1>6, <2>1, <2>2, <2>3, <2>4, <2>5, WinnerIsWritten
  <2>7. CASE bad
    <3>1. pc' = "done" /\ err' \in RowErr(out) /\ quiet' = FALSE
      BY <1>1, <1>3, <1>4, <2>6, <2>7 DEF Continue, Goto
    <3> QED
      BY <1>1, <1>2, <3>1, FailedIsKnown
  <2>8. CASE ~bad
    <3>1. colWritten' = [colWritten EXCEPT ![c.name] = TRUE]
      BY <1>1, <1>14
    <3>2. ColumnsWritten(n + 1)'
      BY <1>1, <1>3, <1>4, <1>7, <1>13, <1>14, <3>1, ColumnsGoOn
    <3> QED
      BY <1>12, <2>6, <2>8, <3>2
  <2> QED
    BY <2>7, <2>8
<1>15. CASE ~Turn
  <2>1. UNCHANGED <<body, seen, err, colWritten>>
    BY <1>1, <1>15
  <2>2. x \notin DOMAIN Cands(o) /\ x \notin BadOnes(o)
    BY <1>6, <1>8, <1>10, <1>15, SetsAre
  <2>3. EntryState(o, P \cup {x})'
    BY <1>1, <1>6, <2>1, <2>2, NothingThere
  <2>4. ColumnsWritten(n + 1)'
    BY <1>1, <1>3, <1>4, <1>7, <1>13, <1>15, <2>1, ColumnsGoOn
  <2> QED
    BY <1>3, <1>12, <2>1, <2>3, <2>4
<1> QED
  BY <1>14, <1>15

(* A node is a candidate, one for the rest column, or nothing. *)
LEMMA NodeTurn ==
  ASSUME NEW o, AtHand(o), OwnersKnown, NEW x \in RowNodes(o),
         NEW key, key = KeyOf(t, rec, Fx, x)
  PROVE  /\ x \in DOMAIN Cands(o) <=> Survives(t, NodeOf(rec, x)) /\ Verdict(t, key) = "written"
         /\ x \in RestOf(o) <=> /\ Survives(t, NodeOf(rec, x)) /\ Verdict(t, key) = "notKept"
                                /\ t.rest # NoName /\ Owner(key) = "free"
         /\ x \in BadOnes(o) <=> \/ x \in Wins(o) /\ Cands(o)[x].bad
                                 \/ x \in RestOf(o) /\ NodeOf(rec, x).val.bad
<1>1. x \in PlacesOf(o) /\ x[1] = 2
  BY PlacesInside
<1>2. x \in DOMAIN Cands(o) <=> x \in EarlyOf(o)
  BY <1>1, CandsAre
<1>3. \A m : x # MergeAt(m)
  BY <1>1 DEF MergeAt
<1>4. Owner(key) = "free" <=> key \notin Owned(t, Fx)
  BY DEF OwnersKnown
<1> QED
  BY <1>2, <1>3, <1>4, EarlyIs, SetsAre

LEMMA HandleNodeKeepsRows ==
  ASSUME KnownInv, HandleNode
  PROVE  RowsInv'
<1> DEFINE node == rec.nodes[sec][k]
           key == FixedKey(t, groupOn, node.key)
           Passed == ~Survives(t, node) \/ Verdict(t, key) = "dropped"
<1>1. /\ pc = "nodes" /\ k \in DOMAIN rec.nodes[sec] /\ Continue
      /\ UNCHANGED <<t, rec, secOn, out, sec, rows>>
      /\ slots' = IF Capturable(node.val)
                  THEN [s \in DOMAIN slots |-> IF s \in node.slots THEN node.val ELSE slots[s]]
                  ELSE slots
      /\ quiet' = (quiet /\ err' = "none")
      /\ Passed => UNCHANGED <<rest, body, seen, keys, dropped, err>>
      /\ ~Passed /\ Verdict(t, key) = "notKept" => Collect(key, node.val)
      /\ ~Passed /\ Verdict(t, key) # "notKept" =>
           Claim(key, <<node.val.id>>, node.val.bad) /\ UNCHANGED rest
  BY DEF HandleNode, perRecord
<1>2. pc \in InRow
  BY <1>1 DEF InRow
<1>3. /\ AtHand(out) /\ k \in Nat \ {0} /\ err = "none" /\ OwnersKnown
      /\ GroupsKnown(Len(t.groups)) /\ SectionsKnown(Len(t.sections)) /\ t \in Configs
      /\ Reached(NodeAt(sec, k)) /\ quiet = t.sections[sec].quiet /\ quiet \in BOOLEAN
      /\ sec \in Nat \ {0} /\ sec \in ActiveIn(out) /\ TypeInv
  BY <1>1, <1>2, KnownHere DEF KnownInv, RowsInv
<1>4. PICK o, s, p, P, x : o = out /\ s = sec /\ p = k /\ P = Upto(o, NodeAt(s, p)) /\ x = NodeAt(s, p)
  OBVIOUS
<1>5. x \in RowNodes(o) /\ NodeOf(rec, x) = node /\ x[2] = sec /\ x[1] # 1
  BY <1>1, <1>3, <1>4, ActiveIs DEF NodeAt, NodeOf
<1>6. IsNext(o, P, x) /\ Upto(o, NodeAt(s, p + 1)) = P \cup {x}
  BY <1>3, <1>4, <1>5, NodeIsNext DEF OnePlace
<1>7. AtHand(o) /\ EntryState(o, P) /\ RestState(o, P) /\ SlotState(o, P)
  BY <1>3, <1>4 DEF Reached, RowState
<1>8. key = KeyOf(t, rec, Fx, x)
  BY <1>3, <1>5, KeyIs
<1>9. DOMAIN slots = Slots
  BY <1>3 DEF TypeInv, SlotTypes
<1>10. PICK name, v : name = key /\ v = node.val
  OBVIOUS
<1>11. /\ x \in DOMAIN Cands(o) <=> Survives(t, node) /\ Verdict(t, name) = "written"
       /\ x \in RestOf(o) <=> /\ Survives(t, node) /\ Verdict(t, name) = "notKept"
                              /\ t.rest # NoName /\ Owner(name) = "free"
       /\ x \in BadOnes(o) <=> \/ x \in Wins(o) /\ Cands(o)[x].bad
                               \/ x \in RestOf(o) /\ v.bad
  BY <1>3, <1>5, <1>7, <1>8, <1>10, NodeTurn
<1>12. SlotState(o, P \cup {x})'
  <2>1. slots' = IF Capturable(NodeOf(rec, x).val)
                 THEN [i \in DOMAIN slots |->
                        IF i \in NodeOf(rec, x).slots THEN NodeOf(rec, x).val ELSE slots[i]]
                 ELSE slots
    BY <1>1, <1>5
  <2> QED
    BY <1>1, <1>5, <1>6, <1>7, <1>9, <2>1, LastIsCaptured
<1>13. x \in Wins(o) => x \in DOMAIN Cands(o)
  BY <1>7, SetsAre
<1> HIDE DEF node, key
<1>14. ASSUME err' = "none", EntryState(o, P \cup {x})', RestState(o, P \cup {x})'
       PROVE  RowsInv'
  <2>1. pc' = "nodes" /\ k' = p + 1 /\ pc' \in InRow /\ quiet' = quiet
    BY <1>1, <1>3, <1>4, <1>14 DEF Continue, InRow
  <2>2. RowBegun'
    BY <1>1, <1>2, <2>1, InRowStays
  <2>3. PICK Q : Q = P \cup {x}
    OBVIOUS
  <2>4. RowState(o, Q)'
    BY <1>12, <1>14, <2>3 DEF RowState
  <2>5. Reached(NodeAt(s, p + 1))'
    BY <1>1, <1>4, <1>6, <2>3, <2>4, ReachedAfter
  <2>6. (sec \in ActiveIn(out) /\ quiet = t.sections[sec].quiet)' /\ sec' = s /\ s \in Nat \ {0}
    BY <1>1, <1>3, <1>4, <2>1 DEF ActiveIn
  <2> QED
    BY <2>1, <2>2, <2>5, <2>6 DEF RowsInv, RowBegun
<1>15. ASSUME err' # "none", err' \in RowErr(o)
       PROVE  RowsInv'
  <2>1. pc' = "done" /\ quiet' = FALSE
    BY <1>1, <1>15 DEF Continue, Goto
  <2> QED
    BY <1>1, <1>2, <1>4, <1>15, <2>1, FailedIsKnown
<1>16. ASSUME x \notin RestOf(o), UNCHANGED rest
       PROVE  RestState(o, P \cup {x})'
  <2>1. PICK Q : Q = P \cup {x}
    OBVIOUS
  <2>2. RestOf(o) \cap Q = RestOf(o) \cap P
    BY <1>16, <2>1
  <2> QED
    BY <1>1, <1>7, <1>16, <2>1, <2>2, SameRest
<1>17. CASE Passed
  <2>1. x \notin DOMAIN Cands(o) /\ x \notin RestOf(o) /\ x \notin BadOnes(o)
    BY <1>10, <1>11, <1>13, <1>17
  <2>2. UNCHANGED <<rest, body, seen, keys, dropped, err>>
    BY <1>1, <1>17
  <2>3. EntryState(o, P \cup {x})'
    BY <1>1, <1>7, <2>1, <2>2, NothingThere
  <2> QED
    BY <1>3, <1>14, <1>16, <2>1, <2>2, <2>3
<1>18. CASE ~Passed /\ Verdict(t, key) = "notKept"
  <2>1. x \notin DOMAIN Cands(o) /\ x \notin Wins(o)
    BY <1>10, <1>11, <1>13, <1>18
  <2>2. Collect(name, v) /\ UNCHANGED <<body, seen, keys, dropped>>
    BY <1>1, <1>10, <1>18 DEF Collect
  <2>3. CASE x \in RestOf(o)
    <3>1. /\ rest' = Append(rest, <<name, v.id>>)
          /\ err' = IF v.bad THEN "ErrInvalidNumber" ELSE err
      BY <1>11, <2>2, <2>3 DEF Collect
    <3>2. CASE v.bad
      <4>1. x \in BadOnes(o)
        BY <1>11, <2>3, <3>2
      <4> QED
        BY <1>15, <3>1, <3>2, <4>1, RowErrIs
    <3>3. CASE ~v.bad
      <4>1. x \notin BadOnes(o)
        BY <1>11, <2>1, <3>3
      <4>2. EntryState(o, P \cup {x})'
        BY <1>1, <1>7, <2>1, <2>2, <4>1, NothingThere
      <4>3. rest' = Append(rest, <<KeyOf(t, rec, Fx, x), NodeOf(rec, x).val.id>>)
        BY <1>5, <1>8, <1>10, <3>1
      <4>4. RestState(o, P \cup {x})'
        BY <1>1, <1>6, <1>7, <2>3, <4>3, CollectedIsListed
      <4> QED
        BY <1>3, <1>14, <3>1, <3>3, <4>2, <4>4
    <3> QED
      BY <3>2, <3>3
  <2>4. CASE x \notin RestOf(o)
    <3>1. UNCHANGED <<rest, err>>
      BY <1>10, <1>11, <1>18, <2>2, <2>4 DEF Collect
    <3>2. x \notin BadOnes(o)
      BY <1>11, <2>1, <2>4
    <3>3. EntryState(o, P \cup {x})'
      BY <1>1, <1>7, <2>1, <2>2, <3>2, NothingThere
    <3> QED
      BY <1>3, <1>14, <1>16, <2>4, <3>1, <3>3
  <2> QED
    BY <2>3, <2>4
<1>19. CASE ~Passed /\ Verdict(t, key) # "notKept"
  <2>1. Verdict(t, key) = "written"
    BY <1>19 DEF Verdict
  <2>2. x \in DOMAIN Cands(o) /\ x \notin RestOf(o)
    BY <1>10, <1>11, <1>19, <2>1
  <2>3. PICK value : value = <<v.id>>
    OBVIOUS
  <2>4. PICK bad : bad = v.bad
    OBVIOUS
  <2>5. Claim(name, value, bad) /\ UNCHANGED rest
    BY <1>1, <1>10, <1>19, <2>3, <2>4
  <2>6. /\ Cands(o)[x].name = name /\ Cands(o)[x].value = value /\ Cands(o)[x].bad = bad
        /\ Cands(o)[x].quiet = quiet
    BY <1>3, <1>5, <1>7, <1>8, <1>10, <2>2, <2>3, <2>4, NodeCand
  <2>7. x \in BadOnes(o) => x \in Wins(o) /\ Cands(o)[x].bad
    BY <1>11, <2>2
  <2>8. \/ err' = "none" /\ EntryState(o, P \cup {x})'
        \/ err' # "none" /\ err' \in RowErr(o)
    BY <1>1, <1>3, <1>5, <1>6, <1>7, <2>2, <2>5, <2>6, <2>7, ClaimEntry
  <2> QED
    BY <1>14, <1>15, <1>16, <2>2, <2>5, <2>8
<1> QED
  BY <1>17, <1>18, <1>19

(* Merges come after all nodes, defaults too. *)
LEMMA NodesAreThrough ==
  ASSUME NEW o, AtHand(o), NEW n
  PROVE  RowNodes(o) \subseteq Upto(o, MergeAt(n)) /\ RowNodes(o) \subseteq Upto(o, DefaultAt(n))
<1>1. \A a \in RowNodes(o) : a \in PlacesOf(o) /\ a[1] = 2
  BY PlacesInside
<1>2. MergeAt(n)[1] = 3 /\ DefaultAt(n)[1] = 4
  BY DEF MergeAt, DefaultAt
<1> QED
  BY <1>1, <1>2 DEF Upto, Before, Precedes

LEMMA WriteMergeKeepsRows ==
  ASSUME KnownInv, WriteMerge
  PROVE  RowsInv'
<1> DEFINE m == t.merges[k]
           result == Merged(m.mode, [p \in DOMAIN m.slots |-> slots[m.slots[p]]])
<1>1. /\ pc = "merges" /\ k \in DOMAIN t.merges /\ Continue
      /\ UNCHANGED <<t, rec, out, slots, quiet, rest, rows>>
      /\ result.bad => err' = "ErrInvalidNumber"
      /\ result.empty /\ ~result.bad => UNCHANGED <<body, seen, keys, dropped, err>>
      /\ ~result.empty /\ ~result.bad => Claim(m.to, result.value, FALSE)
  BY DEF WriteMerge
<1>2. pc \in InRow
  BY <1>1 DEF InRow
<1>3. /\ AtHand(out) /\ k \in Nat \ {0} /\ err = "none" /\ OwnersKnown
      /\ Reached(MergeAt(k)) /\ quiet = FALSE
  BY <1>1, <1>2, KnownHere DEF KnownInv, RowsInv
<1>4. PICK o, n, P, x : o = out /\ n = k /\ P = Upto(o, MergeAt(n)) /\ x = MergeAt(n)
  OBVIOUS
<1>5. IsNext(o, P, x) /\ Upto(o, MergeAt(n + 1)) = P \cup {x}
  BY <1>1, <1>3, <1>4, MergeIsNext DEF OnePlace
<1>6. AtHand(o) /\ EntryState(o, P) /\ RestState(o, P) /\ SlotState(o, P)
  BY <1>3, <1>4 DEF Reached, RowState
<1>7. result = Result(o, n)
  <2>1. RowNodes(o) \subseteq P
    BY <1>4, <1>6, NodesAreThrough
  <2> QED
    BY <1>1, <1>4, <1>6, <2>1, MergeFinds
<1>8. x[1] = 3 /\ x \notin RowNodes(o) /\ \A i : x = MergeAt(i) => i = n
  <2>1. x[1] = 3 /\ \A i : x = MergeAt(i) => i = n
    BY <1>4 DEF MergeAt
  <2> QED
    BY <2>1, <1>6, PlacesInside
<1>9. x \in DOMAIN Cands(o) <=> ~result.empty
  <2>1. x \in PlacesOf(o) /\ (x \in EarlyOf(o) <=> ~Result(o, n).empty)
    BY <1>1, <1>4, <1>5, <1>6, EarlyIs DEF IsNext
  <2> QED
    BY <1>6, <1>7, <1>8, <2>1, CandsAre
<1>10. x \in BadOnes(o) <=> (x \in Wins(o) /\ Cands(o)[x].bad) \/ result.bad
  <2>1. (\E i \in DOMAIN t.merges : x = MergeAt(i) /\ Result(o, i).bad) <=> result.bad
    BY <1>1, <1>4, <1>7, <1>8
  <2>2. x \notin RestOf(o)
    BY <1>6, <1>8, SetsAre
  <2> HIDE DEF result
  <2> QED
    BY <1>6, <2>1, <2>2, SetsAre
<1>11. RestState(o, P \cup {x})' /\ SlotState(o, P \cup {x})'
  BY <1>1, <1>6, <1>8, NoNodeThere
<1> HIDE DEF result
<1>12. ASSUME err' = "none", EntryState(o, P \cup {x})'
       PROVE  RowsInv'
  <2>1. pc' = "merges" /\ k' = n + 1 /\ pc' \in InRow
    BY <1>1, <1>4, <1>12 DEF Continue, InRow
  <2>2. RowBegun'
    BY <1>1, <1>2, <2>1, InRowStays
  <2>3. PICK Q : Q = P \cup {x}
    OBVIOUS
  <2>4. RowState(o, Q)'
    BY <1>11, <1>12, <2>3 DEF RowState
  <2>5. Reached(MergeAt(n + 1))'
    BY <1>1, <1>4, <1>5, <2>3, <2>4, ReachedAfter
  <2> QED
    BY <1>1, <1>3, <2>1, <2>2, <2>5 DEF RowsInv, RowBegun
<1>13. ASSUME err' # "none", err' \in RowErr(o)
       PROVE  RowsInv'
  <2>1. pc' = "done" /\ quiet' = FALSE
    BY <1>1, <1>3, <1>13 DEF Continue, Goto
  <2> QED
    BY <1>1, <1>2, <1>4, <1>13, <2>1, FailedIsKnown
<1>14. CASE result.bad
  <2>1. x \in BadOnes(o) /\ err' = "ErrInvalidNumber"
    BY <1>1, <1>10, <1>14
  <2> QED
    BY <1>13, <2>1, RowErrIs
<1>15. CASE result.empty /\ ~result.bad
  <2>1. x \notin DOMAIN Cands(o) /\ x \notin BadOnes(o)
    BY <1>6, <1>9, <1>10, <1>15, SetsAre
  <2>2. EntryState(o, P \cup {x})'
    BY <1>1, <1>6, <1>15, <2>1, NothingThere
  <2> QED
    BY <1>1, <1>3, <1>12, <1>15, <2>2
<1>16. CASE ~result.empty /\ ~result.bad
  <2>1. x \in DOMAIN Cands(o)
    BY <1>9, <1>16
  <2>2. PICK name, value, bad : name = m.to /\ value = result.value /\ bad = FALSE
    OBVIOUS
  <2>3. Claim(name, value, bad)
    BY <1>1, <1>16, <2>2
  <2>4. /\ Cands(o)[x].name = name /\ Cands(o)[x].value = value /\ Cands(o)[x].bad = bad
        /\ Cands(o)[x].quiet = quiet
    BY <1>3, <1>4, <1>6, <1>7, <2>1, <2>2, MergeCand
  <2>5. x \in BadOnes(o) => x \in Wins(o) /\ Cands(o)[x].bad
    BY <1>10, <1>16
  <2>6. \/ err' = "none" /\ EntryState(o, P \cup {x})'
        \/ err' # "none" /\ err' \in RowErr(o)
    <3>1. UNCHANGED <<t, rec>> /\ err = "none" /\ x[1] # 1 /\ OwnersKnown
      BY <1>1, <1>3, <1>8
    <3> QED
      BY <1>5, <1>6, <2>1, <2>3, <2>4, <2>5, <3>1, ClaimEntry
  <2> QED
    BY <1>12, <1>13, <2>6
<1> QED
  BY <1>14, <1>15, <1>16

(* A key is taken by what precedes the defaults. *)
LEMMA TakenIs ==
  ASSUME NEW o, AtHand(o), NEW name
  PROVE  name \in TakenOf(o) <=> \E a \in Wins(o) : a[1] \in {1, 2, 3} /\ Cands(o)[a].name = name
<1>1. DOMAIN EarlyCands(o) = EarlyOf(o)
  BY DEF EarlyCands, CandidatesAt
<1>2. EarlyOf(o) \subseteq PlacesOf(o) /\ \A a \in EarlyOf(o) : a[1] \in {1, 2, 3}
  BY EarlyIs
<1>3. \A a \in PlacesOf(o) : a[1] \in {1, 2, 3} => (a \in DOMAIN Cands(o) <=> a \in EarlyOf(o))
  BY CandsAre
<1>4. \A a \in EarlyOf(o) : EarlyCands(o)[a] = Cands(o)[a]
  <2>1. \A a \in EarlyOf(o) : EarlyCands(o)[a] = At(o, a)
    BY DEF EarlyCands, CandidatesAt, At
  <2>2. \A a \in EarlyOf(o) : Cands(o)[a] = At(o, a)
    BY <1>2, <1>3, CandsAre
  <2> QED
    BY <2>1, <2>2
<1>5. ASSUME NEW a \in EarlyOf(o)
      PROVE  a \in Winners(t, Fx, EarlyCands(o)) <=> a \in Wins(o)
  <2>1. a \in Winners(t, Fx, EarlyCands(o)) <=>
          \/ a[1] = 1
          \/ /\ EarlyCands(o)[a].name \notin Owned(t, Fx)
             /\ \/ t.collision = "keep"
                \/ \A b \in EarlyOf(o) : Precedes(b, a) => EarlyCands(o)[b].name # EarlyCands(o)[a].name
    BY <1>1 DEF Winners, Before
  <2>2. a \in DOMAIN Cands(o)
    BY <1>2, <1>3
  <2>3. ASSUME NEW b \in DOMAIN Cands(o), Precedes(b, a)
        PROVE  b \in EarlyOf(o)
    <3>1. b \in PlacesOf(o) /\ b[1] \in {1, 2, 3, 4, 5}
      BY CandsAre, PlacesInside
    <3>2. b[1] <= a[1] /\ a[1] \in {1, 2, 3}
      BY <1>2, <2>3, <3>1 DEF Precedes
    <3> QED
      BY <1>3, <3>1, <3>2
  <2>4. \A b \in EarlyOf(o) : b \in DOMAIN Cands(o)
    BY <1>2, <1>3
  <2>5. (\A b \in EarlyOf(o) : Precedes(b, a) => EarlyCands(o)[b].name # EarlyCands(o)[a].name)
          <=> \A b \in DOMAIN Cands(o) : Precedes(b, a) => Cands(o)[b].name # Cands(o)[a].name
    BY <1>4, <2>3, <2>4
  <2>6. a \in Wins(o) <=>
          \/ a[1] = 1
          \/ /\ Cands(o)[a].name \notin Owned(t, Fx)
             /\ \/ t.collision = "keep"
                \/ \A b \in DOMAIN Cands(o) : Precedes(b, a) => Cands(o)[b].name # Cands(o)[a].name
    BY <2>2, SetsAre
  <2> QED
    BY <1>4, <2>1, <2>5, <2>6
<1>6. Winners(t, Fx, EarlyCands(o)) \subseteq EarlyOf(o)
  BY <1>1 DEF Winners
<1>7. \A a \in Wins(o) : a[1] \in {1, 2, 3} => a \in EarlyOf(o)
  BY <1>3, SetsAre
<1> QED
  BY <1>2, <1>4, <1>5, <1>6, <1>7 DEF TakenOf

(* A default is a candidate unless its key has been seen. *)
LEMMA DefaultTurn ==
  ASSUME NEW o, AtHand(o), NEW d \in DOMAIN t.defaults, EntryState(o, Upto(o, DefaultAt(d)))
  PROVE  DefaultAt(d) \in DOMAIN Cands(o) <=> ~seen[d]
<1> DEFINE key == t.defaults[d].key
           P == Upto(o, DefaultAt(d))
<1>1. seen[d] <=> \E a \in Wins(o) \cap P : Cands(o)[a].name = key
  BY DEF EntryState, AreEntries
<1>2. DefaultAt(d) \in DOMAIN Cands(o) <=> key \notin TakenOf(o)
  BY CandsAre
<1>3. key \in TakenOf(o) <=> \E a \in Wins(o) : a[1] \in {1, 2, 3} /\ Cands(o)[a].name = key
  BY TakenIs
<1>4. ASSUME NEW a \in Wins(o), Cands(o)[a].name = key
      PROVE  a \in P <=> a[1] \in {1, 2, 3}
  <2>1. /\ a \in PlacesOf(o) /\ a \in DOMAIN Cands(o) /\ a[1] \in {1, 2, 3, 4, 5}
        /\ a[1] = 4 => a[2] \in DOMAIN t.defaults /\ a = DefaultAt(a[2])
    BY SetsAre, PlacesInside
  <2>2. a \in P <=> Precedes(a, DefaultAt(d))
    BY <2>1 DEF Upto, Before
  <2>3. a[1] = 4 => a[2] = d
    <3>1. ASSUME a[1] = 4
          PROVE  t.defaults[a[2]].key = key
      <4>1. PICK b : b = a[2]
        OBVIOUS
      <4>2. DefaultAt(b) = a
        BY <2>1, <3>1, <4>1
      <4>3. DefaultAt(b) \in DOMAIN Cands(o)
        BY <2>1, <4>2
      <4>4. Cands(o)[DefaultAt(b)].name = t.defaults[b].key
        BY <4>3, DefaultCand
      <4> QED
        BY <1>4, <4>1, <4>2, <4>4
    <3>2. WellFormed(t)
      BY Tables
    <3> QED
      BY <2>1, <3>1, <3>2 DEF WellFormed
  <2>4. d \in Nat
    BY Tables
  <2>5. a[1] = 4 => a = <<4, d, 0>>
    BY <2>1, <2>3 DEF DefaultAt
  <2> QED
    BY <2>1, <2>2, <2>4, <2>5 DEF Precedes, DefaultAt
<1> HIDE DEF P, key
<1> QED
  BY <1>1, <1>2, <1>3, <1>4

LEMMA WriteDefaultKeepsRows ==
  ASSUME KnownInv, WriteDefault
  PROVE  RowsInv'
<1> DEFINE d == t.defaults[k]
<1>1. /\ pc = "defaults" /\ k \in DOMAIN t.defaults /\ Continue
      /\ UNCHANGED <<t, rec, out, slots, quiet, rest, rows>>
      /\ seen[k] => UNCHANGED <<body, seen, keys, dropped, err>>
      /\ ~seen[k] => Claim(d.key, <<d.value>>, FALSE)
  BY DEF WriteDefault
<1>2. pc \in InRow
  BY <1>1 DEF InRow
<1>3. /\ AtHand(out) /\ k \in Nat \ {0} /\ err = "none" /\ OwnersKnown
      /\ Reached(DefaultAt(k)) /\ quiet = FALSE
  BY <1>1, <1>2, KnownHere DEF KnownInv, RowsInv
<1>4. PICK o, n, P, x : o = out /\ n = k /\ P = Upto(o, DefaultAt(n)) /\ x = DefaultAt(n)
  OBVIOUS
<1>5. IsNext(o, P, x) /\ Upto(o, DefaultAt(n + 1)) = P \cup {x}
  BY <1>1, <1>3, <1>4, DefaultIsNext DEF OnePlace
<1>6. AtHand(o) /\ EntryState(o, P) /\ RestState(o, P) /\ SlotState(o, P)
  BY <1>3, <1>4 DEF Reached, RowState
<1>7. x \in DOMAIN Cands(o) <=> ~seen[k]
  BY <1>1, <1>4, <1>6, DefaultTurn
<1>8. x[1] = 4 /\ x \notin RowNodes(o) /\ \A i : x # MergeAt(i)
  <2>1. x[1] = 4 /\ \A i : x # MergeAt(i)
    BY <1>4 DEF DefaultAt, MergeAt
  <2> QED
    BY <2>1, <1>6, PlacesInside
<1>9. x \in BadOnes(o) => x \in Wins(o) /\ Cands(o)[x].bad
  BY <1>6, <1>8, SetsAre
<1>10. RestState(o, P \cup {x})' /\ SlotState(o, P \cup {x})'
  BY <1>1, <1>6, <1>8, NoNodeThere
<1>11. ASSUME err' = "none", EntryState(o, P \cup {x})'
       PROVE  RowsInv'
  <2>1. pc' = "defaults" /\ k' = n + 1 /\ pc' \in InRow
    BY <1>1, <1>4, <1>11 DEF Continue, InRow
  <2>2. RowBegun'
    BY <1>1, <1>2, <2>1, InRowStays
  <2>3. PICK Q : Q = P \cup {x}
    OBVIOUS
  <2>4. RowState(o, Q)'
    BY <1>10, <1>11, <2>3 DEF RowState
  <2>5. Reached(DefaultAt(n + 1))'
    BY <1>1, <1>4, <1>5, <2>3, <2>4, ReachedAfter
  <2> QED
    BY <1>1, <1>3, <2>1, <2>2, <2>5 DEF RowsInv, RowBegun
<1>12. ASSUME err' # "none", err' \in RowErr(o)
       PROVE  RowsInv'
  <2>1. pc' = "done" /\ quiet' = FALSE
    BY <1>1, <1>3, <1>12 DEF Continue, Goto
  <2> QED
    BY <1>1, <1>2, <1>4, <1>12, <2>1, FailedIsKnown
<1>13. CASE seen[k]
  <2>1. x \notin DOMAIN Cands(o) /\ x \notin BadOnes(o)
    BY <1>6, <1>7, <1>9, <1>13, SetsAre
  <2>2. EntryState(o, P \cup {x})'
    BY <1>1, <1>6, <1>13, <2>1, NothingThere
  <2> QED
    BY <1>1, <1>3, <1>11, <1>13, <2>2
<1>14. CASE ~seen[k]
  <2>1. x \in DOMAIN Cands(o)
    BY <1>7, <1>14
  <2>2. PICK name, value, bad : name = d.key /\ value = <<d.value>> /\ bad = FALSE
    OBVIOUS
  <2>3. Claim(name, value, bad)
    BY <1>1, <1>14, <2>2
  <2>4. /\ Cands(o)[x].name = name /\ Cands(o)[x].value = value /\ Cands(o)[x].bad = bad
        /\ Cands(o)[x].quiet = quiet
    BY <1>3, <1>4, <1>6, <2>1, <2>2, DefaultCand
  <2>5. \/ err' = "none" /\ EntryState(o, P \cup {x})'
        \/ err' # "none" /\ err' \in RowErr(o)
    <3>1. UNCHANGED <<t, rec>> /\ err = "none" /\ x[1] # 1 /\ OwnersKnown
      BY <1>1, <1>3, <1>8
    <3> QED
      BY <1>5, <1>6, <1>9, <2>1, <2>3, <2>4, <3>1, ClaimEntry
  <2> QED
    BY <1>11, <1>12, <2>5
<1> QED
  BY <1>13, <1>14

LEMMA WriteRestKeepsRows ==
  ASSUME KnownInv, WriteRest
  PROVE  RowsInv'
<1>1. /\ pc = "defaults" /\ k \notin DOMAIN t.defaults
      /\ pc' = IF err' = "none" THEN "close" ELSE "done"
      /\ UNCHANGED <<t, rec, out, slots, quiet, rest, rows>>
      /\ rest = <<>> => UNCHANGED <<body, seen, keys, dropped, err>>
      /\ rest # <<>> => Claim(t.rest, rest, FALSE)
  BY DEF WriteRest, Goto
<1>2. pc \in InRow
  BY <1>1 DEF InRow
<1>3. /\ AtHand(out) /\ k \in Nat \ {0} /\ err = "none" /\ OwnersKnown
      /\ Reached(DefaultAt(k)) /\ quiet = FALSE
  BY <1>1, <1>2, KnownHere DEF KnownInv, RowsInv
<1>4. PICK o, n, P, x : o = out /\ n = k /\ P = Upto(o, DefaultAt(n)) /\ x = RestAt
  OBVIOUS
<1>5. IsNext(o, P, x) /\ Upto(o, EndAt) = P \cup {x}
  BY <1>1, <1>3, <1>4, RestIsNext DEF OnePlace
<1>6. AtHand(o) /\ EntryState(o, P) /\ RestState(o, P) /\ SlotState(o, P)
  BY <1>3, <1>4 DEF Reached, RowState
<1>7. rest = Listed(RestOf(o), RestEntry(o)) /\ (rest = <<>> <=> RestOf(o) = {})
  <2>1. RestOf(o) \subseteq RowNodes(o) /\ RestOf(o) \subseteq AllPlaces
    BY <1>6, SetsAre, PlacesInside
  <2>2. RowNodes(o) \subseteq P
    BY <1>4, <1>6, NodesAreThrough
  <2>3. RestOf(o) \cap P = RestOf(o)
    BY <2>1, <2>2
  <2>4. IsListing(rest, RestOf(o), RestEntry(o))
    BY <1>6, <2>3 DEF RestState
  <2> QED
    BY <2>1, <2>4, ListingIsListed
<1>8. x[1] = 5 /\ x \notin RowNodes(o) /\ \A i : x # MergeAt(i)
  <2>1. x[1] = 5 /\ \A i : x # MergeAt(i)
    BY <1>4 DEF RestAt, MergeAt
  <2> QED
    BY <2>1, <1>6, PlacesInside
<1>9. x \in BadOnes(o) => x \in Wins(o) /\ Cands(o)[x].bad
  BY <1>6, <1>8, SetsAre
<1>10. x \in DOMAIN Cands(o) <=> rest # <<>>
  BY <1>4, <1>6, <1>7, CandsAre
<1>11. RestState(o, P \cup {x})' /\ SlotState(o, P \cup {x})'
  BY <1>1, <1>6, <1>8, NoNodeThere
<1>12. ASSUME err' = "none", EntryState(o, P \cup {x})'
       PROVE  RowsInv'
  <2>1. pc' = "close" /\ pc' \in InRow
    BY <1>1, <1>12 DEF InRow
  <2>2. RowBegun'
    BY <1>1, <1>2, <2>1, InRowStays
  <2>3. PICK Q : Q = P \cup {x}
    OBVIOUS
  <2>4. RowState(o, Q)'
    BY <1>11, <1>12, <2>3 DEF RowState
  <2>5. Reached(EndAt)'
    BY <1>1, <1>4, <1>5, <2>3, <2>4, ReachedAfter
  <2> QED
    BY <1>1, <1>3, <2>1, <2>2, <2>5 DEF RowsInv, RowBegun
<1>13. ASSUME err' # "none", err' \in RowErr(o)
       PROVE  RowsInv'
  <2>1. pc' = "done" /\ quiet' = FALSE
    BY <1>1, <1>3, <1>13
  <2> QED
    BY <1>1, <1>2, <1>4, <1>13, <2>1, FailedIsKnown
<1>14. CASE rest = <<>>
  <2>1. x \notin DOMAIN Cands(o) /\ x \notin BadOnes(o)
    BY <1>6, <1>9, <1>10, <1>14, SetsAre
  <2>2. EntryState(o, P \cup {x})'
    BY <1>1, <1>6, <1>14, <2>1, NothingThere
  <2> QED
    BY <1>1, <1>3, <1>12, <1>14, <2>2
<1>15. CASE rest # <<>>
  <2>1. x \in DOMAIN Cands(o)
    BY <1>10, <1>15
  <2>2. PICK name, value, bad : name = t.rest /\ value = rest /\ bad = FALSE
    OBVIOUS
  <2>3. Claim(name, value, bad)
    BY <1>1, <1>15, <2>2
  <2>4. /\ Cands(o)[x].name = name /\ Cands(o)[x].value = value /\ Cands(o)[x].bad = bad
        /\ Cands(o)[x].quiet = quiet
    BY <1>3, <1>4, <1>6, <1>7, <2>1, <2>2, RestCand
  <2>5. \/ err' = "none" /\ EntryState(o, P \cup {x})'
        \/ err' # "none" /\ err' \in RowErr(o)
    <3>1. UNCHANGED <<t, rec>> /\ err = "none" /\ x[1] # 1 /\ OwnersKnown
      BY <1>1, <1>3, <1>8
    <3> QED
      BY <1>5, <1>6, <1>9, <2>1, <2>3, <2>4, <3>1, ClaimEntry
  <2> QED
    BY <1>12, <1>13, <2>5
<1> QED
  BY <1>14, <1>15

(* A row that is through is the one Rows has. *)
LEMMA RowIsRow ==
  ASSUME NEW o, AtHand(o), EntryState(o, PlacesOf(o))
  PROVE  /\ Row(t, rec, Fx, o) = [output |-> o, body |-> body, dropped |-> dropped]
         /\ RowErr(o) = {}
<1>1. /\ Wins(o) \cap PlacesOf(o) = Wins(o) /\ Lost(o) \cap PlacesOf(o) = Lost(o)
      /\ Clashes(o) \cap PlacesOf(o) = Clashes(o) /\ BadOnes(o) \cap PlacesOf(o) = BadOnes(o)
  BY SetsAre
<1>2. /\ IsListing(body, Wins(o), Entries(o)) /\ dropped = Cardinality(Lost(o))
      /\ Clashes(o) = {} /\ BadOnes(o) = {}
  BY <1>1 DEF EntryState, AreEntries
<1>3. Wins(o) \subseteq AllPlaces
  BY SetsAre, PlacesInside
<1>4. body = Listed(Wins(o), Entries(o))
  BY <1>2, <1>3, ListingIsListed
<1>5. Row(t, rec, Fx, o) =
        [output |-> o, body |-> Listed(Wins(o), Entries(o)), dropped |-> Cardinality(Lost(o))]
  BY DEF Row, Wins, Lost, Entries, Cands, RowNodes
<1> QED
  BY <1>2, <1>4, <1>5, RowErrIs

LEMMA CloseRowKeepsRows ==
  ASSUME KnownInv, CloseRow
  PROVE  RowsInv'
<1> DEFINE row == [output |-> out, body |-> body, dropped |-> dropped]
<1>1. /\ pc = "close" /\ rows' = Append(rows, row) /\ out' = out + 1 /\ pc' = "outputs"
      /\ UNCHANGED <<t, rec, quiet, body, keys, dropped, seen, rest, slots>>
  BY DEF CloseRow, Goto, perRow
<1>2. pc \in InRow
  BY <1>1 DEF InRow
<1>3. /\ AtHand(out) /\ Reached(EndAt) /\ quiet = FALSE /\ IsASeq(rows)
      /\ out \in Nat \ {0} /\ RowsKnown(out) /\ out \in Matching(t, Fx)
  BY <1>1, <1>2, KnownHere DEF KnownInv, RowsInv
<1>4. PICK o, n, P : o = out /\ n = Len(rows) /\ P = PlacesOf(o)
  OBVIOUS
<1>5. RowState(o, P) /\ AtHand(o)
  BY <1>3, <1>4, FirstAndLast DEF Reached
<1>6. Row(t, rec, Fx, o) = row /\ RowErr(o) = {}
  BY <1>4, <1>5, RowIsRow DEF RowState
<1> HIDE DEF row
<1>7. /\ IsASeq(rows') /\ Len(rows') = n + 1 /\ n \in Nat
      /\ DOMAIN rows = 1..n /\ DOMAIN rows' = 1..(n + 1)
      /\ \A p \in DOMAIN rows : rows'[p] = rows[p]
      /\ rows'[n + 1] = row
  BY <1>1, <1>3, <1>4, AppendASeq
<1>8. row.output = o /\ row.body = body
  BY <1>4 DEF row
<1>9. Fx' = Fx /\ \A x : RowErr(x)' = RowErr(x)
  BY <1>1, RecordStays
<1>10. PreviousKnown'
  <2>1. RowState(o, P)'
    BY <1>1, <1>5, StateStays
  <2>2. Previous' = row
    BY <1>7 DEF Previous
  <2>3. PlacesOf(o)' = P
    BY <1>1, <1>4, RecordStays
  <2> QED
    BY <1>1, <1>8, <2>1, <2>2, <2>3 DEF PreviousKnown
<1>11. RowsKnown(out)'
  <2>1. PICK M : M = Matching(t, Fx)
    OBVIOUS
  <2>2. M \subseteq Nat /\ o \in M /\ o \in Nat
    <3>1. IsASeq(t.outputs)
      BY <1>5, MoreTables DEF HasTables, AtHand
    <3>2. DOMAIN t.outputs \subseteq Nat
      BY <3>1 DEF IsASeq
    <3> QED
      BY <1>3, <1>4, <2>1, <3>2 DEF Matching
  <2>3. /\ {rows[p].output : p \in DOMAIN rows} = {x \in M : x < o}
        /\ \A p, q \in DOMAIN rows : p < q => rows[p].output < rows[q].output
        /\ \A p \in DOMAIN rows : rows[p] = Row(t, rec, Fx, rows[p].output) /\ RowErr(rows[p].output) = {}
    BY <1>3, <1>4, <2>1 DEF RowsKnown
  <2>4. \A p \in DOMAIN rows : rows[p].output \in M /\ rows[p].output < o
    BY <2>3
  <2>5. \A p \in DOMAIN rows' : (p \in DOMAIN rows /\ rows'[p] = rows[p]) \/ (p = n + 1 /\ rows'[p] = row)
    BY <1>7
  <2>6. {rows'[p].output : p \in DOMAIN rows'} = {x \in M : x < o + 1}
    <3>1. ASSUME NEW p \in DOMAIN rows'
          PROVE  rows'[p].output \in {x \in M : x < o + 1}
      <4>1. CASE p \in DOMAIN rows /\ rows'[p] = rows[p]
        <5>1. PICK x : x = rows[p].output
          OBVIOUS
        <5>2. x \in M /\ x < o /\ x \in Nat
          BY <2>2, <2>4, <4>1, <5>1
        <5> QED
          BY <2>2, <4>1, <5>1, <5>2
      <4>2. CASE rows'[p] = row
        BY <2>2, <1>8, <4>2
      <4> QED
        BY <2>5, <4>1, <4>2
    <3>2. ASSUME NEW x \in M, x < o + 1
          PROVE  \E p \in DOMAIN rows' : rows'[p].output = x
      <4>1. CASE x = o
        BY <4>1, <1>7, <1>8
      <4>2. CASE x < o
        <5>1. PICK p \in DOMAIN rows : rows[p].output = x
          BY <2>3, <4>2
        <5>2. p \in DOMAIN rows' /\ rows'[p] = rows[p]
          BY <1>7
        <5> QED
          BY <5>1, <5>2
      <4> QED
        BY <2>2, <3>2, <4>1, <4>2
    <3> QED
      BY <3>1, <3>2
  <2>7. \A p, q \in DOMAIN rows' : p < q => rows'[p].output < rows'[q].output
    <3>1. \A p, q \in DOMAIN rows' : p < q => p \in DOMAIN rows
      BY <1>7
    <3> QED
      BY <1>7, <1>8, <2>3, <2>4, <2>5, <3>1
  <2>8. \A p \in DOMAIN rows' : rows'[p] = Row(t, rec, Fx, rows'[p].output) /\ RowErr(rows'[p].output) = {}
    BY <1>6, <1>8, <2>3, <2>5
  <2>9. Matching(t, Fx)' = M /\ out' = o + 1
    BY <1>1, <1>4, <1>9, <2>1
  <2>10. \A x : Row(t, rec, Fx, x)' = Row(t, rec, Fx, x)
    BY <1>1, <1>9
  <2> QED
    BY <1>9, <2>6, <2>7, <2>8, <2>9, <2>10, <1>1 DEF RowsKnown
<1>12. out' \in Nat \ {0}
  BY <1>1, <1>3
<1> QED
  BY <1>1, <1>3, <1>7, <1>10, <1>11, <1>12 DEF RowsInv, InRow, RowsAsSpecified, FailsAsSpecified, Finished

-----------------------------------------------------------------------------
(* Between two rows.                                                        *)

LEMMA PreviousStays ==
  ASSUME PreviousKnown, UNCHANGED <<t, rec, rows, body, keys, dropped, seen, rest, slots>>
  PROVE  PreviousKnown'
<1>1. CASE rows = <<>>
  BY <1>1 DEF PreviousKnown
<1>2. CASE rows # <<>>
  <2>1. PICK o, P : o = Previous.output /\ P = PlacesOf(o)
    OBVIOUS
  <2>2. RowState(o, P) /\ Previous.body = body
    BY <1>2, <2>1 DEF PreviousKnown
  <2>3. RowState(o, P)'
    BY <2>2, StateStays
  <2>4. Previous' = Previous /\ PlacesOf(o)' = P
    BY <2>1, RecordStays DEF Previous
  <2>5. Previous'.output = o
    BY <2>1, <2>4
  <2> QED
    BY <2>2, <2>3, <2>4, <2>5 DEF PreviousKnown
<1> QED
  BY <1>1, <1>2

(* An output that does not match has no row. *)
LEMMA SkipOutputKeepsRows ==
  ASSUME KnownInv, SkipOutput
  PROVE  RowsInv'
<1>1. /\ pc = "outputs" /\ out \in DOMAIN t.outputs /\ out' = out + 1
      /\ ~(CondOK(t.outputs[out].when) /\ IsNamed(t.outputs[out]))
      /\ UNCHANGED <<t, rec, pc, quiet, rows, body, keys, dropped, seen, rest, slots>>
  BY DEF SkipOutput, perRow
<1>2. /\ IsASeq(rows) /\ out \in Nat \ {0} /\ RowsKnown(out) /\ PreviousKnown /\ quiet = FALSE
      /\ t \in Configs /\ rec \in Records(t) /\ rec.container
  BY <1>1, KnownHere DEF KnownInv, RowsInv
<1>3. out \notin Matching(t, Fx)
  BY <1>1, MatchIs DEF KnownInv
<1>4. Matching(t, Fx) \subseteq Nat
  <2>1. IsASeq(t.outputs)
    BY <1>2, MoreTables DEF HasTables
  <2>2. DOMAIN t.outputs \subseteq Nat
    BY <2>1 DEF IsASeq
  <2> QED
    BY <2>2 DEF Matching
<1>5. PICK n : n = out
  OBVIOUS
<1>6. RowsKnown(n + 1)
  <2>1. {o \in Matching(t, Fx) : o < n + 1} = {o \in Matching(t, Fx) : o < n}
    BY <1>2, <1>3, <1>4, <1>5
  <2> QED
    BY <1>2, <1>5, <2>1 DEF RowsKnown
<1>7. RowsKnown(n + 1)'
  BY <1>1, <1>6, RowsStay
<1>8. PreviousKnown'
  BY <1>1, <1>2, PreviousStays
<1> QED
  BY <1>1, <1>2, <1>5, <1>7, <1>8 DEF RowsInv, InRow, RowsAsSpecified, FailsAsSpecified, Finished

(* The row of an output is begun only if the output matches (build, row). *)
LEMMA RowOpens ==
  ASSUME KnownInv, StartRow, pc' \in InRow
  PROVE  RowBegun' /\ AtHand(out) /\ out \in Matching(t, Fx) /\ quiet = FALSE
<1>1. /\ pc = "outputs" /\ out \in DOMAIN t.outputs
      /\ CondOK(t.outputs[out].when) /\ IsNamed(t.outputs[out])
      /\ UNCHANGED <<t, rec, out, rows>>
  BY DEF StartRow
<1>2. /\ IsASeq(rows) /\ out \in Nat \ {0} /\ RowsKnown(out) /\ quiet = FALSE
      /\ t \in Configs /\ rec \in Records(t) /\ rec.container
  BY <1>1, KnownHere DEF KnownInv, RowsInv
<1>3. out \in Matching(t, Fx)
  BY <1>1, MatchIs DEF KnownInv
<1>4. RowsKnown(out)'
  <2>1. PICK n : n = out
    OBVIOUS
  <2>2. RowsKnown(n)'
    BY <1>1, <1>2, <2>1, RowsStay
  <2> QED
    BY <1>1, <2>1, <2>2
<1>5. Fx' = Fx
  BY <1>1, RecordStays
<1>6. RowBegun'
  BY <1>1, <1>2, <1>3, <1>4, <1>5 DEF RowBegun, RowsAsSpecified, FailsAsSpecified, Finished, InRow
<1> QED
  BY <1>1, <1>2, <1>3, <1>6 DEF AtHand

(* A row that starts anew starts with nothing (openRow). *)
LEMMA FreshRowKeepsRows ==
  ASSUME KnownInv, FreshRow
  PROVE  RowsInv'
<1>1. /\ StartRow /\ dropped' = 0 /\ slots' = [s \in DOMAIN slots |-> Missing]
      /\ keys' = (IF t.collision = "keep" THEN keys ELSE {})
      /\ seen' = [d \in DOMAIN seen |-> FALSE]
      /\ colWritten' = [name \in DOMAIN colWritten |-> FALSE]
      /\ rest' = <<>> /\ body' = <<>> /\ sec' = 1 /\ pc' = "columns" /\ k' = 1
      /\ UNCHANGED quiet
  BY DEF FreshRow, StartAnew, ClearSlots, Goto
<1>2. pc' \in InRow /\ UNCHANGED <<t, rec, out>>
  BY <1>1 DEF StartRow, InRow
<1>3. RowBegun' /\ AtHand(out) /\ quiet = FALSE
  BY <1>1, <1>2, RowOpens
<1>4. DOMAIN slots = Slots /\ DOMAIN seen = DOMAIN t.defaults /\ DOMAIN colWritten = ColumnNames(t)
  BY DEF KnownInv, TypeInv, SlotTypes, EntryTypes, NameInv, NameTypes
<1>5. PICK o : o = out
  OBVIOUS
<1>6. /\ Fx' = Fx /\ Slots' = Slots /\ RowNodes(o)' = RowNodes(o)
      /\ RestOf(o)' = RestOf(o) /\ RestEntry(o)' = RestEntry(o)
  BY <1>2, RecordStays
<1>7. EntryState(o, {})'
  <2>1. IsListing(body', {}, Entries(o))
    BY <1>1, ListingNone
  <2>2. t.collision # "keep" => keys' = {}
    BY <1>1
  <2>3. IsFiniteSet({}) /\ dropped' = Cardinality({})
    BY <1>1, FS_EmptySet
  <2>4. /\ seen' \in [DOMAIN t.defaults -> BOOLEAN]
        /\ \A d \in DOMAIN t.defaults : seen'[d] = FALSE
    BY <1>1, <1>4
  <2>5. AreEntries(o, {}, body', keys', dropped', seen')
    BY <2>1, <2>2, <2>3, <2>4 DEF AreEntries
  <2> QED
    BY <1>2, <2>5, EntryPrimed
<1>8. RestState(o, {})'
  BY <1>1, <1>6, ListingNone DEF RestState
<1>9. SlotState(o, {})'
  <2>1. \A s \in Slots : slots'[s] = Missing
    BY <1>1, <1>4
  <2>2. \A s : Captured(rec, {}, s) = Missing
    BY DEF Captured
  <2>3. rec' = rec
    BY <1>2
  <2> QED
    BY <1>6, <2>1, <2>2, <2>3 DEF SlotState
<1>10. Reached(ColumnAt(1))'
  <2>1. Upto(o, ColumnAt(1)) = {}
    BY <1>3, <1>5, FirstAndLast
  <2>2. RowState(o, {})'
    BY <1>7, <1>8, <1>9 DEF RowState
  <2> QED
    BY <1>2, <1>5, <2>1, <2>2, ReachedAfter
<1>11. ColumnsWritten(1)'
  <2>1. \A name \in ColumnNames(t) : colWritten'[name] = FALSE
    BY <1>1, <1>4
  <2>2. \A c \in Filled(t, rec, Fx) : ~(c < 1)
    <3>1. \A c \in DOMAIN t.columns : c \in Nat \ {0}
      BY <1>3, Tables DEF AtHand
    <3> QED
      BY <3>1 DEF Filled, ActiveColumns
  <2> QED
    BY <1>2, <1>6, <2>1, <2>2 DEF ColumnsWritten
<1> QED
  BY <1>1, <1>3, <1>10, <1>11 DEF RowsInv, RowBegun

(* All sections of a are before the first that only b has, and of those that *)
(* b has they are all (extends).                                             *)
LEMMA FirstOwnParts ==
  ASSUME HasTables(t), NEW a, NEW b \in DOMAIN t.outputs, Extends(a, b)
  PROVE  /\ FirstOwn(a, b) \in Nat \ {0}
         /\ \A s : s \in ActiveIn(a) <=> s \in ActiveIn(b) /\ s < FirstOwn(a, b)
<1> DEFINE own == ActiveIn(b) \ ActiveIn(a)
<1>1. DOMAIN t.sections = 1..Len(t.sections) /\ Len(t.sections) \in Nat
  BY DEF HasTables, IsASeq
<1>2. ActiveIn(b) \subseteq DOMAIN t.sections
  BY DEF HasTables, ActiveIn
<1>3. ActiveIn(b) \in SUBSET (Nat \ {0}) /\ own \in SUBSET Nat /\ own \subseteq ActiveIn(b)
  BY <1>1, <1>2
<1>4. /\ ActiveIn(a) \subseteq ActiveIn(b)
      /\ \A s \in ActiveIn(a), x \in own : s < x
      /\ \A s \in ActiveIn(b) : s \in own \/ s \in ActiveIn(a)
  BY DEF Extends
<1>5. FirstOwn(a, b) = IF own = {} THEN Len(t.sections) + 1 ELSE CHOOSE s \in own : \A x \in own : s <= x
  BY DEF FirstOwn
<1> HIDE DEF own
<1>6. CASE own = {}
  <2>1. FirstOwn(a, b) = Len(t.sections) + 1
    BY <1>5, <1>6
  <2>2. \A s \in ActiveIn(b) : s \in ActiveIn(a) /\ s < Len(t.sections) + 1
    BY <1>1, <1>2, <1>4, <1>6
  <2> QED
    BY <1>1, <1>4, <2>1, <2>2
<1>7. CASE own # {}
  <2>1. PICK f : f = FirstOwn(a, b)
    OBVIOUS
  <2>2. f \in own /\ \A x \in own : f <= x
    <3>1. \E s \in own : \A x \in own : s <= x
      BY <1>3, <1>7, LeastNumber
    <3> QED
      BY <1>5, <1>7, <2>1, <3>1
  <2>3. f \in Nat \ {0} /\ \A s \in ActiveIn(b) : s \in Nat
    BY <1>3, <2>2
  <2>4. \A s \in own : ~(s < f)
    BY <1>3, <2>2
  <2> QED
    BY <1>4, <2>1, <2>2, <2>3, <2>4
<1> QED
  BY <1>6, <1>7

(* P are the first places of b's row, those of columns and of the nodes that *)
(* a's row has.                                                              *)
GoesOn(a, b, P) ==
  /\ P \subseteq PlacesOf(b) /\ \A x \in P, y \in PlacesOf(b) : Precedes(y, x) => y \in P
  /\ \A x \in PlacesOf(b) : x \in P <=> x[1] = 1 \/ x \in RowNodes(a)
  /\ RowNodes(a) \subseteq RowNodes(b)

(* What a's row wants is what b's row wants there, and nothing follows.      *)
WantSame(a, b, P) ==
  /\ \A x : x \in DOMAIN Cands(a) <=> x \in DOMAIN Cands(b) /\ x \in P
  /\ \A x \in DOMAIN Cands(a) : Cands(a)[x] = Cands(b)[x]
  /\ RestOf(a) = {} /\ RestOf(b) = {} /\ DOMAIN t.merges = {} /\ DOMAIN t.defaults = {}

(* The outputs that one record is written to differ in their nodes only, so *)
(* long as nothing follows the nodes.                                       *)
LEMMA SameCands ==
  ASSUME NEW a, NEW b, AtHand(a), AtHand(b), Extend(t), NEW P, GoesOn(a, b, P)
  PROVE  WantSame(a, b, P)
<1> USE DEF GoesOn
<1>1. DOMAIN t.merges = {} /\ DOMAIN t.defaults = {} /\ t.rest = NoName
  BY DEF Extend
<1>2. RestOf(a) = {} /\ RestOf(b) = {}
  BY <1>1, SetsAre
<1>3. ASSUME NEW o, AtHand(o), RestOf(o) = {}
      PROVE  \A x \in DOMAIN Cands(o) : x \in PlacesOf(o) /\ (x[1] = 1 \/ x \in RowNodes(o))
  <2> TAKE x \in DOMAIN Cands(o)
  <2>1. x \in PlacesOf(o) /\ x # RestAt
    BY <1>3, CandsAre
  <2> QED
    BY <1>1, <1>3, <2>1, PlacesInside
<1>4. ASSUME NEW c \in DOMAIN t.columns
      PROVE  ColumnAt(c) \in DOMAIN Cands(a) <=> ColumnAt(c) \in DOMAIN Cands(b)
  <2>1. /\ ColumnAt(c)[1] = 1 /\ ColumnAt(c) \in PlacesOf(a) /\ ColumnAt(c) \in PlacesOf(b)
    BY DEF ColumnAt, PlacesOf
  <2> QED
    BY <2>1, CandsAre, EarlyIs
<1>5. ASSUME NEW x \in RowNodes(a)
      PROVE  x \in DOMAIN Cands(a) <=> x \in DOMAIN Cands(b)
  <2>1. x \in RowNodes(b) /\ x \in PlacesOf(a) /\ x \in PlacesOf(b) /\ x[1] = 2
    BY PlacesInside
  <2> QED
    BY <2>1, CandsAre, EarlyIs
<1>6. ASSUME NEW x
      PROVE  x \in DOMAIN Cands(a) <=> x \in DOMAIN Cands(b) /\ x \in P
  <2>1. CASE x \in PlacesOf(a) /\ x[1] = 1
    <3>1. PICK c \in DOMAIN t.columns : x = ColumnAt(c)
      BY <2>1, PlacesInside
    <3>2. x \in PlacesOf(b)
      BY <3>1 DEF PlacesOf
    <3> QED
      BY <1>4, <2>1, <3>1, <3>2
  <2>2. CASE x \in RowNodes(a)
    <3>1. x \in PlacesOf(b)
      BY <2>2, PlacesInside
    <3> QED
      BY <1>5, <2>2, <3>1
  <2>3. CASE x \notin RowNodes(a) /\ ~(x \in PlacesOf(a) /\ x[1] = 1)
    <3>1. x \notin DOMAIN Cands(a)
      BY <1>2, <1>3, <2>3
    <3>2. ~(x \in P)
      <4> SUFFICES ASSUME x \in P
                   PROVE  FALSE
        OBVIOUS
      <4>1. x \in PlacesOf(b) /\ x[1] = 1
        BY <2>3
      <4>2. PICK c \in DOMAIN t.columns : x = ColumnAt(c)
        BY <4>1, PlacesInside
      <4>3. x \in PlacesOf(a)
        BY <4>2 DEF PlacesOf
      <4> QED
        BY <2>3, <4>1, <4>3
    <3> QED
      BY <3>1, <3>2
  <2> QED
    BY <2>1, <2>2, <2>3
<1>7. ASSUME NEW x \in DOMAIN Cands(a)
      PROVE  Cands(a)[x] = Cands(b)[x]
  <2>1. x[1] \in {1, 2}
    BY <1>2, <1>3, PlacesInside
  <2>2. At(a, x) = At(b, x)
    BY <2>1 DEF At, CandidateAt
  <2>3. x \in DOMAIN Cands(b)
    BY <1>6
  <2> QED
    BY <2>2, <2>3, CandsAre
<1> QED
  BY <1>1, <1>2, <1>6, <1>7 DEF WantSame

(* What wins, is reported or fails among the first places is decided there. *)
LEMMA SameWins ==
  ASSUME NEW a, NEW b, AtHand(a), AtHand(b), NEW P, GoesOn(a, b, P), WantSame(a, b, P)
  PROVE  /\ Wins(b) \cap P = Wins(a) /\ Lost(b) \cap P = Lost(a)
         /\ Clashes(b) \cap P = Clashes(a) /\ BadOnes(b) \cap P = BadOnes(a)
<1> USE DEF GoesOn, WantSame
<1>1. ASSUME NEW x \in DOMAIN Cands(a)
      PROVE  x \in Wins(a) <=> x \in Wins(b)
  <2>1. x \in DOMAIN Cands(b) /\ x \in P /\ Cands(a)[x] = Cands(b)[x]
    OBVIOUS
  <2>2. \A y : y \in DOMAIN Cands(b) /\ Precedes(y, x) <=> y \in DOMAIN Cands(a) /\ Precedes(y, x)
    BY <2>1, CandsAre
  <2>3. (\A y \in DOMAIN Cands(a) : Precedes(y, x) => Cands(a)[y].name # Cands(a)[x].name)
          <=> (\A y \in DOMAIN Cands(b) : Precedes(y, x) => Cands(b)[y].name # Cands(b)[x].name)
    BY <2>1, <2>2
  <2> QED
    BY <2>1, <2>3, SetsAre
<1>2. ASSUME NEW x
      PROVE  x \in Wins(b) /\ x \in P <=> x \in Wins(a)
  BY <1>1, SetsAre
<1>3. ASSUME NEW x
      PROVE  x \in Lost(b) /\ x \in P <=> x \in Lost(a)
  BY <1>2, SetsAre
<1>4. ASSUME NEW x
      PROVE  x \in Clashes(b) /\ x \in P <=> x \in Clashes(a)
  BY <1>2, SetsAre
<1>5. ASSUME NEW x
      PROVE  x \in BadOnes(b) /\ x \in P <=> x \in BadOnes(a)
  <2>1. x \in BadOnes(a) <=> x \in Wins(a) /\ Cands(a)[x].bad
    BY SetsAre
  <2>2. x \in BadOnes(b) <=> x \in Wins(b) /\ Cands(b)[x].bad
    BY SetsAre
  <2>3. x \in Wins(a) => x \in DOMAIN Cands(a)
    BY SetsAre
  <2> QED
    BY <1>2, <2>1, <2>2, <2>3
<1> QED
  BY <1>2, <1>3, <1>4, <1>5

(* So a row holds what is written first in a row that goes on from it. *)
LEMMA ExtendedEntries ==
  ASSUME NEW a, NEW b, AtHand(a), AtHand(b), Extend(t), NEW P, GoesOn(a, b, P),
         EntryState(a, PlacesOf(a))
  PROVE  EntryState(b, P)
<1>1. WantSame(a, b, P)
  BY SameCands
<1>2. /\ \A x : x \in DOMAIN Cands(a) <=> x \in DOMAIN Cands(b) /\ x \in P
      /\ \A x \in DOMAIN Cands(a) : Cands(a)[x] = Cands(b)[x]
      /\ P \subseteq PlacesOf(b) /\ DOMAIN t.defaults = {}
  BY <1>1 DEF WantSame, GoesOn
<1>3. /\ Wins(b) \cap P = Wins(a) /\ Lost(b) \cap P = Lost(a)
      /\ Clashes(b) \cap P = Clashes(a) /\ BadOnes(b) \cap P = BadOnes(a)
  BY <1>1, SameWins
<1>4. /\ Wins(a) \cap PlacesOf(a) = Wins(a) /\ Lost(a) \cap PlacesOf(a) = Lost(a)
      /\ Clashes(a) \cap PlacesOf(a) = Clashes(a) /\ BadOnes(a) \cap PlacesOf(a) = BadOnes(a)
      /\ DOMAIN Cands(a) \cap PlacesOf(a) = DOMAIN Cands(a) /\ DOMAIN Cands(b) \cap P = DOMAIN Cands(a)
  BY <1>2, SetsAre, CandsAre
<1>5. /\ IsListing(body, Wins(a), Entries(a))
      /\ t.collision # "keep" => keys = {Cands(a)[x].name : x \in DOMAIN Cands(a)} \ Owned(t, Fx)
      /\ IsFiniteSet(Lost(a)) /\ dropped = Cardinality(Lost(a))
      /\ seen \in [DOMAIN t.defaults -> BOOLEAN]
      /\ Clashes(a) = {} /\ BadOnes(a) = {}
  BY <1>4 DEF EntryState, AreEntries
<1>6. IsListing(body, Wins(a), Entries(b))
  <2>1. \A x \in Wins(a) : Entries(a)[x] = Entries(b)[x]
    BY <1>2, SetsAre DEF Entries
  <2> QED
    BY <1>5, <2>1, ListingSame
<1>7. {Cands(a)[x].name : x \in DOMAIN Cands(a)} = {Cands(b)[x].name : x \in DOMAIN Cands(a)}
  BY <1>2
<1>8. AreEntries(b, P, body, keys, dropped, seen)
  BY <1>2, <1>3, <1>4, <1>5, <1>6, <1>7 DEF AreEntries
<1> QED
  BY <1>8 DEF EntryState

(* A row that starts as a copy is what it were had it started anew and come *)
(* to the first section of its own (openRow, extends).                      *)
LEMMA ExtendRowKeepsRows ==
  ASSUME KnownInv, ExtendRow
  PROVE  RowsInv'
<1>1. /\ StartRow /\ CanExtend(out) /\ body' = Previous.body
      /\ sec' = FirstOwn(Previous.output, out) /\ pc' = "walk" /\ k' = 1
      /\ UNCHANGED <<keys, slots, seen, quiet, rest, dropped>>
  BY DEF ExtendRow, Goto
<1>2. pc = "outputs" /\ pc' \in InRow /\ UNCHANGED <<t, rec, out, rows>>
  BY <1>1 DEF StartRow, InRow
<1>3. RowBegun' /\ AtHand(out) /\ quiet = FALSE
  BY <1>1, <1>2, RowOpens
<1>4. /\ PreviousKnown /\ IsASeq(rows) /\ RowsKnown(out) /\ SectionsKnown(Len(t.sections))
  BY <1>2, KnownHere DEF KnownInv, RowsInv
<1>5. PICK a, b, f : a = Previous.output /\ b = out /\ f = FirstOwn(a, b)
  OBVIOUS
<1>6. Extend(t) /\ rows # <<>> /\ Extends(a, b)
  BY <1>1, <1>5 DEF CanExtend
<1>7. RowState(a, PlacesOf(a)) /\ body' = body
  BY <1>1, <1>4, <1>5, <1>6 DEF PreviousKnown
<1>8. AtHand(a) /\ AtHand(b)
  <2>1. Len(rows) \in DOMAIN rows
    BY <1>4, <1>6 DEF IsASeq
  <2>2. a \in {rows[p].output : p \in DOMAIN rows}
    BY <1>5, <2>1 DEF Previous
  <2>3. a \in DOMAIN t.outputs
    BY <1>4, <2>2 DEF RowsKnown, Matching
  <2> QED
    BY <1>3, <1>5, <2>3 DEF AtHand
<1>9. f \in Nat \ {0} /\ \A s : s \in ActiveIn(a) <=> s \in ActiveIn(b) /\ s < f
  BY <1>5, <1>6, <1>8, FirstOwnParts, Tables DEF AtHand
<1>10. PICK P : P = Upto(b, NodeAt(f, 1))
  OBVIOUS
<1>11. \A x : x \in RowNodes(a) <=> x \in RowNodes(b) /\ x[2] < f
  BY <1>4, <1>8, <1>9, ActiveIs DEF NodeAt
<1>12. \A x \in PlacesOf(b) : x \in P <=> x[1] = 1 \/ x \in RowNodes(a)
  <2> TAKE x \in PlacesOf(b)
  <2>1. x \in AllPlaces /\ x[1] \in {1, 2, 3, 4, 5} /\ (x[1] = 2 <=> x \in RowNodes(b))
        /\ (x[1] = 2 => x[3] \in Nat \ {0})
    <3>1. x[1] = 2 => x[2] \in DOMAIN rec.nodes /\ x[3] \in DOMAIN rec.nodes[x[2]]
      BY <1>8, PlacesInside, Tables
    <3>2. x[1] = 2 => x[3] \in Nat \ {0}
      BY <1>8, <3>1, Tables
    <3> QED
      BY <1>8, <3>2, PlacesInside
  <2>2. x \in P <=> Precedes(x, NodeAt(f, 1))
    BY <1>10 DEF Upto, Before
  <2>3. Precedes(x, NodeAt(f, 1)) <=> x[1] = 1 \/ (x[1] = 2 /\ x[2] < f)
    BY <1>9, <2>1 DEF Precedes, NodeAt, AllPlaces
  <2> QED
    BY <1>11, <2>1, <2>2, <2>3
<1>13. P \subseteq PlacesOf(b) /\ \A x \in P, y \in PlacesOf(b) : Precedes(y, x) => y \in P
  <2>1. P \subseteq PlacesOf(b) /\ \A y \in PlacesOf(b) : y \in P <=> Precedes(y, NodeAt(f, 1))
    BY <1>10 DEF Upto, Before
  <2>2. PlacesOf(b) \subseteq AllPlaces /\ NodeAt(f, 1) \in AllPlaces
    BY <1>8, <1>9, PlacesInside DEF NodeAt, AllPlaces
  <2> QED
    BY <2>1, <2>2, PrecedesOrders
<1>14. GoesOn(a, b, P)
  BY <1>11, <1>12, <1>13 DEF GoesOn
<1>15. EntryState(b, P)
  BY <1>6, <1>7, <1>8, <1>14, ExtendedEntries DEF RowState
<1>16. RestState(b, P) /\ SlotState(b, P)
  <2>1. RestOf(a) = {} /\ RestOf(b) = {} /\ DOMAIN t.merges = {}
    BY <1>6, <1>8, <1>14, SameCands DEF WantSame
  <2>2. IsListing(rest, {}, RestEntry(a))
    BY <1>7, <2>1 DEF RowState, RestState
  <2>3. IsListing(rest, {}, RestEntry(b))
    BY <2>2, ListingSame
  <2>4. Slots = {}
    BY <2>1 DEF Slots
  <2> QED
    BY <2>1, <2>3, <2>4 DEF RestState, SlotState
<1>17. RowState(b, P)'
  BY <1>1, <1>2, <1>7, <1>15, <1>16, StateStays DEF RowState
<1>18. Reached(NodeAt(f, 1))'
  BY <1>2, <1>5, <1>10, <1>17, ReachedAfter
<1> QED
  BY <1>1, <1>3, <1>5, <1>9, <1>18 DEF RowsInv, RowBegun

(* When the outputs are through, the rows are those of Rows (build). *)
LEMMA EndBuildKeepsRows ==
  ASSUME KnownInv, EndBuild
  PROVE  RowsInv'
<1>1. /\ pc = "outputs" /\ out \notin DOMAIN t.outputs /\ pc' = "done"
      /\ err' = IF rows = <<>> THEN "ErrNoOutput" ELSE err
      /\ UNCHANGED <<t, rec, quiet, rows>>
  BY DEF EndBuild, Goto, perRow
<1>2. /\ IsASeq(rows) /\ out \in Nat \ {0} /\ RowsKnown(out) /\ quiet = FALSE /\ err = "none"
      /\ t \in Configs /\ rec \in Records(t) /\ rec.container /\ ~RequiredMissing(t, rec)
  BY <1>1, KnownHere DEF KnownInv, RowsInv
<1>3. \A o \in Matching(t, Fx) : o < out
  <2>1. IsASeq(t.outputs)
    BY <1>2, MoreTables DEF HasTables
  <2>2. DOMAIN t.outputs = 1..Len(t.outputs) /\ Len(t.outputs) \in Nat
    BY <2>1 DEF IsASeq
  <2>3. \A o \in DOMAIN t.outputs : o < out
    BY <1>1, <1>2, <2>2
  <2> QED
    BY <2>3 DEF Matching
<1>4. {rows[p].output : p \in DOMAIN rows} = Matching(t, Fx)
  BY <1>2, <1>3 DEF RowsKnown
<1>5. Errors(t, rec) = IF Matching(t, Fx) = {} THEN {"ErrNoOutput"}
                       ELSE UNION {RowErrors(t, rec, Fx, o) : o \in Matching(t, Fx)}
  BY <1>2 DEF Errors, Fx
<1>6. CASE rows = <<>>
  <2>1. Matching(t, Fx) = {}
    BY <1>4, <1>6
  <2>2. Errors(t, rec) = {"ErrNoOutput"} /\ err' = "ErrNoOutput"
    BY <1>1, <1>5, <1>6, <2>1
  <2>3. RowsAsSpecified' /\ FailsAsSpecified'
    BY <1>1, <2>2 DEF RowsAsSpecified, FailsAsSpecified
  <2> QED
    BY <1>1, <1>2, <2>3 DEF RowsInv, InRow
<1>7. CASE rows # <<>>
  <2>1. Len(rows) \in DOMAIN rows
    BY <1>2, <1>7 DEF IsASeq
  <2>2. Matching(t, Fx) # {}
    BY <1>4, <2>1
  <2>3. \A o \in Matching(t, Fx) : RowErr(o) = {}
    <3> TAKE o \in Matching(t, Fx)
    <3>1. PICK p \in DOMAIN rows : rows[p].output = o
      BY <1>4
    <3> QED
      BY <1>2, <3>1 DEF RowsKnown
  <2>4. Errors(t, rec) = {}
    BY <1>5, <2>2, <2>3 DEF RowErr
  <2>5. AreRowsOf(t, rec, rows)
    <3>1. /\ \A p, q \in DOMAIN rows : p < q => rows[p].output < rows[q].output
          /\ \A p \in DOMAIN rows : rows[p] = Row(t, rec, Fx, rows[p].output)
      BY <1>2 DEF RowsKnown
    <3> QED
      BY <1>4, <3>1 DEF AreRowsOf, Fx
  <2>6. AreRowsOf(t, rec, rows)' /\ Errors(t, rec)' = {} /\ err' = "none"
    BY <1>1, <1>2, <1>7, <2>4, <2>5
  <2>7. RowsAsSpecified' /\ FailsAsSpecified'
    BY <2>6 DEF RowsAsSpecified, FailsAsSpecified
  <2> QED
    BY <1>1, <1>2, <2>7 DEF RowsInv, InRow
<1> QED
  BY <1>6, <1>7

-----------------------------------------------------------------------------
(* What precedes the rows.                                                  *)

LEMMA LoopsKeepRows ==
  ASSUME KnownInv, pc \in Preparing, pc' \in Preparing, UNCHANGED <<quiet, rows>>
  PROVE  RowsInv'
<1>1. IsASeq(rows) /\ quiet = FALSE
  BY DEF KnownInv, RowsInv, Preparing
<1> QED
  BY <1>1 DEF RowsInv, Preparing, InRow, RowsAsSpecified, FailsAsSpecified, Finished

(* A record that a required derived value fails has no other error. *)
LEMMA ComputeDerivedKeepsRows ==
  ASSUME KnownInv, ComputeDerived
  PROVE  RowsInv'
<1>1. /\ pc = "derive" /\ UNCHANGED <<t, rec, quiet, rows>> /\ pc' \in {"derive", "done"}
  BY DEF ComputeDerived, ComputeDerivedWith, Continue, Goto, perRow
<1>2. CASE pc' = "derive"
  BY <1>1, <1>2, LoopsKeepRows DEF Preparing
<1>3. CASE pc' = "done"
  <2>1. err' = "ErrRequired" /\ RequiredMissing(t, rec)'
    BY <1>3, ComputeDerivedKeepsFacts DEF KnownInv
  <2>2. IsASeq(rows) /\ quiet = FALSE /\ rec.container
    BY <1>1 DEF KnownInv, RowsInv, TypeInv, PlaceTypes
  <2>3. Errors(t, rec)' = {"ErrRequired"}
    BY <1>1, <2>1, <2>2 DEF Errors
  <2>4. RowsAsSpecified' /\ FailsAsSpecified'
    BY <2>1, <2>3 DEF RowsAsSpecified, FailsAsSpecified
  <2> QED
    BY <1>1, <1>3, <2>2, <2>4 DEF RowsInv, InRow
<1> QED
  BY <1>1, <1>2, <1>3

LEMMA SwitchesKeepRows ==
  ASSUME KnownInv, SwitchGroup \/ SwitchSection \/ Reserve
  PROVE  RowsInv'
<1>1. pc \in Preparing /\ UNCHANGED <<pc, quiet, rows>>
  BY DEF SwitchGroup, SwitchSection, Reserve, perRow, Preparing
<1> QED
  BY <1>1, LoopsKeepRows

(* The outputs begin with no rows. *)
LEMMA PrepareKeepsRows ==
  ASSUME KnownInv, Prepare
  PROVE  RowsInv'
<1>1. /\ pc \in Preparing /\ UNCHANGED <<t, rec, quiet, rows>>
      /\ pc' \in Preparing \/ (pc' = "outputs" /\ out' = 1)
  BY DEF Prepare, Goto, perRow, Preparing
<1>2. CASE pc' \in Preparing
  BY <1>1, <1>2, LoopsKeepRows
<1>3. CASE pc' = "outputs" /\ out' = 1
  <2>1. rows = <<>> /\ quiet = FALSE /\ t \in Configs
    BY <1>1 DEF KnownInv, NameInv, NameTypes, RowsInv, Preparing
  <2>2. RowsKnown(1)'
    <3>1. Matching(t, Fx) \subseteq Nat \ {0}
      <4>1. IsASeq(t.outputs)
        BY <2>1, MoreTables DEF HasTables
      <4>2. DOMAIN t.outputs \subseteq Nat \ {0}
        BY <4>1 DEF IsASeq
      <4> QED
        BY <4>2 DEF Matching
    <3>2. {o \in Matching(t, Fx) : o < 1} = {}
      BY <3>1
    <3>3. RowsKnown(1)
      BY <2>1, <3>2 DEF RowsKnown
    <3> QED
      BY <1>1, <3>3, RowsStay
  <2>3. PreviousKnown' /\ IsASeq(rows)'
    BY <1>1, <2>1 DEF PreviousKnown, KnownInv, RowsInv
  <2> QED
    BY <1>1, <1>3, <2>1, <2>2, <2>3 DEF RowsInv, InRow, RowsAsSpecified, FailsAsSpecified, Finished
<1> QED
  BY <1>1, <1>2, <1>3

(* A record that is no container has no other error. *)
LEMMA BuildKeepsRows ==
  ASSUME KnownInv, NEW r, Build(r)
  PROVE  RowsInv'
<1>1. /\ pc \in {"new", "done"} /\ rec' = r /\ rows' = <<>> /\ UNCHANGED <<t, quiet>>
      /\ IF r.container THEN pc' = "derive"
                        ELSE err' = "ErrRootNotContainer" /\ pc' = "done"
  BY DEF Build, Goto, perRow
<1>2. quiet' = FALSE /\ IsASeq(<<>>)
  BY <1>1 DEF KnownInv, RowsInv, IsASeq
<1>3. CASE r.container
  BY <1>1, <1>2, <1>3 DEF RowsInv, InRow, RowsAsSpecified, FailsAsSpecified, Finished
<1>4. CASE ~r.container
  <2>1. Errors(t, rec)' = {"ErrRootNotContainer"}
    BY <1>1, <1>4 DEF Errors
  <2>2. RowsAsSpecified' /\ FailsAsSpecified'
    BY <1>1, <1>4, <2>1 DEF RowsAsSpecified, FailsAsSpecified
  <2> QED
    BY <1>1, <1>2, <1>4, <2>2 DEF RowsInv, InRow
<1> QED
  BY <1>3, <1>4

-----------------------------------------------------------------------------
(* The invariant.                                                           *)

LEMMA OpeningKeepsRows ==
  ASSUME KnownInv, SkipOutput \/ ExtendRow \/ FreshRow \/ CloseRow \/ EndBuild
  PROVE  RowsInv'
BY SkipOutputKeepsRows, ExtendRowKeepsRows, FreshRowKeepsRows, CloseRowKeepsRows, EndBuildKeepsRows

LEMMA WritingKeepsRows ==
  ASSUME KnownInv, \/ WriteColumn \/ EndColumns \/ NextSection \/ HandleNode \/ EndSection
                   \/ EndSections \/ WriteMerge \/ EndMerges \/ WriteDefault \/ WriteRest
  PROVE  RowsInv'
BY WriteColumnKeepsRows, EndColumnsKeepsRows, NextSectionKeepsRows, HandleNodeKeepsRows,
   EndSectionKeepsRows, EndSectionsKeepsRows, WriteMergeKeepsRows, EndMergesKeepsRows,
   WriteDefaultKeepsRows, WriteRestKeepsRows

(* No step of a row changes what the record has decided. *)
LEMMA WritingKeepsFacts ==
  ASSUME FactInv, \/ SkipOutput \/ ExtendRow \/ FreshRow \/ CloseRow \/ EndBuild
                  \/ WriteColumn \/ EndColumns \/ NextSection \/ HandleNode \/ EndSection
                  \/ EndSections \/ WriteMerge \/ EndMerges \/ WriteDefault \/ WriteRest
  PROVE  FactInv'
<1>1. SUFFICES /\ pc \in {"outputs"} \cup InRow
               /\ UNCHANGED <<t, rec, derivedVals, groupOn, secOn, reserved>>
               /\ \/ pc' = "done"
                  \/ pc' \in {"outputs"} \cup InRow /\ (err' = "none" \/ err' = err)
  <2>1. pc \in {"outputs"} \cup InRow => err = "none"
    BY DEF FactInv, InRow
  <2> QED
    BY <1>1, <2>1, RowKeepsFacts
<1>2. CASE SkipOutput \/ ExtendRow \/ FreshRow
  <2>1. CASE SkipOutput
    BY <2>1 DEF SkipOutput
  <2>2. CASE ExtendRow
    BY <2>2 DEF ExtendRow, StartRow, Goto, InRow
  <2>3. CASE FreshRow
    BY <2>3 DEF FreshRow, StartAnew, StartRow, Goto, InRow
  <2> QED
    BY <1>2, <2>1, <2>2, <2>3
<1>3. CASE CloseRow \/ EndBuild
  BY <1>3 DEF CloseRow, EndBuild, Goto, perRecord, InRow
<1>4. CASE EndColumns \/ NextSection \/ EndSection \/ EndSections \/ EndMerges
  <2>1. UNCHANGED <<t, rec, derivedVals, groupOn, secOn, reserved, err>>
    BY <1>4 DEF EndColumns, NextSection, EndSection, LeaveSection, EndSections, EndMerges, perRecord
  <2>2. pc \in {"columns", "walk", "nodes", "merges"} /\ pc' \in {"walk", "nodes", "merges", "defaults"}
    BY <1>4 DEF EndColumns, NextSection, EndSection, LeaveSection, EndSections, EndMerges, Goto
  <2> QED
    BY <2>1, <2>2 DEF InRow
<1>5. CASE WriteColumn \/ HandleNode \/ WriteMerge \/ WriteDefault
  <2>1. ASSUME Continue
        PROVE  pc' = "done" \/ (pc' = pc /\ err' = "none")
    BY <2>1 DEF Continue, Goto
  <2>2. CASE WriteColumn
    <3>1. pc = "columns" /\ Continue /\ UNCHANGED <<t, rec, derivedVals, groupOn, secOn, reserved>>
      BY <2>2 DEF WriteColumn
    <3> QED
      BY <2>1, <3>1 DEF InRow
  <2>3. CASE HandleNode
    <3>1. pc = "nodes" /\ Continue /\ UNCHANGED <<t, rec, perRecord>>
      BY <2>3 DEF HandleNode
    <3> QED
      BY <2>1, <3>1 DEF InRow, perRecord
  <2>4. CASE WriteMerge
    <3>1. pc = "merges" /\ Continue /\ UNCHANGED <<t, rec, perRecord>>
      BY <2>4, Zenon DEF WriteMerge
    <3>2. UNCHANGED <<t, rec, derivedVals, groupOn, secOn, reserved>>
      BY <3>1 DEF perRecord
    <3> QED
      BY <2>1, <3>1, <3>2 DEF InRow
  <2>5. CASE WriteDefault
    <3>1. pc = "defaults" /\ Continue /\ UNCHANGED <<t, rec, perRecord>>
      BY <2>5 DEF WriteDefault
    <3> QED
      BY <2>1, <3>1 DEF InRow, perRecord
  <2> QED
    BY <1>5, <2>2, <2>3, <2>4, <2>5
<1>6. CASE WriteRest
  <2>1. pc = "defaults" /\ UNCHANGED <<t, rec, perRecord>> /\ Goto(IF err' = "none" THEN "close" ELSE "done")
    BY <1>6 DEF WriteRest
  <2>2. pc' = "done" \/ (pc' = "close" /\ err' = "none")
    BY <2>1 DEF Goto
  <2> QED
    BY <2>1, <2>2 DEF InRow, perRecord
<1> QED
  BY <1>2, <1>3, <1>4, <1>5, <1>6

(* Nothing is known but of the variables. *)
LEMMA StutterKeepsFacts ==
  ASSUME FactInv, UNCHANGED vars
  PROVE  FactInv'
<1>1. UNCHANGED <<t, rec, pc, k, derivedVals, groupOn, secOn, reserved, err>>
  BY DEF vars, perRecord
<1>2. PICK n, m, g, s, c :
        n = k /\ m = k - 1 /\ g = Len(t.groups) /\ s = Len(t.sections) /\ c = Len(t.columns)
  OBVIOUS
<1>3. k' = n /\ (k - 1)' = m /\ Len(t.groups)' = g /\ Len(t.sections)' = s /\ Len(t.columns)' = c
  BY <1>1, <1>2
<1>4. pc = "derive" => DerivedKnown(n)'
  <2>1. Fx' = Fx /\ \A d : MissesAt(d)' <=> MissesAt(d)
    BY <1>1, RecordStays DEF MissesAt
  <2> QED
    BY <1>1, <1>2, <2>1 DEF FactInv, DerivedKnown
<1>5. pc \in {"groups", "sections", "reserve", "outputs"} \cup InRow =>
        (derivedVals = Fx.derived /\ ~RequiredMissing(t, rec))'
  BY <1>1, FactsStay DEF FactInv
<1>6. /\ pc = "groups" => GroupsKnown(m)'
      /\ pc \in {"sections", "reserve", "outputs"} \cup InRow => GroupsKnown(g)'
  BY <1>1, <1>2, FactsStay DEF FactInv
<1>7. /\ pc = "sections" => SectionsKnown(m)'
      /\ pc \in {"reserve", "outputs"} \cup InRow => SectionsKnown(s)'
  BY <1>1, <1>2, FactsStay DEF FactInv
<1>8. /\ pc = "reserve" => ReservedKnown(m)'
      /\ pc \in {"outputs"} \cup InRow => ReservedKnown(c)'
  BY <1>1, <1>2, FactsStay DEF FactInv
<1>9. pc \notin {"new", "done"} => err = "none"
  BY DEF FactInv
<1> QED
  BY <1>1, <1>3, <1>4, <1>5, <1>6, <1>7, <1>8, <1>9 DEF FactInv, InRow

LEMMA StutterKeepsRows ==
  ASSUME RowsInv, UNCHANGED vars
  PROVE  RowsInv'
<1>1. UNCHANGED <<t, rec, pc, k, out, sec, secOn, quiet, colWritten, rows, err,
                  body, keys, dropped, seen, rest, slots>>
  BY DEF vars, perRecord, perRow
<1>2. Fx' = Fx
  BY <1>1, RecordStays
<1>3. ASSUME NEW b, Reached(b)
      PROVE  Reached(b)'
  BY <1>1, <1>3, NothingBetween DEF NoPlace
<1>4. PICK n, o, s : n = k /\ o = out /\ s = sec
  OBVIOUS
<1>5. k' = n /\ out' = o /\ sec' = s
  BY <1>1, <1>4
<1>6. /\ pc = "columns" => Reached(ColumnAt(n))' /\ sec = 1
      /\ pc = "walk" => Reached(NodeAt(s, 1))'
      /\ pc = "nodes" => Reached(NodeAt(s, n))'
      /\ pc = "merges" => Reached(MergeAt(n))'
      /\ pc = "defaults" => Reached(DefaultAt(n))'
      /\ pc = "close" => Reached(EndAt)'
  BY <1>3, <1>4 DEF RowsInv
<1>7. pc = "columns" => ColumnsWritten(n)'
  BY <1>1, <1>2, <1>4 DEF RowsInv, ColumnsWritten
<1>8. pc \in {"outputs"} \cup InRow => (out \in Nat \ {0})' /\ RowsKnown(o)'
  BY <1>1, <1>4, RowsStay DEF RowsInv
<1>9. pc = "outputs" => PreviousKnown'
  BY <1>1, PreviousStays DEF RowsInv
<1>10. /\ IsASeq(rows)' /\ (pc # "nodes" => quiet' = FALSE)
       /\ pc = "nodes" => (sec \in ActiveIn(out) /\ quiet = t.sections[sec].quiet)'
       /\ pc \in {"walk", "nodes"} => (sec \in Nat \ {0})'
       /\ pc \in InRow => (out \in Matching(t, Fx))'
  BY <1>1, <1>2 DEF RowsInv, ActiveIn
<1>11. RowsAsSpecified' /\ FailsAsSpecified'
  BY <1>1 DEF RowsInv, RowsAsSpecified, FailsAsSpecified, Finished
<1> QED
  BY <1>1, <1>5, <1>6, <1>7, <1>8, <1>9, <1>10, <1>11 DEF RowsInv, InRow

(* What is known of the record and of its rows holds between any two steps. *)
(* Neither part is inductive alone: the rows are as specified because the   *)
(* facts they are made from are, and a record has no error while it is made *)
(* because a step that fails ends it.                                       *)
LEMMA KnownInvariant == Spec => []KnownInv
<1>1. ASSUME Init
      PROVE  FactInv /\ RowsInv
  <2>1. pc = "new" /\ rows = <<>> /\ quiet = FALSE
    BY <1>1 DEF Init
  <2>2. IsASeq(<<>>)
    BY DEF IsASeq
  <2> QED
    BY <2>1, <2>2 DEF FactInv, RowsInv, InRow, RowsAsSpecified, FailsAsSpecified, Finished
<1>2. KnownInv /\ [Next]_vars => FactInv' /\ RowsInv'
  <2> SUFFICES ASSUME KnownInv, [Next]_vars
               PROVE  FactInv' /\ RowsInv'
    OBVIOUS
  <2>1. CacheInv /\ NameTypes /\ TypeInv /\ FactInv /\ RowsInv
    BY DEF KnownInv, NameInv
  <2>2. CASE UNCHANGED vars
    BY <2>1, <2>2, StutterKeepsFacts, StutterKeepsRows
  <2>3. ASSUME NEW r \in Records(t), Build(r)
        PROVE  FactInv' /\ RowsInv'
    BY <2>1, <2>3, BuildKeepsFacts, BuildKeepsRows
  <2>4. CASE ComputeDerived
    BY <2>1, <2>4, ComputeDerivedKeepsFacts, ComputeDerivedKeepsRows
  <2>5. CASE Prepare
    BY <2>1, <2>5, PrepareKeepsFacts, PrepareKeepsRows
  <2>6. CASE SwitchGroup \/ SwitchSection \/ Reserve
    BY <2>1, <2>6, SwitchGroupKeepsFacts, SwitchSectionKeepsFacts, ReserveKeepsFacts, SwitchesKeepRows
  <2>7. CASE SkipOutput \/ ExtendRow \/ FreshRow \/ CloseRow \/ EndBuild
    BY <2>1, <2>7, WritingKeepsFacts, OpeningKeepsRows
  <2>8. CASE \/ WriteColumn \/ EndColumns \/ NextSection \/ HandleNode \/ EndSection
             \/ EndSections \/ WriteMerge \/ EndMerges \/ WriteDefault \/ WriteRest
    BY <2>1, <2>8, WritingKeepsFacts, WritingKeepsRows
  <2> QED
    BY <2>2, <2>3, <2>4, <2>5, <2>6, <2>7, <2>8 DEF Next, Step
<1>3. CacheInv /\ NameInv /\ TypeInv /\ FactInv /\ RowsInv <=> KnownInv
  BY DEF KnownInv
<1> QED
  BY <1>1, <1>2, <1>3, CacheInvariant, NameInvariant, TypeInvariant, PTL DEF Spec

(* Whatever the config and the records, the rows that a build delivers are  *)
(* those of Rows, entry by entry and with their counts of dropped keys: the *)
(* cache, the reservations, the key set, the slots and the row that starts  *)
(* as a copy of the one before never show (build, row, openRow, claim).     *)
THEOREM RowsAreAsSpecified == Spec => []RowsAsSpecified
<1>1. KnownInv => RowsAsSpecified
  BY DEF KnownInv, RowsInv
<1> QED
  BY <1>1, KnownInvariant, PTL

(* Whatever the config and the records, a record fails exactly if a required *)
(* derived value is missing, no output matches or a row of Rows has an       *)
(* error, and then with one of these (fail, claim, computeDerived, build).   *)
THEOREM FailuresAreAsSpecified == Spec => []FailsAsSpecified
<1>1. KnownInv => FailsAsSpecified
  BY DEF KnownInv, RowsInv
<1> QED
  BY <1>1, KnownInvariant, PTL

=============================================================================
