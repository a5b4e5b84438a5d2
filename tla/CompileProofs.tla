--------------------------- MODULE CompileProofs ---------------------------
(***************************************************************************)
(* Proofs about Compile for every set of configs: whatever the entries of  *)
(* a config say and however they meet, it is accepted just when they are   *)
(* right, and what New returns is well formed and as written, which is     *)
(* what the proofs about the engine and the walk start from.               *)
(***************************************************************************)
EXTENDS Compile, Induction, FiniteSetTheorems

-----------------------------------------------------------------------------
(* The inductive invariant.                                                 *)

(* The fields that t has from the start. *)
Fields ==
  {"conds", "derived", "columns", "groups", "sections", "outputs", "merges", "defaults",
   "digit", "keep", "drop", "rest", "collision", "snake", "segAliases", "actions", "nslots",
   "named", "expose"}

(* The steps before a part of t is made, that of the part included. *)
Opening == {"decode", "new", "flatten", "input"}
ToDerive == Opening \cup {"derive"}
ToFilters == ToDerive \cup {"columns", "keyPolicy", "keyFilters"}
ToAliases == ToFilters \cup {"segmentAliases", "aliases"}
ToSections == ToAliases \cup {"rules", "sections"}
ToOutputs == ToSections \cup {"outputs"}

Shaped ==
  /\ cfg \in Configs
  /\ pc \in Range(Steps) \cup {"failed", "done"}
  /\ k \in Nat \ {0}
  /\ err \in Range(Steps) \cup {"none"} /\ (err # "none" <=> pc = "failed")
  /\ Fields \subseteq DOMAIN t
  /\ todo \subseteq DOMAIN cfg.segAliases

(* Every condition is numbered where it is compiled, and reads derived      *)
(* values that there are.                                                   *)
CondsKept ==
  /\ IsASeq(t.conds) /\ IsASeq(condIdx)
  /\ Len(condIdx) = Len(t.conds) /\ IsInjective(condIdx)
  /\ \A c \in DOMAIN t.conds : AreSourcesOf(t, t.conds[c].srcs)

CondBefore(made, when, n) ==
  /\ when \in {0} \cup DOMAIN made.conds
  /\ when # 0 => ReadsBefore(made.conds[when].srcs, n)

(* The derived values come in the order of their names, and none reads one  *)
(* that comes later.                                                        *)
DerivedKept ==
  /\ IsASeq(t.derived)
  /\ Len(t.derived) <= Cardinality(DerivedNames)
  /\ pc \in Opening => t.derived = <<>>
  /\ pc = "derive" => Len(t.derived) = k - 1
  /\ pc \notin ToDerive \cup {"failed"} => Len(t.derived) = Cardinality(DerivedNames)
  /\ \A n \in DerivedNames : Cardinality(Before(n)) < Len(t.derived) => n # Now
  /\ \A d \in DOMAIN t.derived :
       ReadsBefore(t.derived[d].srcs, d) /\ CondBefore(t, t.derived[d].when, d)

ColumnsKept ==
  /\ IsASeq(t.columns)
  /\ \A c \in DOMAIN t.columns : t.columns[c].when \in {0} \cup DOMAIN t.conds

FiltersKept ==
  /\ cfg.digitPrefix = <<>> => t.digit = NoTable
  /\ pc \in ToFilters => t.rest = NoName
  /\ pc \notin ToFilters \cup {"failed"} =>
       /\ t.keep = IF cfg.keep = <<>> THEN NoFilter ELSE Matched(cfg.keep)
       /\ t.drop = Matched(cfg.drop)
  /\ t.rest # NoName => t.keep # NoFilter /\ t.rest \notin ColumnNames(t)

(* No alias leads to a key that is never written. *)
Leads(made, table) ==
  \A key \in DOMAIN table :
    /\ table[key] # key
    /\ table[key] \notin ColumnNames(made) /\ table[key] # made.rest
    /\ Verdict(made, table[key]) = "written"

GroupsKept ==
  /\ pc \in ToAliases \ {"aliases"} => t.groups = <<>> /\ plain = NoTable
  /\ IsASeq(t.groups)
  /\ \A g \in DOMAIN t.groups : Leads(t, t.groups[g].to)
  /\ Leads(t, plain)

IsAction(a) ==
  /\ {"drop", "renameTo", "slots", "consume"} \subseteq DOMAIN a
  /\ a.renameTo # <<>>
  /\ ~(a.drop /\ a.renameTo # NoPath)

RulesKept ==
  /\ \A path \in DOMAIN t.actions : path # <<>> /\ IsAction(t.actions[path])
  /\ t.nslots \in Nat
  /\ UNION {t.actions[path].slots : path \in DOMAIN t.actions} = 1 .. t.nslots
  /\ IsASeq(t.defaults)
  /\ \A a, b \in DOMAIN t.defaults : t.defaults[a].key = t.defaults[b].key => a = b

OutputsKept ==
  /\ IsASeq(t.sections) /\ IsASeq(t.outputs)
  /\ pc \in ToSections \ {"sections"} => t.sections = <<>>
  /\ pc = "sections" => Len(t.sections) = k - 1 /\ k - 1 <= Len(cfg.sections)
  /\ pc \notin ToSections \cup {"failed"} => Len(cfg.sections) <= Len(t.sections)
  /\ pc \in ToOutputs \ {"outputs"} => t.outputs = <<>>
  /\ \A o \in DOMAIN t.outputs :
       /\ t.outputs[o].nameFrom \in 0 .. Len(t.derived)
       /\ t.outputs[o].member \subseteq DOMAIN t.sections

FixKept == pc = "done" => "fixKeys" \in DOMAIN t /\ t.fixKeys = FixKeys

IInv ==
  /\ Shaped /\ CondsKept /\ DerivedKept /\ ColumnsKept /\ FiltersKept /\ GroupsKept
  /\ RulesKept /\ OutputsKept /\ FixKept

-----------------------------------------------------------------------------
(* Sequences, counting, and the order of the steps.                         *)

LEMMA AppendASeq ==
  ASSUME NEW s, IsASeq(s), NEW e
  PROVE  /\ IsASeq(Append(s, e))
         /\ Len(s) \in Nat /\ Len(Append(s, e)) = Len(s) + 1
         /\ DOMAIN s = 1..Len(s)
         /\ DOMAIN Append(s, e) = 1..(Len(s) + 1)
         /\ \A p \in DOMAIN s : Append(s, e)[p] = s[p]
         /\ Append(s, e)[Len(s) + 1] = e
<1> DEFINE both == Range(s) \cup {e}
<1>1. s \in Seq(both) /\ e \in both
  BY DEF IsASeq
<1>2. /\ Append(s, e) \in Seq(both)
      /\ Len(s) \in Nat /\ Len(Append(s, e)) = Len(s) + 1
      /\ DOMAIN s = 1..Len(s)
      /\ DOMAIN Append(s, e) = 1..(Len(s) + 1)
      /\ \A p \in DOMAIN s : Append(s, e)[p] = s[p]
      /\ Append(s, e)[Len(s) + 1] = e
  BY <1>1
<1> HIDE DEF both
<1> DEFINE a == Append(s, e)
<1>3. a \in Seq(both) /\ DOMAIN a = 1..Len(a) /\ \A p \in 1..Len(a) : a[p] \in Range(a)
  BY <1>2 DEF Range
<1> HIDE DEF a
<1>4. a \in Seq(Range(a))
  BY <1>3
<1> QED
  BY <1>2, <1>4 DEF a, IsASeq

(* The first entry of a list that passes a test (SelectInSeq). *)
LEMMA FirstEntry ==
  ASSUME NEW s, IsASeq(s), NEW e
  PROVE  LET hits == {i \in 1..Len(s) : s[i] = e}
             found == IF hits # {} THEN Min(hits) ELSE 0
         IN  /\ found \in {0} \cup DOMAIN s
             /\ IF found = 0 THEN e \notin Range(s) ELSE s[found] = e
<1> DEFINE hits == {i \in 1..Len(s) : s[i] = e}
           found == IF hits # {} THEN Min(hits) ELSE 0
<1>1. Len(s) \in Nat /\ DOMAIN s = 1..Len(s)
  BY DEF IsASeq
<1>2. found = IF hits # {} THEN Min(hits) ELSE 0
  OBVIOUS
<1>3. CASE hits = {}
  BY <1>1, <1>2, <1>3 DEF Range
<1>4. CASE hits # {}
  <2>1. hits \subseteq Nat
    BY <1>1
  <2> HIDE DEF hits
  <2>2. PICK m \in hits : \A n \in hits : m <= n
    BY <1>4, <2>1, LeastNumber
  <2>3. Min(hits) \in hits
    BY <2>2 DEF Min
  <2>4. found \in hits
    BY <1>2, <1>4, <2>3
  <2> USE DEF hits
  <2>5. found \in 1..Len(s) /\ s[found] = e
    BY <2>4
  <2>6. found # 0
    BY <2>5, <1>1
  <2> QED
    BY <2>5, <2>6, <1>1
<1> QED
  BY <1>3, <1>4

(* In a finite set of numbers each has a rank of its own, and there is one  *)
(* of every rank: the order in which derive takes the names.                *)
Lower(S, n) == {m \in S : m < n}

LEMMA RankGrows ==
  ASSUME NEW S, IsFiniteSet(S), S \subseteq Nat, NEW n \in S, NEW m \in Nat, n < m
  PROVE  /\ Cardinality(Lower(S, n)) \in Nat /\ Cardinality(Lower(S, m)) \in Nat
         /\ Cardinality(Lower(S, n)) < Cardinality(Lower(S, m))
<1>1. /\ IsFiniteSet(Lower(S, n)) /\ IsFiniteSet(Lower(S, m))
      /\ Lower(S, n) \cup {n} \subseteq Lower(S, m) /\ n \notin Lower(S, n)
  <2>1. Lower(S, n) \subseteq S /\ Lower(S, m) \subseteq S
    BY DEF Lower
  <2>2. IsFiniteSet(Lower(S, n)) /\ IsFiniteSet(Lower(S, m))
    BY <2>1, FS_Subset
  <2>3. ASSUME NEW x \in Lower(S, n) \cup {n} PROVE x \in Lower(S, m)
    <3>1. x \in S /\ x \in Nat /\ m \in Nat /\ n \in Nat /\ x <= n
      BY DEF Lower
    <3> QED
      BY <3>1 DEF Lower
  <2>4. n \notin Lower(S, n)
    BY DEF Lower
  <2> QED
    BY <2>2, <2>3, <2>4
<1>2. Cardinality(Lower(S, n)) \in Nat /\ Cardinality(Lower(S, m)) \in Nat
  BY <1>1, FS_CardinalityType
<1>3. Cardinality(Lower(S, n) \cup {n}) = Cardinality(Lower(S, n)) + 1
  BY <1>1, FS_AddElement
<1>4. Cardinality(Lower(S, n) \cup {n}) <= Cardinality(Lower(S, m))
  BY <1>1, FS_Subset
<1> QED
  BY <1>2, <1>3, <1>4

LEMMA RankBelowAll ==
  ASSUME NEW S, IsFiniteSet(S), S \subseteq Nat, NEW n \in S
  PROVE  /\ Cardinality(S) \in Nat /\ Cardinality(Lower(S, n)) \in Nat
         /\ Cardinality(Lower(S, n)) < Cardinality(S)
<1>1. Lower(S, n) \subseteq S \ {n} /\ IsFiniteSet(S \ {n}) /\ IsFiniteSet(Lower(S, n))
  <2>1. Lower(S, n) \subseteq S \ {n} /\ S \ {n} \subseteq S
    BY DEF Lower
  <2> QED
    BY <2>1, FS_Subset
<1>2. Cardinality(S) \in Nat /\ Cardinality(Lower(S, n)) \in Nat
  BY <1>1, FS_CardinalityType
<1>3. Cardinality(S \ {n}) = Cardinality(S) - 1
  BY FS_RemoveElement
<1>4. Cardinality(Lower(S, n)) <= Cardinality(S \ {n})
  BY <1>1, FS_Subset
<1> QED
  BY <1>2, <1>3, <1>4

LEMMA EveryRank ==
  ASSUME NEW S, IsFiniteSet(S), S \subseteq Nat, NEW j \in Nat, j < Cardinality(S)
  PROVE  \E n \in S : Cardinality(Lower(S, n)) = j
<1> DEFINE high == {n \in S : j <= Cardinality(Lower(S, n))}
<1>1. \A n \in S : Cardinality(Lower(S, n)) \in Nat /\ IsFiniteSet(Lower(S, n))
  <2> TAKE n \in S
  <2>1. Lower(S, n) \subseteq S
    BY DEF Lower
  <2> QED
    BY <2>1, FS_Subset, FS_CardinalityType
<1>2. ASSUME NEW T, T \subseteq S, T # {}
      PROVE  \E m \in T : \A n \in T : n <= m
  <2> DEFINE ranks == {Cardinality(Lower(S, n)) : n \in T}
             b == Cardinality(S)
  <2>1. ranks \subseteq 0 .. b /\ b \in Nat
    <3>1. \A n \in S : /\ b \in Nat /\ Cardinality(Lower(S, n)) \in Nat
                       /\ Cardinality(Lower(S, n)) < b
      BY RankBelowAll
    <3>2. b \in Nat
      BY <3>1, <1>2
    <3> HIDE DEF b
    <3> QED
      BY <3>1, <3>2, <1>2
  <2>2. ranks # {}
    BY <1>2
  <2> HIDE DEF ranks, b
  <2>3. PICK r \in ranks : \A q \in ranks : q <= r
    BY <2>1, <2>2, GreatestNumber
  <2> USE DEF ranks
  <2>4. PICK m \in T : r = Cardinality(Lower(S, m))
    OBVIOUS
  <2>5. ASSUME NEW n \in T PROVE n <= m
    <3>1. n \in S /\ m \in S /\ n \in Nat /\ m \in Nat
      BY <1>2
    <3>2. Cardinality(Lower(S, n)) <= Cardinality(Lower(S, m))
      BY <2>3, <2>4
    <3>3. ~ (m < n)
      <4> SUFFICES ASSUME m < n PROVE FALSE
        OBVIOUS
      <4>1. /\ Cardinality(Lower(S, n)) \in Nat /\ Cardinality(Lower(S, m)) \in Nat
            /\ Cardinality(Lower(S, m)) < Cardinality(Lower(S, n))
        BY <3>1, RankGrows
      <4> QED
        BY <3>2, <4>1
    <3> QED
      BY <3>1, <3>3
  <2> QED
    BY <2>5
<1>3. high # {}
  <2>1. S # {}
    <3>1. Cardinality({}) = 0
      BY FS_EmptySet
    <3> QED
      BY <3>1
  <2>2. PICK m \in S : \A n \in S : n <= m
    BY <2>1, <1>2
  <2>3. Lower(S, m) = S \ {m}
    <3>1. ASSUME NEW x \in S PROVE x < m <=> x # m
      <4>1. x \in Nat /\ m \in Nat /\ x <= m
        BY <2>2
      <4> QED
        BY <4>1
    <3> QED
      BY <3>1 DEF Lower
  <2>4. Cardinality(S) \in Nat /\ Cardinality(S \ {m}) = Cardinality(S) - 1
    BY FS_RemoveElement, FS_CardinalityType
  <2>5. j <= Cardinality(Lower(S, m))
    BY <2>3, <2>4
  <2> QED
    BY <2>5
<1>4. high \subseteq Nat /\ high \subseteq S
  OBVIOUS
<1>5. PICK n \in high : \A m \in high : n <= m
  <2> HIDE DEF high
  <2> QED
    BY <1>3, <1>4, LeastNumber
<1>6. CASE Lower(S, n) = {}
  <2>1. Cardinality(Lower(S, n)) = 0
    BY <1>6, FS_EmptySet
  <2> QED
    BY <2>1
<1>7. CASE Lower(S, n) # {}
  <2>1. Lower(S, n) \subseteq S
    BY DEF Lower
  <2>2. PICK p \in Lower(S, n) : \A m \in Lower(S, n) : m <= p
    BY <1>7, <2>1, <1>2
  <2>3. p \in S /\ p < n /\ Lower(S, p) = Lower(S, n) \ {p}
    <3>1. p \in S /\ p < n /\ p \in Nat /\ n \in Nat
      BY <1>4 DEF Lower
    <3>2. ASSUME NEW x \in S PROVE x < p <=> x < n /\ x # p
      <4>1. x \in Nat /\ (x < n => x <= p)
        BY <2>2 DEF Lower
      <4> QED
        BY <3>1, <4>1
    <3> QED
      BY <3>1, <3>2 DEF Lower
  <2>4. Cardinality(Lower(S, p)) = Cardinality(Lower(S, n)) - 1
    BY <2>2, <2>3, <1>1, FS_RemoveElement
  <2>5. p \notin high
    BY <2>3, <1>5, <1>4
  <2>6. Cardinality(Lower(S, p)) < j
    BY <2>3, <2>5, <1>1
  <2> QED
    BY <2>4, <2>6, <1>1, <1>5
<1> QED
  BY <1>6, <1>7

LEMMA StepNames ==
  Range(Steps) =
    {"decode", "new", "flatten", "input", "derive", "columns", "keyPolicy", "keyFilters",
     "segmentAliases", "aliases", "rules", "sections", "outputs", "expose", "finish"}
<1>1. DOMAIN Steps = {1, 2, 3, 4, 5, 6, 7, 8, 9, 10, 11, 12, 13, 14, 15}
  BY DEF Steps
<1> QED
  BY <1>1 DEF Steps, Range

LEMMA Order ==
  ASSUME pc \in Range(Steps)
  PROVE  NextStep = CASE pc = "decode" -> "new"
                      [] pc = "new" -> "flatten"
                      [] pc = "flatten" -> "input"
                      [] pc = "input" -> "derive"
                      [] pc = "derive" -> "columns"
                      [] pc = "columns" -> "keyPolicy"
                      [] pc = "keyPolicy" -> "keyFilters"
                      [] pc = "keyFilters" -> "segmentAliases"
                      [] pc = "segmentAliases" -> "aliases"
                      [] pc = "aliases" -> "rules"
                      [] pc = "rules" -> "sections"
                      [] pc = "sections" -> "outputs"
                      [] pc = "outputs" -> "expose"
                      [] pc = "expose" -> "finish"
                      [] OTHER -> NextStep
<1> DEFINE n == CHOOSE n \in DOMAIN Steps : Steps[n] = pc
<1>1. DOMAIN Steps = 1..15
  BY DEF Steps
<1>2. n \in 1..15 /\ Steps[n] = pc
  BY <1>1 DEF Range
<1>3. NextStep = Steps[1 + n]
  BY DEF NextStep
<1> HIDE DEF n
<1> QED
  BY <1>2, <1>3 DEF Steps

-----------------------------------------------------------------------------
(* Sources and conditions.                                                  *)

LEMMA NamesFinite ==
  ASSUME cfg \in Configs
  PROVE  IsFiniteSet(DerivedNames) /\ DerivedNames \subseteq Nat
         /\ Cardinality(DerivedNames) \in Nat
BY ConfigsAssumption, FS_CardinalityType DEF IsConfig, DerivedNames

(* A source that is right reads no derived value but one that there is, if  *)
(* it reads none that is as late as the limit (source, when).               *)
LEMMA SourceReads ==
  ASSUME cfg \in Configs, NEW s, NEW n \in Nat,
         Origin(CompiledSource(s)).kind = "derived", DerivedIdx(CompiledSource(s)) < n
  PROVE  Origin(CompiledSource(s)).idx \in 1..(n - 1)
<1> DEFINE c == Origin(CompiledSource(s))
           x == IF s.kind \in {"map", "lower"} THEN s.from ELSE s
<1>1. c = PathOrVariable(x) \/ c.kind = "skew"
  <2>1. CASE s.kind \in {"map", "lower"}
    BY <2>1 DEF CompiledSource, Origin
  <2>2. CASE s.kind = "skew"
    BY <2>2 DEF CompiledSource, Origin
  <2>3. CASE s.kind \notin {"map", "lower", "skew"}
    <3>1. CompiledSource(s) = PathOrVariable(x)
      BY <2>3 DEF CompiledSource
    <3>2. PathOrVariable(x).kind \in {"path", "now", "derived", "var"}
      BY DEF PathOrVariable, Over
    <3> QED
      BY <3>1, <3>2 DEF Origin
  <2> QED
    BY <2>1, <2>2, <2>3
<1>2. c = PathOrVariable(x) /\ c.kind = "derived"
  BY <1>1
<1>3. x.kind # "path"
  <2> SUFFICES ASSUME x.kind = "path" PROVE FALSE
    OBVIOUS
  <2>1. PathOrVariable(x) = Over([kind |-> "path"], PathRef(x.path))
    BY DEF PathOrVariable
  <2>2. PathOrVariable(x).kind = "path"
    BY <2>1 DEF Over
  <2> QED
    BY <1>2, <2>2
<1> HIDE DEF x
<1>4. x.var \in DerivedNames /\ c.idx = Cardinality(Before(x.var)) + 1
  BY <1>2, <1>3 DEF PathOrVariable
<1>5. Before(x.var) = Lower(DerivedNames, x.var)
  BY DEF Before, Lower
<1>6. Cardinality(Before(x.var)) \in Nat
  BY <1>4, <1>5, NamesFinite, RankBelowAll
<1>7. c.idx < n
  BY <1>2 DEF DerivedIdx
<1> QED
  BY <1>4, <1>6, <1>7

LEMMA SourcesRead ==
  ASSUME cfg \in Configs, NEW list, IsASeq(list), NEW n \in Nat,
         n <= Len(t.derived) + 1, IsASeq(t.derived),
         ReadsBefore(CompiledSources(list), n)
  PROVE  AreSourcesOf(t, CompiledSources(list))
<1> DEFINE srcs == CompiledSources(list)
<1>1. DOMAIN list = 1..Len(list) /\ Len(list) \in Nat
  BY DEF IsASeq
<1>2. srcs = [i \in 1..Len(list) |-> CompiledSource(list[i])]
  BY <1>1 DEF CompiledSources
<1>3. IsASeq(srcs)
  BY <1>1, <1>2 DEF IsASeq, Range
<1>4. DOMAIN t.derived = 1..Len(t.derived) /\ Len(t.derived) \in Nat
  BY DEF IsASeq
<1>5. ASSUME NEW i \in DOMAIN srcs, Origin(srcs[i]).kind = "derived"
      PROVE  Origin(srcs[i]).idx \in DOMAIN t.derived
  <2>1. srcs[i] = CompiledSource(list[i]) /\ DerivedIdx(srcs[i]) < n
    BY <1>2, <1>5 DEF ReadsBefore
  <2>2. Origin(srcs[i]).idx \in 1..(n - 1)
    BY <1>5, <2>1, SourceReads
  <2> QED
    BY <2>2, <1>4
<1> QED
  BY <1>3, <1>5 DEF AreSourcesOf

LEMMA CondSources ==
  ASSUME NEW w
  PROVE  CompiledCond(w).srcs = CompiledSources(w.path)
BY DEF CompiledCond, Over

(* What when makes of a condition that is right: the conditions there were  *)
(* keep their numbers, and the one it gives reads nothing too late (when).  *)
LEMMA CondAdded ==
  ASSUME cfg \in Configs, CondsKept, IsASeq(t.derived), NEW w, IsWhen(w),
         NEW limit \in Nat, limit <= Len(t.derived), WhenOK(w, limit)
  PROVE  /\ IsASeq(Conds(w))
         /\ Len(Conds(w)) = Len(t.conds) + IF IsNew(w) THEN 1 ELSE 0
         /\ DOMAIN t.conds \subseteq DOMAIN Conds(w)
         /\ \A c \in DOMAIN t.conds : Conds(w)[c] = t.conds[c]
         /\ \A c \in DOMAIN Conds(w) : AreSourcesOf(t, Conds(w)[c].srcs)
         /\ Number(w) \in {0} \cup DOMAIN Conds(w)
         /\ Number(w) # 0 => ReadsBefore(Conds(w)[Number(w)].srcs, limit + 1)
         /\ IsNew(w) => w \notin Range(condIdx)
<1>1. /\ Known(w) \in {0} \cup DOMAIN condIdx
      /\ Known(w) = 0 => w \notin Range(condIdx)
  <2> DEFINE hits == {i \in 1..Len(condIdx) : condIdx[i] = w}
  <2>1. Known(w) = IF hits # {} THEN Min(hits) ELSE 0
    BY DEF Known, SelectInSeq
  <2> QED
    BY <2>1, FirstEntry DEF CondsKept
<1>2. /\ DOMAIN t.conds = 1..Len(t.conds) /\ Len(t.conds) \in Nat
      /\ DOMAIN condIdx = DOMAIN t.conds /\ Len(condIdx) = Len(t.conds)
  BY DEF CondsKept, IsASeq
<1>3. CASE ~IsNew(w)
  <2>1. Conds(w) = t.conds /\ Number(w) = IF w = NoCond THEN 0 ELSE Known(w)
    BY <1>3 DEF Conds, Number
  <2>2. w # NoCond => ReadsBefore(Conds(w)[Number(w)].srcs, limit + 1)
    BY DEF WhenOK
  <2>3. Number(w) # 0 => w # NoCond
    BY <2>1
  <2> QED
    BY <1>1, <1>2, <1>3, <2>1, <2>2, <2>3 DEF CondsKept
<1>4. CASE IsNew(w)
  <2>1. w # NoCond /\ Known(w) = 0
    BY <1>4 DEF IsNew
  <2>2. Conds(w) = Append(t.conds, CompiledCond(w)) /\ Number(w) = Len(t.conds) + 1
    BY <1>2, <1>4, <2>1 DEF Conds, Number
  <2>3. /\ IsASeq(Conds(w)) /\ Len(Conds(w)) = Len(t.conds) + 1
        /\ DOMAIN Conds(w) = 1..(Len(t.conds) + 1)
        /\ \A c \in DOMAIN t.conds : Conds(w)[c] = t.conds[c]
        /\ Conds(w)[Len(t.conds) + 1] = CompiledCond(w)
    BY <2>2, AppendASeq DEF CondsKept
  <2>4. ReadsBefore(Conds(w)[Number(w)].srcs, limit + 1)
    BY <2>1 DEF WhenOK
  <2>5. IsASeq(w.path)
    BY <2>1 DEF IsWhen
  <2>6. ReadsBefore(CompiledSources(w.path), limit + 1)
    BY <2>2, <2>3, <2>4, CondSources
  <2>7. Len(t.derived) \in Nat
    BY DEF IsASeq
  <2>8. AreSourcesOf(t, CompiledCond(w).srcs)
    BY <2>5, <2>6, <2>7, SourcesRead, CondSources
  <2>9. \A c \in DOMAIN Conds(w) : AreSourcesOf(t, Conds(w)[c].srcs)
    <3> TAKE c \in DOMAIN Conds(w)
    <3>1. c \in DOMAIN t.conds \/ c = Len(t.conds) + 1
      BY <1>2, <2>3
    <3> QED
      BY <3>1, <2>3, <2>8 DEF CondsKept
  <2> QED
    BY <1>1, <1>2, <1>4, <2>1, <2>2, <2>3, <2>4, <2>9
<1> QED
  BY <1>3, <1>4

-----------------------------------------------------------------------------
(* What a step leaves alone keeps its part of the invariant.  S are the     *)
(* fields of t that the step may change.                                    *)

Untouched(S) == Fields \subseteq DOMAIN t' /\ \A f \in Fields \ S : t'[f] = t[f]

CondsGrown ==
  /\ DOMAIN t.conds \subseteq DOMAIN t'.conds
  /\ \A c \in DOMAIN t.conds : t'.conds[c] = t.conds[c]

LEMMA CondsSame ==
  ASSUME CondsKept, NEW S, Untouched(S), S \cap {"conds", "derived"} = {},
         condIdx' = condIdx
  PROVE  CondsKept' /\ CondsGrown
<1>1. t'.conds = t.conds /\ t'.derived = t.derived
  BY DEF Untouched, Fields
<1> QED
  BY <1>1 DEF CondsKept, CondsGrown, AreSourcesOf

LEMMA CondBeforeStays ==
  ASSUME CondsGrown, NEW when, NEW n, CondBefore(t, when, n)
  PROVE  CondBefore(t', when, n)
BY DEF CondsGrown, CondBefore

LEMMA DerivedSame ==
  ASSUME DerivedKept, NEW S, Untouched(S), "derived" \notin S, CondsGrown, cfg' = cfg,
         pc' \in Opening => pc \in Opening,
         pc' = "derive" => Len(t.derived) = k' - 1,
         pc' \notin ToDerive \cup {"failed"} => Len(t.derived) = Cardinality(DerivedNames)
  PROVE  DerivedKept'
<1>1. t'.derived = t.derived
  BY DEF Untouched, Fields
<1>2. DerivedNames' = DerivedNames /\ \A n : Before(n)' = Before(n)
  BY DEF DerivedNames, Before
<1>3. ASSUME NEW d \in DOMAIN t.derived
      PROVE  ReadsBefore(t.derived[d].srcs, d) /\ CondBefore(t', t.derived[d].when, d)
  BY CondBeforeStays DEF DerivedKept
<1> QED
  BY <1>1, <1>2, <1>3 DEF DerivedKept

LEMMA ColumnsSame ==
  ASSUME ColumnsKept, NEW S, Untouched(S), "columns" \notin S, CondsGrown
  PROVE  ColumnsKept'
<1>1. t'.columns = t.columns
  BY DEF Untouched, Fields
<1> QED
  BY <1>1 DEF ColumnsKept, CondsGrown

FilterFields == {"digit", "keep", "drop", "rest", "columns"}

LEMMA FiltersSame ==
  ASSUME FiltersKept, NEW S, Untouched(S), S \cap FilterFields = {}, cfg' = cfg,
         pc' \in ToFilters => pc \in ToFilters,
         pc' \notin ToFilters \cup {"failed"} => pc \notin ToFilters \cup {"failed"}
  PROVE  FiltersKept'
<1>1. /\ t'.digit = t.digit /\ t'.keep = t.keep /\ t'.drop = t.drop /\ t'.rest = t.rest
      /\ t'.columns = t.columns
  BY DEF Untouched, Fields, FilterFields
<1>2. ColumnNames(t)' = ColumnNames(t)
  BY <1>1 DEF ColumnNames
<1>3. \A list : Matched(list)' = Matched(list)
  BY DEF Matched, Matches
<1> QED
  BY <1>1, <1>2, <1>3 DEF FiltersKept

LEMMA LeadsSame ==
  ASSUME NEW S, Untouched(S), S \cap {"keep", "drop", "rest", "columns"} = {}, NEW table
  PROVE  Leads(t, table) <=> Leads(t', table)
<1>1. /\ t'.keep = t.keep /\ t'.drop = t.drop /\ t'.rest = t.rest /\ t'.columns = t.columns
  BY DEF Untouched, Fields
<1> QED
  BY <1>1 DEF Leads, Verdict, ColumnNames

LEMMA GroupsSame ==
  ASSUME GroupsKept, NEW S, Untouched(S),
         S \cap {"groups", "keep", "drop", "rest", "columns"} = {}, plain' = plain,
         pc' \in ToAliases \ {"aliases"} => pc \in ToAliases \ {"aliases"}
  PROVE  GroupsKept'
<1>1. t'.groups = t.groups
  BY DEF Untouched, Fields
<1>2. \A table : Leads(t, table) => Leads(t', table)
  BY LeadsSame
<1> QED
  BY <1>1, <1>2 DEF GroupsKept

LEMMA RulesSame ==
  ASSUME RulesKept, NEW S, Untouched(S), S \cap {"actions", "nslots", "defaults"} = {}
  PROVE  RulesKept'
<1>1. t'.actions = t.actions /\ t'.nslots = t.nslots /\ t'.defaults = t.defaults
  BY DEF Untouched, Fields
<1> QED
  BY <1>1 DEF RulesKept, IsAction

LEMMA OutputsSame ==
  ASSUME OutputsKept, NEW S, Untouched(S), S \cap {"sections", "outputs", "derived"} = {},
         cfg' = cfg,
         pc' \in ToSections \ {"sections"} => pc \in ToSections \ {"sections"},
         pc' = "sections" => Len(t.sections) = k' - 1 /\ k' - 1 <= Len(cfg.sections),
         pc' \notin ToSections \cup {"failed"} => pc \notin ToSections \cup {"failed"},
         pc' \in ToOutputs \ {"outputs"} => pc \in ToOutputs \ {"outputs"}
  PROVE  OutputsKept'
<1>1. t'.sections = t.sections /\ t'.outputs = t.outputs /\ t'.derived = t.derived
  BY DEF Untouched, Fields
<1> QED
  BY <1>1 DEF OutputsKept

(* An entry that is wrong ends the compilation where it was. *)
LEMMA FailKeeps ==
  ASSUME IInv, pc \in Range(Steps), Fail, UNCHANGED <<cfg, condIdx, plain>>,
         todo' \subseteq DOMAIN cfg.segAliases
  PROVE  IInv'
<1>1. pc' = "failed" /\ k' = 1 /\ err' = pc /\ t' = t
  BY DEF Fail, Goto
<1>2. Untouched({})
  BY <1>1 DEF Untouched, IInv, Shaped
<1>3. Shaped'
  BY <1>1, StepNames DEF IInv, Shaped
<1>4. CondsKept' /\ CondsGrown
  BY <1>2, CondsSame DEF IInv
<1>5. DerivedKept'
  BY <1>1, <1>2, <1>4, DerivedSame DEF IInv, Opening
<1>6. ColumnsKept' /\ RulesKept'
  BY <1>2, <1>4, ColumnsSame, RulesSame DEF IInv
<1>7. FiltersKept'
  BY <1>1, <1>2, FiltersSame DEF IInv, ToFilters, ToDerive, Opening
<1>8. GroupsKept'
  BY <1>1, <1>2, GroupsSame DEF IInv, ToAliases, ToFilters, ToDerive, Opening
<1>9. OutputsKept'
  BY <1>1, <1>2, OutputsSame DEF IInv, ToOutputs, ToSections, ToAliases, ToFilters, ToDerive,
       Opening
<1>10. FixKept'
  BY <1>1 DEF FixKept
<1> QED
  BY <1>3, <1>4, <1>5, <1>6, <1>7, <1>8, <1>9, <1>10 DEF IInv

(* An entry with a condition either is wrong, or joins what is made: the    *)
(* condition has a number, and reads no derived value that is not there.    *)
LEMMA EntryWhenMakes ==
  ASSUME IInv, pc \in Range(Steps), NEW w, IsWhen(w),
         NEW limit \in Nat, limit <= Len(t.derived), NEW ok, NEW made,
         Fields \subseteq DOMAIN made, DOMAIN t.derived \subseteq DOMAIN made.derived,
         EntryWhen(w, limit, ok, made)
  PROVE  \/ Fail /\ condIdx' = condIdx
         \/ /\ ok /\ t' = [made EXCEPT !.conds = Conds(w)]
            /\ k' = k + 1 /\ pc' = pc /\ err' = err
            /\ CondsKept' /\ CondsGrown /\ CondBefore(t', Number(w), limit + 1)
<1>1. CASE ~(ok /\ WhenOK(w, limit))
  <2>1. Fail
    BY <1>1 DEF EntryWhen, Entry
  <2>2. pc' = "failed"
    BY <2>1 DEF Fail, Goto
  <2> QED
    BY <2>1, <2>2 DEF EntryWhen
<1>2. CASE ok /\ WhenOK(w, limit)
  <2>1. /\ t' = [made EXCEPT !.conds = Conds(w)]
        /\ k' = k + 1 /\ pc' = pc /\ err' = err
    BY <1>2 DEF EntryWhen, Entry
  <2>2. pc' # "failed"
    BY <2>1, StepNames
  <2>3. condIdx' = IF IsNew(w) THEN Append(condIdx, w) ELSE condIdx
    BY <2>2 DEF EntryWhen
  <2>4. t'.conds = Conds(w) /\ t'.derived = made.derived
    BY <2>1 DEF Fields
  <2>5. cfg \in Configs /\ CondsKept /\ IsASeq(t.derived)
    BY DEF IInv, Shaped, DerivedKept
  <2>6. /\ IsASeq(Conds(w))
        /\ Len(Conds(w)) = Len(t.conds) + IF IsNew(w) THEN 1 ELSE 0
        /\ DOMAIN t.conds \subseteq DOMAIN Conds(w)
        /\ \A c \in DOMAIN t.conds : Conds(w)[c] = t.conds[c]
        /\ \A c \in DOMAIN Conds(w) : AreSourcesOf(t, Conds(w)[c].srcs)
        /\ Number(w) \in {0} \cup DOMAIN Conds(w)
        /\ Number(w) # 0 => ReadsBefore(Conds(w)[Number(w)].srcs, limit + 1)
        /\ IsNew(w) => w \notin Range(condIdx)
    BY <1>2, <2>5, CondAdded
  <2>7. CondsGrown /\ CondBefore(t', Number(w), limit + 1)
    BY <2>4, <2>6 DEF CondsGrown, CondBefore
  <2>8. \A c \in DOMAIN t'.conds : AreSourcesOf(t', t'.conds[c].srcs)
    BY <2>4, <2>6 DEF AreSourcesOf
  <2>9. IsASeq(condIdx') /\ Len(condIdx') = Len(t'.conds) /\ IsInjective(condIdx')
    <3>1. CASE ~IsNew(w)
      <4>1. Len(t.conds) \in Nat
        BY <2>5 DEF CondsKept, IsASeq
      <4> QED
        BY <3>1, <4>1, <2>3, <2>4, <2>5, <2>6 DEF CondsKept
    <3>2. CASE IsNew(w)
      <4>1. condIdx' = Append(condIdx, w) /\ w \notin Range(condIdx)
        BY <3>2, <2>3, <2>6
      <4>2. /\ IsASeq(condIdx') /\ Len(condIdx) \in Nat /\ Len(condIdx') = Len(condIdx) + 1
            /\ DOMAIN condIdx = 1..Len(condIdx) /\ DOMAIN condIdx' = 1..(Len(condIdx) + 1)
            /\ \A p \in DOMAIN condIdx : condIdx'[p] = condIdx[p]
            /\ condIdx'[Len(condIdx) + 1] = w
        BY <4>1, <2>5, AppendASeq DEF CondsKept
      <4>3. IsInjective(condIdx')
        <5> SUFFICES ASSUME NEW a \in DOMAIN condIdx', NEW b \in DOMAIN condIdx',
                            condIdx'[a] = condIdx'[b]
                     PROVE  a = b
          BY DEF IsInjective
        <5>1. \A p \in DOMAIN condIdx : condIdx[p] # w
          BY <4>1 DEF Range
        <5>2. /\ a \in DOMAIN condIdx \/ a = Len(condIdx) + 1
              /\ b \in DOMAIN condIdx \/ b = Len(condIdx) + 1
          BY <4>2
        <5> QED
          BY <5>1, <5>2, <4>2, <2>5 DEF CondsKept, IsInjective
      <4>4. Len(condIdx) = Len(t.conds) /\ Len(t'.conds) = Len(t.conds) + 1
        BY <3>2, <2>4, <2>5, <2>6 DEF CondsKept
      <4> QED
        BY <4>2, <4>3, <4>4
    <3> QED
      BY <3>1, <3>2
  <2>10. CondsKept'
    BY <2>4, <2>6, <2>8, <2>9 DEF CondsKept
  <2> QED
    BY <1>2, <2>1, <2>7, <2>10
<1> QED
  BY <1>1, <1>2

(* A loop that is over, and a step that makes nothing, go on to the next.   *)
LEMMA MovesOn ==
  ASSUME IInv, t' = t, UNCHANGED <<cfg, condIdx, plain, err>>, k' = 1, pc' = NextStep,
         todo' \subseteq DOMAIN cfg.segAliases,
         pc \in Opening \cup {"derive", "columns", "segmentAliases", "rules"},
         pc = "derive" => Len(t.derived) = Cardinality(DerivedNames)
  PROVE  IInv'
<1>1. pc \in Range(Steps)
  BY StepNames DEF Opening
<1>2. /\ pc = "decode" => pc' = "new"
      /\ pc = "new" => pc' = "flatten"
      /\ pc = "flatten" => pc' = "input"
      /\ pc = "input" => pc' = "derive"
      /\ pc = "derive" => pc' = "columns"
      /\ pc = "columns" => pc' = "keyPolicy"
      /\ pc = "segmentAliases" => pc' = "aliases"
      /\ pc = "rules" => pc' = "sections"
  BY <1>1, Order
<1>3. Untouched({})
  BY DEF Untouched, IInv, Shaped
<1>4. Shaped'
  <2>1. pc' \in Range(Steps)
    BY <1>2, StepNames DEF Opening
  <2>2. pc' # "failed" /\ pc # "failed"
    BY <2>1, <1>1, StepNames
  <2> QED
    BY <2>1, <2>2 DEF IInv, Shaped
<1>5. CondsKept' /\ CondsGrown
  BY <1>3, CondsSame DEF IInv
<1>6. DerivedKept'
  <2>1. pc' \in Opening => pc \in Opening
    BY <1>2 DEF Opening
  <2>2. pc' = "derive" => Len(t.derived) = k' - 1
    BY <1>2 DEF Opening, IInv, DerivedKept
  <2>3. pc' \notin ToDerive \cup {"failed"} => Len(t.derived) = Cardinality(DerivedNames)
    BY <1>2 DEF Opening, ToDerive, IInv, DerivedKept
  <2> QED
    BY <1>3, <1>5, <2>1, <2>2, <2>3, DerivedSame DEF IInv
<1>7. ColumnsKept' /\ RulesKept'
  BY <1>3, <1>5, ColumnsSame, RulesSame DEF IInv
<1>8. /\ pc' \in ToFilters => pc \in ToFilters
      /\ pc' \notin ToFilters \cup {"failed"} => pc \notin ToFilters \cup {"failed"}
      /\ pc' \in ToAliases \ {"aliases"} => pc \in ToAliases \ {"aliases"}
      /\ pc' \in ToSections \ {"sections"} => pc \in ToSections \ {"sections"}
      /\ pc' \notin ToSections \cup {"failed"} => pc \notin ToSections \cup {"failed"}
      /\ pc' \in ToOutputs \ {"outputs"} => pc \in ToOutputs \ {"outputs"}
      /\ pc' = "sections" => pc = "rules"
      /\ pc' # "done"
  BY <1>2 DEF ToOutputs, ToSections, ToAliases, ToFilters, ToDerive, Opening
<1>9. FiltersKept' /\ GroupsKept'
  BY <1>3, <1>8, FiltersSame, GroupsSame DEF IInv, FilterFields
<1>10. OutputsKept'
  <2>1. pc' = "sections" => Len(t.sections) = k' - 1 /\ k' - 1 <= Len(cfg.sections)
    <3>1. cfg \in Configs
      BY DEF IInv, Shaped
    <3>2. Len(cfg.sections) \in Nat
      BY <3>1, ConfigsAssumption DEF IsConfig, IsASeq
    <3> QED
      BY <3>2, <1>8 DEF IInv, OutputsKept, ToSections, ToAliases
  <2> QED
    BY <1>3, <1>8, <2>1, OutputsSame DEF IInv
<1>11. FixKept'
  BY <1>8 DEF FixKept
<1> QED
  BY <1>4, <1>5, <1>6, <1>7, <1>9, <1>10, <1>11 DEF IInv

LEMMA OpeningKeeps ==
  ASSUME IInv, Decode \/ New \/ Flatten \/ Input
  PROVE  IInv'
<1>1. pc \in Opening /\ pc \in Range(Steps) /\ pc # "derive"
  BY StepNames DEF Decode, New, Flatten, Input, Opening
<1>2. UNCHANGED <<cfg, condIdx, plain, todo>>
  BY DEF Decode, New, Flatten, Input, Whole
<1>3. Fail \/ (t' = t /\ pc' = NextStep /\ k' = 1 /\ err' = err)
  BY DEF Decode, New, Flatten, Input, Whole, Goto
<1>4. todo' \subseteq DOMAIN cfg.segAliases
  BY <1>2 DEF IInv, Shaped
<1> QED
  BY <1>1, <1>2, <1>3, <1>4, FailKeeps, MovesOn

-----------------------------------------------------------------------------
(* The steps.                                                               *)

(* derive: the k-th name in their order. *)
LEMMA DeriveKeeps ==
  ASSUME IInv, Derive
  PROVE  IInv'
<1>1. pc = "derive" /\ pc \in Range(Steps) /\ UNCHANGED <<cfg, plain, todo>>
  BY StepNames DEF Derive
<1>2. /\ cfg \in Configs /\ todo' \subseteq DOMAIN cfg.segAliases /\ k \in Nat \ {0}
      /\ Fields \subseteq DOMAIN t
  BY <1>1 DEF IInv, Shaped
<1>3. /\ Len(t.derived) = k - 1 /\ IsASeq(t.derived)
      /\ DOMAIN t.derived = 1..(k - 1)
  BY <1>1 DEF IInv, DerivedKept, IsASeq
<1>4. /\ IsFiniteSet(DerivedNames) /\ DerivedNames \subseteq Nat
      /\ Cardinality(DerivedNames) \in Nat
  BY <1>2, NamesFinite
<1>5. CASE k > Cardinality(DerivedNames)
  <2>1. EndStep(t)
    BY <1>5 DEF Derive
  <2>2. Len(t.derived) = Cardinality(DerivedNames)
    BY <1>2, <1>3, <1>4, <1>5 DEF IInv, DerivedKept
  <2> QED
    BY <1>1, <1>2, <2>1, <2>2, MovesOn DEF EndStep, Goto
<1>6. CASE ~(k > Cardinality(DerivedNames))
  <2> DEFINE name == CHOOSE n \in DerivedNames : Cardinality(Before(n)) = k - 1
             d == cfg.derive[name]
             srcs == CompiledSources(d.from)
             value == [srcs |-> srcs, norm |-> d.norm, required |-> d.required,
                       when |-> Number(d.when)]
             made == [t EXCEPT !.derived = Append(@, value)]
             ok == /\ name \notin {0, Now}
                   /\ AreSources(d.from)
                   /\ ReadsBefore(srcs, k)
                   /\ d.normalize \in NormalizeModes
  <2>1. EntryWhen(d.when, k - 1, ok, made)
    BY <1>6 DEF Derive, DeriveValue
  <2>2. \A n \in DerivedNames : Before(n) = Lower(DerivedNames, n)
    BY DEF Before, Lower
  <2>3. name \in DerivedNames /\ Cardinality(Before(name)) = k - 1
    <3>1. k - 1 \in Nat /\ k - 1 < Cardinality(DerivedNames)
      BY <1>2, <1>4, <1>6
    <3>2. \E n \in DerivedNames : Cardinality(Before(n)) = k - 1
      BY <1>4, <2>2, <3>1, EveryRank
    <3> QED
      BY <3>2
  <2>4. \A n \in DerivedNames : Cardinality(Before(n)) = k - 1 => n = name
    <3> SUFFICES ASSUME NEW n \in DerivedNames, Cardinality(Before(n)) = k - 1, n # name
                 PROVE  FALSE
      OBVIOUS
    <3>1. n \in Nat /\ name \in Nat
      BY <1>4, <2>3
    <3>2. n < name \/ name < n
      BY <3>1
    <3>3. Cardinality(Before(n)) # Cardinality(Before(name))
      <4> HIDE DEF name
      <4>1. \A p, q \in DerivedNames : p < q =>
              /\ Cardinality(Lower(DerivedNames, p)) \in Nat
              /\ Cardinality(Lower(DerivedNames, p)) < Cardinality(Lower(DerivedNames, q))
        BY <1>4, RankGrows
      <4>2. \A p \in DerivedNames : Cardinality(Lower(DerivedNames, p)) \in Nat
        BY <1>4, RankBelowAll
      <4> QED
        BY <2>2, <2>3, <3>2, <4>1, <4>2
    <3> QED
      BY <2>3, <3>3
  <2>5. IsASeq(d.from) /\ IsWhen(d.when)
    BY <1>2, <2>3, ConfigsAssumption DEF IsConfig, DerivedNames
  <2> HIDE DEF name, d, srcs, value, ok
  <2>6. /\ Fields \subseteq DOMAIN made /\ made.derived = Append(t.derived, value)
        /\ Untouched({"derived", "conds"}) <=>
             Fields \subseteq DOMAIN t'
             /\ \A f \in Fields \ {"derived", "conds"} : t'[f] = made[f]
    BY <1>2 DEF Fields, Untouched
  <2>7. /\ IsASeq(made.derived) /\ DOMAIN made.derived = 1..k /\ Len(made.derived) = k
        /\ \A p \in DOMAIN t.derived : made.derived[p] = t.derived[p]
        /\ made.derived[k] = value
    BY <1>2, <1>3, <2>6, AppendASeq
  <2> HIDE DEF made
  <2>8. \/ Fail /\ condIdx' = condIdx
        \/ /\ ok /\ t' = [made EXCEPT !.conds = Conds(d.when)]
           /\ k' = k + 1 /\ pc' = pc /\ err' = err
           /\ CondsKept' /\ CondsGrown /\ CondBefore(t', Number(d.when), k)
    <3>1. k - 1 \in Nat /\ k - 1 <= Len(t.derived) /\ (k - 1) + 1 = k
      BY <1>2, <1>3
    <3>2. DOMAIN t.derived \subseteq DOMAIN made.derived
      BY <1>2, <1>3, <2>7
    <3> QED
      BY <1>1, <2>1, <2>5, <2>6, <3>1, <3>2, EntryWhenMakes
  <2>9. CASE Fail /\ condIdx' = condIdx
    BY <1>1, <1>2, <2>9, FailKeeps
  <2>10. CASE /\ ok /\ t' = [made EXCEPT !.conds = Conds(d.when)]
              /\ k' = k + 1 /\ pc' = pc /\ err' = err
              /\ CondsKept' /\ CondsGrown /\ CondBefore(t', Number(d.when), k)
    <3>1. t'.derived = made.derived /\ Untouched({"derived", "conds"})
      BY <2>6, <2>10 DEF Fields
    <3>2. Shaped'
      BY <1>1, <1>2, <2>10, <3>1, StepNames DEF IInv, Shaped, Untouched
    <3>3. ASSUME NEW e \in 1..k
          PROVE  /\ ReadsBefore(made.derived[e].srcs, e)
                 /\ CondBefore(t', made.derived[e].when, e)
      <4>1. CASE e = k
        <5>1. made.derived[e].srcs = srcs /\ made.derived[e].when = Number(d.when)
          BY <2>7, <4>1 DEF value
        <5>2. ReadsBefore(srcs, k)
          BY <2>10 DEF ok
        <5> QED
          BY <2>10, <4>1, <5>1, <5>2
      <4>2. CASE e # k
        <5>1. e \in DOMAIN t.derived /\ made.derived[e] = t.derived[e]
          BY <1>2, <1>3, <2>7, <4>2
        <5> QED
          BY <2>10, <5>1, CondBeforeStays DEF IInv, DerivedKept
      <4> QED
        BY <4>1, <4>2
    <3>4. ASSUME NEW n \in DerivedNames, Cardinality(Before(n)) < k PROVE n # Now
      <4>1. Cardinality(Before(n)) \in Nat
        BY <1>4, <2>2, RankBelowAll
      <4>2. CASE Cardinality(Before(n)) = k - 1
        BY <2>4, <2>10, <4>2 DEF ok
      <4>3. CASE Cardinality(Before(n)) # k - 1
        <5>1. Cardinality(Before(n)) < k - 1
          BY <1>2, <3>4, <4>1, <4>3
        <5> QED
          BY <1>3, <5>1 DEF IInv, DerivedKept
      <4> QED
        BY <4>2, <4>3
    <3>5. DerivedKept'
      <4>1. DerivedNames' = DerivedNames /\ \A n : Before(n)' = Before(n)
        BY <1>1 DEF DerivedNames, Before
      <4>2. k <= Cardinality(DerivedNames)
        BY <1>2, <1>4, <1>6
      <4>3. pc' = "derive" /\ k' - 1 = k
        BY <1>1, <1>2, <2>10
      <4> QED
        BY <2>7, <3>1, <3>3, <3>4, <4>1, <4>2, <4>3
        DEF DerivedKept, Opening, ToDerive
    <3>6. ColumnsKept' /\ RulesKept'
      BY <2>10, <3>1, ColumnsSame, RulesSame DEF IInv
    <3>7. FiltersKept' /\ GroupsKept'
      BY <1>1, <2>10, <3>1, FiltersSame, GroupsSame DEF IInv, FilterFields
    <3>8. OutputsKept'
      <4>1. t'.sections = t.sections /\ t'.outputs = t.outputs
        BY <3>1 DEF Untouched, Fields
      <4>2. t.outputs = <<>> /\ t.sections = <<>>
        BY <1>1 DEF IInv, OutputsKept, ToOutputs, ToSections, ToAliases, ToFilters, ToDerive
      <4>3. /\ pc' = "derive" /\ pc' \in ToSections /\ DOMAIN <<>> = {}
        BY <1>1, <2>10 DEF ToSections, ToAliases, ToFilters, ToDerive
      <4> QED
        BY <4>1, <4>2, <4>3 DEF IInv, OutputsKept
    <3>9. FixKept'
      BY <1>1, <2>10 DEF FixKept
    <3> QED
      BY <2>10, <3>2, <3>5, <3>6, <3>7, <3>8, <3>9 DEF IInv
  <2> QED
    BY <2>8, <2>9, <2>10
<1> QED
  BY <1>5, <1>6

(* columns *)
LEMMA ColumnsKeep ==
  ASSUME IInv, Columns
  PROVE  IInv'
<1>1. pc = "columns" /\ pc \in Range(Steps) /\ UNCHANGED <<cfg, plain, todo>>
  BY StepNames DEF Columns
<1>2. /\ cfg \in Configs /\ todo' \subseteq DOMAIN cfg.segAliases /\ k \in Nat \ {0}
      /\ Fields \subseteq DOMAIN t
  BY <1>1 DEF IInv, Shaped
<1>3. Len(cfg.columns) \in Nat /\ DOMAIN cfg.columns = 1..Len(cfg.columns)
  BY <1>2, ConfigsAssumption DEF IsConfig, IsASeq
<1>4. CASE k > Len(cfg.columns)
  <2>1. EndStep(t)
    BY <1>4 DEF Columns
  <2> QED
    BY <1>1, <1>2, <2>1, MovesOn DEF EndStep, Goto
<1>5. CASE ~(k > Len(cfg.columns))
  <2> DEFINE c == cfg.columns[k]
             ok == /\ c.to # <<>>
                   /\ c.as \in {"", "raw", "string", "number", "bool"}
                   /\ AreSources(c.from)
             column == [name |-> c.to, srcs |-> CompiledSources(c.from),
                        when |-> Number(c.when),
                        as |-> IF c.as = "" THEN "raw" ELSE c.as, quiet |-> c.quiet]
             made == [t EXCEPT !.columns = Append(@, column)]
  <2>1. EntryWhen(c.when, Len(t.derived), ok, made)
    BY <1>5 DEF Columns, Column
  <2>2. IsWhen(c.when)
    <3>1. k \in DOMAIN cfg.columns
      BY <1>2, <1>3, <1>5
    <3> QED
      BY <1>2, <3>1, ConfigsAssumption DEF IsConfig
  <2>3. Len(t.derived) \in Nat
    BY DEF IInv, DerivedKept, IsASeq
  <2>4. column.when = Number(c.when)
    OBVIOUS
  <2> HIDE DEF c, ok, column
  <2>5. /\ Fields \subseteq DOMAIN made /\ made.columns = Append(t.columns, column)
        /\ \A f \in Fields \ {"columns"} : made[f] = t[f]
        /\ made.derived = t.derived
    BY <1>2 DEF Fields
  <2>6. /\ IsASeq(made.columns) /\ DOMAIN made.columns = 1..(Len(t.columns) + 1)
        /\ DOMAIN t.columns = 1..Len(t.columns) /\ Len(t.columns) \in Nat
        /\ \A p \in DOMAIN t.columns : made.columns[p] = t.columns[p]
        /\ made.columns[Len(t.columns) + 1] = column
    BY <2>5, AppendASeq DEF IInv, ColumnsKept
  <2> HIDE DEF made
  <2>7. \/ Fail /\ condIdx' = condIdx
        \/ /\ ok /\ t' = [made EXCEPT !.conds = Conds(c.when)]
           /\ k' = k + 1 /\ pc' = pc /\ err' = err
           /\ CondsKept' /\ CondsGrown /\ CondBefore(t', Number(c.when), Len(t.derived) + 1)
    BY <1>1, <2>1, <2>2, <2>3, <2>5, EntryWhenMakes
  <2>8. CASE Fail /\ condIdx' = condIdx
    BY <1>1, <1>2, <2>8, FailKeeps
  <2>9. CASE /\ t' = [made EXCEPT !.conds = Conds(c.when)]
             /\ k' = k + 1 /\ pc' = pc /\ err' = err
             /\ CondsKept' /\ CondsGrown /\ CondBefore(t', Number(c.when), Len(t.derived) + 1)
    <3>1. t'.columns = made.columns /\ Untouched({"columns", "conds"})
      BY <2>5, <2>9 DEF Fields, Untouched
    <3>2. Shaped'
      BY <1>1, <1>2, <2>9, <3>1, StepNames DEF IInv, Shaped, Untouched
    <3>3. ColumnsKept'
      <4>1. ASSUME NEW p \in DOMAIN made.columns
            PROVE  made.columns[p].when \in {0} \cup DOMAIN t'.conds
        <5>1. CASE p = Len(t.columns) + 1
          BY <2>4, <2>6, <2>9, <5>1 DEF CondBefore
        <5>2. CASE p # Len(t.columns) + 1
          <6>1. p \in DOMAIN t.columns
            BY <2>6, <5>2
          <6> QED
            BY <2>6, <2>9, <6>1 DEF IInv, ColumnsKept, CondsGrown
        <5> QED
          BY <5>1, <5>2
      <4> QED
        BY <2>6, <3>1, <4>1 DEF ColumnsKept
    <3>4. DerivedKept'
      <4>1. Len(t.derived) = Cardinality(DerivedNames)
        BY <1>1 DEF IInv, DerivedKept, ToDerive, Opening
      <4> QED
        BY <1>1, <2>9, <3>1, <4>1, DerivedSame DEF IInv, Opening
    <3>5. FiltersKept'
      <4>1. t'.rest = t.rest /\ t'.digit = t.digit
        BY <3>1 DEF Untouched, Fields
      <4>2. t.rest = NoName /\ pc' \in ToFilters
        BY <1>1, <2>9 DEF IInv, FiltersKept, ToFilters
      <4> QED
        BY <1>1, <4>1, <4>2 DEF IInv, FiltersKept
    <3>6. GroupsKept'
      <4>1. t'.groups = t.groups
        BY <3>1 DEF Untouched, Fields
      <4>2. t.groups = <<>> /\ plain = NoTable
        BY <1>1 DEF IInv, GroupsKept, ToAliases, ToFilters
      <4>3. Leads(t', NoTable) /\ DOMAIN <<>> = {}
        BY DEF Leads, NoTable
      <4> QED
        BY <1>1, <4>1, <4>2, <4>3 DEF IInv, GroupsKept
    <3>7. RulesKept'
      BY <3>1, RulesSame DEF IInv
    <3>8. OutputsKept'
      BY <1>1, <2>9, <3>1, OutputsSame DEF IInv
    <3>9. FixKept'
      BY <1>1, <2>9 DEF FixKept
    <3> QED
      BY <2>9, <3>2, <3>3, <3>4, <3>5, <3>6, <3>7, <3>8, <3>9 DEF IInv
  <2> QED
    BY <2>7, <2>8, <2>9
<1> QED
  BY <1>4, <1>5

(* After derive: what most steps leave alone. *)
LEMMA LateSame ==
  ASSUME IInv, UNCHANGED <<cfg, condIdx>>, NEW S, Untouched(S),
         S \cap {"conds", "derived", "columns"} = {},
         pc \in Range(Steps), pc' \in Range(Steps) \cup {"done"},
         pc \notin ToDerive, pc' \notin ToDerive, k' \in Nat \ {0}, err' = err,
         todo' \subseteq DOMAIN cfg.segAliases
  PROVE  Shaped' /\ CondsKept' /\ CondsGrown /\ DerivedKept' /\ ColumnsKept'
<1>1. Shaped'
  <2>1. pc # "failed" /\ pc' # "failed"
    BY StepNames
  <2> QED
    BY <2>1 DEF IInv, Shaped, Untouched
<1>2. CondsKept' /\ CondsGrown
  BY CondsSame DEF IInv
<1>3. DerivedKept'
  <2>1. Len(t.derived) = Cardinality(DerivedNames)
    BY StepNames DEF IInv, DerivedKept
  <2>2. pc' \notin Opening /\ pc' # "derive"
    BY DEF ToDerive
  <2> QED
    BY <1>2, <2>1, <2>2, DerivedSame DEF IInv
<1>4. ColumnsKept'
  BY <1>2, ColumnsSame DEF IInv
<1> QED
  BY <1>1, <1>2, <1>3, <1>4

(* keyPolicy *)
LEMMA KeyPolicyKeeps ==
  ASSUME IInv, KeyPolicy
  PROVE  IInv'
<1> DEFINE digit == [key \in {x \in Keys : x # <<>> /\ x[1] \in Digits} |->
                      cfg.digitPrefix \o key]
           made == [t EXCEPT !.snake = cfg.normalize = "snake",
                     !.digit = IF cfg.digitPrefix = <<>> THEN NoTable ELSE digit,
                     !.collision = IF cfg.onCollision = "" THEN "keep" ELSE cfg.onCollision]
<1>1. pc = "keyPolicy" /\ pc \in Range(Steps) /\ UNCHANGED <<cfg, condIdx, plain, todo>>
  BY StepNames DEF KeyPolicy, Whole
<1>2. todo' \subseteq DOMAIN cfg.segAliases /\ Fields \subseteq DOMAIN t
  BY <1>1 DEF IInv, Shaped
<1>3. Fail \/ (t' = made /\ pc' = NextStep /\ k' = 1 /\ err' = err)
  BY DEF KeyPolicy, Whole, Goto
<1>4. NextStep = "keyFilters"
  BY <1>1, Order
<1>5. CASE Fail
  BY <1>1, <1>2, <1>5, FailKeeps
<1>6. CASE t' = made /\ pc' = NextStep /\ k' = 1 /\ err' = err
  <2> HIDE DEF digit
  <2>1. /\ t'.digit = (IF cfg.digitPrefix = <<>> THEN NoTable ELSE digit)
        /\ Untouched({"snake", "digit", "collision"})
    BY <1>2, <1>6 DEF Fields, Untouched
  <2>2. pc' = "keyFilters" /\ pc' \in Range(Steps)
    BY <1>4, <1>6, StepNames
  <2>3. Shaped' /\ CondsKept' /\ CondsGrown /\ DerivedKept' /\ ColumnsKept'
    BY <1>1, <1>2, <1>6, <2>1, <2>2, LateSame DEF ToDerive, Opening
  <2>4. FiltersKept'
    <3>1. t'.rest = t.rest
      BY <2>1 DEF Untouched, Fields
    <3>2. t.rest = NoName /\ pc' \in ToFilters
      BY <1>1, <2>2 DEF IInv, FiltersKept, ToFilters
    <3> QED
      BY <1>1, <2>1, <3>1, <3>2 DEF FiltersKept
  <2>5. GroupsKept'
    BY <1>1, <2>1, <2>2, GroupsSame DEF IInv, ToAliases, ToFilters
  <2>6. RulesKept'
    BY <2>1, RulesSame DEF IInv
  <2>7. OutputsKept'
    BY <1>1, <2>1, <2>2, OutputsSame DEF IInv, ToOutputs, ToSections, ToAliases, ToFilters
  <2>8. FixKept'
    BY <2>2 DEF FixKept
  <2> QED
    BY <2>3, <2>4, <2>5, <2>6, <2>7, <2>8 DEF IInv
<1> QED
  BY <1>3, <1>5, <1>6

(* keyFilters *)
LEMMA KeyFiltersKeep ==
  ASSUME IInv, KeyFilters
  PROVE  IInv'
<1> DEFINE keep == IF cfg.keep = <<>> THEN NoFilter ELSE Matched(cfg.keep)
           rest == IF cfg.rest = <<>> THEN NoName ELSE cfg.rest
           made == [t EXCEPT !.keep = keep, !.drop = Matched(cfg.drop), !.rest = rest]
<1>1. pc = "keyFilters" /\ pc \in Range(Steps) /\ UNCHANGED <<cfg, condIdx, plain, todo>>
  BY StepNames DEF KeyFilters, Whole
<1>2. todo' \subseteq DOMAIN cfg.segAliases /\ Fields \subseteq DOMAIN t
  BY <1>1 DEF IInv, Shaped
<1>3. \/ Fail
      \/ /\ cfg.rest # <<>> => cfg.keep # <<>> /\ cfg.rest \notin ColumnNames(t)
         /\ t' = made /\ pc' = NextStep /\ k' = 1 /\ err' = err
  BY DEF KeyFilters, Whole, Goto
<1>4. NextStep = "segmentAliases"
  BY <1>1, Order
<1>5. CASE Fail
  BY <1>1, <1>2, <1>5, FailKeeps
<1>6. CASE /\ cfg.rest # <<>> => cfg.keep # <<>> /\ cfg.rest \notin ColumnNames(t)
           /\ t' = made /\ pc' = NextStep /\ k' = 1 /\ err' = err
  <2>1. keep # NoFilter <=> cfg.keep # <<>>
    <3>1. Matched(cfg.keep) \in SUBSET Keys
      BY DEF Matched
    <3> QED
      BY <3>1, ConfigsAssumption
  <2>2. rest # NoName => cfg.rest # <<>> /\ rest = cfg.rest
    OBVIOUS
  <2> HIDE DEF keep, rest
  <2>3. /\ t'.keep = keep /\ t'.drop = Matched(cfg.drop) /\ t'.rest = rest
        /\ t'.columns = t.columns /\ t'.digit = t.digit
        /\ Untouched({"keep", "drop", "rest"})
    BY <1>2, <1>6 DEF Fields, Untouched
  <2>4. pc' = "segmentAliases" /\ pc' \in Range(Steps)
    BY <1>4, <1>6, StepNames
  <2>5. Shaped' /\ CondsKept' /\ CondsGrown /\ DerivedKept' /\ ColumnsKept'
    BY <1>1, <1>2, <1>6, <2>3, <2>4, LateSame DEF ToDerive, Opening
  <2>6. FiltersKept'
    <3>1. pc' \notin ToFilters
      BY <2>4 DEF ToFilters, ToDerive, Opening
    <3>2. ColumnNames(t') = ColumnNames(t)
      BY <2>3 DEF ColumnNames
    <3>3. rest # NoName => keep # NoFilter /\ rest \notin ColumnNames(t')
      BY <1>6, <2>1, <2>2, <3>2
    <3>4. \A list : Matched(list)' = Matched(list)
      BY DEF Matched, Matches
    <3>5. cfg.digitPrefix = <<>> => t.digit = NoTable
      BY DEF IInv, FiltersKept
    <3> QED
      BY <1>1, <2>3, <3>1, <3>3, <3>4, <3>5 DEF FiltersKept, keep
  <2>7. GroupsKept'
    <3>1. t'.groups = t.groups
      BY <2>3 DEF Untouched, Fields
    <3>2. t.groups = <<>> /\ plain = NoTable
      BY <1>1 DEF IInv, GroupsKept, ToAliases, ToFilters
    <3>3. Leads(t', NoTable) /\ DOMAIN <<>> = {}
      BY DEF Leads, NoTable
    <3> QED
      BY <1>1, <3>1, <3>2, <3>3 DEF IInv, GroupsKept
  <2>8. RulesKept'
    BY <2>3, RulesSame DEF IInv
  <2>9. OutputsKept'
    BY <1>1, <2>3, <2>4, OutputsSame DEF IInv, ToOutputs, ToSections, ToAliases, ToFilters
  <2>10. FixKept'
    BY <2>4 DEF FixKept
  <2> QED
    BY <2>5, <2>6, <2>7, <2>8, <2>9, <2>10 DEF IInv
<1> QED
  BY <1>3, <1>5, <1>6

(* segmentAliases *)
LEMMA SegmentAliasesKeep ==
  ASSUME IInv, SegmentAliases
  PROVE  IInv'
<1>1. pc = "segmentAliases" /\ pc \in Range(Steps) /\ UNCHANGED <<cfg, plain>>
  BY StepNames DEF SegmentAliases
<1>2. Fields \subseteq DOMAIN t /\ todo \subseteq DOMAIN cfg.segAliases /\ k \in Nat \ {0}
  BY DEF IInv, Shaped
<1> DEFINE left == IF k = 1 THEN DOMAIN cfg.segAliases ELSE todo
<1>3. left \subseteq DOMAIN cfg.segAliases
  BY <1>2
<1>4. \/ EndStep(t) /\ todo' = {}
      \/ \E from \in left :
           SegmentAlias(from) /\ todo' = left \ {from} /\ UNCHANGED condIdx
  BY DEF SegmentAliases
<1> HIDE DEF left
<1>5. todo' \subseteq DOMAIN cfg.segAliases
  BY <1>3, <1>4
<1>6. CASE EndStep(t)
  BY <1>1, <1>5, <1>6, MovesOn DEF EndStep, Goto
<1>7. ASSUME NEW from \in left, SegmentAlias(from), UNCHANGED condIdx
      PROVE  IInv'
  <2> DEFINE norm == Snaked(from)
             table == Over([x \in {norm} |-> cfg.segAliases[from]], t.segAliases)
             made == [t EXCEPT !.segAliases = table]
  <2>1. Fail \/ (t' = made /\ k' = k + 1 /\ pc' = pc /\ err' = err)
    BY <1>7 DEF SegmentAlias, Entry
  <2>2. CASE Fail
    BY <1>1, <1>5, <1>7, <2>2, FailKeeps
  <2>3. CASE t' = made /\ k' = k + 1 /\ pc' = pc /\ err' = err
    <3> HIDE DEF table
    <3>1. Untouched({"segAliases"})
      BY <1>2, <2>3 DEF Fields, Untouched
    <3>2. k' \in Nat \ {0}
      BY <1>2, <2>3
    <3>3. Shaped' /\ CondsKept' /\ CondsGrown /\ DerivedKept' /\ ColumnsKept'
      BY <1>1, <1>5, <1>7, <2>3, <3>1, <3>2, LateSame DEF ToDerive, Opening
    <3>4. FiltersKept' /\ GroupsKept' /\ RulesKept'
      BY <1>1, <2>3, <3>1, FiltersSame, GroupsSame, RulesSame DEF IInv, FilterFields
    <3>5. OutputsKept'
      BY <1>1, <2>3, <3>1, OutputsSame DEF IInv
    <3>6. FixKept'
      BY <1>1, <2>3 DEF FixKept
    <3> QED
      BY <3>3, <3>4, <3>5, <3>6 DEF IInv
  <2> QED
    BY <2>1, <2>2, <2>3
<1> QED
  BY <1>4, <1>6, <1>7

(* An alias that is right adds to its group no key but one that leads to a  *)
(* key that is written (alias).                                             *)
LEMMA JoiningLeads ==
  ASSUME IInv, pc = "aliases", NEW i \in DOMAIN cfg.aliases, NEW group, Leads(t, group),
         AliasOK(cfg.aliases[i], group)
  PROVE  Leads(t, Joining(cfg.aliases[i], group))
<1> DEFINE a == cfg.aliases[i]
           table == Joining(a, group)
<1>1. a.to \in Keys
  <2>1. cfg \in Configs
    BY DEF IInv, Shaped
  <2>2. a.to \in Keys \cup {<<>>}
    BY <2>1, ConfigsAssumption DEF IsConfig
  <2> QED
    BY <2>2 DEF AliasOK
<1>2. Verdict(t, a.to) = "written"
  <2>1. /\ t.keep = IF cfg.keep = <<>> THEN NoFilter ELSE Matched(cfg.keep)
        /\ t.drop = Matched(cfg.drop)
    BY DEF IInv, FiltersKept, ToFilters, ToDerive, Opening
  <2>2. IsWritten(a.to)
    BY DEF AliasOK
  <2> QED
    BY <1>1, <2>1, <2>2 DEF IsWritten, Matched, Verdict
<1>3. a.to \notin ColumnNames(t) /\ a.to # t.rest /\ a.to \notin Range(Froms(a))
  BY DEF AliasOK
<1>4. /\ DOMAIN table = Range(Froms(a)) \cup DOMAIN group
      /\ \A key \in DOMAIN table :
           table[key] = IF key \in Range(Froms(a)) THEN a.to ELSE group[key]
  BY DEF Joining, Over
<1> HIDE DEF a, table
<1>5. Leads(t, table)
  BY <1>2, <1>3, <1>4 DEF Leads
<1> QED
  BY <1>5 DEF a, table

LEMMA NoTableLeads == \A made : Leads(made, NoTable)
BY DEF Leads, NoTable

(* aliases *)
LEMMA AliasesKeep ==
  ASSUME IInv, Aliases
  PROVE  IInv'
<1>1. pc = "aliases" /\ pc \in Range(Steps) /\ UNCHANGED <<cfg, todo>>
  BY StepNames DEF Aliases
<1>2. /\ cfg \in Configs /\ todo' \subseteq DOMAIN cfg.segAliases /\ k \in Nat \ {0}
      /\ Fields \subseteq DOMAIN t
  BY <1>1 DEF IInv, Shaped
<1>3. Len(cfg.aliases) \in Nat /\ DOMAIN cfg.aliases = 1..Len(cfg.aliases)
  BY <1>2, ConfigsAssumption DEF IsConfig, IsASeq
<1>4. /\ IsASeq(t.groups) /\ Leads(t, plain)
      /\ \A g \in DOMAIN t.groups : Leads(t, t.groups[g].to)
  BY DEF IInv, GroupsKept
<1>5. ASSUME NEW group, Leads(t, group.to), NEW made,
             made.groups = Append(t.groups, group), Untouched({"groups", "conds"}),
             t'.groups = made.groups
      PROVE  /\ IsASeq(t'.groups)
             /\ \A g \in DOMAIN t'.groups : Leads(t', t'.groups[g].to)
  <2>1. /\ IsASeq(t'.groups) /\ DOMAIN t'.groups = 1..(Len(t.groups) + 1)
        /\ DOMAIN t.groups = 1..Len(t.groups) /\ Len(t.groups) \in Nat
        /\ \A p \in DOMAIN t.groups : t'.groups[p] = t.groups[p]
        /\ t'.groups[Len(t.groups) + 1] = group
    BY <1>4, <1>5, AppendASeq
  <2>2. \A table : Leads(t, table) => Leads(t', table)
    BY <1>5, LeadsSame
  <2>3. \A g \in DOMAIN t'.groups : g \in DOMAIN t.groups \/ g = Len(t.groups) + 1
    BY <2>1
  <2> QED
    BY <1>4, <1>5, <2>1, <2>2, <2>3
<1>6. CASE k > Len(cfg.aliases)
  <2> DEFINE group == [when |-> 0, to |-> plain]
             made == [t EXCEPT !.groups = WithPlain]
  <2>1. t' = made /\ pc' = NextStep /\ k' = 1 /\ UNCHANGED <<condIdx, err, plain>>
    BY <1>6 DEF Aliases, EndStep, Goto
  <2>2. NextStep = "rules"
    BY <1>1, Order
  <2>3. t'.groups = WithPlain /\ made.groups = WithPlain /\ Untouched({"groups", "conds"})
        /\ Untouched({"groups"})
    BY <1>2, <2>1 DEF Fields, Untouched
  <2>4. pc' = "rules" /\ pc' \in Range(Steps)
    BY <2>1, <2>2, StepNames
  <2>5. Shaped' /\ CondsKept' /\ CondsGrown /\ DerivedKept' /\ ColumnsKept'
    BY <1>1, <1>2, <2>1, <2>3, <2>4, LateSame DEF ToDerive, Opening
  <2>6. FiltersKept'
    BY <1>1, <2>3, <2>4, FiltersSame DEF IInv, FilterFields, ToFilters, ToDerive, Opening
  <2>7. GroupsKept'
    <3>1. \A table : Leads(t, table) => Leads(t', table)
      BY <2>3, LeadsSame
    <3>2. /\ IsASeq(t'.groups)
          /\ \A g \in DOMAIN t'.groups : Leads(t', t'.groups[g].to)
      <4>1. CASE plain = NoTable
        BY <1>4, <2>3, <3>1, <4>1 DEF WithPlain
      <4>2. CASE plain # NoTable
        <5>1. made.groups = Append(t.groups, group) /\ Leads(t, group.to)
          BY <1>4, <2>3, <4>2 DEF WithPlain
        <5> HIDE DEF made, group
        <5> QED
          BY <1>5, <2>1, <2>3, <5>1
      <4> QED
        BY <4>1, <4>2
    <3>3. pc' \notin ToAliases \ {"aliases"}
      BY <2>4 DEF ToAliases, ToFilters, ToDerive, Opening
    <3> QED
      BY <1>4, <2>1, <3>1, <3>2, <3>3 DEF GroupsKept
  <2>8. RulesKept'
    BY <2>3, RulesSame DEF IInv
  <2>9. OutputsKept'
    BY <1>1, <2>3, <2>4, OutputsSame DEF IInv, ToOutputs, ToSections, ToAliases
  <2>10. FixKept'
    BY <2>4 DEF FixKept
  <2> QED
    BY <2>5, <2>6, <2>7, <2>8, <2>9, <2>10 DEF IInv
<1>7. CASE ~(k > Len(cfg.aliases))
  <2> DEFINE a == cfg.aliases[k]
  <2>1. AliasEntry(a) /\ k \in DOMAIN cfg.aliases
    BY <1>2, <1>3, <1>7 DEF Aliases
  <2>2. ASSUME a.when # NoCond PROVE IInv'
    <3> DEFINE group == [when |-> Number(a.when), to |-> Joining(a, NoTable)]
               made == [t EXCEPT !.groups = Append(@, group)]
               ok == AliasOK(a, NoTable)
    <3>1. EntryWhen(a.when, Len(t.derived), ok, made) /\ UNCHANGED plain
      BY <2>1, <2>2 DEF AliasEntry
    <3>2. IsWhen(a.when) /\ Len(t.derived) \in Nat
      BY <1>2, <2>1, ConfigsAssumption DEF IsConfig, IInv, DerivedKept, IsASeq
    <3>3. ok => Leads(t, group.to)
      BY <1>1, <2>1, NoTableLeads, JoiningLeads
    <3> HIDE DEF group, ok, a
    <3>4. /\ Fields \subseteq DOMAIN made /\ made.groups = Append(t.groups, group)
          /\ \A f \in Fields \ {"groups"} : made[f] = t[f]
          /\ made.derived = t.derived
      BY <1>2 DEF Fields
    <3> HIDE DEF made
    <3>5. \/ Fail /\ condIdx' = condIdx
          \/ /\ ok /\ t' = [made EXCEPT !.conds = Conds(a.when)]
             /\ k' = k + 1 /\ pc' = pc /\ err' = err
             /\ CondsKept' /\ CondsGrown
      BY <1>1, <3>1, <3>2, <3>4, EntryWhenMakes
    <3>6. CASE Fail /\ condIdx' = condIdx
      BY <1>1, <1>2, <3>1, <3>6, FailKeeps
    <3>7. CASE /\ ok /\ t' = [made EXCEPT !.conds = Conds(a.when)]
               /\ k' = k + 1 /\ pc' = pc /\ err' = err
               /\ CondsKept' /\ CondsGrown
      <4>1. t'.groups = made.groups /\ Untouched({"groups", "conds"})
        BY <3>4, <3>7 DEF Fields, Untouched
      <4>2. Shaped'
        BY <1>1, <1>2, <3>7, <4>1, StepNames DEF IInv, Shaped, Untouched
      <4>3. DerivedKept' /\ ColumnsKept'
        <5>1. Len(t.derived) = Cardinality(DerivedNames)
          BY <1>1 DEF IInv, DerivedKept, ToDerive, Opening
        <5> QED
          BY <1>1, <3>7, <4>1, <5>1, DerivedSame, ColumnsSame DEF IInv, Opening
      <4>4. FiltersKept' /\ RulesKept'
        BY <1>1, <3>7, <4>1, FiltersSame, RulesSame DEF IInv, FilterFields
      <4>5. GroupsKept'
        <5>1. /\ IsASeq(t'.groups)
              /\ \A g \in DOMAIN t'.groups : Leads(t', t'.groups[g].to)
          BY <1>5, <3>3, <3>4, <3>7, <4>1
        <5>2. Leads(t', plain)
          BY <1>4, <4>1, LeadsSame
        <5>3. pc' = "aliases"
          BY <1>1, <3>7
        <5> QED
          BY <3>1, <5>1, <5>2, <5>3 DEF GroupsKept
      <4>6. OutputsKept'
        BY <1>1, <3>7, <4>1, OutputsSame DEF IInv
      <4>7. FixKept'
        BY <1>1, <3>7 DEF FixKept
      <4> QED
        BY <3>7, <4>2, <4>3, <4>4, <4>5, <4>6, <4>7 DEF IInv
    <3> QED
      BY <3>5, <3>6, <3>7
  <2>3. ASSUME a.when = NoCond PROVE IInv'
    <3> DEFINE ok == AliasOK(a, plain)
    <3>1. /\ UNCHANGED condIdx
          /\ plain' = IF ok THEN Joining(a, plain) ELSE plain
          /\ IF ok THEN t' = t /\ k' = k + 1 /\ UNCHANGED <<pc, err>> ELSE Fail
      BY <2>1, <2>3 DEF AliasEntry, Entry
    <3>2. ok => Leads(t, Joining(a, plain))
      BY <1>1, <1>4, <2>1, JoiningLeads
    <3> HIDE DEF ok, a
    <3>3. CASE ~ok
      BY <1>1, <1>2, <3>1, <3>3, FailKeeps
    <3>4. CASE ok
      <4>1. /\ t' = t /\ k' = k + 1 /\ pc' = pc /\ err' = err /\ Untouched({})
            /\ Leads(t, plain')
        BY <1>2, <3>1, <3>2, <3>4 DEF Untouched
      <4>2. k' \in Nat \ {0}
        BY <1>2, <4>1
      <4>3. Shaped' /\ CondsKept' /\ CondsGrown /\ DerivedKept' /\ ColumnsKept'
        BY <1>1, <1>2, <3>1, <4>1, <4>2, LateSame DEF ToDerive, Opening
      <4>4. FiltersKept' /\ RulesKept'
        BY <1>1, <4>1, FiltersSame, RulesSame DEF IInv, FilterFields
      <4>5. GroupsKept'
        BY <1>1, <1>4, <4>1 DEF GroupsKept
      <4>6. OutputsKept'
        BY <1>1, <4>1, OutputsSame DEF IInv
      <4>7. FixKept'
        BY <1>1, <4>1 DEF FixKept
      <4> QED
        BY <4>3, <4>4, <4>5, <4>6, <4>7 DEF IInv
    <3> QED
      BY <3>3, <3>4
  <2> QED
    BY <2>2, <2>3
<1> QED
  BY <1>6, <1>7

(* What the rules add to the actions: on each path the action is still one, *)
(* and it keeps its slots beside the new ones.                              *)
LEMMA ActionsGrow ==
  ASSUME RulesKept, NEW new, NEW S, NEW total \in Nat, NEW add,
         DOMAIN add = S, DOMAIN new = S, <<>> \notin S,
         \A path \in S : IsAction(new[path])
                         /\ new[path].slots = ActionOf(path).slots \cup add[path],
         (1 .. t.nslots) \cup UNION {add[path] : path \in S} = 1 .. total,
         t'.actions = Over(new, t.actions), t'.nslots = total, t'.defaults = t.defaults
  PROVE  RulesKept'
<1> DEFINE acts == Over(new, t.actions)
           All(table) == UNION {table[path].slots : path \in DOMAIN table}
<1>1. /\ DOMAIN acts = S \cup DOMAIN t.actions
      /\ \A path \in DOMAIN acts :
           acts[path] = IF path \in S THEN new[path] ELSE t.actions[path]
  BY DEF Over
<1>2. \A path \in DOMAIN acts : path # <<>> /\ IsAction(acts[path])
  BY <1>1 DEF RulesKept
<1>3. All(acts) = All(t.actions) \cup UNION {add[path] : path \in S}
  <2>1. \A path \in S : acts[path].slots =
          (IF path \in DOMAIN t.actions THEN t.actions[path].slots ELSE {}) \cup add[path]
    BY <1>1 DEF ActionOf, NoAction
  <2>2. \A path \in DOMAIN t.actions \ S : acts[path].slots = t.actions[path].slots
    BY <1>1
  <2> HIDE DEF acts
  <2>3. ASSUME NEW x \in All(acts)
        PROVE  x \in All(t.actions) \cup UNION {add[path] : path \in S}
    <3>1. PICK path \in DOMAIN acts : x \in acts[path].slots
      OBVIOUS
    <3> QED
      BY <1>1, <2>1, <2>2, <3>1
  <2>4. ASSUME NEW x \in All(t.actions) PROVE x \in All(acts)
    <3>1. PICK path \in DOMAIN t.actions : x \in t.actions[path].slots
      OBVIOUS
    <3>2. path \in DOMAIN acts /\ x \in acts[path].slots
      BY <1>1, <2>1, <2>2, <3>1
    <3> QED
      BY <3>2
  <2>5. ASSUME NEW x \in UNION {add[path] : path \in S} PROVE x \in All(acts)
    <3>1. PICK path \in S : x \in add[path]
      OBVIOUS
    <3>2. path \in DOMAIN acts /\ x \in acts[path].slots
      BY <1>1, <2>1, <3>1
    <3> QED
      BY <3>2
  <2> QED
    BY <2>3, <2>4, <2>5
<1>4. All(acts) = 1 .. total
  BY <1>3 DEF RulesKept
<1> HIDE DEF acts
<1>5. t'.actions = acts
  BY DEF acts
<1> QED
  BY <1>2, <1>4, <1>5 DEF RulesKept, IsAction

LEMMA ActionOfIs ==
  ASSUME RulesKept, NEW path
  PROVE  IsAction(ActionOf(path))
BY ConfigsAssumption DEF RulesKept, ActionOf, NoAction, IsAction

(* rename and drop exclude each other on one path, whichever comes first.   *)
LEMMA AddRenameKeeps ==
  ASSUME RulesKept, Fields \subseteq DOMAIN t, NEW r, AddRename(r), ~Fail
  PROVE  RulesKept' /\ Untouched({"actions"}) /\ k' = k + 1 /\ UNCHANGED <<pc, err>>
<1> DEFINE path == r.from[1]
           new == [x \in {path} |-> [ActionOf(x) EXCEPT !.renameTo = r.to]]
           add == [x \in {path} |-> {}]
<1>1. /\ path # <<>> /\ r.to # <<>>
      /\ ~ActionOf(path).drop
      /\ t' = [t EXCEPT !.actions = Over(new, @)] /\ k' = k + 1 /\ UNCHANGED <<pc, err>>
  BY DEF AddRename, Entry
<1>2. IsAction(ActionOf(path))
  BY ActionOfIs
<1>3. IsAction(new[path]) /\ new[path].slots = ActionOf(path).slots \cup add[path]
  BY <1>1, <1>2 DEF IsAction
<1>4. t.nslots \in Nat /\ UNION {add[x] : x \in {path}} = {}
  BY DEF RulesKept
<1> HIDE DEF path
<1>5. \A x \in {path} : IsAction(new[x]) /\ new[x].slots = ActionOf(x).slots \cup add[x]
  BY <1>3
<1>6. DOMAIN new = {path} /\ DOMAIN add = {path} /\ <<>> \notin {path}
  BY <1>1
<1> HIDE DEF new, add
<1>7. /\ t'.actions = Over(new, t.actions) /\ t'.nslots = t.nslots
      /\ t'.defaults = t.defaults /\ Untouched({"actions"})
  BY <1>1 DEF Fields, Untouched
<1>8. (1 .. t.nslots) \cup UNION {add[x] : x \in {path}} = 1 .. t.nslots
  BY <1>4
<1> DEFINE S == {path}
           total == t.nslots
<1>9. /\ RulesKept /\ total \in Nat /\ DOMAIN add = S /\ DOMAIN new = S /\ <<>> \notin S
      /\ \A x \in S : IsAction(new[x]) /\ new[x].slots = ActionOf(x).slots \cup add[x]
      /\ (1 .. t.nslots) \cup UNION {add[x] : x \in S} = 1 .. total
      /\ t'.actions = Over(new, t.actions) /\ t'.nslots = total /\ t'.defaults = t.defaults
  BY <1>4, <1>5, <1>6, <1>7, <1>8
<1> HIDE DEF S, total
<1>10. RulesKept'
  BY <1>9, ActionsGrow
<1> QED
  BY <1>1, <1>7, <1>10

LEMMA AddDropKeeps ==
  ASSUME RulesKept, Fields \subseteq DOMAIN t, NEW r, AddDrop(r), ~Fail
  PROVE  RulesKept' /\ Untouched({"actions"}) /\ k' = k + 1 /\ UNCHANGED <<pc, err>>
<1> DEFINE path == r.path
           new == [x \in {path} |-> [ActionOf(x) EXCEPT !.drop = TRUE]]
           add == [x \in {path} |-> {}]
<1>1. /\ path # <<>> /\ ActionOf(path).renameTo = NoPath
      /\ t' = [t EXCEPT !.actions = Over(new, @)] /\ k' = k + 1 /\ UNCHANGED <<pc, err>>
  BY DEF AddDrop, Entry
<1>2. IsAction(ActionOf(path))
  BY ActionOfIs
<1>3. IsAction(new[path]) /\ new[path].slots = ActionOf(path).slots \cup add[path]
  BY <1>1, <1>2 DEF IsAction
<1>4. t.nslots \in Nat /\ UNION {add[x] : x \in {path}} = {}
  BY DEF RulesKept
<1> HIDE DEF path
<1>5. \A x \in {path} : IsAction(new[x]) /\ new[x].slots = ActionOf(x).slots \cup add[x]
  BY <1>3
<1>6. DOMAIN new = {path} /\ DOMAIN add = {path} /\ <<>> \notin {path}
  BY <1>1
<1> HIDE DEF new, add
<1>7. /\ t'.actions = Over(new, t.actions) /\ t'.nslots = t.nslots
      /\ t'.defaults = t.defaults /\ Untouched({"actions"})
  BY <1>1 DEF Fields, Untouched
<1>8. (1 .. t.nslots) \cup UNION {add[x] : x \in {path}} = 1 .. t.nslots
  BY <1>4
<1> DEFINE S == {path}
           total == t.nslots
<1>9. /\ RulesKept /\ total \in Nat /\ DOMAIN add = S /\ DOMAIN new = S /\ <<>> \notin S
      /\ \A x \in S : IsAction(new[x]) /\ new[x].slots = ActionOf(x).slots \cup add[x]
      /\ (1 .. t.nslots) \cup UNION {add[x] : x \in S} = 1 .. total
      /\ t'.actions = Over(new, t.actions) /\ t'.nslots = total /\ t'.defaults = t.defaults
  BY <1>4, <1>5, <1>6, <1>7, <1>8
<1> HIDE DEF S, total
<1>10. RulesKept'
  BY <1>9, ActionsGrow
<1> QED
  BY <1>1, <1>7, <1>10

(* Every source of a merge fills a slot of its own. *)
LEMMA AddMergeKeeps ==
  ASSUME RulesKept, Fields \subseteq DOMAIN t, NEW r, IsASeq(r.from), AddMerge(r), ~Fail
  PROVE  /\ RulesKept' /\ Untouched({"actions", "nslots", "merges"})
         /\ k' = k + 1 /\ UNCHANGED <<pc, err>>
<1> DEFINE S == Range(r.from)
           new == [path \in S |->
                    LET action == ActionOf(path)
                    IN  [action EXCEPT !.slots = @ \cup Filled(r, path),
                                       !.consume = Consumes(r, action)]]
           add == [path \in S |-> Filled(r, path)]
           total == t.nslots + Len(r.from)
           merge == [to |-> r.to, mode |-> IF r.mode = "" THEN "concat" ELSE r.mode,
                     slots |-> [n \in DOMAIN r.from |-> t.nslots + n]]
<1>1. /\ <<>> \notin S
      /\ t' = [t EXCEPT !.actions = Over(new, @), !.nslots = @ + Len(r.from),
                        !.merges = Append(@, merge)]
      /\ k' = k + 1 /\ UNCHANGED <<pc, err>>
  BY DEF AddMerge, Entry
<1>2. /\ t.nslots \in Nat /\ Len(r.from) \in Nat /\ DOMAIN r.from = 1..Len(r.from)
      /\ total \in Nat
  BY DEF RulesKept, IsASeq
<1>3. \A path \in S : IsAction(new[path])
                      /\ new[path].slots = ActionOf(path).slots \cup add[path]
  <2> TAKE path \in S
  <2>1. IsAction(ActionOf(path))
    BY ActionOfIs
  <2>2. new[path] = [ActionOf(path) EXCEPT !.slots = @ \cup Filled(r, path),
                                           !.consume = Consumes(r, ActionOf(path))]
    OBVIOUS
  <2>3. add[path] = Filled(r, path)
    OBVIOUS
  <2> HIDE DEF new, add, S
  <2> QED
    BY <2>1, <2>2, <2>3 DEF IsAction
<1>4. (1 .. t.nslots) \cup UNION {add[path] : path \in S} = 1 .. total
  <2>1. ASSUME NEW x \in UNION {add[path] : path \in S}
        PROVE  x \in 1 .. total
    <3>1. PICK path \in S : x \in Filled(r, path)
      OBVIOUS
    <3>2. PICK n \in DOMAIN r.from : x = t.nslots + n
      BY <3>1 DEF Filled
    <3> QED
      BY <1>2, <3>2
  <2>2. ASSUME NEW x \in 1 .. total, x \notin 1 .. t.nslots
        PROVE  x \in UNION {add[path] : path \in S}
    <3> DEFINE n == x - t.nslots
    <3>1. n \in DOMAIN r.from /\ x = t.nslots + n
      BY <1>2, <2>2
    <3>2. r.from[n] \in S
      BY <3>1 DEF Range
    <3>3. x \in Filled(r, r.from[n])
      BY <3>1 DEF Filled
    <3>4. x \in add[r.from[n]]
      BY <3>2, <3>3
    <3> HIDE DEF n, add, S
    <3> QED
      BY <3>2, <3>4
  <2>3. \A x \in 1 .. t.nslots : x \in 1 .. total
    BY <1>2
  <2> QED
    BY <2>1, <2>2, <2>3
<1>5. DOMAIN new = S /\ DOMAIN add = S
  OBVIOUS
<1> HIDE DEF new, add, S, merge
<1>6. /\ t'.actions = Over(new, t.actions) /\ t'.nslots = total
      /\ t'.defaults = t.defaults /\ Untouched({"actions", "nslots", "merges"})
  BY <1>1 DEF Fields, Untouched
<1> HIDE DEF total
<1> QED
  BY <1>1, <1>2, <1>3, <1>4, <1>5, <1>6, ActionsGrow

LEMMA AddDefaultKeeps ==
  ASSUME RulesKept, Fields \subseteq DOMAIN t, NEW r, AddDefault(r), ~Fail
  PROVE  RulesKept' /\ Untouched({"defaults"}) /\ k' = k + 1 /\ UNCHANGED <<pc, err>>
<1> DEFINE new == [key |-> r.path, value |-> r.value]
<1>1. /\ \A d \in Range(t.defaults) : d.key # r.path
      /\ t' = [t EXCEPT !.defaults = Append(@, new)] /\ k' = k + 1 /\ UNCHANGED <<pc, err>>
  BY DEF AddDefault, Entry
<1>2. new.key = r.path
  OBVIOUS
<1> HIDE DEF new
<1>3. /\ t'.actions = t.actions /\ t'.nslots = t.nslots
      /\ t'.defaults = Append(t.defaults, new) /\ Untouched({"defaults"})
  BY <1>1 DEF Fields, Untouched
<1>4. /\ IsASeq(t'.defaults) /\ DOMAIN t'.defaults = 1..(Len(t.defaults) + 1)
      /\ DOMAIN t.defaults = 1..Len(t.defaults) /\ Len(t.defaults) \in Nat
      /\ \A p \in DOMAIN t.defaults : t'.defaults[p] = t.defaults[p]
      /\ t'.defaults[Len(t.defaults) + 1] = new
  BY <1>3, AppendASeq DEF RulesKept
<1>5. \A p \in DOMAIN t.defaults : t.defaults[p].key # r.path
  BY <1>1 DEF Range
<1>6. ASSUME NEW a \in DOMAIN t'.defaults, NEW b \in DOMAIN t'.defaults,
             t'.defaults[a].key = t'.defaults[b].key
      PROVE  a = b
  <2>1. /\ a \in DOMAIN t.defaults \/ a = Len(t.defaults) + 1
        /\ b \in DOMAIN t.defaults \/ b = Len(t.defaults) + 1
    BY <1>4
  <2> QED
    BY <1>2, <1>4, <1>5, <1>6, <2>1 DEF RulesKept
<1>7. \A path \in DOMAIN t'.actions : path # <<>> /\ IsAction(t'.actions[path])
  BY <1>3 DEF RulesKept
<1>8. t'.nslots \in Nat
  BY <1>3 DEF RulesKept
<1>9. UNION {t'.actions[path].slots : path \in DOMAIN t'.actions} = 1 .. t'.nslots
  BY <1>3 DEF RulesKept
<1>10. RulesKept'
  BY <1>4, <1>6, <1>7, <1>8, <1>9 DEF RulesKept, IsAction
<1> QED
  BY <1>1, <1>3, <1>10

(* rules *)
LEMMA RulesKeep ==
  ASSUME IInv, Rules
  PROVE  IInv'
<1>1. pc = "rules" /\ pc \in Range(Steps) /\ UNCHANGED <<cfg, plain, todo>>
  BY StepNames DEF Rules
<1>2. /\ cfg \in Configs /\ todo' \subseteq DOMAIN cfg.segAliases /\ k \in Nat \ {0}
      /\ Fields \subseteq DOMAIN t /\ RulesKept
  BY <1>1 DEF IInv, Shaped
<1>3. Len(cfg.rules) \in Nat /\ DOMAIN cfg.rules = 1..Len(cfg.rules)
  BY <1>2, ConfigsAssumption DEF IsConfig, IsASeq
<1>4. CASE k > Len(cfg.rules)
  <2>1. EndStep(t)
    BY <1>4 DEF Rules
  <2> QED
    BY <1>1, <1>2, <2>1, MovesOn DEF EndStep, Goto
<1>5. CASE ~(k > Len(cfg.rules))
  <2> DEFINE r == cfg.rules[k]
  <2>1. /\ \/ r.op = "rename" /\ AddRename(r)
           \/ r.op = "drop" /\ AddDrop(r)
           \/ r.op = "merge" /\ AddMerge(r)
           \/ r.op = "default" /\ AddDefault(r)
           \/ Fail
        /\ UNCHANGED condIdx
    BY <1>5 DEF Rules
  <2>2. r.op = "merge" => IsASeq(r.from)
    <3>1. k \in DOMAIN cfg.rules
      BY <1>2, <1>3, <1>5
    <3> QED
      BY <1>2, <3>1, ConfigsAssumption DEF IsConfig
  <2> HIDE DEF r
  <2> DEFINE parts == {"actions", "nslots", "merges", "defaults"}
  <2>3. CASE Fail
    BY <1>1, <1>2, <2>1, <2>3, FailKeeps
  <2>4. CASE ~Fail
    <3>1. /\ RulesKept' /\ k' = k + 1 /\ UNCHANGED <<pc, err>>
          /\ Untouched({"actions"}) \/ Untouched({"defaults"})
             \/ Untouched({"actions", "nslots", "merges"})
      BY <1>2, <2>1, <2>2, <2>4, AddRenameKeeps, AddDropKeeps, AddMergeKeeps, AddDefaultKeeps
    <3>2. Untouched(parts)
      BY <3>1 DEF Untouched
    <3>3. k' \in Nat \ {0}
      BY <1>2, <3>1
    <3>4. Shaped' /\ CondsKept' /\ CondsGrown /\ DerivedKept' /\ ColumnsKept'
      BY <1>1, <1>2, <2>1, <3>1, <3>2, <3>3, LateSame DEF ToDerive, Opening
    <3>5. FiltersKept' /\ GroupsKept'
      BY <1>1, <3>1, <3>2, FiltersSame, GroupsSame DEF IInv, FilterFields
    <3>6. OutputsKept'
      BY <1>1, <3>1, <3>2, OutputsSame DEF IInv
    <3>7. FixKept'
      BY <1>1, <3>1 DEF FixKept
    <3> QED
      BY <3>1, <3>4, <3>5, <3>6, <3>7 DEF IInv
  <2> QED
    BY <2>3, <2>4
<1> QED
  BY <1>4, <1>5

(* sections *)
LEMMA SectionsKeep ==
  ASSUME IInv, Sections
  PROVE  IInv'
<1>1. pc = "sections" /\ pc \in Range(Steps) /\ UNCHANGED <<cfg, plain, todo>>
  BY StepNames DEF Sections
<1>2. /\ cfg \in Configs /\ todo' \subseteq DOMAIN cfg.segAliases /\ k \in Nat \ {0}
      /\ Fields \subseteq DOMAIN t
  BY <1>1 DEF IInv, Shaped
<1>3. Len(cfg.sections) \in Nat /\ DOMAIN cfg.sections = 1..Len(cfg.sections)
  BY <1>2, ConfigsAssumption DEF IsConfig, IsASeq
<1>4. /\ IsASeq(t.sections) /\ Len(t.sections) = k - 1 /\ k - 1 <= Len(cfg.sections)
      /\ t.outputs = <<>>
  BY <1>1 DEF IInv, OutputsKept, ToOutputs, ToSections
<1>5. CASE ~(k <= Len(cfg.sections))
  <2> DEFINE made == [t EXCEPT !.sections = IF @ = <<>> THEN <<WholeRecord>> ELSE @]
  <2>1. t' = made /\ pc' = NextStep /\ k' = 1 /\ UNCHANGED <<condIdx, err>>
    BY <1>5 DEF Sections, EndStep, Goto
  <2>2. pc' = "outputs" /\ pc' \in Range(Steps)
    <3>1. NextStep = "outputs"
      BY <1>1, Order
    <3> QED
      BY <2>1, <3>1, StepNames
  <2>3. /\ t'.sections = (IF t.sections = <<>> THEN <<WholeRecord>> ELSE t.sections)
        /\ t'.outputs = t.outputs /\ t'.derived = t.derived /\ Untouched({"sections"})
    BY <1>2, <2>1 DEF Fields, Untouched
  <2>4. Shaped' /\ CondsKept' /\ CondsGrown /\ DerivedKept' /\ ColumnsKept'
    BY <1>1, <1>2, <2>1, <2>2, <2>3, LateSame DEF ToDerive, Opening
  <2>5. FiltersKept' /\ RulesKept'
    BY <1>1, <2>2, <2>3, FiltersSame, RulesSame
    DEF IInv, FilterFields, ToFilters, ToDerive, Opening
  <2>6. GroupsKept'
    BY <1>1, <2>2, <2>3, GroupsSame DEF IInv, ToAliases, ToFilters, ToDerive, Opening
  <2>7. OutputsKept'
    <3>1. IsASeq(t'.sections) /\ Len(cfg.sections) <= Len(t'.sections)
      <4>1. CASE t.sections = <<>>
        <5>1. t'.sections = <<WholeRecord>> /\ Len(t'.sections) = 1 /\ k - 1 = 0
          BY <1>4, <2>3, <4>1
        <5>2. IsASeq(<<WholeRecord>>)
          BY DEF IsASeq, Range
        <5> QED
          BY <1>2, <1>3, <1>4, <1>5, <5>1, <5>2
      <4>2. CASE t.sections # <<>>
        BY <1>2, <1>3, <1>4, <1>5, <2>3, <4>2
      <4> QED
        BY <4>1, <4>2
    <3>2. t'.outputs = <<>> /\ DOMAIN <<>> = {} /\ IsASeq(<<>>)
      BY <1>4, <2>3 DEF IsASeq, Range
    <3>3. pc' \notin ToSections
      BY <2>2 DEF ToSections, ToAliases, ToFilters, ToDerive, Opening
    <3>4. pc' # "sections"
      BY <2>2
    <3> QED
      BY <1>1, <3>1, <3>2, <3>3, <3>4 DEF OutputsKept
  <2>8. FixKept'
    BY <2>2 DEF FixKept
  <2> QED
    BY <2>4, <2>5, <2>6, <2>7, <2>8 DEF IInv
<1>6. CASE k <= Len(cfg.sections)
  <2> DEFINE s == cfg.sections[k]
             ok == s.id \notin SectionIds(k - 1)
             section == [from |-> s.from, when |-> Number(s.when), quiet |-> s.quiet,
                         dead |-> Dropped(s.from),
                         dstBase |-> IF s.prefix = <<>> THEN <<>> ELSE s.prefix \o Sep]
             made == [t EXCEPT !.sections = Append(@, section)]
  <2>1. EntryWhen(s.when, Len(t.derived), ok, made)
    BY <1>6 DEF Sections, SectionEntry
  <2>2. IsWhen(s.when)
    <3>1. k \in DOMAIN cfg.sections
      BY <1>2, <1>3, <1>6
    <3> QED
      BY <1>2, <3>1, ConfigsAssumption DEF IsConfig
  <2>3. Len(t.derived) \in Nat
    BY DEF IInv, DerivedKept, IsASeq
  <2> HIDE DEF s, ok, section
  <2>4. /\ Fields \subseteq DOMAIN made /\ made.sections = Append(t.sections, section)
        /\ \A f \in Fields \ {"sections"} : made[f] = t[f]
        /\ made.derived = t.derived
    BY <1>2 DEF Fields
  <2> HIDE DEF made
  <2>5. \/ Fail /\ condIdx' = condIdx
        \/ /\ ok /\ t' = [made EXCEPT !.conds = Conds(s.when)]
           /\ k' = k + 1 /\ pc' = pc /\ err' = err
           /\ CondsKept' /\ CondsGrown
    BY <1>1, <2>1, <2>2, <2>3, <2>4, EntryWhenMakes
  <2>6. CASE Fail /\ condIdx' = condIdx
    BY <1>1, <1>2, <2>6, FailKeeps
  <2>7. CASE /\ t' = [made EXCEPT !.conds = Conds(s.when)]
             /\ k' = k + 1 /\ pc' = pc /\ err' = err
             /\ CondsKept' /\ CondsGrown
    <3>1. /\ t'.sections = Append(t.sections, section) /\ t'.outputs = t.outputs
          /\ Untouched({"sections", "conds"})
      BY <2>4, <2>7 DEF Fields, Untouched
    <3>2. Shaped'
      BY <1>1, <1>2, <2>7, <3>1, StepNames DEF IInv, Shaped, Untouched
    <3>3. DerivedKept' /\ ColumnsKept'
      <4>1. Len(t.derived) = Cardinality(DerivedNames)
        BY <1>1 DEF IInv, DerivedKept, ToDerive, Opening
      <4> QED
        BY <1>1, <2>7, <3>1, <4>1, DerivedSame, ColumnsSame DEF IInv, Opening
    <3>4. FiltersKept' /\ RulesKept'
      BY <1>1, <2>7, <3>1, FiltersSame, RulesSame DEF IInv, FilterFields
    <3>5. GroupsKept'
      BY <1>1, <2>7, <3>1, GroupsSame DEF IInv
    <3>6. OutputsKept'
      <4>1. IsASeq(t'.sections) /\ Len(t'.sections) = k' - 1 /\ k' - 1 <= Len(cfg.sections)
        <5>1. IsASeq(t'.sections) /\ Len(t'.sections) = Len(t.sections) + 1
          BY <1>4, <3>1, AppendASeq
        <5> QED
          BY <1>2, <1>3, <1>4, <1>6, <2>7, <5>1
      <4>2. t'.outputs = <<>> /\ DOMAIN <<>> = {} /\ IsASeq(<<>>)
        BY <1>4, <3>1 DEF IsASeq, Range
      <4>3. pc' = "sections" /\ pc' \in ToSections
        BY <1>1, <2>7 DEF ToSections
      <4> QED
        BY <1>1, <4>1, <4>2, <4>3 DEF OutputsKept
    <3>7. FixKept'
      BY <1>1, <2>7 DEF FixKept
    <3> QED
      BY <2>7, <3>2, <3>3, <3>4, <3>5, <3>6, <3>7 DEF IInv
  <2> QED
    BY <2>5, <2>6, <2>7
<1> QED
  BY <1>5, <1>6

(* A name that is a derived value is one of those computed.  All of them    *)
(* are compiled by then, and none is called now (outputs).                  *)
LEMMA NameIsDerived ==
  ASSUME cfg \in Configs, DerivedKept, Len(t.derived) = Cardinality(DerivedNames),
         NEW s, s.kind = "var", s.var \in DerivedNames
  PROVE  PathOrVariable(s).idx \in 1 .. Len(t.derived)
<1>1. IsFiniteSet(DerivedNames) /\ DerivedNames \subseteq Nat
  BY NamesFinite
<1>2. Before(s.var) = Lower(DerivedNames, s.var)
  BY DEF Before, Lower
<1>3. /\ Cardinality(DerivedNames) \in Nat /\ Cardinality(Before(s.var)) \in Nat
      /\ Cardinality(Before(s.var)) < Cardinality(DerivedNames)
  BY <1>1, <1>2, RankBelowAll
<1>4. s.var # Now
  BY <1>3 DEF DerivedKept
<1>5. PathOrVariable(s).idx = Cardinality(Before(s.var)) + 1
  BY <1>4 DEF PathOrVariable
<1> QED
  BY <1>3, <1>5

(* outputs *)
LEMMA OutputsKeep ==
  ASSUME IInv, Outputs
  PROVE  IInv'
<1>1. pc = "outputs" /\ pc \in Range(Steps) /\ UNCHANGED <<cfg, plain, todo>>
  BY StepNames DEF Outputs
<1>2. /\ cfg \in Configs /\ todo' \subseteq DOMAIN cfg.segAliases /\ k \in Nat \ {0}
      /\ Fields \subseteq DOMAIN t
  BY <1>1 DEF IInv, Shaped
<1>3. Len(cfg.outputs) \in Nat /\ DOMAIN cfg.outputs = 1..Len(cfg.outputs)
      /\ Len(cfg.sections) \in Nat /\ DOMAIN cfg.sections = 1..Len(cfg.sections)
  BY <1>2, ConfigsAssumption DEF IsConfig, IsASeq
<1>4. /\ IsASeq(t.sections) /\ IsASeq(t.outputs) /\ Len(cfg.sections) <= Len(t.sections)
      /\ \A o \in DOMAIN t.outputs :
           /\ t.outputs[o].nameFrom \in 0 .. Len(t.derived)
           /\ t.outputs[o].member \subseteq DOMAIN t.sections
  BY <1>1 DEF IInv, OutputsKept, ToSections, ToAliases, ToFilters, ToDerive, Opening
<1>5. /\ DOMAIN t.sections = 1..Len(t.sections) /\ Len(t.sections) \in Nat
      /\ DOMAIN cfg.sections \subseteq DOMAIN t.sections /\ Len(t.derived) \in Nat
  BY <1>3, <1>4 DEF IsASeq, IInv, DerivedKept
<1>6. CASE ~(k <= Len(cfg.outputs))
  <2> DEFINE all == [nameFrom |-> 0, when |-> 0, member |-> DOMAIN t.sections]
             made == [t EXCEPT !.outputs = IF @ = <<>> THEN <<all>> ELSE @]
  <2>1. t' = made /\ pc' = NextStep /\ k' = 1 /\ UNCHANGED <<condIdx, err>>
    BY <1>6 DEF Outputs, EndStep, Goto
  <2>2. pc' = "expose" /\ pc' \in Range(Steps)
    <3>1. NextStep = "expose"
      BY <1>1, Order
    <3> QED
      BY <2>1, <3>1, StepNames
  <2>3. all.nameFrom = 0 /\ all.member = DOMAIN t.sections
    OBVIOUS
  <2> HIDE DEF all
  <2>4. /\ t'.outputs = (IF t.outputs = <<>> THEN <<all>> ELSE t.outputs)
        /\ t'.sections = t.sections /\ t'.derived = t.derived /\ Untouched({"outputs"})
    BY <1>2, <2>1 DEF Fields, Untouched
  <2>5. Shaped' /\ CondsKept' /\ CondsGrown /\ DerivedKept' /\ ColumnsKept'
    BY <1>1, <1>2, <2>1, <2>2, <2>4, LateSame DEF ToDerive, Opening
  <2>6. FiltersKept' /\ RulesKept'
    BY <1>1, <2>2, <2>4, FiltersSame, RulesSame
    DEF IInv, FilterFields, ToFilters, ToDerive, Opening
  <2>7. GroupsKept'
    BY <1>1, <2>2, <2>4, GroupsSame DEF IInv, ToAliases, ToFilters, ToDerive, Opening
  <2>8. OutputsKept'
    <3>1. /\ IsASeq(t'.outputs)
          /\ \A o \in DOMAIN t'.outputs :
               /\ t'.outputs[o].nameFrom \in 0 .. Len(t'.derived)
               /\ t'.outputs[o].member \subseteq DOMAIN t'.sections
      <4>1. CASE t.outputs = <<>>
        <5>1. t'.outputs = <<all>> /\ IsASeq(<<all>>) /\ DOMAIN <<all>> = {1} /\ <<all>>[1] = all
          BY <2>4, <4>1 DEF IsASeq, Range
        <5> QED
          BY <1>5, <2>3, <2>4, <5>1
      <4>2. CASE t.outputs # <<>>
        BY <1>4, <2>4, <4>2
      <4> QED
        BY <4>1, <4>2
    <3>2. pc' \notin ToOutputs /\ pc' \notin ToSections /\ pc' # "sections"
      BY <2>2 DEF ToOutputs, ToSections, ToAliases, ToFilters, ToDerive, Opening
    <3> QED
      BY <1>1, <1>4, <2>4, <3>1, <3>2 DEF OutputsKept
  <2>9. FixKept'
    BY <2>2 DEF FixKept
  <2> QED
    BY <2>5, <2>6, <2>7, <2>8, <2>9 DEF IInv
<1>7. CASE k <= Len(cfg.outputs)
  <2> DEFINE o == cfg.outputs[k]
             ok == /\ o.name.kind = "var" => o.name.var \in DerivedNames
                   /\ o.name.kind # "none"
                   /\ Range(o.sections) \subseteq SectionIds(Len(cfg.sections))
             output == [nameFrom |-> IF o.name.kind = "var" THEN PathOrVariable(o.name).idx ELSE 0,
                        when |-> Number(o.when),
                        member |-> IF o.sections = <<>> THEN DOMAIN t.sections
                                   ELSE {i \in DOMAIN cfg.sections :
                                           cfg.sections[i].id \in Range(o.sections)}]
             made == [t EXCEPT !.named = TRUE, !.outputs = Append(@, output)]
  <2>1. EntryWhen(o.when, Len(t.derived), ok, made)
    BY <1>7 DEF Outputs, OutputEntry
  <2>2. IsWhen(o.when)
    <3>1. k \in DOMAIN cfg.outputs
      BY <1>2, <1>3, <1>7
    <3> QED
      BY <1>2, <3>1, ConfigsAssumption DEF IsConfig
  <2>3. Len(t.derived) = Cardinality(DerivedNames) /\ DerivedKept
    BY <1>1 DEF IInv, DerivedKept, ToDerive, Opening
  <2>4. ok => output.nameFrom \in 0 .. Len(t.derived)
    <3>1. CASE o.name.kind = "var"
      <4>1. ok => PathOrVariable(o.name).idx \in 1 .. Len(t.derived)
        BY <1>2, <2>3, <3>1, NameIsDerived
      <4> QED
        BY <1>5, <3>1, <4>1
    <3>2. CASE o.name.kind # "var"
      BY <1>5, <3>2
    <3> QED
      BY <3>1, <3>2
  <2>5. output.member \subseteq DOMAIN t.sections
    BY <1>5
  <2> HIDE DEF o, ok, output
  <2>6. /\ Fields \subseteq DOMAIN made /\ made.outputs = Append(t.outputs, output)
        /\ \A f \in Fields \ {"outputs", "named"} : made[f] = t[f]
        /\ made.derived = t.derived
    BY <1>2 DEF Fields
  <2> HIDE DEF made
  <2>7. \/ Fail /\ condIdx' = condIdx
        \/ /\ ok /\ t' = [made EXCEPT !.conds = Conds(o.when)]
           /\ k' = k + 1 /\ pc' = pc /\ err' = err
           /\ CondsKept' /\ CondsGrown
    BY <1>1, <1>5, <2>1, <2>2, <2>6, EntryWhenMakes
  <2>8. CASE Fail /\ condIdx' = condIdx
    BY <1>1, <1>2, <2>8, FailKeeps
  <2>9. CASE /\ ok /\ t' = [made EXCEPT !.conds = Conds(o.when)]
             /\ k' = k + 1 /\ pc' = pc /\ err' = err
             /\ CondsKept' /\ CondsGrown
    <3>1. /\ t'.outputs = Append(t.outputs, output) /\ t'.sections = t.sections
          /\ t'.derived = t.derived /\ Untouched({"outputs", "named", "conds"})
      BY <2>6, <2>9 DEF Fields, Untouched
    <3>2. Shaped'
      BY <1>1, <1>2, <2>9, <3>1, StepNames DEF IInv, Shaped, Untouched
    <3>3. DerivedKept' /\ ColumnsKept'
      BY <1>1, <2>3, <2>9, <3>1, DerivedSame, ColumnsSame DEF IInv, Opening
    <3>4. FiltersKept' /\ RulesKept'
      BY <1>1, <2>9, <3>1, FiltersSame, RulesSame DEF IInv, FilterFields
    <3>5. GroupsKept'
      BY <1>1, <2>9, <3>1, GroupsSame DEF IInv
    <3>6. OutputsKept'
      <4>1. /\ IsASeq(t'.outputs) /\ DOMAIN t'.outputs = 1..(Len(t.outputs) + 1)
            /\ DOMAIN t.outputs = 1..Len(t.outputs) /\ Len(t.outputs) \in Nat
            /\ \A p \in DOMAIN t.outputs : t'.outputs[p] = t.outputs[p]
            /\ t'.outputs[Len(t.outputs) + 1] = output
        BY <1>4, <3>1, AppendASeq
      <4>2. ASSUME NEW p \in DOMAIN t'.outputs
            PROVE  /\ t'.outputs[p].nameFrom \in 0 .. Len(t'.derived)
                   /\ t'.outputs[p].member \subseteq DOMAIN t'.sections
        <5>1. p \in DOMAIN t.outputs \/ p = Len(t.outputs) + 1
          BY <4>1
        <5> QED
          BY <1>4, <2>4, <2>5, <2>9, <3>1, <4>1, <5>1
      <4>3. pc' = "outputs" /\ pc' \notin ToSections /\ pc' # "sections"
        BY <1>1, <2>9 DEF ToSections, ToAliases, ToFilters, ToDerive, Opening
      <4> QED
        BY <1>1, <1>4, <3>1, <4>1, <4>2, <4>3 DEF OutputsKept
    <3>7. FixKept'
      BY <1>1, <2>9 DEF FixKept
    <3> QED
      BY <2>9, <3>2, <3>3, <3>4, <3>5, <3>6, <3>7 DEF IInv
  <2> QED
    BY <2>7, <2>8, <2>9
<1> QED
  BY <1>6, <1>7

(* expose *)
LEMMA ExposeKeeps ==
  ASSUME IInv, Expose
  PROVE  IInv'
<1> DEFINE made == [t EXCEPT !.expose = CompiledSources(cfg.expose)]
<1>1. pc = "expose" /\ pc \in Range(Steps) /\ UNCHANGED <<cfg, condIdx, plain, todo>>
  BY StepNames DEF Expose, Whole
<1>2. todo' \subseteq DOMAIN cfg.segAliases /\ Fields \subseteq DOMAIN t
  BY <1>1 DEF IInv, Shaped
<1>3. Fail \/ (t' = made /\ pc' = NextStep /\ k' = 1 /\ err' = err)
  BY DEF Expose, Whole, Goto
<1>4. NextStep = "finish"
  BY <1>1, Order
<1>5. CASE Fail
  BY <1>1, <1>2, <1>5, FailKeeps
<1>6. CASE t' = made /\ pc' = NextStep /\ k' = 1 /\ err' = err
  <2>1. Untouched({"expose"})
    BY <1>2, <1>6 DEF Fields, Untouched
  <2>2. pc' = "finish" /\ pc' \in Range(Steps)
    BY <1>4, <1>6, StepNames
  <2>3. Shaped' /\ CondsKept' /\ CondsGrown /\ DerivedKept' /\ ColumnsKept'
    BY <1>1, <1>2, <1>6, <2>1, <2>2, LateSame DEF ToDerive, Opening
  <2>4. FiltersKept' /\ RulesKept'
    BY <1>1, <2>1, <2>2, FiltersSame, RulesSame
    DEF IInv, FilterFields, ToFilters, ToDerive, Opening
  <2>5. GroupsKept'
    BY <1>1, <2>1, <2>2, GroupsSame DEF IInv, ToAliases, ToFilters, ToDerive, Opening
  <2>6. OutputsKept'
    BY <1>1, <2>1, <2>2, OutputsSame
    DEF IInv, ToOutputs, ToSections, ToAliases, ToFilters, ToDerive, Opening
  <2>7. FixKept'
    BY <2>2 DEF FixKept
  <2> QED
    BY <2>3, <2>4, <2>5, <2>6, <2>7 DEF IInv
<1> QED
  BY <1>3, <1>5, <1>6

(* The end of New only adds what rows need not do. *)
LEMMA FinishKeeps ==
  ASSUME IInv, Finish
  PROVE  IInv'
<1> DEFINE new == [fixKeys |-> FixKeys, simple |-> cfg.explode = <<>> /\ ~t.named,
                   extend |-> Extend(t)]
<1>1. /\ pc = "finish" /\ pc \in Range(Steps) /\ UNCHANGED <<cfg, condIdx, plain, todo, err>>
      /\ pc' = "done" /\ k' = 1 /\ t' = Over(new, t)
  BY StepNames DEF Finish, Goto
<1>2. todo' \subseteq DOMAIN cfg.segAliases /\ Fields \subseteq DOMAIN t
  BY <1>1 DEF IInv, Shaped
<1>3. DOMAIN new = {"fixKeys", "simple", "extend"} /\ new.fixKeys = FixKeys
  OBVIOUS
<1> HIDE DEF new
<1>4. /\ "fixKeys" \in DOMAIN t' /\ t'.fixKeys = FixKeys
      /\ DOMAIN t' = DOMAIN new \cup DOMAIN t
      /\ \A f \in DOMAIN t' : f \notin DOMAIN new => t'[f] = t[f]
  BY <1>1, <1>3 DEF Over
<1>5. Untouched({})
  BY <1>2, <1>3, <1>4 DEF Fields, Untouched
<1>6. Shaped' /\ CondsKept' /\ CondsGrown /\ DerivedKept' /\ ColumnsKept'
  BY <1>1, <1>2, <1>5, LateSame DEF ToDerive, Opening
<1>7. FiltersKept' /\ RulesKept'
  BY <1>1, <1>5, FiltersSame, RulesSame DEF IInv, FilterFields, ToFilters, ToDerive, Opening
<1>8. GroupsKept'
  BY <1>1, <1>5, GroupsSame DEF IInv, ToAliases, ToFilters, ToDerive, Opening
<1>9. OutputsKept'
  BY <1>1, <1>5, OutputsSame
  DEF IInv, ToOutputs, ToSections, ToAliases, ToFilters, ToDerive, Opening
<1>10. FixKept'
  <2>1. t'.snake = t.snake /\ t'.segAliases = t.segAliases /\ t'.groups = t.groups
    BY <1>5 DEF Untouched, Fields
  <2>2. FixKeys' = FixKeys
    BY <1>1, <2>1 DEF FixKeys
  <2> QED
    BY <1>4, <2>2 DEF FixKept
<1> QED
  BY <1>6, <1>7, <1>8, <1>9, <1>10 DEF IInv

-----------------------------------------------------------------------------
(* The theorems.                                                            *)

LEMMA InitOK == Init => IInv
<1> SUFFICES ASSUME Init PROVE IInv
  OBVIOUS
<1>1. /\ t.conds = <<>> /\ t.derived = <<>> /\ t.columns = <<>> /\ t.groups = <<>>
      /\ t.sections = <<>> /\ t.outputs = <<>> /\ t.defaults = <<>> /\ t.digit = NoTable
      /\ t.rest = NoName /\ t.actions = NoTable /\ t.nslots = 0
      /\ Fields \subseteq DOMAIN t
  BY DEF Init, Fields
<1>2. cfg \in Configs /\ condIdx = <<>> /\ plain = NoTable /\ todo = {} /\ pc = "decode"
      /\ k = 1 /\ err = "none"
  BY DEF Init
<1>3. IsASeq(<<>>) /\ Len(<<>>) = 0 /\ DOMAIN <<>> = {}
  BY DEF IsASeq, Range
<1>4. pc \in Opening /\ pc \in ToDerive /\ pc \in ToFilters /\ pc \in ToAliases
      /\ pc \in ToSections /\ pc \in ToOutputs
  BY <1>2 DEF ToOutputs, ToSections, ToAliases, ToFilters, ToDerive, Opening
<1>5. Shaped
  BY <1>1, <1>2, StepNames DEF Shaped
<1>6. CondsKept
  BY <1>1, <1>2, <1>3 DEF CondsKept, IsInjective
<1>7. DerivedKept
  <2>1. /\ Cardinality(DerivedNames) \in Nat
        /\ \A n \in DerivedNames : Cardinality(Lower(DerivedNames, n)) \in Nat
    BY <1>2, NamesFinite, RankBelowAll
  <2>2. \A n : Before(n) = Lower(DerivedNames, n)
    BY DEF Before, Lower
  <2> QED
    BY <1>1, <1>2, <1>3, <1>4, <2>1, <2>2 DEF DerivedKept
<1>8. ColumnsKept /\ FiltersKept
  BY <1>1, <1>2, <1>3, <1>4 DEF ColumnsKept, FiltersKept
<1>9. GroupsKept
  BY <1>1, <1>2, <1>3, NoTableLeads DEF GroupsKept
<1>10. RulesKept
  <2>1. DOMAIN NoTable = {}
    BY DEF NoTable
  <2> QED
    BY <1>1, <1>3, <2>1 DEF RulesKept
<1>11. OutputsKept
  BY <1>1, <1>2, <1>3, <1>4 DEF OutputsKept
<1>12. FixKept
  BY <1>2 DEF FixKept
<1> QED
  BY <1>5, <1>6, <1>7, <1>8, <1>9, <1>10, <1>11, <1>12 DEF IInv

LEMMA StepKeeps == IInv /\ [Next]_vars => IInv'
<1> SUFFICES ASSUME IInv, [Next]_vars PROVE IInv'
  OBVIOUS
<1>1. CASE Next
  BY <1>1, OpeningKeeps, DeriveKeeps, ColumnsKeep, KeyPolicyKeeps, KeyFiltersKeep,
     SegmentAliasesKeep, AliasesKeep, RulesKeep, SectionsKeep, OutputsKeep, ExposeKeeps,
     FinishKeeps DEF Next
<1>2. CASE UNCHANGED vars
  <2>1. UNCHANGED <<cfg, t, condIdx, plain, todo, pc, k, err>>
    BY <1>2 DEF vars
  <2>2. Untouched({})
    BY <2>1 DEF Untouched, IInv, Shaped
  <2>3. Shaped' /\ CondsKept' /\ CondsGrown
    BY <2>1, <2>2, CondsSame DEF IInv, Shaped
  <2>4. DerivedKept' /\ ColumnsKept'
    <3>1. /\ pc' = "derive" => Len(t.derived) = k' - 1
          /\ pc' \notin ToDerive \cup {"failed"} => Len(t.derived) = Cardinality(DerivedNames)
      BY <2>1 DEF IInv, DerivedKept
    <3> QED
      BY <2>1, <2>2, <2>3, <3>1, DerivedSame, ColumnsSame DEF IInv
  <2>5. FiltersKept' /\ RulesKept' /\ GroupsKept'
    BY <2>1, <2>2, FiltersSame, RulesSame, GroupsSame DEF IInv
  <2>6. OutputsKept'
    <3>1. pc' = "sections" => Len(t.sections) = k' - 1 /\ k' - 1 <= Len(cfg.sections)
      BY <2>1 DEF IInv, OutputsKept
    <3> QED
      BY <2>1, <2>2, <3>1, OutputsSame DEF IInv
  <2>7. FixKept'
    <3>1. FixKeys' = FixKeys
      BY <2>1 DEF FixKeys
    <3> QED
      BY <2>1, <3>1 DEF IInv, FixKept
  <2> QED
    BY <2>3, <2>4, <2>5, <2>6, <2>7 DEF IInv
<1> QED
  BY <1>1, <1>2

THEOREM Invariance == Spec => []IInv
BY InitOK, StepKeeps, PTL DEF Spec

(* Every Transformer that New returns is as the engine and the walk take it *)
(* for granted: no derived value, and no condition of one, reads a value    *)
(* that is computed later, though equal conditions share one index; no      *)
(* alias leads to a key that is a column's, the rest column or, before the  *)
(* digit prefix, removed by the filters; an action either drops or renames; *)
(* an output has its name from a derived value that there is.               *)
THEOREM ResultsWellFormed == Spec => []ResultIsWellFormed
<1>1. ASSUME IInv, pc = "done" PROVE WellFormed(t)
  <2>1. /\ IsASeq(t.derived) /\ IsASeq(t.columns)
        /\ \A c \in DOMAIN t.conds : AreSourcesOf(t, t.conds[c].srcs)
        /\ \A c \in DOMAIN t.columns : t.columns[c].when \in {0} \cup DOMAIN t.conds
    BY <1>1 DEF IInv, CondsKept, DerivedKept, ColumnsKept
  <2>2. \A d \in DOMAIN t.derived :
          /\ ReadsBefore(t.derived[d].srcs, d)
          /\ t.derived[d].when # 0 => ReadsBefore(t.conds[t.derived[d].when].srcs, d)
    BY <1>1 DEF IInv, DerivedKept, CondBefore
  <2>3. \A g \in DOMAIN t.groups : Leads(t, t.groups[g].to)
    BY <1>1 DEF IInv, GroupsKept
  <2>4. t.rest # NoName => t.keep # NoFilter /\ t.rest \notin ColumnNames(t)
    BY <1>1 DEF IInv, FiltersKept
  <2>5. \A a, b \in DOMAIN t.defaults : t.defaults[a].key = t.defaults[b].key => a = b
    BY <1>1 DEF IInv, RulesKept
  <2> QED
    BY <2>1, <2>2, <2>3, <2>4, <2>5 DEF WellFormed, Leads
<1>2. ASSUME IInv, pc = "done"
      PROVE  /\ \A path \in DOMAIN t.actions :
                  LET a == t.actions[path]
                  IN  path # <<>> /\ a.renameTo # <<>> /\ ~(a.drop /\ a.renameTo # NoPath)
             /\ \A o \in Range(t.outputs) :
                  o.nameFrom \in 0 .. Len(t.derived) /\ o.member \subseteq DOMAIN t.sections
  BY <1>2 DEF IInv, RulesKept, IsAction, OutputsKept, Range
<1>3. IInv => ResultIsWellFormed
  BY <1>1, <1>2 DEF ResultIsWellFormed
<1> QED
  BY <1>3, Invariance, PTL

(* What the engine leaves out for a config without fixKeys would have had   *)
(* no effect: no key is normalised, aliased or prefixed, and every key is   *)
(* written (New: fixKeys).                                                  *)
THEOREM SkipIsSafeHolds == Spec => []SkipIsSafe
<1>1. ASSUME IInv, pc = "done", ~t.fixKeys, NEW key
      PROVE  /\ ~t.snake /\ DOMAIN t.segAliases = {}
             /\ FixedKey(t, [g \in DOMAIN t.groups |-> TRUE], key) = key
             /\ Verdict(t, key) = "written"
  <2>1. ~FixKeys
    BY <1>1 DEF IInv, FixKept
  <2>2. /\ ~t.snake /\ t.segAliases = NoTable /\ t.groups = <<>>
        /\ cfg.digitPrefix = <<>> /\ cfg.keep = <<>> /\ cfg.drop = <<>>
    BY <2>1 DEF FixKeys
  <2>3. t.digit = NoTable
    BY <1>1, <2>2 DEF IInv, FiltersKept
  <2>4. DOMAIN NoTable = {} /\ DOMAIN <<>> = {}
    BY DEF NoTable
  <2>5. t.keep = NoFilter /\ t.drop = {}
    <3>1. t.keep = NoFilter /\ t.drop = Matched(cfg.drop)
      <4>1. pc \notin ToFilters \cup {"failed"}
        BY <1>1 DEF ToFilters, ToDerive, Opening
      <4>2. FiltersKept
        BY <1>1 DEF IInv
      <4> QED
        BY <2>2, <4>1, <4>2 DEF FiltersKept
    <3>2. Matched(<<>>) = {}
      BY <2>4 DEF Matched, Matches
    <3> QED
      BY <2>2, <3>1, <3>2
  <2>6. Verdict(t, key) = "written"
    BY <2>5 DEF Verdict
  <2>7. FixedKey(t, [g \in DOMAIN t.groups |-> TRUE], key) = key
    <3> DEFINE on == [g \in DOMAIN t.groups |-> TRUE]
               hits == {g \in DOMAIN t.groups : on[g] /\ key \in DOMAIN t.groups[g].to}
    <3>1. hits = {}
      BY <2>2, <2>4
    <3>2. key \notin DOMAIN t.digit
      BY <2>3, <2>4
    <3> DEFINE aliased == IF hits = {} THEN key
                          ELSE t.groups[CHOOSE g \in hits : \A x \in hits : g <= x].to[key]
    <3>3. FixedKey(t, on, key) = IF aliased \in DOMAIN t.digit THEN t.digit[aliased] ELSE aliased
      BY DEF FixedKey
    <3>4. aliased = key
      BY <3>1
    <3> HIDE DEF aliased
    <3> QED
      BY <3>2, <3>3, <3>4
  <2> QED
    BY <2>2, <2>4, <2>6, <2>7
<1>2. IInv => SkipIsSafe
  BY <1>1 DEF SkipIsSafe
<1> QED
  BY <1>2, Invariance, PTL

-----------------------------------------------------------------------------
(* What is known of the entries that are compiled: the second invariant.    *)

(* The place of a step in their order; that of "done" is behind them all.   *)
Place(step) ==
  IF step = "done" THEN Len(Steps) + 1 ELSE CHOOSE n \in DOMAIN Steps : Steps[n] = step

(* How many entries of a step are compiled. *)
Looping == Conditioned \cup {"rules"}

Done(step) ==
  IF Place(step) < Place(pc) THEN Entries(step) ELSE IF pc = step THEN k - 1 ELSE 0

(* What they are compiled to. *)
Table(step) ==
  CASE step = "derive"   -> t.derived
    [] step = "columns"  -> t.columns
    [] step = "aliases"  -> t.groups
    [] step = "sections" -> t.sections
    [] step = "outputs"  -> t.outputs

Made(step) == IF step = "aliases" THEN GroupOf(Done(step) + 1) - 1 ELSE Done(step)

Numbered(w, n) == IF w = NoCond THEN n = 0 ELSE n \in DOMAIN condIdx /\ condIdx[n] = w

WithinEntries == \A step \in Looping : Done(step) <= Entries(step)

TablesGrow ==
  \A step \in Conditioned : Place(pc) <= Place(step) => Len(Table(step)) = Made(step)

CondsCompiled == \A c \in DOMAIN t.conds : t.conds[c] = CompiledCond(condIdx[c])

(* Every condition of an entry that is compiled has its number, and no      *)
(* other has one.                                                           *)
Used(w) == \E step \in Conditioned : \E i \in 1 .. Done(step) : w = WhenOf(step, i)

CondsUsed == \A w : w \in Range(condIdx) <=> w # NoCond /\ Used(w)

EntriesNumbered ==
  \A step \in Conditioned : \A i \in 1 .. Done(step) :
    Numbered(WhenOf(step, i), NumberOf(step, i))

UsesKept == WithinEntries /\ TablesGrow /\ CondsCompiled /\ CondsUsed /\ EntriesNumbered

LEMMA Places ==
  /\ Place("decode") = 1 /\ Place("new") = 2 /\ Place("flatten") = 3 /\ Place("input") = 4
  /\ Place("derive") = 5 /\ Place("columns") = 6 /\ Place("keyPolicy") = 7
  /\ Place("keyFilters") = 8 /\ Place("segmentAliases") = 9 /\ Place("aliases") = 10
  /\ Place("rules") = 11 /\ Place("sections") = 12 /\ Place("outputs") = 13
  /\ Place("expose") = 14 /\ Place("finish") = 15 /\ Place("done") = 16
<1>1. DOMAIN Steps = 1 .. 15 /\ Len(Steps) = 15
  BY DEF Steps
<1>2. \A a, b \in 1 .. 15 : Steps[a] = Steps[b] => a = b
  BY DEF Steps
<1>3. ASSUME NEW n \in 1 .. 15
      PROVE  Steps[n] # "done" /\ Place(Steps[n]) = n
  <2>1. Steps[n] # "done"
    BY DEF Steps
  <2>2. (CHOOSE m \in 1 .. 15 : Steps[m] = Steps[n]) = n
    BY <1>2
  <2> QED
    BY <1>1, <2>1, <2>2 DEF Place
<1>4. /\ Steps[1] = "decode" /\ Steps[2] = "new" /\ Steps[3] = "flatten" /\ Steps[4] = "input"
      /\ Steps[5] = "derive" /\ Steps[6] = "columns" /\ Steps[7] = "keyPolicy"
      /\ Steps[8] = "keyFilters" /\ Steps[9] = "segmentAliases" /\ Steps[10] = "aliases"
      /\ Steps[11] = "rules" /\ Steps[12] = "sections" /\ Steps[13] = "outputs"
      /\ Steps[14] = "expose" /\ Steps[15] = "finish"
  BY DEF Steps
<1>5. Place("done") = 16
  BY <1>1 DEF Place
<1> QED
  BY <1>3, <1>4, <1>5

LEMMA PlacesDiffer ==
  /\ \A a \in Range(Steps) \cup {"done"} : Place(a) \in 1 .. 16
  /\ \A a, b \in Range(Steps) \cup {"done"} : Place(a) = Place(b) => a = b
BY Places, StepNames

LEMMA NextPlace ==
  ASSUME pc \in Range(Steps), pc # "finish"
  PROVE  NextStep \in Range(Steps) /\ Place(NextStep) = Place(pc) + 1
BY Order, Places, StepNames

(* The entries there are. *)
LEMMA Counted ==
  ASSUME cfg \in Configs
  PROVE  /\ \A step \in Looping : step \in Range(Steps) /\ Entries(step) \in Nat
         /\ DOMAIN cfg.columns = 1 .. Entries("columns")
         /\ DOMAIN cfg.aliases = 1 .. Entries("aliases")
         /\ DOMAIN cfg.rules = 1 .. Entries("rules")
         /\ DOMAIN cfg.sections = 1 .. Entries("sections")
         /\ DOMAIN cfg.outputs = 1 .. Entries("outputs")
         /\ Entries("derive") = Cardinality(DerivedNames)
<1>1. Cardinality(DerivedNames) \in Nat
  BY NamesFinite
<1>2. /\ IsASeq(cfg.columns) /\ IsASeq(cfg.aliases) /\ IsASeq(cfg.rules)
      /\ IsASeq(cfg.sections) /\ IsASeq(cfg.outputs)
  BY ConfigsAssumption DEF IsConfig
<1>3. \A s : IsASeq(s) => Len(s) \in Nat /\ DOMAIN s = 1 .. Len(s)
  BY DEF IsASeq
<1>4. /\ Entries("derive") = Cardinality(DerivedNames) /\ Entries("columns") = Len(cfg.columns)
      /\ Entries("aliases") = Len(cfg.aliases) /\ Entries("rules") = Len(cfg.rules)
      /\ Entries("sections") = Len(cfg.sections) /\ Entries("outputs") = Len(cfg.outputs)
  BY DEF Entries
<1> QED
  BY <1>1, <1>2, <1>3, <1>4, StepNames DEF Looping, Conditioned

-----------------------------------------------------------------------------
(* A step that is over, or that has no entries; S are the fields of t it    *)
(* changes.                                                                 *)
Ends(S) ==
  /\ pc \in Range(Steps) /\ pc' \in Range(Steps) \cup {"done"}
  /\ Place(pc') = Place(pc) + 1 /\ k' = 1
  /\ pc \in Looping => k > Entries(pc)
  /\ Untouched(S) /\ UNCHANGED <<cfg, condIdx, plain>>

(* One of its entries that is right. *)
Goes(S) ==
  /\ pc \in Range(Steps) /\ pc' = pc /\ k' = k + 1
  /\ pc \in Looping => k <= Entries(pc)
  /\ Untouched(S) /\ UNCHANGED cfg

LEMMA EntriesStay ==
  ASSUME UNCHANGED cfg
  PROVE  /\ \A step : Entries(step)' = Entries(step)
         /\ \A step, i : WhenOf(step, i)' = WhenOf(step, i)
         /\ Conditional' = Conditional /\ \A i : GroupOf(i)' = GroupOf(i)
         /\ MergeSources' = MergeSources /\ \A i : MergeOf(i)' = MergeOf(i)
         /\ \A i, p : SlotOf(i, p)' = SlotOf(i, p)
         /\ \A op : RulesOf(op)' = RulesOf(op)
<1>1. DerivedNames' = DerivedNames /\ \A n : Before(n)' = Before(n)
  BY DEF DerivedNames, Before
<1>2. \A i : NameOf(i)' = NameOf(i)
  BY <1>1 DEF NameOf
<1>3. Conditional' = Conditional
  BY DEF Conditional
<1>4. \A i : GroupOf(i)' = GroupOf(i)
  BY <1>3 DEF GroupOf
<1>5. \A op : RulesOf(op)' = RulesOf(op)
  BY DEF RulesOf
<1>6. MergeSources' = MergeSources /\ \A i : MergeOf(i)' = MergeOf(i)
  BY <1>5 DEF MergeSources, MergeOf
<1>7. \A i, p : SlotOf(i, p)' = SlotOf(i, p)
  BY <1>6 DEF SlotOf
<1>8. ASSUME NEW step
      PROVE  Entries(step)' = Entries(step)
  BY <1>1 DEF Entries
<1>9. ASSUME NEW step, NEW i
      PROVE  WhenOf(step, i)' = WhenOf(step, i)
  BY <1>2 DEF WhenOf
<1> QED
  BY <1>3, <1>4, <1>5, <1>6, <1>7, <1>8, <1>9

LEMMA DoneIs ==
  ASSUME IInv, UsesKept, pc \in Range(Steps) \cup {"done"}, NEW step \in Looping
  PROVE  /\ Done(step) \in Nat /\ Done(step) <= Entries(step)
         /\ pc = step => Done(step) = k - 1
         /\ Place(pc) < Place(step) => Done(step) = 0
         /\ Place(pc) > Place(step) => Done(step) = Entries(step)
<1>1. cfg \in Configs /\ k \in Nat \ {0}
  BY DEF IInv, Shaped
<1>2. step \in Range(Steps) /\ Entries(step) \in Nat
  BY <1>1, Counted
<1>3. Place(step) \in Nat /\ Place(pc) \in Nat /\ (Place(step) = Place(pc) => pc = step)
  BY <1>2, PlacesDiffer
<1>4. Done(step) = IF Place(step) < Place(pc) THEN Entries(step) ELSE IF pc = step THEN k - 1 ELSE 0
  BY DEF Done
<1>5. Done(step) <= Entries(step)
  BY DEF UsesKept, WithinEntries
<1> QED
  BY <1>1, <1>2, <1>3, <1>4, <1>5

LEMMA DoneStays ==
  ASSUME IInv, UsesKept, NEW S, Ends(S), NEW step \in Looping
  PROVE  Done(step)' = Done(step)
<1>1. cfg \in Configs /\ k \in Nat \ {0}
  BY DEF IInv, Shaped
<1>2. step \in Range(Steps) /\ Entries(step) \in Nat /\ Entries(step)' = Entries(step)
  BY <1>1, Counted, EntriesStay DEF Ends
<1>3. /\ Place(step) \in Nat /\ Place(pc) \in Nat /\ Place(pc') = Place(pc) + 1
      /\ (Place(step) = Place(pc) => pc = step) /\ (Place(step) = Place(pc') => pc' = step)
  BY <1>2, PlacesDiffer DEF Ends
<1>4. Done(step)' = IF Place(step) < Place(pc') THEN Entries(step)
                    ELSE IF pc' = step THEN k' - 1 ELSE 0
  BY <1>2 DEF Done, Place
<1>5. /\ pc = step => Done(step) = k - 1 /\ k > Entries(step) /\ Done(step) <= Entries(step)
      /\ k' = 1
  BY DoneIs DEF Ends
<1>6. /\ Place(pc) < Place(step) => Done(step) = 0
      /\ Place(pc) > Place(step) => Done(step) = Entries(step)
  BY DoneIs DEF Ends
<1> QED
  BY <1>1, <1>2, <1>3, <1>4, <1>5, <1>6

LEMMA DoneGoes ==
  ASSUME IInv, UsesKept, NEW S, Goes(S), NEW step \in Looping
  PROVE  Done(step)' = IF step = pc THEN k ELSE Done(step)
<1>1. cfg \in Configs /\ k \in Nat \ {0}
  BY DEF IInv, Shaped
<1>2. step \in Range(Steps) /\ Entries(step) \in Nat /\ Entries(step)' = Entries(step)
  BY <1>1, Counted, EntriesStay DEF Goes
<1>3. Place(step) \in Nat /\ Place(pc) \in Nat /\ pc' = pc /\ k' = k + 1
  BY <1>2, PlacesDiffer DEF Goes
<1>4. Done(step)' = IF Place(step) < Place(pc') THEN Entries(step)
                    ELSE IF pc' = step THEN k' - 1 ELSE 0
  BY <1>2 DEF Done, Place
<1> QED
  BY <1>1, <1>2, <1>3, <1>4 DEF Done

-----------------------------------------------------------------------------
(* Aliases with a condition and their groups.                               *)

LEMMA GroupsCounted ==
  ASSUME cfg \in Configs
  PROVE  /\ IsFiniteSet(Conditional) /\ Conditional \subseteq 1 .. Entries("aliases")
         /\ \A i \in Nat : GroupOf(i) \in Nat \ {0}
         /\ GroupOf(1) = 1
         /\ \A i \in Conditional : GroupOf(i + 1) = GroupOf(i) + 1
         /\ \A i \in Nat \ Conditional : GroupOf(i + 1) = GroupOf(i)
         /\ \A i \in Conditional, n \in Nat : i < n => GroupOf(i) < GroupOf(n)
         /\ Cardinality(Conditional) \in Nat
         /\ GroupOf(Entries("aliases") + 1) = Cardinality(Conditional) + 1
         /\ \A g \in 1 .. Cardinality(Conditional) : \E i \in Conditional : GroupOf(i) = g
<1> DEFINE S == Conditional
           n == Entries("aliases")
<1>1. n \in Nat /\ S \subseteq 1 .. n
  BY Counted DEF Conditional, Looping, Conditioned
<1> HIDE DEF S, n
<1>2. IsFiniteSet(S) /\ S \subseteq Nat
  <2>1. IsFiniteSet(1 .. n) /\ 1 .. n \subseteq Nat
    BY <1>1, FS_Interval
  <2>2. S \in SUBSET (1 .. n)
    BY <1>1
  <2>3. IsFiniteSet(S)
    BY <2>1, <2>2, FS_Subset
  <2> QED
    BY <2>1, <2>2, <2>3
<1>3. \A i : GroupOf(i) = Cardinality(Lower(S, i)) + 1
  BY DEF GroupOf, Lower, S
<1>4. \A i : IsFiniteSet(Lower(S, i)) /\ Cardinality(Lower(S, i)) \in Nat
  <2> TAKE i
  <2>1. Lower(S, i) \subseteq S
    BY DEF Lower
  <2> QED
    BY <1>2, <2>1, FS_Subset, FS_CardinalityType
<1>5. \A i \in S : GroupOf(i + 1) = GroupOf(i) + 1
  <2> TAKE i \in S
  <2>1. Lower(S, i + 1) = Lower(S, i) \cup {i} /\ i \notin Lower(S, i)
    <3>1. \A x \in S : x < i + 1 <=> x < i \/ x = i
      BY <1>2
    <3>2. ~(i < i)
      BY <1>2
    <3> QED
      BY <3>1, <3>2 DEF Lower
  <2>2. Cardinality(Lower(S, i + 1)) = Cardinality(Lower(S, i)) + 1
    BY <1>4, <2>1, FS_AddElement
  <2> QED
    BY <1>3, <2>2
<1>6. \A i \in Nat \ S : GroupOf(i + 1) = GroupOf(i)
  <2> TAKE i \in Nat \ S
  <2>1. \A x \in S : x < i + 1 <=> x < i
    BY <1>2
  <2>2. Lower(S, i + 1) = Lower(S, i)
    BY <2>1 DEF Lower
  <2> QED
    BY <1>3, <2>2
<1>7. \A i \in S, m \in Nat : i < m => GroupOf(i) < GroupOf(m)
  <2> SUFFICES ASSUME NEW i \in S, NEW m \in Nat, i < m
               PROVE  GroupOf(i) < GroupOf(m)
    OBVIOUS
  <2>1. Cardinality(Lower(S, i)) < Cardinality(Lower(S, m))
    BY <1>2, RankGrows
  <2> QED
    BY <1>3, <1>4, <2>1
<1>8. Lower(S, 1) = {} /\ Lower(S, n + 1) = S
  <2>1. \A x \in S : x \in 1 .. n
    BY <1>1
  <2>2. \A x \in S : ~(x < 1) /\ x < n + 1
    BY <2>1, <1>1
  <2> QED
    BY <2>2 DEF Lower
<1>9. GroupOf(1) = 1 /\ GroupOf(n + 1) = Cardinality(S) + 1
  BY <1>3, <1>8, FS_EmptySet
<1>10. ASSUME NEW g \in 1 .. Cardinality(S)
       PROVE  \E i \in S : GroupOf(i) = g
  <2>1. Cardinality(S) \in Nat
    BY <1>2, FS_CardinalityType
  <2>2. g - 1 \in Nat /\ g - 1 < Cardinality(S)
    BY <2>1
  <2>3. PICK i \in S : Cardinality(Lower(S, i)) = g - 1
    BY <1>2, <2>2, EveryRank
  <2> QED
    BY <1>3, <2>3
<1>11. Cardinality(S) \in Nat
  BY <1>2, FS_CardinalityType
<1>12. \A i \in Nat : GroupOf(i) \in Nat \ {0}
  BY <1>3, <1>4
<1> QED
  BY <1>1, <1>2, <1>5, <1>6, <1>7, <1>9, <1>10, <1>11, <1>12 DEF S, n

LEMMA NumberIs ==
  ASSUME NEW step \in Conditioned, NEW i
  PROVE  NumberOf(step, i) =
           IF step # "aliases" THEN Table(step)[i].when
           ELSE IF i \in Conditional THEN Table(step)[GroupOf(i)].when ELSE 0
BY DEF NumberOf, Table, Conditioned

(* The numbers that are there are found in tables as long as they are. *)
LEMMA NumbersInside ==
  ASSUME IInv, UsesKept, pc \in Range(Steps), NEW step \in Conditioned, pc = step,
         NEW i \in 1 .. Done(step), Len(Table(step)) \in Nat,
         DOMAIN Table(step) = 1 .. Len(Table(step))
  PROVE  /\ step # "aliases" => i \in DOMAIN Table(step)
         /\ step = "aliases" /\ i \in Conditional => GroupOf(i) \in DOMAIN Table(step)
<1>1. cfg \in Configs
  BY DEF IInv, Shaped
<1>2. Done(step) \in Nat /\ Place(pc) \in Nat
  BY DoneIs, PlacesDiffer DEF Looping
<1>3. Len(Table(step)) = Made(step)
  BY <1>2 DEF UsesKept, TablesGrow
<1>4. CASE step # "aliases"
  BY <1>2, <1>3, <1>4 DEF Made
<1>5. CASE step = "aliases"
  <2>1. Len(Table(step)) = GroupOf(Done(step) + 1) - 1
    BY <1>3, <1>5 DEF Made
  <2>2. ASSUME i \in Conditional
        PROVE  GroupOf(i) \in 1 .. (GroupOf(Done(step) + 1) - 1)
    <3> DEFINE n == Done(step) + 1
    <3>1. i < n /\ n \in Nat /\ i \in Nat
      BY <1>2
    <3> HIDE DEF n
    <3>2. GroupOf(i) < GroupOf(n) /\ GroupOf(i) \in Nat \ {0} /\ GroupOf(n) \in Nat
      BY <1>1, <2>2, <3>1, GroupsCounted
    <3> QED
      BY <3>2 DEF n
  <2> QED
    BY <1>5, <2>1, <2>2
<1> QED
  BY <1>4, <1>5

LEMMA CondStays ==
  ASSUME UNCHANGED cfg, NEW w
  PROVE  CompiledCond(w)' = CompiledCond(w)
<1>1. DerivedNames' = DerivedNames /\ \A n : Before(n)' = Before(n)
  BY DEF DerivedNames, Before
<1>2. \A s : CompiledSource(s)' = CompiledSource(s)
  BY <1>1 DEF CompiledSource, PathOrVariable, PathRef
<1>3. \A list : CompiledSources(list)' = CompiledSources(list)
  BY <1>2 DEF CompiledSources
<1> QED
  BY <1>3 DEF CompiledCond

(* A step that compiles no condition leaves what is numbered. *)
LEMMA UsesStay ==
  ASSUME IInv, UsesKept, pc \in Range(Steps), pc' \in Range(Steps) \cup {"done"},
         UNCHANGED <<cfg, condIdx>>, t'.conds = t.conds, Place(pc) <= Place(pc'),
         \A step \in Conditioned : Done(step)' = Done(step),
         Done("rules")' <= Entries("rules"),
         \A step \in Conditioned :
           /\ Place(pc') <= Place(step) => Table(step)' = Table(step)
           /\ \A i \in 1 .. Done(step) : NumberOf(step, i)' = NumberOf(step, i)
  PROVE  UsesKept'
<1>1. /\ \A step : Entries(step)' = Entries(step)
      /\ \A step, i : WhenOf(step, i)' = WhenOf(step, i)
      /\ \A i : GroupOf(i)' = GroupOf(i)
  BY EntriesStay
<1>2. \A step : Place(step)' = Place(step)
  BY DEF Place
<1>3. WithinEntries'
  BY <1>1 DEF Looping, UsesKept, WithinEntries
<1>4. TablesGrow'
  <2>1. SUFFICES ASSUME NEW step \in Conditioned, Place(pc') <= Place(step)
                 PROVE  Len(Table(step)') = Made(step)'
    BY DEF TablesGrow, Place
  <2>2. Place(pc) \in Nat /\ Place(pc') \in Nat /\ Place(step) \in Nat
    <3>1. cfg \in Configs
      BY DEF IInv, Shaped
    <3> QED
      BY <3>1, PlacesDiffer, Counted DEF Looping
  <2>3. Table(step)' = Table(step)
    BY <2>1
  <2>4. Made(step)' = Made(step)
    BY <1>1 DEF Made
  <2> QED
    BY <2>1, <2>2, <2>3, <2>4 DEF UsesKept, TablesGrow
<1>5. CondsCompiled'
  <2>1. \A w : CompiledCond(w)' = CompiledCond(w)
    BY CondStays
  <2>2. \A c \in DOMAIN t.conds : t.conds[c] = CompiledCond(condIdx[c])
    BY DEF UsesKept, CondsCompiled
  <2>3. \A c : CompiledCond(condIdx[c])' = CompiledCond(condIdx[c])
    BY CondStays DEF CompiledCond, CompiledSources
  <2> QED
    BY <2>2, <2>3 DEF CondsCompiled
<1>6. CondsUsed'
  BY <1>1 DEF UsesKept, CondsUsed, Used
<1>7. EntriesNumbered'
  BY <1>1 DEF UsesKept, EntriesNumbered, Numbered
<1> QED
  BY <1>3, <1>4, <1>5, <1>6, <1>7 DEF UsesKept

(* How condition w is numbered if an entry with it is right. *)
Numbers(w) ==
  /\ t'.conds = Conds(w)
  /\ condIdx' = IF IsNew(w) THEN Append(condIdx, w) ELSE condIdx

LEMMA NumberFound ==
  ASSUME IInv, NEW w, Numbers(w)
  PROVE  /\ \A n \in DOMAIN condIdx : n \in DOMAIN condIdx' /\ condIdx'[n] = condIdx[n]
         /\ Range(condIdx') = Range(condIdx) \cup ({w} \ {NoCond})
         /\ IF w = NoCond THEN Number(w) = 0
            ELSE Number(w) \in DOMAIN condIdx' /\ condIdx'[Number(w)] = w
         /\ CondsCompiled /\ UNCHANGED cfg => CondsCompiled'
<1>1. IsASeq(condIdx) /\ IsASeq(t.conds) /\ Len(condIdx) = Len(t.conds)
  BY DEF IInv, CondsKept
<1>2. CASE ~IsNew(w)
  <2>1. condIdx' = condIdx /\ t'.conds = t.conds
    BY <1>2 DEF Numbers, Conds
  <2>2. CASE w = NoCond
    <3>1. CondsCompiled /\ UNCHANGED cfg => CondsCompiled'
      BY <2>1, CondStays DEF CondsCompiled
    <3> QED
      BY <2>1, <2>2, <3>1 DEF Number
  <2>3. CASE w # NoCond
    <3>1. Known(w) # 0 /\ Number(w) = Known(w)
      BY <1>2, <2>3 DEF IsNew, Number
    <3>2. Known(w) \in DOMAIN condIdx /\ condIdx[Known(w)] = w
      <4> DEFINE hits == {i \in 1..Len(condIdx) : condIdx[i] = w}
                 found == IF hits # {} THEN Min(hits) ELSE 0
      <4>1. Known(w) = found
        BY DEF Known, SelectInSeq
      <4>2. /\ found \in {0} \cup DOMAIN condIdx
            /\ IF found = 0 THEN w \notin Range(condIdx) ELSE condIdx[found] = w
        BY <1>1, FirstEntry
      <4> HIDE DEF found
      <4> QED
        BY <3>1, <4>1, <4>2
    <3>3. w \in Range(condIdx)
      BY <3>2 DEF Range
    <3>4. CondsCompiled /\ UNCHANGED cfg => CondsCompiled'
      BY <2>1, CondStays DEF CondsCompiled
    <3> QED
      BY <2>1, <2>3, <3>1, <3>2, <3>3, <3>4
  <2> QED
    BY <2>2, <2>3
<1>3. CASE IsNew(w)
  <2>1. /\ condIdx' = Append(condIdx, w) /\ t'.conds = Append(t.conds, CompiledCond(w))
        /\ Number(w) = Len(condIdx) + 1 /\ w # NoCond
    BY <1>3 DEF Numbers, Conds, Number, IsNew
  <2>2. /\ Len(condIdx) \in Nat
        /\ DOMAIN condIdx = 1 .. Len(condIdx) /\ DOMAIN condIdx' = 1 .. (Len(condIdx) + 1)
        /\ \A n \in DOMAIN condIdx : condIdx'[n] = condIdx[n]
        /\ condIdx'[Len(condIdx) + 1] = w
    BY <1>1, <2>1, AppendASeq
  <2>3. /\ DOMAIN t.conds = 1 .. Len(condIdx) /\ DOMAIN t'.conds = 1 .. (Len(condIdx) + 1)
        /\ \A n \in DOMAIN t.conds : t'.conds[n] = t.conds[n]
        /\ t'.conds[Len(condIdx) + 1] = CompiledCond(w)
    BY <1>1, <2>1, AppendASeq
  <2>4. Range(condIdx') = Range(condIdx) \cup {w}
    <3>1. \A x : x \in Range(condIdx') <=> x \in Range(condIdx) \/ x = w
      BY <2>2 DEF Range
    <3> QED
      BY <3>1
  <2>5. ASSUME CondsCompiled, UNCHANGED cfg
        PROVE  CondsCompiled'
    <3>1. \A x : CompiledCond(x)' = CompiledCond(x)
      BY <2>5, CondStays
    <3>2. ASSUME NEW c \in DOMAIN t'.conds
          PROVE  t'.conds[c] = CompiledCond(condIdx'[c])
      <4>1. CASE c \in DOMAIN t.conds
        BY <2>2, <2>3, <2>5, <4>1 DEF CondsCompiled
      <4>2. CASE c = Len(condIdx) + 1
        BY <2>2, <2>3, <4>2
      <4> QED
        BY <2>2, <2>3, <4>1, <4>2
    <3>3. \A x : CompiledCond(condIdx'[x]) = CompiledCond(condIdx[x])'
      BY <2>5, CondStays
    <3> QED
      BY <3>2, <3>3 DEF CondsCompiled
  <2> QED
    BY <2>1, <2>2, <2>4, <2>5
<1> QED
  BY <1>2, <1>3

(* An entry with a condition, or one that might have one, that is right.    *)
LEMMA UsesMore ==
  ASSUME IInv, UsesKept, NEW S, Goes(S), NEW p \in Conditioned, pc = p, NEW j, k = j,
         Numbers(WhenOf(p, j)),
         \A step \in Conditioned \ {p} : Table(step)' = Table(step),
         IsASeq(Table(p)),
         IF p = "aliases" /\ WhenOf(p, j) = NoCond THEN Table(p)' = Table(p)
         ELSE \E e : Table(p)' = Append(Table(p), e) /\ e.when = Number(WhenOf(p, j))
  PROVE  UsesKept'
<1> DEFINE w == WhenOf(p, j)
<1>1. cfg \in Configs /\ j \in Nat \ {0} /\ p \in Range(Steps) /\ p \in Looping
  BY DEF IInv, Shaped, Goes, Looping
<1>2. UNCHANGED cfg /\ pc' = p /\ j <= Entries(p) /\ Done(p) = j - 1
  BY <1>1, DoneIs DEF Goes
<1>3. /\ \A step : Entries(step)' = Entries(step)
      /\ \A step, i : WhenOf(step, i)' = WhenOf(step, i)
      /\ Conditional' = Conditional /\ \A i : GroupOf(i)' = GroupOf(i)
      /\ \A step : Place(step)' = Place(step)
  BY <1>2, EntriesStay DEF Place
<1>4. \A step \in Looping : Done(step)' = IF step = p THEN j ELSE Done(step)
  BY DoneGoes
<1>5. Conditioned \subseteq Looping
  BY DEF Looping
<1>6. p = "aliases" => (j \in Conditional <=> w # NoCond)
  <2>1. DOMAIN cfg.aliases = 1 .. Entries("aliases") /\ Entries("aliases") \in Nat
    BY <1>1, Counted DEF Looping, Conditioned
  <2>2. p = "aliases" => j \in DOMAIN cfg.aliases /\ w = cfg.aliases[j].when
    BY <1>1, <1>2, <2>1 DEF WhenOf
  <2> QED
    BY <2>2 DEF Conditional
<1>7. /\ Len(Table(p)) \in Nat /\ DOMAIN Table(p) = 1 .. Len(Table(p))
      /\ Len(Table(p)) = Made(p)
  <2>1. Len(Table(p)) = Made(p)
    <3>1. Place(p) \in Nat
      BY <1>1, PlacesDiffer
    <3> QED
      BY <3>1 DEF UsesKept, TablesGrow
  <2> QED
    BY <2>1 DEF IsASeq
<1>8. WithinEntries'
  BY <1>2, <1>3, <1>4 DEF UsesKept, WithinEntries
<1>9. TablesGrow'
  <2>1. ASSUME NEW step \in Conditioned, Place(p) <= Place(step)
        PROVE  Len(Table(step)') = Made(step)'
    <3>1. CASE step # p
      BY <1>3, <1>4, <1>5, <2>1, <3>1 DEF Made, UsesKept, TablesGrow
    <3>2. CASE step = p
      <4>1. Made(p)' = IF p = "aliases" THEN GroupOf(j + 1) - 1 ELSE j
        BY <1>1, <1>2, <1>3, <1>4 DEF Made
      <4>2. Made(p) = IF p = "aliases" THEN GroupOf(j) - 1 ELSE j - 1
        BY <1>1, <1>2 DEF Made
      <4>3. /\ GroupOf(j) \in Nat
            /\ IF j \in Conditional THEN GroupOf(j + 1) = GroupOf(j) + 1
               ELSE GroupOf(j + 1) = GroupOf(j)
        BY <1>1, GroupsCounted
      <4>4. IF p = "aliases" /\ w = NoCond THEN Table(p)' = Table(p)
            ELSE Len(Table(p)') = Len(Table(p)) + 1
        BY AppendASeq
      <4> HIDE DEF w
      <4>5. Len(Table(p)') = Made(p)'
        BY <1>1, <1>6, <1>7, <4>1, <4>2, <4>3, <4>4
      <4> QED
        BY <1>2, <3>2, <4>5
    <3> QED
      BY <3>1, <3>2
  <2> QED
    BY <1>2, <1>3, <2>1 DEF TablesGrow
<1>10. CondsCompiled'
  BY <1>2, NumberFound DEF UsesKept
<1>11. CondsUsed'
  <2>1. Range(condIdx') = Range(condIdx) \cup ({w} \ {NoCond})
    BY NumberFound
  <2>2. ASSUME NEW x
        PROVE  Used(x)' <=> x = w \/ Used(x)
    <3>1. \A step \in Conditioned \ {p} : Done(step)' = Done(step)
      BY <1>4, <1>5
    <3>2. Done(p)' = j /\ \A i : i \in 1 .. j <=> i \in 1 .. Done(p) \/ i = j
      BY <1>1, <1>2, <1>4
    <3>3. Used(x)' <=> \E step \in Conditioned : \E i \in 1 .. Done(step)' : x = WhenOf(step, i)
      BY <1>3 DEF Used
    <3>4. ASSUME Used(x)' PROVE x = w \/ Used(x)
      <4>1. PICK step \in Conditioned : \E i \in 1 .. Done(step)' : x = WhenOf(step, i)
        BY <3>3, <3>4
      <4>2. PICK i \in 1 .. Done(step)' : x = WhenOf(step, i)
        BY <4>1
      <4> QED
        BY <3>1, <3>2, <4>2 DEF Used
    <3>5. ASSUME Used(x) PROVE Used(x)'
      <4>1. PICK step \in Conditioned : \E i \in 1 .. Done(step) : x = WhenOf(step, i)
        BY <3>5 DEF Used
      <4>2. PICK i \in 1 .. Done(step) : x = WhenOf(step, i)
        BY <4>1
      <4>3. i \in 1 .. Done(step)'
        BY <3>1, <3>2
      <4> QED
        BY <3>3, <4>2, <4>3
    <3>6. ASSUME x = w PROVE Used(x)'
      <4>1. j \in 1 .. Done(p)'
        BY <1>1, <3>2
      <4> QED
        BY <3>3, <3>6, <4>1
    <3> QED
      BY <3>4, <3>5, <3>6
  <2> HIDE DEF w
  <2> QED
    BY <2>1, <2>2 DEF UsesKept, CondsUsed
<1>12. EntriesNumbered'
  <2>1. ASSUME NEW x, NEW n, Numbered(x, n)
        PROVE  Numbered(x, n)'
    BY <2>1, NumberFound DEF Numbered
  <2>2. ASSUME NEW step \in Conditioned, NEW i \in 1 .. Done(step)
        PROVE  NumberOf(step, i)' = NumberOf(step, i)
    <3>1. CASE step # p
      <4>1. Table(step)' = Table(step)
        BY <3>1
      <4>2. NumberOf(step, i)' =
              IF step # "aliases" THEN Table(step)'[i].when
              ELSE IF i \in Conditional THEN Table(step)'[GroupOf(i)].when ELSE 0
        BY <1>3 DEF NumberOf, Table, Conditioned
      <4> QED
        BY <4>1, <4>2, NumberIs
    <3>2. CASE step = p
      <4>1. NumberOf(step, i)' =
              IF step # "aliases" THEN Table(step)'[i].when
              ELSE IF i \in Conditional THEN Table(step)'[GroupOf(i)].when ELSE 0
        BY <1>3 DEF NumberOf, Table, Conditioned
      <4>2. \A n \in DOMAIN Table(p) : Table(p)'[n] = Table(p)[n]
        BY AppendASeq
      <4>3. /\ step # "aliases" => i \in DOMAIN Table(step)
            /\ step = "aliases" /\ i \in Conditional => GroupOf(i) \in DOMAIN Table(step)
        BY <1>1, <1>7, <3>2, NumbersInside
      <4> QED
        BY <3>2, <4>1, <4>2, <4>3, NumberIs
    <3> QED
      BY <3>1, <3>2
  <2>3. IF w = NoCond THEN NumberOf(p, j)' = 0
        ELSE NumberOf(p, j)' \in DOMAIN condIdx' /\ condIdx'[NumberOf(p, j)'] = w
    <3>1. NumberOf(p, j)' =
            IF p # "aliases" THEN Table(p)'[j].when
            ELSE IF j \in Conditional THEN Table(p)'[GroupOf(j)].when ELSE 0
      BY <1>2, <1>3 DEF NumberOf, Table, Conditioned
    <3>2. IF p = "aliases" /\ w = NoCond THEN TRUE
          ELSE Table(p)'[Len(Table(p)) + 1].when = Number(w)
      BY AppendASeq
    <3>3. Len(Table(p)) + 1 = IF p = "aliases" THEN GroupOf(j) ELSE j
      <4>1. GroupOf(j) \in Nat
        BY <1>1, GroupsCounted
      <4> QED
        BY <1>1, <1>2, <1>7, <4>1 DEF Made
    <3>4. NumberOf(p, j)' = Number(w)
      <4>1. w = NoCond => Number(w) = 0
        BY DEF Number
      <4> HIDE DEF w
      <4> QED
        BY <1>6, <3>1, <3>2, <3>3, <4>1
    <3>5. IF w = NoCond THEN Number(w) = 0
          ELSE Number(w) \in DOMAIN condIdx' /\ condIdx'[Number(w)] = w
      BY NumberFound
    <3> QED
      BY <3>4, <3>5
  <2>4. ASSUME NEW step \in Conditioned, NEW i \in 1 .. Done(step)'
        PROVE  Numbered(WhenOf(step, i), NumberOf(step, i))'
    <3>1. CASE i \in 1 .. Done(step)
      BY <1>3, <2>1, <2>2, <3>1 DEF UsesKept, EntriesNumbered, Numbered
    <3>2. CASE step = p /\ i = j
      BY <1>2, <1>3, <2>3, <3>2 DEF Numbered
    <3>3. i \in 1 .. Done(step) \/ (step = p /\ i = j)
      BY <1>1, <1>2, <1>4, <1>5
    <3> QED
      BY <3>1, <3>2, <3>3
  <2> QED
    BY <2>4 DEF EntriesNumbered
<1> QED
  BY <1>8, <1>9, <1>10, <1>11, <1>12 DEF UsesKept

-----------------------------------------------------------------------------
(* What the steps do to the tables.                                         *)

TableFields == {"conds", "derived", "columns", "groups", "sections", "outputs"}

LEMMA TablesSame ==
  ASSUME NEW S, Untouched(S), S \cap TableFields = {}, UNCHANGED cfg
  PROVE  /\ t'.conds = t.conds
         /\ \A step \in Conditioned : Table(step)' = Table(step)
         /\ \A step \in Conditioned : \A i : NumberOf(step, i)' = NumberOf(step, i)
<1>1. /\ t'.conds = t.conds /\ t'.derived = t.derived /\ t'.columns = t.columns
      /\ t'.groups = t.groups /\ t'.sections = t.sections /\ t'.outputs = t.outputs
  BY DEF Untouched, Fields, TableFields
<1>2. Conditional' = Conditional /\ \A i : GroupOf(i)' = GroupOf(i)
  BY EntriesStay
<1>3. \A step \in Conditioned : Table(step)' = Table(step)
  BY <1>1 DEF Table
<1>4. \A step \in Conditioned : \A i : NumberOf(step, i)' = NumberOf(step, i)
  BY <1>1, <1>2 DEF NumberOf, Conditioned
<1> QED
  BY <1>1, <1>3, <1>4

LEMMA EndsHere ==
  ASSUME pc \in Range(Steps), pc # "finish", pc' = NextStep, k' = 1, NEW S, Untouched(S),
         UNCHANGED <<cfg, condIdx, plain>>, pc \in Looping => k > Entries(pc)
  PROVE  Ends(S)
BY NextPlace DEF Ends

LEMMA WholeEnds ==
  ASSUME pc \in Range(Steps) \ Looping, pc # "finish", NEW ok, NEW made, Whole(ok, made),
         pc' # "failed", Fields \subseteq DOMAIN made,
         NEW S, \A f \in Fields \ S : made[f] = t[f]
  PROVE  Ends(S) /\ ok /\ t' = made
<1>1. ok /\ t' = made /\ pc' = NextStep /\ k' = 1 /\ UNCHANGED <<cfg, condIdx, plain>>
  BY DEF Whole, Fail, Goto
<1>2. Untouched(S)
  BY <1>1 DEF Untouched
<1> QED
  BY <1>1, <1>2, EndsHere

LEMMA EntryGoes ==
  ASSUME pc \in Range(Steps), NEW w, NEW limit, NEW ok, NEW made,
         EntryWhen(w, limit, ok, made), pc' # "failed", Fields \subseteq DOMAIN made,
         NEW S, "conds" \in S, \A f \in Fields \ S : made[f] = t[f],
         UNCHANGED cfg, pc \in Looping => k <= Entries(pc)
  PROVE  /\ Goes(S) /\ Numbers(w) /\ ok /\ WhenOK(w, limit)
         /\ \A f \in Fields \ {"conds"} : t'[f] = made[f]
<1>1. /\ ok /\ WhenOK(w, limit) /\ t' = [made EXCEPT !.conds = Conds(w)]
      /\ k' = k + 1 /\ pc' = pc
      /\ condIdx' = IF IsNew(w) THEN Append(condIdx, w) ELSE condIdx
  BY DEF EntryWhen, Entry, Fail, Goto
<1>2. /\ DOMAIN t' = DOMAIN made /\ t'.conds = Conds(w)
      /\ \A f \in Fields \ {"conds"} : t'[f] = made[f]
  BY <1>1 DEF Fields
<1>3. Untouched(S)
  BY <1>2 DEF Untouched
<1> QED
  BY <1>1, <1>2, <1>3 DEF Goes, Numbers

LEMMA PlainGoes ==
  ASSUME pc \in Range(Steps), NEW ok, NEW made, Entry(ok, made), pc' # "failed",
         Fields \subseteq DOMAIN made, NEW S, \A f \in Fields \ S : made[f] = t[f],
         UNCHANGED cfg, pc \in Looping => k <= Entries(pc)
  PROVE  Goes(S) /\ ok /\ t' = made
<1>1. ok /\ t' = made /\ k' = k + 1 /\ pc' = pc
  BY DEF Entry, Fail, Goto
<1>2. Untouched(S)
  BY <1>1 DEF Untouched
<1> QED
  BY <1>1, <1>2 DEF Goes

(* The steps that have nothing to do with conditions, aliases or rules. *)
LEMMA PlainSteps ==
  ASSUME IInv, pc' # "failed",
         Decode \/ New \/ Flatten \/ Input \/ KeyFilters \/ Expose \/ Finish
  PROVE  /\ Ends({"keep", "drop", "rest", "expose"})
         /\ Place(pc) < 5 \/ Place(pc) = 8 \/ Place(pc) > 13
<1>1. Fields \subseteq DOMAIN t
  BY DEF IInv, Shaped
<1> DEFINE S == {"keep", "drop", "rest", "expose"}
<1>2. CASE Decode
  BY <1>1, <1>2, WholeEnds, StepNames, Places DEF Decode, Looping, Conditioned
<1>3. CASE New
  BY <1>1, <1>3, WholeEnds, StepNames, Places DEF New, Looping, Conditioned
<1>4. CASE Flatten
  BY <1>1, <1>4, WholeEnds, StepNames, Places DEF Flatten, Looping, Conditioned
<1>5. CASE Input
  BY <1>1, <1>5, WholeEnds, StepNames, Places DEF Input, Looping, Conditioned
<1>6. CASE KeyFilters
  <2> DEFINE made == [t EXCEPT !.keep = IF cfg.keep = <<>> THEN NoFilter ELSE Matched(cfg.keep),
                 !.drop = Matched(cfg.drop),
                 !.rest = IF cfg.rest = <<>> THEN NoName ELSE cfg.rest]
  <2>1. Fields \subseteq DOMAIN made /\ \A f \in Fields \ S : made[f] = t[f]
    BY <1>1
  <2>2. \E ok : Whole(ok, made)
    BY <1>6 DEF KeyFilters
  <2>3. pc = "keyFilters" /\ pc \in Range(Steps) \ Looping
    BY <1>6, StepNames DEF KeyFilters, Looping, Conditioned
  <2> HIDE DEF made, S
  <2>4. Ends(S)
    BY <2>1, <2>2, <2>3, WholeEnds
  <2> QED
    BY <2>3, <2>4, Places DEF S
<1>7. CASE Expose
  <2> DEFINE made == [t EXCEPT !.expose = CompiledSources(cfg.expose)]
  <2>1. Fields \subseteq DOMAIN made /\ \A f \in Fields \ S : made[f] = t[f]
    BY <1>1
  <2>2. \E ok : Whole(ok, made)
    BY <1>7 DEF Expose
  <2>3. pc = "expose" /\ pc \in Range(Steps) \ Looping
    BY <1>7, StepNames DEF Expose, Looping, Conditioned
  <2> HIDE DEF made, S
  <2>4. Ends(S)
    BY <2>1, <2>2, <2>3, WholeEnds
  <2> QED
    BY <2>3, <2>4, Places DEF S
<1>8. CASE Finish
  <2>1. /\ pc = "finish" /\ pc' = "done" /\ k' = 1 /\ UNCHANGED <<cfg, condIdx, plain>>
        /\ t' = Over([fixKeys |-> FixKeys, simple |-> cfg.explode = <<>> /\ ~t.named,
                      extend |-> Extend(t)], t)
    BY <1>8 DEF Finish, Goto
  <2>2. DOMAIN t \subseteq DOMAIN t' /\ \A f \in Fields : t'[f] = t[f]
    <3> DEFINE new == [fixKeys |-> FixKeys, simple |-> cfg.explode = <<>> /\ ~t.named,
                      extend |-> Extend(t)]
    <3>1. DOMAIN new \cap Fields = {} /\ t' = Over(new, t)
      BY <2>1 DEF Fields
    <3> HIDE DEF new
    <3> QED
      BY <1>1, <3>1 DEF Over
  <2>3. Untouched(S)
    BY <1>1, <2>2 DEF Untouched
  <2> QED
    BY <2>1, <2>3, StepNames, Places DEF Ends, Looping, Conditioned
<1> QED
  BY <1>2, <1>3, <1>4, <1>5, <1>6, <1>7, <1>8

LEMMA KeyPolicyEnds ==
  ASSUME IInv, pc' # "failed", KeyPolicy
  PROVE  /\ pc = "keyPolicy" /\ Ends({"snake", "digit", "collision"})
         /\ t'.digit = IF cfg.digitPrefix = <<>> THEN NoTable
                       ELSE [key \in {x \in Keys : x # <<>> /\ x[1] \in Digits} |->
                              cfg.digitPrefix \o key]
<1> DEFINE S == {"snake", "digit", "collision"}
           digit == IF cfg.digitPrefix = <<>> THEN NoTable
                    ELSE [key \in {x \in Keys : x # <<>> /\ x[1] \in Digits} |->
                           cfg.digitPrefix \o key]
           made == [t EXCEPT !.snake = cfg.normalize = "snake",
                 !.digit = digit,
                 !.collision = IF cfg.onCollision = "" THEN "keep" ELSE cfg.onCollision]
<1>1. Fields \subseteq DOMAIN t
  BY DEF IInv, Shaped
<1>2. \E ok : Whole(ok, made)
  BY DEF KeyPolicy
<1>3. pc = "keyPolicy" /\ pc \in Range(Steps) \ Looping
  BY StepNames DEF KeyPolicy, Looping, Conditioned
<1> HIDE DEF digit
<1>4. /\ Fields \subseteq DOMAIN made /\ \A f \in Fields \ S : made[f] = t[f]
      /\ made.digit = digit
  BY <1>1 DEF Fields
<1> HIDE DEF made, S
<1>5. Ends(S) /\ t' = made
  BY <1>2, <1>3, <1>4, WholeEnds
<1> QED
  BY <1>3, <1>4, <1>5 DEF S, digit

LEMMA DeriveSteps ==
  ASSUME IInv, pc' # "failed", Derive
  PROVE  /\ pc = "derive" /\ UNCHANGED plain
         /\ \/ Ends({})
            \/ /\ Goes({"derived", "conds"}) /\ Numbers(WhenOf("derive", k))
               /\ \E e : t'.derived = Append(t.derived, e) /\ e.when = Number(WhenOf("derive", k))
<1>1. /\ Fields \subseteq DOMAIN t /\ pc = "derive" /\ pc \in Range(Steps)
      /\ UNCHANGED <<cfg, plain>>
      /\ Entries("derive") = Cardinality(DerivedNames) /\ Entries("derive") \in Nat /\ k \in Nat
  BY StepNames, Counted DEF IInv, Shaped, Derive, Looping, Conditioned
<1>2. CASE k > Cardinality(DerivedNames)
  <2>1. t' = t /\ pc' = NextStep /\ k' = 1 /\ condIdx' = condIdx
    BY <1>2 DEF Derive, EndStep, Goto
  <2>2. Untouched({})
    BY <1>1, <2>1 DEF Untouched
  <2> QED
    BY <1>1, <1>2, <2>1, <2>2, EndsHere
<1>3. CASE ~(k > Cardinality(DerivedNames))
  <2> DEFINE name == NameOf(k)
             d == cfg.derive[name]
             srcs == CompiledSources(d.from)
             ok == /\ name \notin {0, Now}
                   /\ AreSources(d.from)
                   /\ ReadsBefore(srcs, k)
                   /\ d.normalize \in NormalizeModes
             e == [srcs |-> srcs, norm |-> d.norm, required |-> d.required, when |-> Number(d.when)]
             made == [t EXCEPT !.derived = Append(@, e)]
  <2>1. EntryWhen(d.when, k - 1, ok, made)
    BY <1>3 DEF Derive, DeriveValue, NameOf
  <2>2. WhenOf("derive", k) = d.when
    BY DEF WhenOf
  <2>3. e.when = Number(d.when)
    OBVIOUS
  <2> HIDE DEF ok, d, e
  <2>4. /\ Fields \subseteq DOMAIN made /\ made.derived = Append(t.derived, e)
        /\ \A f \in Fields \ {"derived", "conds"} : made[f] = t[f]
    BY <1>1 DEF Fields
  <2> HIDE DEF made
  <2>5. pc \in Looping => k <= Entries(pc)
    BY <1>1, <1>3
  <2>6. Goes({"derived", "conds"}) /\ Numbers(d.when) /\ t'.derived = made.derived
    <3> DEFINE S == {"derived", "conds"}
    <3>1. "conds" \in S /\ "derived" \in Fields \ {"conds"}
      BY DEF Fields
    <3> HIDE DEF S
    <3>2. /\ Goes(S) /\ Numbers(d.when)
          /\ \A f \in Fields \ {"conds"} : t'[f] = made[f]
      BY <1>1, <2>1, <2>4, <2>5, <3>1, EntryGoes DEF S
    <3> QED
      BY <3>1, <3>2 DEF S
  <2> QED
    BY <1>1, <2>2, <2>3, <2>4, <2>6
<1> QED
  BY <1>2, <1>3

LEMMA ColumnsSteps ==
  ASSUME IInv, pc' # "failed", Columns
  PROVE  /\ pc = "columns" /\ UNCHANGED plain
         /\ \/ Ends({})
            \/ /\ Goes({"columns", "conds"}) /\ Numbers(WhenOf("columns", k))
               /\ \E e : t'.columns = Append(t.columns, e) /\ e.when = Number(WhenOf("columns", k))
<1>1. /\ Fields \subseteq DOMAIN t /\ pc = "columns" /\ pc \in Range(Steps)
      /\ UNCHANGED <<cfg, plain>>
      /\ Entries("columns") = Len(cfg.columns) /\ Entries("columns") \in Nat /\ k \in Nat
  BY StepNames, Counted DEF IInv, Shaped, Columns, Looping, Conditioned, Entries
<1>2. CASE k > Len(cfg.columns)
  <2>1. t' = t /\ pc' = NextStep /\ k' = 1 /\ condIdx' = condIdx
    BY <1>2 DEF Columns, EndStep, Goto
  <2>2. Untouched({})
    BY <1>1, <2>1 DEF Untouched
  <2> QED
    BY <1>1, <1>2, <2>1, <2>2, EndsHere
<1>3. CASE ~(k > Len(cfg.columns))
  <2> DEFINE c == cfg.columns[k]
             ok == /\ c.to # <<>>
                   /\ c.as \in {"", "raw", "string", "number", "bool"}
                   /\ AreSources(c.from)
             e == [name |-> c.to, srcs |-> CompiledSources(c.from), when |-> Number(c.when),
                   as |-> IF c.as = "" THEN "raw" ELSE c.as, quiet |-> c.quiet]
             made == [t EXCEPT !.columns = Append(@, e)]
  <2>1. EntryWhen(c.when, Len(t.derived), ok, made)
    BY <1>3 DEF Columns, Column
  <2>2. WhenOf("columns", k) = c.when
    BY DEF WhenOf
  <2>3. e.when = Number(c.when)
    OBVIOUS
  <2> HIDE DEF ok, c, e
  <2>4. /\ Fields \subseteq DOMAIN made /\ made.columns = Append(t.columns, e)
        /\ \A f \in Fields \ {"columns", "conds"} : made[f] = t[f]
    BY <1>1 DEF Fields
  <2> HIDE DEF made
  <2>5. pc \in Looping => k <= Entries(pc)
    BY <1>1, <1>3
  <2>6. Goes({"columns", "conds"}) /\ Numbers(c.when) /\ t'.columns = made.columns
    <3> DEFINE S == {"columns", "conds"}
    <3>1. "conds" \in S /\ "columns" \in Fields \ {"conds"}
      BY DEF Fields
    <3> HIDE DEF S
    <3>2. /\ Goes(S) /\ Numbers(c.when)
          /\ \A f \in Fields \ {"conds"} : t'[f] = made[f]
      BY <1>1, <2>1, <2>4, <2>5, <3>1, EntryGoes DEF S
    <3> QED
      BY <3>1, <3>2 DEF S
  <2> QED
    BY <1>1, <2>2, <2>3, <2>4, <2>6
<1> QED
  BY <1>2, <1>3

LEMMA SegmentAliasesSteps ==
  ASSUME IInv, pc' # "failed", SegmentAliases
  PROVE  /\ pc = "segmentAliases" /\ UNCHANGED <<plain, condIdx>>
         /\ Ends({}) \/ Goes({"segAliases"})
<1>1. /\ Fields \subseteq DOMAIN t /\ pc = "segmentAliases" /\ pc \in Range(Steps) \ Looping
      /\ UNCHANGED <<cfg, plain>>
  BY StepNames DEF IInv, Shaped, SegmentAliases, Looping, Conditioned
<1> DEFINE left == IF k = 1 THEN DOMAIN cfg.segAliases ELSE todo
<1>2. CASE left = {}
  <2>1. t' = t /\ pc' = NextStep /\ k' = 1 /\ condIdx' = condIdx
    BY <1>2 DEF SegmentAliases, EndStep, Goto
  <2>2. Untouched({})
    BY <1>1, <2>1 DEF Untouched
  <2> QED
    BY <1>1, <1>2, <2>1, <2>2, EndsHere
<1>3. CASE left # {}
  <2>1. condIdx' = condIdx /\ \E from \in left : SegmentAlias(from)
    BY <1>3 DEF SegmentAliases
  <2> HIDE DEF left
  <2>2. PICK from \in left : SegmentAlias(from)
    BY <2>1
  <2> DEFINE norm == Snaked(from)
             to == cfg.segAliases[from]
             ok == norm # <<>> /\ to # <<>> /\ norm # to /\ norm \notin DOMAIN t.segAliases
             made == [t EXCEPT !.segAliases = Over([x \in {norm} |-> to], @)]
  <2>3. Entry(ok, made)
    BY <2>2 DEF SegmentAlias
  <2>4. Fields \subseteq DOMAIN made /\ \A f \in Fields \ {"segAliases"} : made[f] = t[f]
    BY <1>1
  <2> HIDE DEF ok, made
  <2>5. Goes({"segAliases"})
    <3> DEFINE S == {"segAliases"}
    <3>1. Fields \subseteq DOMAIN made /\ \A f \in Fields \ S : made[f] = t[f]
      BY <2>4
    <3> HIDE DEF S
    <3>2. Goes(S)
      BY <1>1, <2>3, <3>1, PlainGoes
    <3> QED
      BY <3>2 DEF S
  <2> QED
    BY <1>1, <2>1, <2>5
<1> QED
  BY <1>2, <1>3

LEMMA AliasesSteps ==
  ASSUME IInv, pc' # "failed", Aliases
  PROVE  /\ pc = "aliases"
         /\ \/ Ends({"groups"}) /\ t'.groups = WithPlain
            \/ /\ Goes({"groups", "conds"}) /\ Numbers(WhenOf("aliases", k)) /\ UNCHANGED plain
               /\ k \in Conditional /\ AliasOK(cfg.aliases[k], NoTable)
               /\ t'.groups = Append(t.groups,
                    [when |-> Number(cfg.aliases[k].when), to |-> Joining(cfg.aliases[k], NoTable)])
            \/ /\ Goes({}) /\ UNCHANGED <<t, condIdx>>
               /\ k \in DOMAIN cfg.aliases \ Conditional /\ AliasOK(cfg.aliases[k], plain)
               /\ plain' = Joining(cfg.aliases[k], plain)
<1>1. /\ Fields \subseteq DOMAIN t /\ pc = "aliases" /\ pc \in Range(Steps) /\ UNCHANGED cfg
      /\ Entries("aliases") = Len(cfg.aliases) /\ Entries("aliases") \in Nat /\ k \in Nat \ {0}
      /\ DOMAIN cfg.aliases = 1 .. Entries("aliases")
  BY StepNames, Counted DEF IInv, Shaped, Aliases, Looping, Conditioned, Entries
<1>2. CASE k > Len(cfg.aliases)
  <2> DEFINE made == [t EXCEPT !.groups = WithPlain]
  <2>1. t' = made /\ pc' = NextStep /\ k' = 1 /\ UNCHANGED <<condIdx, plain>>
    BY <1>2 DEF Aliases, EndStep, Goto
  <2>2. Untouched({"groups"}) /\ t'.groups = WithPlain
    BY <1>1, <2>1 DEF Untouched, Fields
  <2> HIDE DEF made
  <2> QED
    BY <1>1, <1>2, <2>1, <2>2, EndsHere
<1>3. CASE ~(k > Len(cfg.aliases))
  <2> DEFINE a == cfg.aliases[k]
  <2>1. AliasEntry(a) /\ k \in DOMAIN cfg.aliases /\ WhenOf("aliases", k) = a.when
        /\ (k \in Conditional <=> a.when # NoCond)
    BY <1>1, <1>3 DEF Aliases, WhenOf, Conditional
  <2>2. pc \in Looping => k <= Entries(pc)
    BY <1>1, <1>3
  <2>3. CASE a.when # NoCond
    <3> DEFINE e == [when |-> Number(a.when), to |-> Joining(a, NoTable)]
               made == [t EXCEPT !.groups = Append(@, e)]
               ok == AliasOK(a, NoTable)
               S == {"groups", "conds"}
    <3>1. EntryWhen(a.when, Len(t.derived), ok, made) /\ UNCHANGED plain
      BY <2>1, <2>3 DEF AliasEntry
    <3> HIDE DEF ok, a, e
    <3>2. /\ Fields \subseteq DOMAIN made /\ made.groups = Append(t.groups, e)
          /\ \A f \in Fields \ S : made[f] = t[f]
          /\ "conds" \in S /\ "groups" \in Fields \ {"conds"}
      BY <1>1 DEF Fields
    <3> HIDE DEF made, S
    <3>3. /\ Goes(S) /\ Numbers(a.when) /\ ok
          /\ \A f \in Fields \ {"conds"} : t'[f] = made[f]
      BY <1>1, <2>2, <3>1, <3>2, EntryGoes
    <3>4. t'.groups = Append(t.groups, e)
      BY <3>2, <3>3
    <3> QED
      BY <1>1, <2>1, <2>3, <3>1, <3>3, <3>4 DEF S, ok, e, a
  <2>4. CASE a.when = NoCond
    <3> DEFINE ok == AliasOK(a, plain)
               S == {}
    <3>1. /\ UNCHANGED condIdx /\ Entry(ok, t)
          /\ plain' = IF ok THEN Joining(a, plain) ELSE plain
      BY <2>1, <2>4 DEF AliasEntry
    <3>2. \A f \in Fields \ S : t[f] = t[f]
      OBVIOUS
    <3> HIDE DEF ok, S, a
    <3>3. Goes(S) /\ ok /\ t' = t
      BY <1>1, <2>2, <3>1, <3>2, PlainGoes
    <3> QED
      BY <1>1, <2>1, <2>4, <3>1, <3>3 DEF S, ok, a
  <2> QED
    BY <2>3, <2>4
<1> QED
  BY <1>2, <1>3

LEMMA SectionsSteps ==
  ASSUME IInv, pc' # "failed", Sections
  PROVE  /\ pc = "sections" /\ UNCHANGED plain
         /\ \/ /\ Ends({"sections"})
               /\ t'.sections = IF t.sections = <<>> THEN <<WholeRecord>> ELSE t.sections
            \/ /\ Goes({"sections", "conds"}) /\ Numbers(WhenOf("sections", k))
               /\ \E e : /\ t'.sections = Append(t.sections, e)
                         /\ e.when = Number(WhenOf("sections", k))
                         /\ e.dead = Dropped(cfg.sections[k].from)
<1>1. /\ Fields \subseteq DOMAIN t /\ pc = "sections" /\ pc \in Range(Steps)
      /\ UNCHANGED <<cfg, plain>>
      /\ Entries("sections") = Len(cfg.sections) /\ Entries("sections") \in Nat /\ k \in Nat
  BY StepNames, Counted DEF IInv, Shaped, Sections, Looping, Conditioned, Entries
<1>2. CASE ~(k <= Len(cfg.sections))
  <2> DEFINE all == IF t.sections = <<>> THEN <<WholeRecord>> ELSE t.sections
             made == [t EXCEPT !.sections = all]
  <2>1. t' = made /\ pc' = NextStep /\ k' = 1 /\ UNCHANGED condIdx
    BY <1>2 DEF Sections, EndStep, Goto
  <2> HIDE DEF all
  <2>2. Untouched({"sections"}) /\ t'.sections = all
    BY <1>1, <2>1 DEF Untouched, Fields
  <2>3. k > Entries(pc)
    BY <1>1, <1>2
  <2> HIDE DEF made
  <2>4. Ends({"sections"})
    BY <1>1, <2>1, <2>2, <2>3, EndsHere
  <2> QED
    BY <1>1, <2>2, <2>4 DEF all
<1>3. CASE k <= Len(cfg.sections)
  <2> DEFINE s == cfg.sections[k]
             ok == s.id \notin SectionIds(k - 1)
             e == [from |-> s.from, when |-> Number(s.when), quiet |-> s.quiet,
                   dead |-> Dropped(s.from),
                   dstBase |-> IF s.prefix = <<>> THEN <<>> ELSE s.prefix \o Sep]
             made == [t EXCEPT !.sections = Append(@, e)]
             S == {"sections", "conds"}
  <2>1. EntryWhen(s.when, Len(t.derived), ok, made)
    BY <1>3 DEF Sections, SectionEntry
  <2>2. WhenOf("sections", k) = s.when
    BY DEF WhenOf
  <2>3. e.when = Number(s.when) /\ e.dead = Dropped(s.from)
    OBVIOUS
  <2> HIDE DEF ok, s, e
  <2>4. /\ Fields \subseteq DOMAIN made /\ made.sections = Append(t.sections, e)
        /\ \A f \in Fields \ S : made[f] = t[f]
        /\ "conds" \in S /\ "sections" \in Fields \ {"conds"}
    BY <1>1 DEF Fields
  <2> HIDE DEF made, S
  <2>5. pc \in Looping => k <= Entries(pc)
    BY <1>1, <1>3
  <2>6. /\ Goes(S) /\ Numbers(s.when)
        /\ \A f \in Fields \ {"conds"} : t'[f] = made[f]
    BY <1>1, <2>1, <2>4, <2>5, EntryGoes
  <2>7. t'.sections = Append(t.sections, e)
    BY <2>4, <2>6
  <2> QED
    BY <1>1, <2>2, <2>3, <2>6, <2>7 DEF S, s
<1> QED
  BY <1>2, <1>3

LEMMA OutputsSteps ==
  ASSUME IInv, pc' # "failed", Outputs
  PROVE  /\ pc = "outputs" /\ UNCHANGED plain
         /\ \/ /\ Ends({"outputs"})
               /\ t.outputs # <<>> => t'.outputs = t.outputs
            \/ /\ Goes({"outputs", "named", "conds"}) /\ Numbers(WhenOf("outputs", k))
               /\ \E e : t'.outputs = Append(t.outputs, e) /\ e.when = Number(WhenOf("outputs", k))
<1>1. /\ Fields \subseteq DOMAIN t /\ pc = "outputs" /\ pc \in Range(Steps)
      /\ UNCHANGED <<cfg, plain>>
      /\ Entries("outputs") = Len(cfg.outputs) /\ Entries("outputs") \in Nat /\ k \in Nat
  BY StepNames, Counted DEF IInv, Shaped, Outputs, Looping, Conditioned, Entries
<1>2. CASE ~(k <= Len(cfg.outputs))
  <2> DEFINE all == IF t.outputs = <<>>
                    THEN <<[nameFrom |-> 0, when |-> 0, member |-> DOMAIN t.sections]>>
                    ELSE t.outputs
             made == [t EXCEPT !.outputs = all]
  <2>1. t' = made /\ pc' = NextStep /\ k' = 1 /\ UNCHANGED condIdx
    BY <1>2 DEF Outputs, EndStep, Goto
  <2>2. t.outputs # <<>> => all = t.outputs
    OBVIOUS
  <2> HIDE DEF all
  <2>3. Untouched({"outputs"}) /\ t'.outputs = all
    BY <1>1, <2>1 DEF Untouched, Fields
  <2>4. k > Entries(pc)
    BY <1>1, <1>2
  <2> HIDE DEF made
  <2>5. Ends({"outputs"})
    BY <1>1, <2>1, <2>3, <2>4, EndsHere
  <2> QED
    BY <1>1, <2>2, <2>3, <2>5
<1>3. CASE k <= Len(cfg.outputs)
  <2> DEFINE o == cfg.outputs[k]
             ok == /\ o.name.kind = "var" => o.name.var \in DerivedNames
                   /\ o.name.kind # "none"
                   /\ Range(o.sections) \subseteq SectionIds(Len(cfg.sections))
             e == [nameFrom |-> IF o.name.kind = "var" THEN PathOrVariable(o.name).idx ELSE 0,
                   when |-> Number(o.when),
                   member |-> IF o.sections = <<>> THEN DOMAIN t.sections
                              ELSE {i \in DOMAIN cfg.sections :
                                      cfg.sections[i].id \in Range(o.sections)}]
             made == [t EXCEPT !.named = TRUE, !.outputs = Append(@, e)]
             S == {"outputs", "named", "conds"}
  <2>1. EntryWhen(o.when, Len(t.derived), ok, made)
    BY <1>3 DEF Outputs, OutputEntry
  <2>2. WhenOf("outputs", k) = o.when
    BY DEF WhenOf
  <2>3. e.when = Number(o.when)
    OBVIOUS
  <2> HIDE DEF ok, o, e
  <2>4. /\ Fields \subseteq DOMAIN made /\ made.outputs = Append(t.outputs, e)
        /\ \A f \in Fields \ S : made[f] = t[f]
        /\ "conds" \in S /\ "outputs" \in Fields \ {"conds"}
    BY <1>1 DEF Fields
  <2> HIDE DEF made, S
  <2>5. pc \in Looping => k <= Entries(pc)
    BY <1>1, <1>3
  <2>6. /\ Goes(S) /\ Numbers(o.when)
        /\ \A f \in Fields \ {"conds"} : t'[f] = made[f]
    BY <1>1, <2>1, <2>4, <2>5, EntryGoes
  <2>7. t'.outputs = Append(t.outputs, e)
    BY <2>4, <2>6
  <2> QED
    BY <1>1, <2>2, <2>3, <2>6, <2>7 DEF S
<1> QED
  BY <1>2, <1>3

RuleFields == {"actions", "nslots", "merges", "defaults"}

LEMMA RulesSteps ==
  ASSUME IInv, pc' # "failed", Rules
  PROVE  /\ pc = "rules" /\ UNCHANGED <<plain, condIdx>>
         /\ \/ Ends({})
            \/ /\ Goes(RuleFields) /\ k \in DOMAIN cfg.rules
               /\ LET r == cfg.rules[k]
                  IN  \/ /\ r.op = "rename" /\ UNCHANGED <<t.nslots, t.merges>>
                         /\ Len(r.from) = 1
                         /\ ActionOf(r.from[1]).renameTo = NoPath
                         /\ t'.actions =
                              Over([x \in {r.from[1]} |-> [ActionOf(x) EXCEPT !.renameTo = r.to]],
                                   t.actions)
                      \/ /\ r.op = "drop" /\ UNCHANGED <<t.nslots, t.merges>>
                         /\ r.path # <<>>
                         /\ t'.actions =
                              Over([x \in {r.path} |-> [ActionOf(x) EXCEPT !.drop = TRUE]],
                                   t.actions)
                      \/ /\ r.op = "merge" /\ t'.nslots = t.nslots + Len(r.from)
                         /\ t'.actions =
                              Over([path \in Range(r.from) |->
                                     [ActionOf(path) EXCEPT
                                        !.slots = @ \cup Filled(r, path),
                                        !.consume = Consumes(r, ActionOf(path))]], t.actions)
                         /\ \E e : /\ t'.merges = Append(t.merges, e)
                                   /\ e.slots = [n \in DOMAIN r.from |-> t.nslots + n]
                      \/ r.op = "default" /\ UNCHANGED <<t.actions, t.nslots, t.merges>>
<1>1. /\ Fields \subseteq DOMAIN t /\ pc = "rules" /\ pc \in Range(Steps)
      /\ UNCHANGED <<cfg, plain>>
      /\ Entries("rules") = Len(cfg.rules) /\ Entries("rules") \in Nat /\ k \in Nat \ {0}
      /\ DOMAIN cfg.rules = 1 .. Entries("rules")
  BY StepNames, Counted DEF IInv, Shaped, Rules, Looping, Conditioned, Entries
<1>2. CASE k > Len(cfg.rules)
  <2>1. t' = t /\ pc' = NextStep /\ k' = 1 /\ condIdx' = condIdx
    BY <1>2 DEF Rules, EndStep, Goto
  <2>2. Untouched({})
    BY <1>1, <2>1 DEF Untouched
  <2> QED
    BY <1>1, <1>2, <2>1, <2>2, EndsHere
<1>3. CASE ~(k > Len(cfg.rules))
  <2> DEFINE r == cfg.rules[k]
  <2>1. /\ CASE r.op = "rename"  -> AddRename(r)
              [] r.op = "drop"    -> AddDrop(r)
              [] r.op = "merge"   -> AddMerge(r)
              [] r.op = "default" -> AddDefault(r)
              [] OTHER -> Fail
        /\ UNCHANGED condIdx
    BY <1>3 DEF Rules
  <2>2. k \in DOMAIN cfg.rules /\ (pc \in Looping => k <= Entries(pc)) /\ ~Fail
    BY <1>1, <1>3 DEF Fail, Goto
  <2> HIDE DEF r
  <2>3. ASSUME NEW ok, NEW made, Entry(ok, made), Fields \subseteq DOMAIN made,
               \A f \in Fields \ RuleFields : made[f] = t[f]
        PROVE  Goes(RuleFields) /\ ok /\ t' = made
    BY <1>1, <2>2, <2>3, PlainGoes
  <2>4. CASE r.op = "rename"
    <3> DEFINE new == Over([x \in {r.from[1]} |-> [ActionOf(x) EXCEPT !.renameTo = r.to]],
                           t.actions)
               made == [t EXCEPT !.actions = new]
               ok == /\ Len(r.from) = 1 /\ r.from[1] # <<>> /\ r.to # <<>>
                     /\ ActionOf(r.from[1]).renameTo = NoPath
                     /\ ~ActionOf(r.from[1]).drop
    <3>1. Entry(ok, made)
      BY <2>1, <2>4 DEF AddRename
    <3>2. ok => Len(r.from) = 1 /\ ActionOf(r.from[1]).renameTo = NoPath
      OBVIOUS
    <3> HIDE DEF new, ok
    <3>3. /\ Fields \subseteq DOMAIN made /\ \A f \in Fields \ RuleFields : made[f] = t[f]
          /\ made.actions = new /\ made.nslots = t.nslots /\ made.merges = t.merges
      BY <1>1 DEF Fields, RuleFields
    <3> HIDE DEF made
    <3>4. Goes(RuleFields) /\ ok /\ t' = made
      BY <2>3, <3>1, <3>3
    <3> QED
      BY <1>1, <2>1, <2>2, <2>4, <3>2, <3>3, <3>4 DEF r, new
  <2>5. CASE r.op = "drop"
    <3> DEFINE new == Over([x \in {r.path} |-> [ActionOf(x) EXCEPT !.drop = TRUE]], t.actions)
               made == [t EXCEPT !.actions = new]
               ok == r.path # <<>> /\ ActionOf(r.path).renameTo = NoPath
    <3>1. Entry(ok, made)
      BY <2>1, <2>5 DEF AddDrop
    <3>2. ok => r.path # <<>>
      OBVIOUS
    <3> HIDE DEF new, ok
    <3>3. /\ Fields \subseteq DOMAIN made /\ \A f \in Fields \ RuleFields : made[f] = t[f]
          /\ made.actions = new /\ made.nslots = t.nslots /\ made.merges = t.merges
      BY <1>1 DEF Fields, RuleFields
    <3> HIDE DEF made
    <3>4. Goes(RuleFields) /\ ok /\ t' = made
      BY <2>3, <3>1, <3>3
    <3> QED
      BY <1>1, <2>1, <2>2, <2>5, <3>2, <3>3, <3>4 DEF r, new
  <2>6. CASE r.op = "merge"
    <3> DEFINE new == Over([path \in Range(r.from) |->
                              LET action == ActionOf(path)
                              IN  [action EXCEPT !.slots = @ \cup Filled(r, path),
                                                 !.consume = Consumes(r, action)]], t.actions)
               total == t.nslots + Len(r.from)
               e == [to |-> r.to, mode |-> IF r.mode = "" THEN "concat" ELSE r.mode,
                     slots |-> [n \in DOMAIN r.from |-> t.nslots + n]]
               made == [t EXCEPT !.actions = new, !.nslots = total, !.merges = Append(@, e)]
    <3>1. \E ok : Entry(ok, made)
      BY <2>1, <2>6 DEF AddMerge
    <3>2. e.slots = [n \in DOMAIN r.from |-> t.nslots + n]
      OBVIOUS
    <3> HIDE DEF new, total, e
    <3>3. /\ Fields \subseteq DOMAIN made /\ \A f \in Fields \ RuleFields : made[f] = t[f]
          /\ made.actions = new /\ made.nslots = total /\ made.merges = Append(t.merges, e)
      BY <1>1 DEF Fields, RuleFields
    <3> HIDE DEF made
    <3>4. Goes(RuleFields) /\ t' = made
      BY <2>3, <3>1, <3>3
    <3>5. t'.actions = new /\ t'.nslots = total /\ t'.merges = Append(t.merges, e)
      BY <3>3, <3>4
    <3> QED
      BY <1>1, <2>1, <2>2, <2>6, <3>2, <3>4, <3>5 DEF r, new, total
  <2>7. CASE r.op = "default"
    <3> DEFINE made == [t EXCEPT !.defaults = Append(@, [key |-> r.path, value |-> r.value])]
    <3>1. \E ok : Entry(ok, made)
      BY <2>1, <2>7 DEF AddDefault
    <3>2. /\ Fields \subseteq DOMAIN made /\ \A f \in Fields \ RuleFields : made[f] = t[f]
          /\ made.actions = t.actions /\ made.nslots = t.nslots /\ made.merges = t.merges
      BY <1>1 DEF Fields, RuleFields
    <3> HIDE DEF made
    <3>3. Goes(RuleFields) /\ t' = made
      BY <2>3, <3>1, <3>2
    <3> QED
      BY <1>1, <2>1, <2>2, <2>7, <3>2, <3>3 DEF r
  <2> QED
    BY <2>1, <2>2, <2>4, <2>5, <2>6, <2>7
<1> QED
  BY <1>2, <1>3

-----------------------------------------------------------------------------
(* Every step keeps it.                                                     *)

LEMMA UsesEnd ==
  ASSUME IInv, UsesKept, NEW S, Ends(S), t'.conds = t.conds,
         \A step \in Conditioned :
           /\ step # pc => Table(step)' = Table(step)
           /\ \A i \in 1 .. Done(step) : NumberOf(step, i)' = NumberOf(step, i)
  PROVE  UsesKept'
<1>1. /\ pc \in Range(Steps) /\ pc' \in Range(Steps) \cup {"done"} /\ UNCHANGED <<cfg, condIdx>>
      /\ Place(pc') = Place(pc) + 1
  BY DEF Ends
<1>2. \A step \in Looping : Done(step)' = Done(step)
  BY DoneStays
<1>3. Place(pc) \in Nat /\ Place(pc') \in Nat
  BY <1>1, PlacesDiffer
<1>4. Place(pc) <= Place(pc') /\ ~(Place(pc') <= Place(pc))
  BY <1>1, <1>3
<1>5. Done("rules")' <= Entries("rules")
  BY <1>2 DEF Looping, UsesKept, WithinEntries
<1>6. \A step \in Conditioned : Place(pc') <= Place(step) => Table(step)' = Table(step)
  BY <1>4
<1> QED
  BY <1>1, <1>2, <1>4, <1>5, <1>6, UsesStay DEF Looping

LEMMA UsesGo ==
  ASSUME IInv, UsesKept, NEW S, Goes(S), pc \notin Conditioned, S \cap TableFields = {},
         UNCHANGED condIdx
  PROVE  UsesKept'
<1>1. pc \in Range(Steps) /\ pc' = pc /\ UNCHANGED cfg /\ Untouched(S) /\ cfg \in Configs
  BY DEF Goes, IInv, Shaped
<1>2. \A step \in Looping : Done(step)' = IF step = pc THEN k ELSE Done(step)
  BY DoneGoes
<1>3. Done("rules")' <= Entries("rules")
  BY <1>2 DEF Goes, Looping, UsesKept, WithinEntries
<1>4. \A step \in Conditioned : Done(step)' = Done(step)
  BY <1>2 DEF Looping
<1>5. /\ t'.conds = t.conds
      /\ \A step \in Conditioned : Table(step)' = Table(step)
      /\ \A step \in Conditioned : \A i : NumberOf(step, i)' = NumberOf(step, i)
  BY <1>1, TablesSame
<1>6. Place(pc) <= Place(pc')
  BY <1>1, PlacesDiffer
<1> QED
  BY <1>1, <1>3, <1>4, <1>5, <1>6, UsesStay

(* The tables of the others. *)
LEMMA OtherTables ==
  ASSUME NEW S, Untouched(S), NEW step \in Conditioned, UNCHANGED cfg,
         (CASE step = "derive"   -> "derived"
            [] step = "columns"  -> "columns"
            [] step = "aliases"  -> "groups"
            [] step = "sections" -> "sections"
            [] step = "outputs"  -> "outputs") \notin S
  PROVE  /\ Table(step)' = Table(step)
         /\ \A i : NumberOf(step, i)' = NumberOf(step, i)
<1>1. /\ step = "derive" => t'.derived = t.derived
      /\ step = "columns" => t'.columns = t.columns
      /\ step = "aliases" => t'.groups = t.groups
      /\ step = "sections" => t'.sections = t.sections
      /\ step = "outputs" => t'.outputs = t.outputs
  BY DEF Untouched, Fields, Conditioned
<1>2. Conditional' = Conditional /\ \A i : GroupOf(i)' = GroupOf(i)
  BY EntriesStay
<1> QED
  BY <1>1, <1>2 DEF Table, NumberOf, Conditioned

LEMMA TablesSeqs ==
  ASSUME IInv, NEW step \in Conditioned
  PROVE  IsASeq(Table(step))
BY DEF IInv, DerivedKept, ColumnsKept, GroupsKept, OutputsKept, Table, Conditioned

LEMMA UsesStep ==
  ASSUME IInv, UsesKept, Next, pc' # "failed"
  PROVE  UsesKept'
<1>1. CASE Decode \/ New \/ Flatten \/ Input \/ KeyFilters \/ Expose \/ Finish
  <2> DEFINE S == {"keep", "drop", "rest", "expose"}
  <2>1. Ends(S) /\ S \cap TableFields = {}
    BY <1>1, PlainSteps DEF TableFields
  <2> HIDE DEF S
  <2>2. Untouched(S) /\ UNCHANGED cfg
    BY <2>1 DEF Ends
  <2> QED
    BY <2>1, <2>2, TablesSame, UsesEnd
<1>2. CASE KeyPolicy
  <2> DEFINE S == {"snake", "digit", "collision"}
  <2>1. Ends(S) /\ S \cap TableFields = {}
    BY <1>2, KeyPolicyEnds DEF TableFields
  <2> HIDE DEF S
  <2>2. Untouched(S) /\ UNCHANGED cfg
    BY <2>1 DEF Ends
  <2> QED
    BY <2>1, <2>2, TablesSame, UsesEnd
<1>3. ASSUME Ends({}) PROVE UsesKept'
  <2> DEFINE S == {}
  <2>1. Ends(S) /\ S \cap TableFields = {}
    BY <1>3
  <2> HIDE DEF S
  <2>2. Untouched(S) /\ UNCHANGED cfg
    BY <2>1 DEF Ends
  <2> QED
    BY <2>1, <2>2, TablesSame, UsesEnd
<1>4. CASE Derive
  <2>1. CASE Ends({})
    BY <1>3, <2>1
  <2>2. CASE /\ Goes({"derived", "conds"}) /\ Numbers(WhenOf("derive", k))
             /\ \E e : t'.derived = Append(t.derived, e) /\ e.when = Number(WhenOf("derive", k))
    <3> DEFINE S == {"derived", "conds"}
               p == "derive"
    <3>1. /\ p \in Conditioned /\ pc = p /\ Goes(S) /\ IsASeq(Table(p)) /\ Untouched(S)
          /\ UNCHANGED cfg
      BY <1>4, <2>2, DeriveSteps, TablesSeqs DEF Conditioned, Goes
    <3>2. \E e : Table(p)' = Append(Table(p), e) /\ e.when = Number(WhenOf(p, k))
      BY <2>2 DEF Table
    <3>3. \A step \in Conditioned \ {p} : Table(step)' = Table(step)
      BY <3>1, OtherTables DEF Conditioned
    <3>4. p # "aliases" /\ Numbers(WhenOf(p, k))
      BY <2>2
    <3> HIDE DEF S, p
    <3> QED
      BY <3>1, <3>2, <3>3, <3>4, UsesMore
  <2> QED
    BY <1>4, <2>1, <2>2, DeriveSteps
<1>5. CASE Columns
  <2>1. CASE Ends({})
    BY <1>3, <2>1
  <2>2. CASE /\ Goes({"columns", "conds"}) /\ Numbers(WhenOf("columns", k))
             /\ \E e : t'.columns = Append(t.columns, e) /\ e.when = Number(WhenOf("columns", k))
    <3> DEFINE S == {"columns", "conds"}
               p == "columns"
    <3>1. /\ p \in Conditioned /\ pc = p /\ Goes(S) /\ IsASeq(Table(p)) /\ Untouched(S)
          /\ UNCHANGED cfg
      BY <1>5, <2>2, ColumnsSteps, TablesSeqs DEF Conditioned, Goes
    <3>2. \E e : Table(p)' = Append(Table(p), e) /\ e.when = Number(WhenOf(p, k))
      BY <2>2 DEF Table
    <3>3. \A step \in Conditioned \ {p} : Table(step)' = Table(step)
      BY <3>1, OtherTables DEF Conditioned
    <3>4. p # "aliases" /\ Numbers(WhenOf(p, k))
      BY <2>2
    <3> HIDE DEF S, p
    <3> QED
      BY <3>1, <3>2, <3>3, <3>4, UsesMore
  <2> QED
    BY <1>5, <2>1, <2>2, ColumnsSteps
<1>6. CASE SegmentAliases
  <2>1. CASE Ends({})
    BY <1>3, <2>1
  <2>2. CASE Goes({"segAliases"})
    <3> DEFINE S == {"segAliases"}
    <3>1. pc \notin Conditioned /\ S \cap TableFields = {} /\ UNCHANGED condIdx /\ Goes(S)
      BY <1>6, <2>2, SegmentAliasesSteps DEF Conditioned, TableFields
    <3> HIDE DEF S
    <3> QED
      BY <3>1, UsesGo
  <2> QED
    BY <1>6, <2>1, <2>2, SegmentAliasesSteps
<1>7. CASE Rules
  <2>1. CASE Ends({})
    BY <1>3, <2>1
  <2>2. CASE Goes(RuleFields)
    <3>1. pc \notin Conditioned /\ RuleFields \cap TableFields = {} /\ UNCHANGED condIdx
      BY <1>7, RulesSteps DEF Conditioned, TableFields, RuleFields
    <3> QED
      BY <2>2, <3>1, UsesGo
  <2> QED
    BY <1>7, <2>1, <2>2, RulesSteps
<1>8. CASE Sections
  <2>1. CASE /\ Ends({"sections"})
             /\ t'.sections = IF t.sections = <<>> THEN <<WholeRecord>> ELSE t.sections
    <3> DEFINE S == {"sections"}
    <3>1. Ends(S) /\ Untouched(S) /\ UNCHANGED cfg /\ t'.conds = t.conds /\ pc = "sections"
      BY <1>8, <2>1, SectionsSteps DEF Ends, Untouched, Fields
    <3>2. \A step \in Conditioned : step # pc =>
            Table(step)' = Table(step) /\ \A i : NumberOf(step, i)' = NumberOf(step, i)
      BY <3>1, OtherTables DEF Conditioned
    <3>3. \A i \in 1 .. Done("sections") : NumberOf("sections", i)' = NumberOf("sections", i)
      <4>1. CASE t.sections = <<>>
        <5>1. Len(t.sections) = 0 /\ Done("sections") = Len(t.sections)
          BY <3>1, <4>1, Places DEF UsesKept, TablesGrow, Made, Table, Conditioned
        <5> QED
          BY <5>1
      <4>2. CASE t.sections # <<>>
        BY <2>1, <4>2 DEF NumberOf
      <4> QED
        BY <4>1, <4>2
    <3> HIDE DEF S
    <3> QED
      BY <3>1, <3>2, <3>3, UsesEnd
  <2>2. CASE /\ Goes({"sections", "conds"}) /\ Numbers(WhenOf("sections", k))
             /\ \E e : /\ t'.sections = Append(t.sections, e)
                       /\ e.when = Number(WhenOf("sections", k))
                       /\ e.dead = Dropped(cfg.sections[k].from)
    <3> DEFINE S == {"sections", "conds"}
               p == "sections"
    <3>1. /\ p \in Conditioned /\ pc = p /\ Goes(S) /\ IsASeq(Table(p)) /\ Untouched(S)
          /\ UNCHANGED cfg
      BY <1>8, <2>2, SectionsSteps, TablesSeqs DEF Conditioned, Goes
    <3>2. \E e : Table(p)' = Append(Table(p), e) /\ e.when = Number(WhenOf(p, k))
      BY <2>2 DEF Table
    <3>3. \A step \in Conditioned \ {p} : Table(step)' = Table(step)
      BY <3>1, OtherTables DEF Conditioned
    <3>4. p # "aliases" /\ Numbers(WhenOf(p, k))
      BY <2>2
    <3> HIDE DEF S, p
    <3> QED
      BY <3>1, <3>2, <3>3, <3>4, UsesMore
  <2> QED
    BY <1>8, <2>1, <2>2, SectionsSteps
<1>9. CASE Outputs
  <2>1. CASE Ends({"outputs"}) /\ (t.outputs # <<>> => t'.outputs = t.outputs)
    <3> DEFINE S == {"outputs"}
    <3>1. Ends(S) /\ Untouched(S) /\ UNCHANGED cfg /\ t'.conds = t.conds /\ pc = "outputs"
      BY <1>9, <2>1, OutputsSteps DEF Ends, Untouched, Fields
    <3>2. \A step \in Conditioned : step # pc =>
            Table(step)' = Table(step) /\ \A i : NumberOf(step, i)' = NumberOf(step, i)
      BY <3>1, OtherTables DEF Conditioned
    <3>3. \A i \in 1 .. Done("outputs") : NumberOf("outputs", i)' = NumberOf("outputs", i)
      <4>1. CASE t.outputs = <<>>
        <5>1. Len(t.outputs) = 0 /\ Done("outputs") = Len(t.outputs)
          BY <3>1, <4>1, Places DEF UsesKept, TablesGrow, Made, Table, Conditioned
        <5> QED
          BY <5>1
      <4>2. CASE t.outputs # <<>>
        BY <2>1, <4>2 DEF NumberOf
      <4> QED
        BY <4>1, <4>2
    <3> HIDE DEF S
    <3> QED
      BY <3>1, <3>2, <3>3, UsesEnd
  <2>2. CASE /\ Goes({"outputs", "named", "conds"}) /\ Numbers(WhenOf("outputs", k))
             /\ \E e : t'.outputs = Append(t.outputs, e) /\ e.when = Number(WhenOf("outputs", k))
    <3> DEFINE S == {"outputs", "named", "conds"}
               p == "outputs"
    <3>1. /\ p \in Conditioned /\ pc = p /\ Goes(S) /\ IsASeq(Table(p)) /\ Untouched(S)
          /\ UNCHANGED cfg
      BY <1>9, <2>2, OutputsSteps, TablesSeqs DEF Conditioned, Goes
    <3>2. \E e : Table(p)' = Append(Table(p), e) /\ e.when = Number(WhenOf(p, k))
      BY <2>2 DEF Table
    <3>3. \A step \in Conditioned \ {p} : Table(step)' = Table(step)
      BY <3>1, OtherTables DEF Conditioned
    <3>4. p # "aliases" /\ Numbers(WhenOf(p, k))
      BY <2>2
    <3> HIDE DEF S, p
    <3> QED
      BY <3>1, <3>2, <3>3, <3>4, UsesMore
  <2> QED
    BY <1>9, <2>1, <2>2, OutputsSteps
<1>10. CASE Aliases
  <2>1. pc = "aliases" /\ pc \in Conditioned /\ pc \in Looping /\ cfg \in Configs /\ k \in Nat \ {0}
    BY <1>10, AliasesSteps DEF Conditioned, Looping, IInv, Shaped
  <2>2. CASE Ends({"groups"}) /\ t'.groups = WithPlain
    <3> DEFINE S == {"groups"}
    <3>1. Ends(S) /\ Untouched(S) /\ UNCHANGED cfg /\ t'.conds = t.conds /\ pc \in Range(Steps)
      BY <2>2 DEF Ends, Untouched, Fields
    <3>2. \A step \in Conditioned : step # pc =>
            Table(step)' = Table(step) /\ \A i : NumberOf(step, i)' = NumberOf(step, i)
      BY <2>1, <3>1, OtherTables DEF Conditioned
    <3>3. /\ Len(t.groups) \in Nat /\ DOMAIN t.groups = 1 .. Len(t.groups)
          /\ Table("aliases") = t.groups
          /\ \A g \in DOMAIN t.groups : t'.groups[g] = t.groups[g]
      <4>1. IsASeq(t.groups) /\ Table("aliases") = t.groups
        BY DEF IInv, GroupsKept, Table
      <4> QED
        BY <2>2, <4>1, AppendASeq DEF WithPlain, IsASeq
    <3>4. \A i \in 1 .. Done("aliases") : NumberOf("aliases", i)' = NumberOf("aliases", i)
      <4> TAKE i \in 1 .. Done("aliases")
      <4>1. i \in Conditional => GroupOf(i) \in DOMAIN t.groups
        BY <2>1, <3>1, <3>3, NumbersInside
      <4>2. Conditional' = Conditional /\ GroupOf(i)' = GroupOf(i)
        BY <3>1, EntriesStay
      <4> QED
        BY <3>3, <4>1, <4>2 DEF NumberOf
    <3> HIDE DEF S
    <3> QED
      BY <2>1, <3>1, <3>2, <3>4, UsesEnd
  <2>3. CASE /\ Goes({"groups", "conds"}) /\ Numbers(WhenOf("aliases", k))
             /\ k \in Conditional
             /\ t'.groups = Append(t.groups,
                  [when |-> Number(cfg.aliases[k].when), to |-> Joining(cfg.aliases[k], NoTable)])
    <3> DEFINE S == {"groups", "conds"}
               p == "aliases"
    <3>1. /\ p \in Conditioned /\ pc = p /\ Goes(S) /\ IsASeq(Table(p)) /\ Untouched(S)
          /\ UNCHANGED cfg
      BY <2>1, <2>3, TablesSeqs DEF Goes
    <3>2. WhenOf(p, k) = cfg.aliases[k].when /\ WhenOf(p, k) # NoCond
      BY <2>3 DEF WhenOf, Conditional
    <3>3. \E e : Table(p)' = Append(Table(p), e) /\ e.when = Number(WhenOf(p, k))
      BY <2>3, <3>2 DEF Table
    <3>4. \A step \in Conditioned \ {p} : Table(step)' = Table(step)
      BY <3>1, OtherTables DEF Conditioned
    <3>5. Numbers(WhenOf(p, k))
      BY <2>3
    <3> HIDE DEF S, p
    <3> QED
      BY <3>1, <3>2, <3>3, <3>4, <3>5, UsesMore
  <2>4. CASE /\ Goes({}) /\ UNCHANGED <<t, condIdx>>
             /\ k \in DOMAIN cfg.aliases \ Conditional
    <3> DEFINE S == {}
               p == "aliases"
    <3>1. /\ p \in Conditioned /\ pc = p /\ Goes(S) /\ IsASeq(Table(p)) /\ Untouched(S)
          /\ UNCHANGED cfg
      BY <2>1, <2>4, TablesSeqs DEF Goes
    <3>2. WhenOf(p, k) = NoCond
      BY <2>4 DEF WhenOf, Conditional
    <3>3. \A step \in Conditioned : Table(step)' = Table(step)
      BY <3>1, OtherTables DEF Conditioned
    <3>4. Numbers(WhenOf(p, k))
      BY <2>4, <3>2 DEF Numbers, Conds, IsNew
    <3>5. p = "aliases"
      OBVIOUS
    <3> HIDE DEF S, p
    <3> QED
      BY <3>1, <3>2, <3>3, <3>4, <3>5, UsesMore
  <2> QED
    BY <1>10, <2>2, <2>3, <2>4, AliasesSteps
<1> QED
  BY <1>1, <1>2, <1>4, <1>5, <1>6, <1>7, <1>8, <1>9, <1>10 DEF Next

LEMMA StepNamed == Next => pc \in Range(Steps)
BY StepNames DEF Next, Decode, New, Flatten, Input, Derive, Columns, KeyPolicy, KeyFilters,
     SegmentAliases, Aliases, Rules, Sections, Outputs, Expose, Finish

LEMMA UsesInit == Init => UsesKept
<1> SUFFICES ASSUME Init PROVE UsesKept
  OBVIOUS
<1>1. /\ cfg \in Configs /\ pc = "decode" /\ k = 1 /\ condIdx = <<>>
      /\ t.conds = <<>> /\ t.derived = <<>> /\ t.columns = <<>> /\ t.groups = <<>>
      /\ t.sections = <<>> /\ t.outputs = <<>>
  BY DEF Init
<1>2. \A step \in Looping : Place(pc) < Place(step) /\ pc # step
  BY <1>1, Places DEF Looping, Conditioned
<1>3. \A step \in Looping : Done(step) = 0
  <2> TAKE step \in Looping
  <2>1. step \in Range(Steps) /\ pc \in Range(Steps)
    BY <1>1, Counted, StepNames
  <2>2. Place(step) \in Nat /\ Place(pc) \in Nat
    BY <2>1, PlacesDiffer
  <2> QED
    BY <1>2, <2>2 DEF Done
<1>4. Conditioned \subseteq Looping
  BY DEF Looping
<1>5. WithinEntries
  BY <1>1, <1>3, Counted DEF WithinEntries
<1>6. TablesGrow
  <2>1. GroupOf(1) = 1
    BY <1>1, GroupsCounted
  <2>2. \A step \in Conditioned : Made(step) = 0
    BY <1>3, <1>4, <2>1 DEF Made
  <2>3. \A step \in Conditioned : Table(step) = <<>>
    BY <1>1 DEF Table, Conditioned
  <2> QED
    BY <2>2, <2>3 DEF TablesGrow
<1>7. CondsCompiled
  BY <1>1 DEF CondsCompiled
<1>8. CondsUsed
  <2>1. Range(condIdx) = {}
    BY <1>1 DEF Range
  <2>2. \A w : ~Used(w)
    BY <1>3, <1>4 DEF Used
  <2> QED
    BY <2>1, <2>2 DEF CondsUsed
<1>9. EntriesNumbered
  BY <1>3, <1>4 DEF EntriesNumbered
<1> QED
  BY <1>5, <1>6, <1>7, <1>8, <1>9 DEF UsesKept

AreUsesKept == pc # "failed" => UsesKept

LEMMA UsesInvariant == Spec => []AreUsesKept
<1>1. Init => AreUsesKept
  BY UsesInit DEF AreUsesKept
<1>2. ASSUME IInv, AreUsesKept, [Next]_vars PROVE AreUsesKept'
  <2>1. CASE Next
    <3>1. pc # "failed"
      BY <2>1, StepNamed, StepNames
    <3> QED
      BY <1>2, <2>1, <3>1, UsesStep DEF AreUsesKept
  <2>2. CASE UNCHANGED vars
    <3>1. UNCHANGED <<cfg, t, condIdx, pc, k>>
      BY <2>2 DEF vars
    <3>2. /\ \A step : Place(step)' = Place(step) /\ Done(step)' = Done(step)
          /\ \A step : Table(step)' = Table(step) /\ Made(step)' = Made(step)
          /\ \A step, i : NumberOf(step, i)' = NumberOf(step, i)
      BY <3>1, EntriesStay DEF Place, Done, Table, Made, NumberOf
    <3>3. (WithinEntries <=> WithinEntries') /\ (TablesGrow <=> TablesGrow')
      BY <3>1, <3>2, EntriesStay DEF WithinEntries, TablesGrow
    <3>4. CondsCompiled => CondsCompiled'
      BY <3>1, CondStays DEF CondsCompiled
    <3>5. CondsUsed => CondsUsed'
      BY <3>1, <3>2, EntriesStay DEF CondsUsed, Used
    <3>6. EntriesNumbered => EntriesNumbered'
      BY <3>1, <3>2, EntriesStay DEF EntriesNumbered, Numbered
    <3> QED
      BY <1>2, <3>1, <3>3, <3>4, <3>5, <3>6 DEF AreUsesKept, UsesKept
  <2> QED
    BY <1>2, <2>1, <2>2
<1> QED
  BY <1>1, <1>2, Invariance, PTL DEF Spec

LEMMA AllDone ==
  ASSUME cfg \in Configs, pc = "done", NEW step \in Looping
  PROVE  Done(step) = Entries(step) /\ Entries(step) \in Nat
<1>1. step \in Range(Steps) /\ Entries(step) \in Nat
  BY Counted
<1>2. Place(step) < Place(pc)
  BY Places DEF Looping, Conditioned
<1> QED
  BY <1>1, <1>2 DEF Done

(* Each entry that has a condition gets the number of one that is compiled  *)
(* from it, one that has none gets 0, and each condition is compiled once,  *)
(* however many entries share it and in whichever steps (when).             *)
THEOREM CondsAreAsWritten == Spec => []CondsAsWritten
<1>1. ASSUME IInv, AreUsesKept, pc = "done" PROVE CondsAsWritten
  <2> DEFINE places == UNION {{step} \X (1 .. Entries(step)) : step \in Conditioned}
             written == {WhenOf(u[1], u[2]) : u \in places} \ {NoCond}
  <2>1. UsesKept /\ cfg \in Configs
    BY <1>1 DEF AreUsesKept, IInv, Shaped
  <2>2. \A step \in Conditioned : Done(step) = Entries(step)
    BY <1>1, <2>1, AllDone DEF Looping
  <2>3. /\ Len(condIdx) \in Nat /\ DOMAIN condIdx = 1 .. Len(condIdx)
        /\ DOMAIN t.conds = DOMAIN condIdx /\ Len(t.conds) = Len(condIdx)
        /\ IsInjective(condIdx)
    BY <1>1 DEF IInv, CondsKept, IsASeq
  <2>4. ASSUME NEW step \in Conditioned, NEW i \in 1 .. Entries(step)
        PROVE  IF WhenOf(step, i) = NoCond THEN NumberOf(step, i) = 0
               ELSE /\ NumberOf(step, i) # 0
                    /\ t.conds[NumberOf(step, i)] = CompiledCond(WhenOf(step, i))
    <3>1. Numbered(WhenOf(step, i), NumberOf(step, i))
      BY <2>1, <2>2 DEF UsesKept, EntriesNumbered
    <3> QED
      BY <2>1, <2>3, <3>1 DEF Numbered, UsesKept, CondsCompiled
  <2>5. written = Range(condIdx)
    <3>1. \A w : (\E u \in places : w = WhenOf(u[1], u[2])) <=> Used(w)
      <4> TAKE w
      <4>1. ASSUME NEW u \in places, w = WhenOf(u[1], u[2]) PROVE Used(w)
        <5>1. PICK step \in Conditioned : u \in {step} \X (1 .. Entries(step))
          OBVIOUS
        <5>2. u[1] = step /\ u[2] \in 1 .. Entries(step)
          BY <5>1
        <5> QED
          BY <2>2, <4>1, <5>2 DEF Used
      <4>2. ASSUME Used(w) PROVE \E u \in places : w = WhenOf(u[1], u[2])
        <5>1. PICK step \in Conditioned : \E i \in 1 .. Done(step) : w = WhenOf(step, i)
          BY <4>2 DEF Used
        <5>2. PICK i \in 1 .. Entries(step) : w = WhenOf(step, i)
          BY <2>2, <5>1
        <5>3. <<step, i>> \in places
          OBVIOUS
        <5> HIDE DEF places
        <5> QED
          BY <5>2, <5>3
      <4> QED
        BY <4>1, <4>2
    <3> HIDE DEF places
    <3>2. \A w : w \in written <=> w # NoCond /\ Used(w)
      BY <3>1
    <3> HIDE DEF written
    <3> QED
      BY <2>1, <3>2 DEF UsesKept, CondsUsed
  <2>6. Cardinality(Range(condIdx)) = Len(t.conds)
    <3>1. ExistsBijection(1 .. Len(condIdx), Range(condIdx))
      <4>1. condIdx \in [1 .. Len(condIdx) -> Range(condIdx)]
        BY <1>1, <2>3 DEF IInv, CondsKept, IsASeq
      <4>2. condIdx \in Bijection(1 .. Len(condIdx), Range(condIdx))
        BY <2>3, <4>1 DEF Bijection, Injection, Surjection, Range
      <4> QED
        BY <4>2 DEF ExistsBijection
    <3> QED
      BY <2>3, <3>1, FS_CountingElements
  <2> HIDE DEF places
  <2> QED
    BY <2>4, <2>5, <2>6 DEF CondsAsWritten, places
<1>2. IInv /\ AreUsesKept => CondsAsWritten
  BY <1>1 DEF CondsAsWritten
<1> QED
  BY <1>2, Invariance, UsesInvariant, PTL

(* As many groups are made as there were entries with a condition.          *)
LEMMA GroupsAreFew ==
  ASSUME IInv, AreUsesKept, pc = "aliases"
  PROVE  Len(t.groups) < k
<1>1. /\ UsesKept /\ cfg \in Configs /\ k \in Nat \ {0} /\ pc \in Range(Steps)
  BY StepNames DEF AreUsesKept, IInv, Shaped
<1> DEFINE before == {j \in Conditional : j < k}
<1>2. Cardinality(before) \in Nat /\ Cardinality(before) <= k - 1
  <2>1. before \subseteq 1 .. k - 1
    <3>1. Entries("aliases") \in Nat /\ DOMAIN cfg.aliases = 1 .. Entries("aliases")
      BY <1>1, Counted DEF Looping, Conditioned
    <3>2. ASSUME NEW j \in Conditional, j < k PROVE j \in 1 .. k - 1
      <4>1. j \in 1 .. Entries("aliases")
        BY <3>1 DEF Conditional
      <4>2. k \in Int
        BY <1>1
      <4> QED
        BY <3>1, <3>2, <4>1, <4>2
    <3> QED
      BY <3>2
  <2>2. IsFiniteSet(1 .. k - 1) /\ Cardinality(1 .. k - 1) = k - 1
    BY <1>1, FS_Interval
  <2> HIDE DEF before
  <2> QED
    BY <2>1, <2>2, FS_Subset, FS_CardinalityType
<1>3. Len(t.groups) = GroupOf(k - 1 + 1) - 1
  <2>1. Done("aliases") = k - 1
    BY <1>1, Places DEF Done
  <2>2. Len(Table("aliases")) = Made("aliases")
    BY <1>1, Places DEF UsesKept, TablesGrow, Conditioned
  <2> QED
    BY <2>1, <2>2 DEF Table, Made
<1>4. k - 1 + 1 = k /\ GroupOf(k) = Cardinality(before) + 1
  BY <1>1 DEF GroupOf
<1> HIDE DEF before
<1> QED
  BY <1>1, <1>2, <1>3, <1>4

(* Whatever a config says, the compiler goes from step to step of New, has  *)
(* a number for each condition it compiled and a derived value for no more  *)
(* than the names, groups and sections come no faster than entries, and the *)
(* slots of its actions are exactly those that the merges fill (New, when,  *)
(* derive, aliases, sections, addMerge).                                    *)
THEOREM CompileTypeCorrect == Spec => []TypeOK
<1>1. ASSUME IInv, AreUsesKept PROVE TypeOK
  <2>1. pc = "aliases" => Len(t.groups) < k
    BY <1>1, GroupsAreFew
  <2>2. pc = "sections" => Len(t.sections) < k
    BY <1>1 DEF IInv, Shaped, OutputsKept
  <2> QED
    BY <1>1, <2>1, <2>2 DEF IInv, Shaped, CondsKept, DerivedKept, RulesKept, TypeOK
<1> QED
  BY <1>1, Invariance, UsesInvariant, PTL

-----------------------------------------------------------------------------
(* Which keys the groups know: the third invariant.                         *)

GroupsBuilt ==
  \A i \in Conditional : i <= Done("aliases") =>
    t.groups[GroupOf(i)].to = Joining(cfg.aliases[i], NoTable)

InPlain(i) == i \in 1 .. Done("aliases") /\ i \notin Conditional

PlainKeys ==
  \A key : key \in DOMAIN plain <=> \E i : InPlain(i) /\ Lists(cfg.aliases[i], key)

PlainLeads ==
  \A i, key : InPlain(i) /\ Lists(cfg.aliases[i], key) => plain[key] = cfg.aliases[i].to

(* The group without a condition comes after all that have one. *)
PlainLast ==
  Place(pc) > Place("aliases") =>
    /\ Len(t.groups) = Cardinality(Conditional) + (IF plain = NoTable THEN 0 ELSE 1)
    /\ plain # NoTable => t.groups[Cardinality(Conditional) + 1] = [when |-> 0, to |-> plain]

Prefixed ==
  IF cfg.digitPrefix = <<>> THEN NoTable
  ELSE [key \in {x \in Keys : x # <<>> /\ x[1] \in Digits} |-> cfg.digitPrefix \o key]

DigitsKept == Place(pc) > Place("keyPolicy") => t.digit = Prefixed

GroupsFollow == GroupsBuilt /\ PlainKeys /\ PlainLeads /\ PlainLast /\ DigitsKept

LEMMA JoiningIs ==
  ASSUME NEW a, NEW group
  PROVE  /\ \A key : key \in DOMAIN Joining(a, group) <=> Lists(a, key) \/ key \in DOMAIN group
         /\ \A key : Lists(a, key) => Joining(a, group)[key] = a.to
         /\ \A key \in DOMAIN group : ~Lists(a, key) => Joining(a, group)[key] = group[key]
BY DEF Joining, Over, Lists

NonEmpty(segs) == SelectSeq(segs, LAMBDA seg : seg # <<>>)

(* What an alias lists depends on the config, and on whether keys are       *)
(* normalised.                                                              *)
LEMMA FromsSame ==
  ASSUME t'.snake = t.snake, UNCHANGED cfg
  PROVE  /\ \A seg : Snaked(seg)' = Snaked(seg)
         /\ \A i : Froms(cfg.aliases[i])' = Froms(cfg.aliases[i])
<1>1. \A seg : Snaked(seg)' = Snaked(seg)
  BY DEF Snaked
<1>2. Sep' = Sep
  BY DEF Sep
<1>3. \A segs : Joined(segs)' = Joined(segs)
  BY <1>2 DEF Joined
<1>4. ASSUME NEW segs PROVE NormKey(segs)' = NormKey(segs)
  <2> DEFINE norm == [n \in DOMAIN segs |-> Snaked(segs[n])]
             kept == NonEmpty(norm)
  <2>1. norm' = norm
    BY <1>1
  <2>2. NormKey(segs) = IF t.snake THEN Joined(kept) ELSE Joined(norm)
    BY DEF NormKey, NonEmpty
  <2>3. NormKey(segs)' = IF t'.snake THEN Joined(kept)' ELSE Joined(norm)'
    BY DEF NormKey, NonEmpty
  <2> HIDE DEF norm
  <2>4. kept' = kept
    BY <2>1
  <2> HIDE DEF kept
  <2>5. Joined(kept)' = Joined(kept) /\ Joined(norm)' = Joined(norm)
    BY <1>2, <2>1, <2>4 DEF Joined
  <2> QED
    BY <2>2, <2>3, <2>5
<1>5. \A i : Froms(cfg.aliases[i])' = Froms(cfg.aliases[i])
  BY <1>4 DEF Froms
<1> QED
  BY <1>1, <1>5

LEMMA FromsStay ==
  ASSUME t'.snake = t.snake, UNCHANGED cfg
  PROVE  /\ \A i, key : Lists(cfg.aliases[i], key)' <=> Lists(cfg.aliases[i], key)
         /\ \A i : Joining(cfg.aliases[i], NoTable)' = Joining(cfg.aliases[i], NoTable)
<1>1. \A i : Froms(cfg.aliases[i])' = Froms(cfg.aliases[i])
  BY FromsSame
<1>2. NoTable' = NoTable
  BY DEF NoTable
<1>3. \A i, key : Lists(cfg.aliases[i], key)' <=> Lists(cfg.aliases[i], key)
  BY <1>1 DEF Lists
<1>4. \A i : Joining(cfg.aliases[i], NoTable)' = Joining(cfg.aliases[i], NoTable)
  BY <1>1, <1>2 DEF Joining, Over
<1> QED
  BY <1>3, <1>4

(* Before there are aliases. *)
LEMMA NoGroupsYet ==
  ASSUME IInv, UNCHANGED <<cfg, plain>>, Place(pc) < 10, pc \in Range(Steps), NEW S,
         Ends(S) \/ Goes(S)
  PROVE  GroupsBuilt' /\ PlainKeys' /\ PlainLeads' /\ PlainLast'
<1>1. pc' \in Range(Steps) /\ (pc' = "aliases" => k' = 1) /\ Place(pc') <= 10
  BY Places, PlacesDiffer, StepNames DEF Ends, Goes
<1>2. plain = NoTable
  <2>1. pc \in ToAliases \ {"aliases"}
    BY Places, StepNames DEF ToAliases, ToFilters, ToDerive, Opening
  <2> QED
    BY <2>1 DEF IInv, GroupsKept
<1>3. Done("aliases")' = 0
  <2>1. Place("aliases")' = Place("aliases") /\ Place(pc)' = Place(pc')
    BY DEF Place
  <2>2. Place("aliases") = 10 /\ Place(pc') \in Nat
    BY <1>1, Places, PlacesDiffer
  <2> QED
    BY <1>1, <2>1, <2>2 DEF Done
<1>4. \A i : ~InPlain(i)'
  BY <1>3 DEF InPlain
<1>5. PlainKeys' /\ PlainLeads'
  BY <1>2, <1>4 DEF PlainKeys, PlainLeads, NoTable
<1>6. GroupsBuilt'
  <2>1. cfg \in Configs /\ Conditional' = Conditional
    BY EntriesStay DEF IInv, Shaped
  <2>2. Conditional \subseteq 1 .. Entries("aliases")
    BY <2>1, GroupsCounted
  <2>3. Entries("aliases") \in Nat
    BY <2>1, Counted DEF Looping, Conditioned
  <2>4. \A i \in Conditional : ~(i <= 0)
    BY <2>2, <2>3
  <2> QED
    BY <1>3, <2>1, <2>4 DEF GroupsBuilt
<1>7. PlainLast'
  <2>1. Place("aliases")' = Place("aliases") /\ Place(pc)' = Place(pc')
    BY DEF Place
  <2>2. Place("aliases") = 10 /\ Place(pc') \in Nat
    BY <1>1, Places, PlacesDiffer
  <2> QED
    BY <1>1, <2>1, <2>2 DEF PlainLast
<1> QED
  BY <1>5, <1>6, <1>7

(* Once they are compiled. *)
LEMMA GroupsDone ==
  ASSUME IInv, UsesKept, GroupsFollow, NEW S, Ends(S) \/ Goes(S), UNCHANGED plain,
         S \cap {"groups", "snake", "digit"} = {}, pc # "aliases", Place(pc) > 10
  PROVE  GroupsFollow'
<1>1. /\ UNCHANGED cfg /\ pc \in Range(Steps) /\ pc' \in Range(Steps) \cup {"done"}
      /\ Untouched(S) /\ Place(pc') >= Place(pc)
  BY PlacesDiffer DEF Ends, Goes
<1>2. t'.groups = t.groups /\ t'.snake = t.snake /\ t'.digit = t.digit
  BY <1>1 DEF Untouched, Fields
<1>3. Done("aliases")' = Done("aliases")
  <2>1. "aliases" \in Looping
    BY DEF Looping, Conditioned
  <2> QED
    BY <2>1, DoneStays, DoneGoes
<1>4. /\ Conditional' = Conditional /\ \A i : GroupOf(i)' = GroupOf(i)
      /\ \A i, key : Lists(cfg.aliases[i], key)' <=> Lists(cfg.aliases[i], key)
      /\ \A i : Joining(cfg.aliases[i], NoTable)' = Joining(cfg.aliases[i], NoTable)
      /\ \A i : InPlain(i)' <=> InPlain(i)
  BY <1>1, <1>2, <1>3, EntriesStay, FromsStay DEF InPlain
<1>5. /\ Place("aliases") = 10 /\ Place(pc) > 10 /\ Place(pc') > 10
      /\ Place(pc) > Place("keyPolicy")
      /\ \A step : Place(step)' = Place(step)
      /\ Place(pc)' = Place(pc')
  <2>1. Place(pc) \in Nat /\ Place(pc') \in Nat
    BY <1>1, PlacesDiffer
  <2>2. /\ \A step : Place(step)' = Place(step)
        /\ Place(pc)' = Place(pc')
    BY DEF Place
  <2> QED
    BY <1>1, <2>1, <2>2, Places
<1>6. GroupsBuilt'
  BY <1>2, <1>3, <1>4 DEF GroupsFollow, GroupsBuilt
<1>7. PlainKeys'
  BY <1>4 DEF GroupsFollow, PlainKeys
<1>8. PlainLeads'
  BY <1>1, <1>4 DEF GroupsFollow, PlainLeads
<1>9. PlainLast'
  BY <1>2, <1>4, <1>5 DEF GroupsFollow, PlainLast, NoTable
<1>10. DigitsKept'
  <2>1. Prefixed' = Prefixed
    BY <1>1 DEF Prefixed, NoTable
  <2>2. t.digit = Prefixed
    BY <1>5 DEF GroupsFollow, DigitsKept
  <2> QED
    BY <1>2, <2>1, <2>2 DEF DigitsKept
<1> QED
  BY <1>6, <1>7, <1>8, <1>9, <1>10 DEF GroupsFollow

(* The prefixed keys are made with the key policy. *)
LEMMA DigitsStay ==
  ASSUME IInv, DigitsKept, NEW S, Ends(S) \/ Goes(S), "digit" \notin S, pc # "keyPolicy"
  PROVE  DigitsKept'
<1>1. /\ UNCHANGED cfg /\ pc \in Range(Steps) /\ pc' \in Range(Steps) \cup {"done"}
      /\ t'.digit = t.digit /\ (Place(pc') = Place(pc) \/ Place(pc') = Place(pc) + 1)
  BY DEF Ends, Goes, Untouched, Fields
<1>2. Place("keyPolicy")' = Place("keyPolicy") /\ Place(pc)' = Place(pc')
  BY DEF Place
<1>3. Place("keyPolicy") \in Nat /\ Place(pc) \in Nat /\ Place(pc) # Place("keyPolicy")
  BY <1>1, Places, PlacesDiffer, StepNames
<1>4. Prefixed' = Prefixed
  BY <1>1 DEF Prefixed, NoTable
<1>5. Place(pc') > Place("keyPolicy") => Place(pc) > Place("keyPolicy")
  BY <1>1, <1>3
<1> QED
  BY <1>1, <1>2, <1>4, <1>5 DEF DigitsKept

(* An alias with a condition. *)
LEMMA GroupAdded ==
  ASSUME IInv, UsesKept, GroupsFollow, pc = "aliases", Goes({"groups", "conds"}), UNCHANGED plain,
         k \in Conditional, NEW n,
         t'.groups = Append(t.groups, [when |-> n, to |-> Joining(cfg.aliases[k], NoTable)])
  PROVE  GroupsFollow'
<1>1. /\ cfg \in Configs /\ k \in Nat \ {0} /\ IsASeq(t.groups) /\ UNCHANGED cfg
      /\ t'.snake = t.snake /\ pc' = pc /\ pc \in Range(Steps) /\ k' = k + 1
  BY StepNames DEF IInv, Shaped, GroupsKept, Goes, Untouched, Fields
<1>2. Done("aliases") = k - 1 /\ Done("aliases")' = k
  <2>1. "aliases" \in Looping
    BY DEF Looping, Conditioned
  <2>2. Done("aliases") = k - 1
    BY <1>1, <2>1, DoneIs
  <2> QED
    BY <1>1, <2>1, <2>2, DoneGoes
<1>3. Len(t.groups) = GroupOf(k) - 1
  <2>1. "aliases" \in Conditioned /\ Place(pc) = 10 /\ Place("aliases") = 10
    BY Places DEF Conditioned
  <2>2. Len(Table("aliases")) = Made("aliases")
    BY <2>1 DEF UsesKept, TablesGrow
  <2>3. Table("aliases") = t.groups /\ Made("aliases") = GroupOf(k - 1 + 1) - 1
    BY <1>2 DEF Table, Made
  <2>4. k - 1 + 1 = k
    BY <1>1
  <2> QED
    BY <2>2, <2>3, <2>4
<1>4. /\ Conditional' = Conditional /\ \A i : GroupOf(i)' = GroupOf(i)
      /\ \A i, key : Lists(cfg.aliases[i], key)' <=> Lists(cfg.aliases[i], key)
      /\ \A i : Joining(cfg.aliases[i], NoTable)' = Joining(cfg.aliases[i], NoTable)
  BY <1>1, EntriesStay, FromsStay
<1>5. \A i : InPlain(i)' <=> InPlain(i)
  BY <1>1, <1>2, <1>4 DEF InPlain
<1>6. ASSUME NEW i \in Conditional, i <= k
      PROVE  t'.groups[GroupOf(i)].to = Joining(cfg.aliases[i], NoTable)
  <2>1. GroupOf(i) \in Nat \ {0} /\ GroupOf(k) \in Nat \ {0} /\ i \in Nat
    <3>1. Conditional \subseteq 1 .. Entries("aliases") /\ Entries("aliases") \in Nat
      BY <1>1, GroupsCounted, Counted DEF Looping, Conditioned
    <3> QED
      BY <1>1, <3>1, GroupsCounted
  <2>2. /\ Len(t.groups) \in Nat
        /\ t'.groups[Len(t.groups) + 1].to = Joining(cfg.aliases[k], NoTable)
        /\ \A g \in 1 .. Len(t.groups) : t'.groups[g] = t.groups[g]
    BY <1>1 DEF IsASeq
  <2>3. CASE i = k
    BY <1>3, <2>1, <2>2, <2>3
  <2>4. CASE i < k
    <3>1. GroupOf(i) < GroupOf(k) /\ i <= k - 1
      <4>1. \A j \in Conditional, m \in Nat : j < m => GroupOf(j) < GroupOf(m)
        BY <1>1, GroupsCounted
      <4>2. i \in Nat /\ k \in Nat /\ i < k
        BY <1>1, <2>1, <2>4
      <4>3. GroupOf(i) < GroupOf(k)
        BY <4>1, <4>2
      <4> QED
        BY <4>2, <4>3
    <3>2. GroupOf(i) \in 1 .. Len(t.groups)
      BY <1>3, <2>1, <2>2, <3>1
    <3> QED
      BY <1>2, <2>2, <3>1, <3>2 DEF GroupsFollow, GroupsBuilt
  <2>5. i = k \/ i < k
    BY <1>1, <1>6, <2>1
  <2> QED
    BY <2>3, <2>4, <2>5
<1>7. GroupsBuilt'
  BY <1>2, <1>4, <1>6 DEF GroupsBuilt
<1>8. PlainKeys'
  BY <1>4, <1>5 DEF GroupsFollow, PlainKeys
<1>9. PlainLeads'
  BY <1>1, <1>4, <1>5 DEF GroupsFollow, PlainLeads
<1>10. PlainLast'
  <2>1. Place("aliases")' = Place("aliases") /\ Place(pc)' = Place(pc') /\ Place("aliases") = 10
    BY Places DEF Place
  <2> QED
    BY <1>1, <2>1 DEF PlainLast
<1>11. DigitsKept'
  BY <1>1, DigitsStay DEF GroupsFollow
<1> QED
  BY <1>7, <1>8, <1>9, <1>10, <1>11 DEF GroupsFollow

(* An alias without one. *)
LEMMA PlainJoined ==
  ASSUME IInv, UsesKept, GroupsFollow, pc = "aliases", Goes({}), UNCHANGED <<t, condIdx>>,
         k \in DOMAIN cfg.aliases \ Conditional, AliasOK(cfg.aliases[k], plain),
         plain' = Joining(cfg.aliases[k], plain)
  PROVE  GroupsFollow'
<1>1. /\ cfg \in Configs /\ k \in Nat \ {0} /\ UNCHANGED cfg
      /\ t'.groups = t.groups /\ t'.snake = t.snake /\ pc' = pc /\ pc \in Range(Steps)
  BY StepNames DEF IInv, Shaped, Goes
<1>2. Done("aliases") = k - 1 /\ Done("aliases")' = k
  <2>1. "aliases" \in Looping
    BY DEF Looping, Conditioned
  <2>2. Done("aliases") = k - 1
    BY <1>1, <2>1, DoneIs
  <2> QED
    BY <1>1, <2>1, <2>2, DoneGoes
<1>3. Conditional \subseteq Nat
  <2>1. Conditional \subseteq 1 .. Entries("aliases") /\ Entries("aliases") \in Nat
    BY <1>1, GroupsCounted, Counted DEF Looping, Conditioned
  <2> QED
    BY <2>1
<1>4. /\ Conditional' = Conditional /\ \A i : GroupOf(i)' = GroupOf(i)
      /\ \A i, key : Lists(cfg.aliases[i], key)' <=> Lists(cfg.aliases[i], key)
      /\ \A i : Joining(cfg.aliases[i], NoTable)' = Joining(cfg.aliases[i], NoTable)
  BY <1>1, EntriesStay, FromsStay
<1>5. \A i : InPlain(i)' <=> InPlain(i) \/ i = k
  BY <1>1, <1>2, <1>4 DEF InPlain
<1>6. GroupsBuilt'
  <2>1. \A i \in Conditional : i <= k => i <= k - 1
    BY <1>1, <1>3
  <2> QED
    BY <1>1, <1>2, <1>4, <2>1 DEF GroupsFollow, GroupsBuilt
<1>7. \A key : key \in DOMAIN plain' <=> Lists(cfg.aliases[k], key) \/ key \in DOMAIN plain
  BY JoiningIs
<1>8. PlainKeys'
  BY <1>4, <1>5, <1>7 DEF GroupsFollow, PlainKeys
<1>9. PlainLeads'
  <2>1. ASSUME NEW i, NEW key, InPlain(i), Lists(cfg.aliases[i], key)
        PROVE  plain'[key] = cfg.aliases[i].to
    <3>1. key \in DOMAIN plain /\ plain[key] = cfg.aliases[i].to
      BY <2>1 DEF GroupsFollow, PlainKeys, PlainLeads
    <3>2. ~Lists(cfg.aliases[k], key)
      BY <3>1 DEF AliasOK, Lists
    <3> QED
      BY <3>1, <3>2, JoiningIs
  <2>2. \A key : Lists(cfg.aliases[k], key) => plain'[key] = cfg.aliases[k].to
    BY JoiningIs
  <2> QED
    BY <1>1, <1>4, <1>5, <2>1, <2>2 DEF PlainLeads
<1>10. PlainLast'
  <2>1. Place("aliases")' = Place("aliases") /\ Place(pc)' = Place(pc') /\ Place("aliases") = 10
    BY Places DEF Place
  <2> QED
    BY <1>1, <2>1 DEF PlainLast
<1>11. DigitsKept'
  <2> DEFINE S == {}
  <2>1. Goes(S) /\ "digit" \notin S
    OBVIOUS
  <2> HIDE DEF S
  <2> QED
    BY <2>1, DigitsStay DEF GroupsFollow
<1> QED
  BY <1>6, <1>8, <1>9, <1>10, <1>11 DEF GroupsFollow

(* The end of the aliases. *)
LEMMA PlainAdded ==
  ASSUME IInv, UsesKept, GroupsFollow, pc = "aliases", Ends({"groups"}), t'.groups = WithPlain
  PROVE  GroupsFollow'
<1>1. /\ cfg \in Configs /\ k \in Nat \ {0} /\ IsASeq(t.groups) /\ UNCHANGED <<cfg, plain>>
      /\ t'.snake = t.snake /\ Place(pc') = 11 /\ Place("aliases") = 10 /\ pc \in Range(Steps)
      /\ k > Entries("aliases")
  BY Places, StepNames DEF IInv, Shaped, GroupsKept, Ends, Untouched, Fields, Looping, Conditioned
<1>2. Done("aliases") = Entries("aliases") /\ Done("aliases")' = Done("aliases")
  <2>1. "aliases" \in Looping
    BY DEF Looping, Conditioned
  <2>2. Done("aliases") = k - 1 /\ Done("aliases") <= Entries("aliases")
    BY <1>1, <2>1, DoneIs
  <2>3. Entries("aliases") \in Nat
    BY <1>1, <2>1, Counted
  <2> QED
    BY <1>1, <2>1, <2>2, <2>3, DoneStays
<1>3. Len(t.groups) = Cardinality(Conditional) /\ Cardinality(Conditional) \in Nat
  <2>1. "aliases" \in Conditioned /\ Place(pc) = 10 /\ Place("aliases") = 10
    BY Places DEF Conditioned
  <2>2. Len(Table("aliases")) = Made("aliases")
    BY <2>1 DEF UsesKept, TablesGrow
  <2>3. Table("aliases") = t.groups /\ Made("aliases") = GroupOf(Entries("aliases") + 1) - 1
    BY <1>2 DEF Table, Made
  <2>4. GroupOf(Entries("aliases") + 1) = Cardinality(Conditional) + 1
        /\ Cardinality(Conditional) \in Nat
    BY <1>1, GroupsCounted
  <2> QED
    BY <2>2, <2>3, <2>4
<1>4. /\ Conditional' = Conditional /\ \A i : GroupOf(i)' = GroupOf(i)
      /\ \A i, key : Lists(cfg.aliases[i], key)' <=> Lists(cfg.aliases[i], key)
      /\ \A i : Joining(cfg.aliases[i], NoTable)' = Joining(cfg.aliases[i], NoTable)
  BY <1>1, EntriesStay, FromsStay
<1>5. \A i : InPlain(i)' <=> InPlain(i)
  BY <1>2, <1>4 DEF InPlain
<1>6. /\ \A g \in 1 .. Len(t.groups) : t'.groups[g] = t.groups[g]
      /\ plain = NoTable => Len(t'.groups) = Len(t.groups)
      /\ plain # NoTable => /\ Len(t'.groups) = Len(t.groups) + 1
                            /\ t'.groups[Len(t.groups) + 1] = [when |-> 0, to |-> plain]
  BY <1>1 DEF WithPlain, IsASeq
<1>7. GroupsBuilt'
  <2>1. ASSUME NEW i \in Conditional PROVE GroupOf(i) \in 1 .. Len(t.groups)
    <3>1. i \in Nat /\ Entries("aliases") + 1 \in Nat /\ i < Entries("aliases") + 1
      <4>1. Conditional \subseteq 1 .. Entries("aliases") /\ Entries("aliases") \in Nat
        BY <1>1, GroupsCounted, Counted DEF Looping, Conditioned
      <4> QED
        BY <4>1
    <3>2. GroupOf(i) < GroupOf(Entries("aliases") + 1) /\ GroupOf(i) \in Nat \ {0}
      BY <1>1, <3>1, GroupsCounted
    <3>3. GroupOf(Entries("aliases") + 1) = Cardinality(Conditional) + 1
      BY <1>1, GroupsCounted
    <3> QED
      BY <1>3, <3>2, <3>3
  <2> QED
    BY <1>2, <1>4, <1>6, <2>1 DEF GroupsFollow, GroupsBuilt
<1>8. PlainKeys'
  BY <1>1, <1>4, <1>5 DEF GroupsFollow, PlainKeys
<1>9. PlainLeads'
  BY <1>1, <1>4, <1>5 DEF GroupsFollow, PlainLeads
<1>10. PlainLast'
  <2>1. NoTable' = NoTable
    BY DEF NoTable
  <2>2. /\ plain = NoTable => Len(t'.groups) = Cardinality(Conditional)
        /\ plain # NoTable => /\ Len(t'.groups) = Cardinality(Conditional) + 1
                              /\ t'.groups[Cardinality(Conditional) + 1] =
                                   [when |-> 0, to |-> plain]
    BY <1>3, <1>6
  <2>3. Cardinality(Conditional) + 0 = Cardinality(Conditional)
    BY <1>3
  <2> QED
    BY <1>1, <1>4, <2>1, <2>2, <2>3 DEF PlainLast
<1>11. DigitsKept'
  BY <1>1, DigitsStay DEF GroupsFollow
<1> QED
  BY <1>7, <1>8, <1>9, <1>10, <1>11 DEF GroupsFollow

(* The steps that leave keys alone. *)
KeyFields == {"groups", "snake", "digit"}

(* The fields of t that a step may change. *)
FieldsOf(step) ==
  CASE step = "derive"         -> {"derived", "conds"}
    [] step = "columns"        -> {"columns", "conds"}
    [] step = "keyPolicy"      -> {"snake", "digit", "collision"}
    [] step = "segmentAliases" -> {"segAliases"}
    [] step = "aliases"        -> {"groups", "conds"}
    [] step = "rules"          -> RuleFields
    [] step = "sections"       -> {"sections", "conds"}
    [] step = "outputs"        -> {"outputs", "named", "conds"}
    [] OTHER -> {"keep", "drop", "rest", "expose"}

LEMMA StepsTouch ==
  ASSUME IInv, Next, pc' # "failed"
  PROVE  /\ pc # "aliases" => UNCHANGED plain
         /\ \E S : (Ends(S) \/ Goes(S)) /\ S \subseteq FieldsOf(pc)
<1> DEFINE Touches == /\ pc # "aliases" => UNCHANGED plain
                      /\ \E S : (Ends(S) \/ Goes(S)) /\ S \subseteq FieldsOf(pc)
<1> SUFFICES Touches
  OBVIOUS
<1>1. ASSUME NEW S, S \subseteq FieldsOf(pc),
             Ends(S) \/ (Goes(S) /\ (pc # "aliases" => UNCHANGED plain))
      PROVE  Touches
  BY <1>1 DEF Ends
<1>2. ASSUME Ends({}) PROVE Touches
  <2> DEFINE S == {}
  <2>1. Ends(S) /\ S \subseteq FieldsOf(pc)
    BY <1>2
  <2> HIDE DEF S
  <2> QED
    BY <1>1, <2>1
<1> HIDE DEF Touches
<1>3. CASE Decode \/ New \/ Flatten \/ Input \/ KeyFilters \/ Expose \/ Finish
  <2> DEFINE S == {"keep", "drop", "rest", "expose"}
  <2>1. Ends(S)
    BY <1>3, PlainSteps
  <2>2. S \subseteq FieldsOf(pc)
    BY <1>3 DEF FieldsOf, Decode, New, Flatten, Input, KeyFilters, Expose, Finish
  <2> HIDE DEF S
  <2> QED
    BY <1>1, <2>1, <2>2
<1>4. CASE KeyPolicy
  <2> DEFINE S == {"snake", "digit", "collision"}
  <2>1. Ends(S) /\ S \subseteq FieldsOf(pc)
    BY <1>4, KeyPolicyEnds DEF FieldsOf
  <2> HIDE DEF S
  <2> QED
    BY <1>1, <2>1
<1>5. CASE Derive
  <2> DEFINE S == {"derived", "conds"}
  <2>1. S \subseteq FieldsOf(pc) /\ (Ends({}) \/ (Goes(S) /\ UNCHANGED plain))
    BY <1>5, DeriveSteps DEF FieldsOf
  <2> HIDE DEF S
  <2> QED
    BY <1>1, <1>2, <2>1
<1>6. CASE Columns
  <2> DEFINE S == {"columns", "conds"}
  <2>1. S \subseteq FieldsOf(pc) /\ (Ends({}) \/ (Goes(S) /\ UNCHANGED plain))
    BY <1>6, ColumnsSteps DEF FieldsOf
  <2> HIDE DEF S
  <2> QED
    BY <1>1, <1>2, <2>1
<1>7. CASE SegmentAliases
  <2> DEFINE S == {"segAliases"}
  <2>1. S \subseteq FieldsOf(pc) /\ (Ends({}) \/ (Goes(S) /\ UNCHANGED plain))
    BY <1>7, SegmentAliasesSteps DEF FieldsOf
  <2> HIDE DEF S
  <2> QED
    BY <1>1, <1>2, <2>1
<1>8. CASE Aliases
  <2> DEFINE S == {"groups"}
             R == {"groups", "conds"}
             Q == {}
  <2>1. /\ pc = "aliases" /\ S \subseteq FieldsOf(pc) /\ R \subseteq FieldsOf(pc)
        /\ Q \subseteq FieldsOf(pc)
        /\ Ends(S) \/ Goes(R) \/ Goes(Q)
    BY <1>8, AliasesSteps DEF FieldsOf
  <2> HIDE DEF S, R, Q
  <2> QED
    BY <1>1, <2>1
<1>9. CASE Rules
  <2>1. RuleFields \subseteq FieldsOf(pc) /\ (Ends({}) \/ (Goes(RuleFields) /\ UNCHANGED plain))
    BY <1>9, RulesSteps DEF FieldsOf
  <2> QED
    BY <1>1, <1>2, <2>1
<1>10. CASE Sections
  <2> DEFINE S == {"sections"}
             R == {"sections", "conds"}
  <2>1. /\ S \subseteq FieldsOf(pc) /\ R \subseteq FieldsOf(pc)
        /\ Ends(S) \/ (Goes(R) /\ UNCHANGED plain)
    BY <1>10, SectionsSteps DEF FieldsOf
  <2> HIDE DEF S, R
  <2> QED
    BY <1>1, <2>1
<1>11. CASE Outputs
  <2> DEFINE S == {"outputs"}
             R == {"outputs", "named", "conds"}
  <2>1. /\ S \subseteq FieldsOf(pc) /\ R \subseteq FieldsOf(pc)
        /\ Ends(S) \/ (Goes(R) /\ UNCHANGED plain)
    BY <1>11, OutputsSteps DEF FieldsOf
  <2> HIDE DEF S, R
  <2> QED
    BY <1>1, <2>1
<1> QED
  BY <1>3, <1>4, <1>5, <1>6, <1>7, <1>8, <1>9, <1>10, <1>11 DEF Next

LEMMA GroupsStep ==
  ASSUME IInv, UsesKept, GroupsFollow, Next, pc' # "failed"
  PROVE  GroupsFollow'
<1>1. CASE pc = "keyPolicy"
  <2> DEFINE S == {"snake", "digit", "collision"}
  <2>1. KeyPolicy
    BY <1>1 DEF Next, Decode, New, Flatten, Input, Derive, Columns, KeyFilters, SegmentAliases,
                Aliases, Rules, Sections, Outputs, Expose, Finish
  <2>2. Ends(S)
    BY <2>1, KeyPolicyEnds
  <2> HIDE DEF S
  <2>3. pc \in Range(Steps) /\ Place(pc) < 10 /\ UNCHANGED <<cfg, plain>>
    BY <1>1, <2>2, Places, StepNames DEF Ends
  <2>4. GroupsBuilt' /\ PlainKeys' /\ PlainLeads' /\ PlainLast'
    BY <2>2, <2>3, NoGroupsYet
  <2>5. Prefixed' = Prefixed
    BY <2>3 DEF Prefixed, NoTable
  <2>6. t'.digit = Prefixed
    BY <2>1, KeyPolicyEnds DEF Prefixed
  <2> QED
    BY <2>4, <2>5, <2>6 DEF GroupsFollow, DigitsKept
<1>2. CASE pc = "aliases"
  <2>1. Aliases
    BY <1>2 DEF Next, Decode, New, Flatten, Input, Derive, Columns, KeyPolicy, KeyFilters,
                SegmentAliases, Rules, Sections, Outputs, Expose, Finish
  <2> QED
    BY <1>2, <2>1, AliasesSteps, GroupAdded, PlainJoined, PlainAdded
<1>3. CASE pc \notin {"keyPolicy", "aliases"}
  <2>1. PICK S : (Ends(S) \/ Goes(S)) /\ S \subseteq FieldsOf(pc)
    BY StepsTouch
  <2>2. UNCHANGED <<cfg, plain>> /\ pc \in Range(Steps)
    BY <1>3, <2>1, StepsTouch DEF Ends, Goes
  <2>3. S \cap KeyFields = {} /\ "digit" \notin S /\ S \cap {"groups", "snake", "digit"} = {}
    BY <1>3, <2>1, <2>2, StepNames DEF KeyFields, FieldsOf, RuleFields
  <2>4. CASE Place(pc) > 10
    BY <1>3, <2>1, <2>2, <2>3, <2>4, GroupsDone
  <2>5. CASE Place(pc) < 10
    <3>1. GroupsBuilt' /\ PlainKeys' /\ PlainLeads' /\ PlainLast'
      BY <2>1, <2>2, <2>3, <2>5, NoGroupsYet
    <3>2. DigitsKept'
      BY <1>3, <2>1, <2>2, <2>3, DigitsStay DEF GroupsFollow
    <3> QED
      BY <3>1, <3>2 DEF GroupsFollow
  <2>6. Place(pc) \in Nat /\ Place(pc) # 10
    BY <1>3, <2>2, Places, PlacesDiffer, StepNames
  <2> QED
    BY <2>4, <2>5, <2>6
<1> QED
  BY <1>1, <1>2, <1>3

AreGroupsKept == pc # "failed" => GroupsFollow

LEMMA GroupsInvariant == Spec => []AreGroupsKept
<1>1. Init => AreGroupsKept
  <2> SUFFICES ASSUME Init PROVE GroupsFollow
    BY DEF AreGroupsKept
  <2>1. cfg \in Configs /\ pc = "decode" /\ k = 1 /\ plain = NoTable
    BY DEF Init
  <2>2. Place(pc) = 1 /\ Place("aliases") = 10 /\ Place("keyPolicy") = 7
    BY <2>1, Places
  <2>3. Done("aliases") = 0
    BY <2>1, <2>2 DEF Done
  <2>4. \A i \in Conditional : ~(i <= 0)
    <3>1. Conditional \subseteq 1 .. Entries("aliases") /\ Entries("aliases") \in Nat
      BY <2>1, GroupsCounted, Counted DEF Looping, Conditioned
    <3> QED
      BY <3>1
  <2>5. \A i : ~InPlain(i)
    BY <2>3 DEF InPlain
  <2>6. GroupsBuilt
    BY <2>3, <2>4 DEF GroupsBuilt
  <2>7. PlainKeys /\ PlainLeads
    BY <2>1, <2>5 DEF PlainKeys, PlainLeads, NoTable
  <2>8. PlainLast /\ DigitsKept
    BY <2>2 DEF PlainLast, DigitsKept
  <2> QED
    BY <2>6, <2>7, <2>8 DEF GroupsFollow
<1>2. ASSUME IInv, AreUsesKept, AreGroupsKept, [Next]_vars PROVE AreGroupsKept'
  <2>1. CASE Next
    <3>1. pc # "failed"
      BY <2>1, StepNamed, StepNames
    <3> QED
      BY <1>2, <2>1, <3>1, GroupsStep DEF AreUsesKept, AreGroupsKept
  <2>2. CASE UNCHANGED vars
    <3>1. UNCHANGED <<cfg, t, plain, pc, k>> /\ t'.snake = t.snake
      BY <2>2 DEF vars
    <3>2. /\ \A step : Place(step)' = Place(step) /\ Done(step)' = Done(step)
          /\ Place(pc)' = Place(pc)
          /\ Conditional' = Conditional /\ \A i : GroupOf(i)' = GroupOf(i)
          /\ \A i, key : Lists(cfg.aliases[i], key)' <=> Lists(cfg.aliases[i], key)
          /\ \A i : Joining(cfg.aliases[i], NoTable)' = Joining(cfg.aliases[i], NoTable)
          /\ NoTable' = NoTable
      BY <3>1, EntriesStay, FromsStay DEF Place, Done, NoTable
    <3>3. \A i : InPlain(i)' <=> InPlain(i)
      BY <3>2 DEF InPlain
    <3>4. GroupsBuilt => GroupsBuilt'
      BY <3>1, <3>2 DEF GroupsBuilt
    <3>5. (PlainKeys => PlainKeys') /\ (PlainLeads => PlainLeads')
      BY <3>1, <3>2, <3>3 DEF PlainKeys, PlainLeads
    <3>6. PlainLast => PlainLast'
      BY <3>1, <3>2 DEF PlainLast
    <3>7. DigitsKept => DigitsKept'
      BY <3>1, <3>2 DEF DigitsKept, Prefixed
    <3> QED
      BY <1>2, <3>1, <3>4, <3>5, <3>6, <3>7 DEF AreGroupsKept, GroupsFollow
  <2> QED
    BY <1>2, <2>1, <2>2
<1> QED
  BY <1>1, <1>2, Invariance, UsesInvariant, PTL DEF Spec

LEMMA LeastIs ==
  ASSUME NEW T, T \subseteq Nat, T # {}
  PROVE  Min(T) \in T /\ \A n \in T : Min(T) <= n
<1>1. PICK m \in T : \A n \in T : m <= n
  BY LeastNumber
<1> QED
  BY <1>1 DEF Min

(* Which key replaces another once all aliases are compiled; holds are the  *)
(* conditions that hold.                                                    *)
On(holds) ==
  [g \in DOMAIN t.groups |-> t.groups[g].when = 0 \/ t.conds[t.groups[g].when] \in holds]

First(holds, key) ==
  {i \in Conditional : CompiledCond(cfg.aliases[i].when) \in holds /\ Lists(cfg.aliases[i], key)}

Second(key) == {i \in DOMAIN cfg.aliases \ Conditional : Lists(cfg.aliases[i], key)}

Final(holds, key) ==
  IF First(holds, key) # {} THEN cfg.aliases[Min(First(holds, key))].to
  ELSE IF Second(key) # {} THEN cfg.aliases[Min(Second(key))].to ELSE key

LEMMA KeyFixed ==
  ASSUME IInv, UsesKept, GroupsFollow, CondsAsWritten, pc = "done", NEW holds, NEW key
  PROVE  FixedKey(t, On(holds), key) =
           IF Final(holds, key) \in DOMAIN t.digit THEN t.digit[Final(holds, key)]
           ELSE Final(holds, key)
<1> DEFINE n == Cardinality(Conditional)
           on == On(holds)
           first == First(holds, key)
           second == Second(key)
           hits == {g \in DOMAIN t.groups : on[g] /\ key \in DOMAIN t.groups[g].to}
           aliased == IF hits = {} THEN key
                      ELSE t.groups[CHOOSE g \in hits : \A x \in hits : g <= x].to[key]
<1>1. /\ cfg \in Configs /\ DOMAIN cfg.aliases = 1 .. Entries("aliases")
      /\ Entries("aliases") \in Nat
      /\ Done("aliases") = Entries("aliases") /\ "aliases" \in Conditioned
      /\ DOMAIN t.groups = 1 .. Len(t.groups)
  BY Counted, AllDone DEF IInv, Shaped, GroupsKept, Looping, Conditioned, IsASeq
<1>2. /\ Conditional \subseteq 1 .. Entries("aliases") /\ n \in Nat
      /\ \A i \in Conditional : GroupOf(i) \in 1 .. n
      /\ \A i, j \in Conditional : i <= j => GroupOf(i) <= GroupOf(j)
      /\ \A g \in 1 .. n : \E i \in Conditional : GroupOf(i) = g
  <2>1. /\ Conditional \subseteq 1 .. Entries("aliases") /\ n \in Nat
        /\ GroupOf(Entries("aliases") + 1) = n + 1
        /\ \A g \in 1 .. n : \E i \in Conditional : GroupOf(i) = g
        /\ \A i \in Nat : GroupOf(i) \in Nat \ {0}
        /\ \A i \in Conditional, m \in Nat : i < m => GroupOf(i) < GroupOf(m)
    BY <1>1, GroupsCounted
  <2>2. \A i \in Conditional : i \in Nat /\ i < Entries("aliases") + 1
    BY <1>1, <2>1
  <2>3. Entries("aliases") + 1 \in Nat
    BY <1>1
  <2> HIDE DEF n
  <2>4. \A i \in Conditional : GroupOf(i) \in 1 .. n
    BY <2>1, <2>2, <2>3
  <2>5. ASSUME NEW i \in Conditional, NEW j \in Conditional, i <= j PROVE GroupOf(i) <= GroupOf(j)
    <3>1. GroupOf(i) \in Nat /\ GroupOf(j) \in Nat /\ i \in Nat /\ j \in Nat
      BY <2>1, <2>2
    <3>2. i = j \/ i < j
      BY <2>5, <3>1
    <3> QED
      BY <2>1, <3>1, <3>2
  <2> QED
    BY <2>1, <2>4, <2>5
<1>3. /\ Len(t.groups) = n + (IF plain = NoTable THEN 0 ELSE 1)
      /\ plain # NoTable => t.groups[n + 1] = [when |-> 0, to |-> plain]
  <2>1. Place(pc) > Place("aliases")
    BY Places
  <2> QED
    BY <2>1 DEF GroupsFollow, PlainLast
<1>11. \A g \in DOMAIN t.groups :
        on[g] <=> t.groups[g].when = 0 \/ t.conds[t.groups[g].when] \in holds
  BY DEF On
<1>12. \A i : i \in first <=> /\ i \in Conditional /\ Lists(cfg.aliases[i], key)
                               /\ CompiledCond(cfg.aliases[i].when) \in holds
  BY DEF First
<1>13. \A i : i \in second <=> i \in DOMAIN cfg.aliases \ Conditional /\ Lists(cfg.aliases[i], key)
  BY DEF Second
<1> HIDE DEF on, first, second
<1>4. ASSUME NEW i \in Conditional
      PROVE  /\ GroupOf(i) \in DOMAIN t.groups
             /\ on[GroupOf(i)] <=> CompiledCond(cfg.aliases[i].when) \in holds
             /\ key \in DOMAIN t.groups[GroupOf(i)].to <=> Lists(cfg.aliases[i], key)
             /\ Lists(cfg.aliases[i], key) => t.groups[GroupOf(i)].to[key] = cfg.aliases[i].to
  <2>1. GroupOf(i) \in DOMAIN t.groups
    BY <1>1, <1>2, <1>3
  <2>2. /\ WhenOf("aliases", i) = cfg.aliases[i].when
        /\ NumberOf("aliases", i) = t.groups[GroupOf(i)].when
    BY DEF WhenOf, NumberOf
  <2>3. /\ t.groups[GroupOf(i)].when # 0
        /\ t.conds[t.groups[GroupOf(i)].when] = CompiledCond(cfg.aliases[i].when)
    <3>1. i \in 1 .. Entries("aliases") /\ cfg.aliases[i].when # NoCond
      BY <1>2 DEF Conditional
    <3> QED
      BY <1>1, <2>2, <3>1 DEF CondsAsWritten
  <2>4. t.groups[GroupOf(i)].to = Joining(cfg.aliases[i], NoTable)
    BY <1>1, <1>2 DEF GroupsFollow, GroupsBuilt
  <2>5. key \in DOMAIN Joining(cfg.aliases[i], NoTable) <=> Lists(cfg.aliases[i], key)
    BY JoiningIs DEF NoTable
  <2>6. on[GroupOf(i)] <=> CompiledCond(cfg.aliases[i].when) \in holds
    BY <1>11, <2>1, <2>3
  <2>7. Lists(cfg.aliases[i], key) => Joining(cfg.aliases[i], NoTable)[key] = cfg.aliases[i].to
    BY JoiningIs
  <2> QED
    BY <2>1, <2>4, <2>5, <2>6, <2>7
<1>5. n + 1 \in hits <=> second # {}
  <2>1. second # {} <=> key \in DOMAIN plain
    BY <1>1, <1>13 DEF GroupsFollow, PlainKeys, InPlain
  <2>2. CASE plain = NoTable
    <3>1. key \notin DOMAIN plain
      BY <2>2 DEF NoTable
    <3>2. n + 1 \notin DOMAIN t.groups
      BY <1>1, <1>2, <1>3, <2>2
    <3> QED
      BY <2>1, <3>1, <3>2
  <2>3. CASE plain # NoTable
    <3>1. n + 1 \in DOMAIN t.groups /\ t.groups[n + 1] = [when |-> 0, to |-> plain]
      BY <1>1, <1>2, <1>3, <2>3
    <3>2. on[n + 1] /\ t.groups[n + 1].to = plain
      BY <1>11, <3>1
    <3> QED
      BY <2>1, <3>1, <3>2
  <2> QED
    BY <2>2, <2>3
<1>6. \A i \in Conditional : GroupOf(i) \in hits <=> i \in first
  BY <1>4, <1>12
<1>7. ASSUME NEW g \in hits PROVE g = n + 1 \/ \E i \in first : GroupOf(i) = g
  <2>1. g \in 1 .. n + 1
    BY <1>1, <1>2, <1>3
  <2>2. CASE g \in 1 .. n
    BY <1>2, <1>6, <1>12, <2>2
  <2> QED
    BY <1>2, <2>1, <2>2
<1>8. hits \subseteq Nat
  BY <1>1, <1>2, <1>3
<1>9. aliased = Final(holds, key)
  <2> HIDE DEF hits, n
  <2>1. CASE first # {}
    <3>1. first \subseteq Nat /\ first \subseteq Conditional
      <4>1. first \subseteq Conditional
        BY <1>12
      <4>2. Conditional \subseteq Nat
        BY <1>1, <1>2
      <4> QED
        BY <4>1, <4>2
    <3>2. PICK m \in first : m = Min(first) /\ \A i \in first : m <= i
      BY <2>1, <3>1, LeastIs
    <3>3. GroupOf(m) \in hits /\ GroupOf(m) \in 1 .. n
      BY <1>2, <1>6, <3>1
    <3>4. \A g \in hits : GroupOf(m) <= g
      BY <1>2, <1>7, <3>1, <3>2, <3>3
    <3>5. \A g \in hits : (\A x \in hits : g <= x) => g = GroupOf(m)
      BY <1>8, <3>3, <3>4
    <3>6. aliased = t.groups[GroupOf(m)].to[key]
      BY <3>3, <3>4, <3>5
    <3>7. t.groups[GroupOf(m)].to[key] = cfg.aliases[m].to
      BY <1>4, <1>12, <3>1
    <3> QED
      BY <2>1, <3>2, <3>6, <3>7 DEF Final, first
  <2>2. CASE first = {} /\ second # {}
    <3>1. hits = {n + 1}
      BY <1>5, <1>7, <2>2
    <3>2. aliased = t.groups[n + 1].to[key]
      BY <1>2, <3>1
    <3>3. plain # NoTable
      <4>1. key \in DOMAIN plain
        BY <1>1, <1>13, <2>2 DEF GroupsFollow, PlainKeys, InPlain
      <4> QED
        BY <4>1 DEF NoTable
    <3>4. second \subseteq Nat
      BY <1>1, <1>13
    <3>5. PICK m \in second : m = Min(second)
      BY <2>2, <3>4, LeastIs
    <3>6. plain[key] = cfg.aliases[m].to
      BY <1>1, <1>13 DEF GroupsFollow, PlainLeads, InPlain
    <3> QED
      BY <1>3, <2>2, <3>2, <3>3, <3>5, <3>6 DEF Final, first, second
  <2>3. CASE first = {} /\ second = {}
    <3>1. hits = {}
      BY <1>5, <1>7, <2>3
    <3> QED
      BY <2>3, <3>1 DEF Final, first, second
  <2> QED
    BY <2>1, <2>2, <2>3
<1>10. FixedKey(t, On(holds), key) =
         IF aliased \in DOMAIN t.digit THEN t.digit[aliased] ELSE aliased
  BY DEF FixedKey, on, hits
<1> HIDE DEF aliased
<1> QED
  BY <1>9, <1>10

(* Whatever conditions hold, a key is replaced by the first alias of the    *)
(* config that lists it and whose condition holds, then by one that has     *)
(* none, and is then prefixed (aliases, fixKey).                            *)
THEOREM AliasesAreAsWritten == Spec => []AliasesAsWritten
<1>1. ASSUME IInv, UsesKept, GroupsFollow, CondsAsWritten, pc = "done", NEW holds, NEW key \in Keys
      PROVE  LET final == Final(holds, key)
             IN  FixedKey(t, On(holds), key) =
                   IF final # <<>> /\ final[1] \in Digits THEN cfg.digitPrefix \o final ELSE final
  <2> DEFINE final == Final(holds, key)
             first == First(holds, key)
             second == Second(key)
  <2>1. FixedKey(t, On(holds), key) = IF final \in DOMAIN t.digit THEN t.digit[final] ELSE final
    BY <1>1, KeyFixed
  <2>2. final \in Keys \cup {<<>>}
    <3>1. /\ cfg \in Configs /\ DOMAIN cfg.aliases = 1 .. Entries("aliases")
          /\ Entries("aliases") \in Nat
      BY <1>1, Counted DEF IInv, Shaped, Looping, Conditioned
    <3>2. \A i \in DOMAIN cfg.aliases : cfg.aliases[i].to \in Keys \cup {<<>>}
      BY <3>1, ConfigsAssumption DEF IsConfig
    <3>3. first \subseteq DOMAIN cfg.aliases /\ second \subseteq DOMAIN cfg.aliases
      BY DEF Conditional, First, Second
    <3>4. DOMAIN cfg.aliases \subseteq Nat
      BY <3>1
    <3>5. final = IF first # {} THEN cfg.aliases[Min(first)].to
                  ELSE IF second # {} THEN cfg.aliases[Min(second)].to ELSE key
      BY DEF Final
    <3> HIDE DEF first, second, final
    <3>6. first # {} => Min(first) \in first
      BY <3>3, <3>4, LeastIs
    <3>7. second # {} => Min(second) \in second
      BY <3>3, <3>4, LeastIs
    <3> QED
      BY <1>1, <3>2, <3>3, <3>5, <3>6, <3>7
  <2> HIDE DEF final
  <2>3. t.digit = Prefixed
    <3>1. Place(pc) > Place("keyPolicy")
      BY <1>1, Places
    <3> QED
      BY <1>1, <3>1 DEF GroupsFollow, DigitsKept
  <2>4. CASE cfg.digitPrefix = <<>>
    <3>1. DOMAIN t.digit = {}
      BY <2>3, <2>4 DEF Prefixed, NoTable
    <3>2. final \in Seq(Range(final))
      <4>1. <<>> \in Seq(Range(<<>>))
        OBVIOUS
      <4> QED
        BY <2>2, <4>1, ConfigsAssumption DEF IsASeq
    <3>3. <<>> \o final = final
      BY <3>2
    <3> QED
      BY <2>1, <2>4, <3>1, <3>3 DEF final
  <2>5. CASE cfg.digitPrefix # <<>>
    <3>1. t.digit = [x \in {x \in Keys : x # <<>> /\ x[1] \in Digits} |-> cfg.digitPrefix \o x]
      BY <2>3, <2>5 DEF Prefixed
    <3>2. final \in DOMAIN t.digit <=> final # <<>> /\ final[1] \in Digits
      BY <2>2, <3>1
    <3> QED
      BY <2>1, <3>1, <3>2 DEF final
  <2> QED
    BY <2>4, <2>5
<1>2. IInv /\ AreUsesKept /\ AreGroupsKept /\ CondsAsWritten => AliasesAsWritten
  BY <1>1 DEF AliasesAsWritten, AreUsesKept, AreGroupsKept, Final, First, Second, On
<1> QED
  BY <1>2, Invariance, UsesInvariant, GroupsInvariant, CondsAreAsWritten, PTL

-----------------------------------------------------------------------------
(* What the rules have asked of each path: the fourth invariant.            *)

Ruled(i, op) == i \in RulesOf(op) /\ i <= Done("rules")
PathOf(s) == cfg.rules[s[1]].from[s[2]]

Drops(i, path) == Ruled(i, "drop") /\ cfg.rules[i].path = path
Renames(i, path) == Ruled(i, "rename") /\ cfg.rules[i].from = <<path>>
Merges(s, path) == s \in MergeSources /\ s[1] <= Done("rules") /\ PathOf(s) = path

DropsKept == \A path : ActionOf(path).drop <=> \E i : Drops(i, path)

RenamesKept ==
  \A path :
    /\ \A i : Renames(i, path) => ActionOf(path).renameTo = cfg.rules[i].to
    /\ ActionOf(path).renameTo # NoPath => \E i : Renames(i, path)

SlotsKept ==
  \A path, x :
    x \in ActionOf(path).slots <=> \E s : Merges(s, path) /\ x = SlotOf(s[1], s[2])

ConsumesKept ==
  \A path :
    ActionOf(path).consume <=> \E s : Merges(s, path) /\ ~cfg.rules[s[1]].keepSources

PathsNamed ==
  \A path :
    path \in DOMAIN t.actions <=>
      (\E i : Drops(i, path) \/ Renames(i, path)) \/ (\E s : Merges(s, path))

PathsRight ==
  /\ \A i : Ruled(i, "drop") => cfg.rules[i].path # <<>>
  /\ \A i : Ruled(i, "rename") => cfg.rules[i].from = <<cfg.rules[i].from[1]>>

Filling(n) == {s \in MergeSources : s[1] < n}

MergesKept ==
  /\ IsFiniteSet(Filling(Done("rules") + 1))
  /\ t.nslots = Cardinality(Filling(Done("rules") + 1))
  /\ IsASeq(t.merges) /\ Len(t.merges) = MergeOf(Done("rules") + 1) - 1
  /\ \A i : Ruled(i, "merge") =>
       t.merges[MergeOf(i)].slots = [p \in DOMAIN cfg.rules[i].from |-> SlotOf(i, p)]

SectionsDead ==
  \A s \in 1 .. Done("sections") :
    t.sections[s].dead <=>
      \E i \in RulesOf("drop") : IsPrefix(cfg.rules[i].path, cfg.sections[s].from)

ActionsFollow ==
  DropsKept /\ RenamesKept /\ SlotsKept /\ ConsumesKept /\ PathsNamed /\ PathsRight /\ MergesKept

RulesFollow == ActionsFollow /\ SectionsDead

LEMMA SourceIs ==
  ASSUME cfg \in Configs
  PROVE  /\ DOMAIN cfg.rules \subseteq Nat \ {0}
         /\ \A op : RulesOf(op) \subseteq DOMAIN cfg.rules
         /\ \A s : s \in MergeSources <=>
              \E i \in RulesOf("merge") : \E p \in DOMAIN cfg.rules[i].from : s = <<i, p>>
<1>1. DOMAIN cfg.rules = 1 .. Entries("rules") /\ Entries("rules") \in Nat
  BY Counted DEF Looping
<1>2. DOMAIN cfg.rules \subseteq Nat \ {0}
  BY <1>1
<1>3. \A op : RulesOf(op) \subseteq DOMAIN cfg.rules
  BY DEF RulesOf
<1>4. ASSUME NEW s
      PROVE  s \in MergeSources <=>
               \E i \in RulesOf("merge") : \E p \in DOMAIN cfg.rules[i].from : s = <<i, p>>
  <2>1. s \in MergeSources <=> \E i \in RulesOf("merge") : s \in {i} \X DOMAIN cfg.rules[i].from
    BY DEF MergeSources
  <2>2. \A i : s \in {i} \X DOMAIN cfg.rules[i].from <=>
                \E p \in DOMAIN cfg.rules[i].from : s = <<i, p>>
    OBVIOUS
  <2> QED
    BY <2>1, <2>2
<1> QED
  BY <1>2, <1>3, <1>4

(* The steps that are not rules. *)
LEMMA ActionsStay ==
  ASSUME ActionsFollow, UNCHANGED <<cfg, t.actions, t.nslots, t.merges>>,
         Done("rules")' = Done("rules")
  PROVE  ActionsFollow'
<1>1. /\ \A i, op : Ruled(i, op)' <=> Ruled(i, op)
      /\ \A path : ActionOf(path)' = ActionOf(path)
      /\ \A i : MergeOf(i)' = MergeOf(i)
      /\ \A i, p : SlotOf(i, p)' = SlotOf(i, p)
      /\ MergeSources' = MergeSources
      /\ \A s : PathOf(s)' = PathOf(s)
  BY EntriesStay DEF Ruled, ActionOf, NoAction, PathOf
<1>2. /\ \A i, path : Drops(i, path)' <=> Drops(i, path)
      /\ \A i, path : Renames(i, path)' <=> Renames(i, path)
      /\ \A s, path : Merges(s, path)' <=> Merges(s, path)
  BY <1>1 DEF Drops, Renames, Merges
<1>3. DropsKept' /\ RenamesKept'
  BY <1>1, <1>2 DEF ActionsFollow, DropsKept, RenamesKept
<1>4. SlotsKept' /\ ConsumesKept' /\ PathsNamed'
  BY <1>1, <1>2 DEF ActionsFollow, SlotsKept, ConsumesKept, PathsNamed
<1>5. PathsRight'
  BY <1>1 DEF ActionsFollow, PathsRight
<1>6. MergesKept'
  <2>1. \A n : Filling(n)' = Filling(n)
    BY <1>1 DEF Filling
  <2>2. Filling(Done("rules") + 1)' = Filling(Done("rules") + 1)
    BY <1>1 DEF Filling
  <2>3. MergeOf(Done("rules") + 1)' = MergeOf(Done("rules") + 1)
    BY EntriesStay DEF MergeOf
  <2> QED
    BY <1>1, <2>2, <2>3 DEF ActionsFollow, MergesKept
<1> QED
  BY <1>3, <1>4, <1>5, <1>6 DEF ActionsFollow

(* One more rule. *)
LEMMA RuleDone ==
  ASSUME IInv, UsesKept, pc = "rules", Goes(RuleFields), k \in DOMAIN cfg.rules
  PROVE  /\ cfg \in Configs /\ UNCHANGED cfg /\ k \in Nat \ {0}
         /\ Done("rules") = k - 1 /\ Done("rules")' = k
         /\ \A i, op : Ruled(i, op)' <=> Ruled(i, op) \/ (i = k /\ cfg.rules[k].op = op)
         /\ \A i, op : Ruled(i, op) => i # k
         /\ \A i, path : Drops(i, path)' <=>
              Drops(i, path) \/ (i = k /\ cfg.rules[k].op = "drop" /\ cfg.rules[k].path = path)
         /\ \A i, path : Renames(i, path)' <=>
              Renames(i, path) \/
                (i = k /\ cfg.rules[k].op = "rename" /\ cfg.rules[k].from = <<path>>)
         /\ \A s, path : Merges(s, path)' <=>
              \/ Merges(s, path)
              \/ /\ cfg.rules[k].op = "merge"
                 /\ \E p \in DOMAIN cfg.rules[k].from :
                      s = <<k, p>> /\ cfg.rules[k].from[p] = path
         /\ \A i : MergeOf(i)' = MergeOf(i)
         /\ \A i, p : SlotOf(i, p)' = SlotOf(i, p)
         /\ Filling(Done("rules") + 1)' = Filling(k + 1)
         /\ MergeOf(Done("rules") + 1)' = MergeOf(k + 1)
<1>1. /\ cfg \in Configs /\ UNCHANGED cfg /\ k \in Nat \ {0}
      /\ "rules" \in Looping /\ pc \in Range(Steps)
  BY StepNames DEF IInv, Shaped, Goes, Looping
<1>2. Done("rules") = k - 1
  BY <1>1, DoneIs
<1>3. Done("rules")' = k
  BY <1>1, DoneGoes
<1>4. /\ \A i : MergeOf(i)' = MergeOf(i)
      /\ \A i, p : SlotOf(i, p)' = SlotOf(i, p)
      /\ MergeSources' = MergeSources /\ \A op : RulesOf(op)' = RulesOf(op)
  BY <1>1, EntriesStay
<1>5. /\ Filling(Done("rules") + 1)' = Filling(k + 1)
      /\ MergeOf(Done("rules") + 1)' = MergeOf(k + 1)
  BY <1>3, <1>4 DEF Filling, MergeOf
<1>6. \A op : \A i \in RulesOf(op) : i \in Nat
  BY <1>1, SourceIs
<1>7. ASSUME NEW i, NEW op
      PROVE  /\ Ruled(i, op)' <=> Ruled(i, op) \/ (i = k /\ cfg.rules[k].op = op)
             /\ Ruled(i, op) => i # k
  <2>1. i \in RulesOf(op) => (i <= k <=> i <= k - 1 \/ i = k) /\ ~(k <= k - 1)
    BY <1>1, <1>6
  <2>2. k \in RulesOf(op) <=> cfg.rules[k].op = op
    BY DEF RulesOf
  <2>3. Ruled(i, op)' <=> i \in RulesOf(op) /\ i <= k
    BY <1>3, <1>4 DEF Ruled
  <2>4. Ruled(i, op) <=> i \in RulesOf(op) /\ i <= k - 1
    BY <1>2 DEF Ruled
  <2> QED
    BY <2>1, <2>2, <2>3, <2>4
<1>8. \A i, path : Drops(i, path)' <=>
        Drops(i, path) \/ (i = k /\ cfg.rules[k].op = "drop" /\ cfg.rules[k].path = path)
  BY <1>1, <1>7 DEF Drops
<1>9. \A i, path : Renames(i, path)' <=>
        Renames(i, path) \/
          (i = k /\ cfg.rules[k].op = "rename" /\ cfg.rules[k].from = <<path>>)
  BY <1>1, <1>7 DEF Renames
<1>10. ASSUME NEW s, NEW path
       PROVE  Merges(s, path)' <=>
                \/ Merges(s, path)
                \/ /\ cfg.rules[k].op = "merge"
                   /\ \E p \in DOMAIN cfg.rules[k].from :
                        s = <<k, p>> /\ cfg.rules[k].from[p] = path
  <2>1. PathOf(s)' = PathOf(s)
    BY <1>1 DEF PathOf
  <2>2. Merges(s, path)' <=> s \in MergeSources /\ s[1] <= k /\ PathOf(s) = path
    BY <1>3, <1>4, <2>1 DEF Merges
  <2>3. Merges(s, path) <=> s \in MergeSources /\ s[1] <= k - 1 /\ PathOf(s) = path
    BY <1>2 DEF Merges
  <2>4. s \in MergeSources => s[1] \in Nat
    BY <1>1, <1>6, SourceIs
  <2>5. s \in MergeSources => (s[1] <= k <=> s[1] <= k - 1 \/ s[1] = k)
    BY <1>1, <2>4
  <2>6. s \in MergeSources /\ s[1] = k /\ PathOf(s) = path <=>
          /\ cfg.rules[k].op = "merge"
          /\ \E p \in DOMAIN cfg.rules[k].from :
               s = <<k, p>> /\ cfg.rules[k].from[p] = path
    <3>1. s \in MergeSources /\ s[1] = k <=>
            k \in RulesOf("merge") /\ \E p \in DOMAIN cfg.rules[k].from : s = <<k, p>>
      BY <1>1, SourceIs
    <3>2. k \in RulesOf("merge") <=> cfg.rules[k].op = "merge"
      BY DEF RulesOf
    <3>3. \A p : s = <<k, p>> => PathOf(s) = cfg.rules[k].from[p]
      BY DEF PathOf
    <3> QED
      BY <3>1, <3>2, <3>3
  <2> QED
    BY <2>2, <2>3, <2>5, <2>6
<1> QED
  BY <1>1, <1>2, <1>3, <1>4, <1>5, <1>7, <1>8, <1>9, <1>10

LEMMA ActionAdded ==
  ASSUME NEW new, NEW S, DOMAIN new = S, t'.actions = Over(new, t.actions)
  PROVE  /\ \A path : ActionOf(path)' = IF path \in S THEN new[path] ELSE ActionOf(path)
         /\ \A path : path \in DOMAIN t'.actions <=> path \in S \/ path \in DOMAIN t.actions
BY DEF Over, ActionOf, NoAction

(* A rule that is no merge fills no slot. *)
LEMMA NoMerge ==
  ASSUME IInv, UsesKept, pc = "rules", Goes(RuleFields), k \in DOMAIN cfg.rules,
         MergesKept, cfg.rules[k].op # "merge", UNCHANGED <<t.nslots, t.merges>>
  PROVE  MergesKept'
<1>1. /\ cfg \in Configs /\ UNCHANGED cfg /\ k \in Nat \ {0}
      /\ Done("rules") = k - 1 /\ Done("rules")' = k /\ k - 1 + 1 = k
      /\ \A i : Ruled(i, "merge")' <=> Ruled(i, "merge")
  BY RuleDone
<1>2. Filling(k + 1) = Filling(k)
  <2>1. \A s \in MergeSources : s[1] \in Nat /\ s[1] # k
    BY <1>1, SourceIs DEF RulesOf
  <2>2. \A s \in MergeSources : s[1] < k + 1 <=> s[1] < k
    BY <1>1, <2>1
  <2> QED
    BY <2>2 DEF Filling
<1>3. MergeOf(k + 1) = MergeOf(k)
  <2>1. \A j \in RulesOf("merge") : j \in Nat /\ j # k
    BY <1>1, SourceIs DEF RulesOf
  <2>2. {j \in RulesOf("merge") : j < k + 1} = {j \in RulesOf("merge") : j < k}
    BY <1>1, <2>1
  <2> QED
    BY <2>2 DEF MergeOf
<1>4. Filling(Done("rules") + 1)' = Filling(k) /\ MergeOf(Done("rules") + 1)' = MergeOf(k)
  BY <1>2, <1>3, RuleDone
<1> QED
  BY <1>1, <1>4, RuleDone DEF MergesKept

LEMMA RenameFollows ==
  ASSUME IInv, UsesKept, ActionsFollow, pc = "rules", Goes(RuleFields), k \in DOMAIN cfg.rules,
         NEW r, r = cfg.rules[k], r.op = "rename", UNCHANGED <<t.nslots, t.merges>>,
         Len(r.from) = 1, ActionOf(r.from[1]).renameTo = NoPath,
         t'.actions = Over([x \in {r.from[1]} |-> [ActionOf(x) EXCEPT !.renameTo = r.to]],
                           t.actions)
  PROVE  ActionsFollow'
<1> DEFINE at == r.from[1]
           new == [x \in {at} |-> [ActionOf(x) EXCEPT !.renameTo = r.to]]
<1>1. cfg \in Configs /\ UNCHANGED cfg /\ IsASeq(r.from) /\ r.to # NoPath
  BY RuleDone, ConfigsAssumption DEF IsConfig
<1>2. r.from = <<at>>
  BY <1>1 DEF IsASeq
<1>3. /\ \A path : IsAction(ActionOf(path))
      /\ \A path : ActionOf(path)' = IF path = at THEN [ActionOf(path) EXCEPT !.renameTo = r.to]
                                      ELSE ActionOf(path)
      /\ \A path : path \in DOMAIN t'.actions <=> path = at \/ path \in DOMAIN t.actions
  <2>1. DOMAIN new = {at} /\ t'.actions = Over(new, t.actions)
    OBVIOUS
  <2>2. new[at] = [ActionOf(at) EXCEPT !.renameTo = r.to]
    OBVIOUS
  <2> HIDE DEF new, at
  <2> QED
    BY <2>1, <2>2, ActionAdded, ActionOfIs DEF IInv
<1>4. \A path : /\ ActionOf(path)'.drop = ActionOf(path).drop
                /\ ActionOf(path)'.slots = ActionOf(path).slots
                /\ ActionOf(path)'.consume = ActionOf(path).consume
                /\ ActionOf(path)'.renameTo = IF path = at THEN r.to ELSE ActionOf(path).renameTo
  BY <1>3 DEF IsAction
<1>5. /\ \A i, path : Drops(i, path)' <=> Drops(i, path)
      /\ \A s, path : Merges(s, path)' <=> Merges(s, path)
      /\ \A i, path : Renames(i, path)' <=> Renames(i, path) \/ (i = k /\ path = at)
      /\ \A i : Ruled(i, "drop")' <=> Ruled(i, "drop")
      /\ \A i : Ruled(i, "rename")' <=> Ruled(i, "rename") \/ i = k
      /\ \A i, p : SlotOf(i, p)' = SlotOf(i, p)
  <2>1. \A path : r.from = <<path>> <=> path = at
    BY <1>2
  <2> HIDE DEF at
  <2>2. \A i, path : Renames(i, path)' <=> Renames(i, path) \/ (i = k /\ path = at)
    BY <2>1, RuleDone
  <2>3. /\ \A i, path : Drops(i, path)' <=> Drops(i, path)
        /\ \A s, path : Merges(s, path)' <=> Merges(s, path)
    BY RuleDone
  <2>4. /\ \A i : Ruled(i, "drop")' <=> Ruled(i, "drop")
        /\ \A i : Ruled(i, "rename")' <=> Ruled(i, "rename") \/ i = k
        /\ \A i, p : SlotOf(i, p)' = SlotOf(i, p)
    BY RuleDone
  <2> QED
    BY <2>2, <2>3, <2>4
<1> HIDE DEF at, new
<1>6. DropsKept'
  BY <1>4, <1>5 DEF ActionsFollow, DropsKept
<1>7. RenamesKept'
  <2>1. \A i : ~Renames(i, at)
    <3>1. ASSUME NEW i, Renames(i, at) PROVE FALSE
      <4>1. cfg.rules[i].to = NoPath
        BY <3>1 DEF ActionsFollow, RenamesKept, at
      <4>2. i \in DOMAIN cfg.rules /\ cfg.rules[i].op = "rename"
        BY <3>1 DEF Renames, Ruled, RulesOf
      <4> QED
        BY <1>1, <4>1, <4>2, ConfigsAssumption DEF IsConfig
    <3> QED
      BY <3>1
  <2> QED
    BY <1>1, <1>4, <1>5, <2>1 DEF ActionsFollow, RenamesKept
<1>8. SlotsKept' /\ ConsumesKept'
  BY <1>1, <1>4, <1>5 DEF ActionsFollow, SlotsKept, ConsumesKept
<1>9. PathsNamed'
  BY <1>3, <1>5 DEF ActionsFollow, PathsNamed
<1>10. PathsRight'
  BY <1>1, <1>2, <1>5 DEF ActionsFollow, PathsRight, at
<1>11. MergesKept'
  BY NoMerge DEF ActionsFollow
<1> QED
  BY <1>6, <1>7, <1>8, <1>9, <1>10, <1>11 DEF ActionsFollow

LEMMA DropFollows ==
  ASSUME IInv, UsesKept, ActionsFollow, pc = "rules", Goes(RuleFields), k \in DOMAIN cfg.rules,
         NEW r, r = cfg.rules[k], r.op = "drop", UNCHANGED <<t.nslots, t.merges>>, r.path # <<>>,
         t'.actions = Over([x \in {r.path} |-> [ActionOf(x) EXCEPT !.drop = TRUE]], t.actions)
  PROVE  ActionsFollow'
<1> DEFINE at == r.path
           new == [x \in {at} |-> [ActionOf(x) EXCEPT !.drop = TRUE]]
<1>1. cfg \in Configs /\ UNCHANGED cfg
  BY RuleDone
<1>2. /\ \A path : IsAction(ActionOf(path))
      /\ \A path : ActionOf(path)' = IF path = at THEN [ActionOf(path) EXCEPT !.drop = TRUE]
                                      ELSE ActionOf(path)
      /\ \A path : path \in DOMAIN t'.actions <=> path = at \/ path \in DOMAIN t.actions
  <2>1. DOMAIN new = {at} /\ t'.actions = Over(new, t.actions)
    OBVIOUS
  <2>2. new[at] = [ActionOf(at) EXCEPT !.drop = TRUE]
    OBVIOUS
  <2> HIDE DEF new, at
  <2> QED
    BY <2>1, <2>2, ActionAdded, ActionOfIs DEF IInv
<1>3. \A path : /\ ActionOf(path)'.drop = IF path = at THEN TRUE ELSE ActionOf(path).drop
                /\ ActionOf(path)'.slots = ActionOf(path).slots
                /\ ActionOf(path)'.consume = ActionOf(path).consume
                /\ ActionOf(path)'.renameTo = ActionOf(path).renameTo
  BY <1>2 DEF IsAction
<1>4. /\ \A i, path : Drops(i, path)' <=> Drops(i, path) \/ (i = k /\ path = at)
      /\ \A s, path : Merges(s, path)' <=> Merges(s, path)
      /\ \A i, path : Renames(i, path)' <=> Renames(i, path)
      /\ \A i : Ruled(i, "drop")' <=> Ruled(i, "drop") \/ i = k
      /\ \A i : Ruled(i, "rename")' <=> Ruled(i, "rename")
      /\ \A i, p : SlotOf(i, p)' = SlotOf(i, p)
  BY RuleDone
<1> HIDE DEF at, new
<1>5. DropsKept'
  BY <1>3, <1>4 DEF ActionsFollow, DropsKept
<1>6. RenamesKept'
  BY <1>1, <1>3, <1>4 DEF ActionsFollow, RenamesKept
<1>7. SlotsKept' /\ ConsumesKept'
  BY <1>1, <1>3, <1>4 DEF ActionsFollow, SlotsKept, ConsumesKept
<1>8. PathsNamed'
  BY <1>2, <1>4 DEF ActionsFollow, PathsNamed
<1>9. PathsRight'
  BY <1>1, <1>4 DEF ActionsFollow, PathsRight
<1>10. MergesKept'
  BY NoMerge DEF ActionsFollow
<1> QED
  BY <1>5, <1>6, <1>7, <1>8, <1>9, <1>10 DEF ActionsFollow

LEMMA DefaultFollows ==
  ASSUME IInv, UsesKept, ActionsFollow, pc = "rules", Goes(RuleFields), k \in DOMAIN cfg.rules,
         cfg.rules[k].op = "default", UNCHANGED <<t.actions, t.nslots, t.merges>>
  PROVE  ActionsFollow'
<1>1. /\ UNCHANGED cfg
      /\ \A i, path : Drops(i, path)' <=> Drops(i, path)
      /\ \A s, path : Merges(s, path)' <=> Merges(s, path)
      /\ \A i, path : Renames(i, path)' <=> Renames(i, path)
      /\ \A i : Ruled(i, "drop")' <=> Ruled(i, "drop")
      /\ \A i : Ruled(i, "rename")' <=> Ruled(i, "rename")
      /\ \A i, p : SlotOf(i, p)' = SlotOf(i, p)
  BY RuleDone
<1>2. \A path : ActionOf(path)' = ActionOf(path)
  BY DEF ActionOf, NoAction
<1>3. DropsKept' /\ RenamesKept'
  BY <1>1, <1>2 DEF ActionsFollow, DropsKept, RenamesKept
<1>4. SlotsKept' /\ ConsumesKept'
  BY <1>1, <1>2 DEF ActionsFollow, SlotsKept, ConsumesKept
<1>5. PathsNamed' /\ PathsRight'
  BY <1>1 DEF ActionsFollow, PathsNamed, PathsRight
<1>6. MergesKept'
  BY NoMerge DEF ActionsFollow
<1> QED
  BY <1>3, <1>4, <1>5, <1>6 DEF ActionsFollow

RankIn(S, i) == Cardinality(Lower(S, i)) + 1

Ranked(n, S) ==
  /\ IsFiniteSet(S) /\ Cardinality(S) \in Nat
  /\ \A i \in Nat : RankIn(S, i) \in Nat \ {0}
  /\ RankIn(S, 1) = 1 /\ RankIn(S, n + 1) = Cardinality(S) + 1
  /\ \A i \in S : RankIn(S, i + 1) = RankIn(S, i) + 1
  /\ \A i \in S : \A m \in Nat : i < m => RankIn(S, i) < RankIn(S, m)

LEMMA RanksCounted ==
  ASSUME NEW n \in Nat, NEW S, S \subseteq 1 .. n
  PROVE  Ranked(n, S)
<1>1. IsFiniteSet(S) /\ S \subseteq Nat
  <2>1. IsFiniteSet(1 .. n) /\ 1 .. n \subseteq Nat
    BY FS_Interval
  <2>2. S \in SUBSET (1 .. n)
    OBVIOUS
  <2>3. IsFiniteSet(S)
    BY <2>1, <2>2, FS_Subset
  <2> QED
    BY <2>1, <2>2, <2>3
<1>2. \A i : IsFiniteSet(Lower(S, i)) /\ Cardinality(Lower(S, i)) \in Nat
  <2> TAKE i
  <2>1. Lower(S, i) \subseteq S
    BY DEF Lower
  <2> QED
    BY <1>1, <2>1, FS_Subset, FS_CardinalityType
<1>3. \A i \in S : RankIn(S, i + 1) = RankIn(S, i) + 1
  <2> TAKE i \in S
  <2>1. Lower(S, i + 1) = Lower(S, i) \cup {i} /\ i \notin Lower(S, i)
    <3>1. \A x \in S : x < i + 1 <=> x < i \/ x = i
      BY <1>1
    <3>2. ~(i < i)
      BY <1>1
    <3> QED
      BY <3>1, <3>2 DEF Lower
  <2>2. Cardinality(Lower(S, i + 1)) = Cardinality(Lower(S, i)) + 1
    BY <1>2, <2>1, FS_AddElement
  <2> QED
    BY <2>2 DEF RankIn
<1>5. ASSUME NEW i \in S, NEW m \in Nat, i < m PROVE RankIn(S, i) < RankIn(S, m)
  <2>1. Cardinality(Lower(S, i)) < Cardinality(Lower(S, m))
    BY <1>1, <1>5, RankGrows
  <2> QED
    BY <1>2, <2>1 DEF RankIn
<1>6. Lower(S, 1) = {} /\ Lower(S, n + 1) = S
  <2>1. \A x \in S : x \in 1 .. n
    OBVIOUS
  <2>2. \A x \in S : ~(x < 1) /\ x < n + 1
    BY <2>1
  <2> QED
    BY <2>2 DEF Lower
<1>7. RankIn(S, 1) = 1 /\ RankIn(S, n + 1) = Cardinality(S) + 1
  BY <1>6, FS_EmptySet DEF RankIn
<1>8. Cardinality(S) \in Nat
  BY <1>1, FS_CardinalityType
<1>10. \A i \in Nat : RankIn(S, i) \in Nat \ {0}
  BY <1>2 DEF RankIn
<1> QED
  BY <1>1, <1>3, <1>5, <1>7, <1>8, <1>10 DEF Ranked

LEMMA MergesCounted ==
  ASSUME cfg \in Configs
  PROVE  /\ \A i \in Nat : MergeOf(i) \in Nat \ {0}
         /\ MergeOf(1) = 1
         /\ MergeOf(Entries("rules") + 1) = Cardinality(RulesOf("merge")) + 1
         /\ Cardinality(RulesOf("merge")) \in Nat
         /\ \A i \in RulesOf("merge") : MergeOf(i + 1) = MergeOf(i) + 1
         /\ \A i \in RulesOf("merge") : \A m \in Nat : i < m => MergeOf(i) < MergeOf(m)
<1> DEFINE S == RulesOf("merge")
           n == Entries("rules")
<1>1. n \in Nat /\ S \subseteq 1 .. n
  BY Counted DEF RulesOf, Looping
<1>2. \A i : MergeOf(i) = RankIn(S, i)
  BY DEF MergeOf, RankIn, Lower
<1> HIDE DEF S, n
<1>3. Ranked(n, S)
  BY <1>1, RanksCounted
<1>4. Cardinality(S) \in Nat
  BY <1>3 DEF Ranked
<1>5. /\ \A i \in Nat : RankIn(S, i) \in Nat \ {0}
      /\ RankIn(S, 1) = 1 /\ RankIn(S, n + 1) = Cardinality(S) + 1
  BY <1>3 DEF Ranked
<1>6. /\ \A i \in S : RankIn(S, i + 1) = RankIn(S, i) + 1
      /\ \A i \in S : \A m \in Nat : i < m => RankIn(S, i) < RankIn(S, m)
  BY <1>3 DEF Ranked
<1> QED
  BY <1>2, <1>4, <1>5, <1>6 DEF S, n

(* What a merge does: to the actions of its sources, and to the merges. *)
JoinsActions(r) ==
  \E new :
    /\ DOMAIN new = Range(r.from) /\ t'.actions = Over(new, t.actions)
    /\ \A path \in Range(r.from) :
         /\ new[path].drop = ActionOf(path).drop
         /\ new[path].renameTo = ActionOf(path).renameTo
         /\ new[path].slots = ActionOf(path).slots \cup Filled(r, path)
         /\ new[path].consume <=> ActionOf(path).consume \/ ~r.keepSources
JoinsMerges(r) ==
  /\ t'.nslots = t.nslots + Len(r.from)
  /\ \E e : t'.merges = Append(t.merges, e) /\ e.slots = [n \in DOMAIN r.from |-> t.nslots + n]

(* Its slots come after those of the merges before it. *)
LEMMA MergeFollows ==
  ASSUME IInv, UsesKept, ActionsFollow, pc = "rules", Goes(RuleFields), k \in DOMAIN cfg.rules,
         NEW r, r = cfg.rules[k], r.op = "merge", JoinsActions(r), JoinsMerges(r)
  PROVE  ActionsFollow'
<1> DEFINE S == Range(r.from)
           D == DOMAIN r.from
<1>1. /\ cfg \in Configs /\ UNCHANGED cfg /\ IsASeq(r.from) /\ k \in RulesOf("merge")
      /\ Len(r.from) \in Nat /\ D = 1 .. Len(r.from)
  <2>1. cfg \in Configs /\ UNCHANGED cfg /\ k \in RulesOf("merge")
    BY RuleDone DEF RulesOf
  <2>2. IsASeq(r.from)
    BY <2>1, ConfigsAssumption DEF IsConfig
  <2> QED
    BY <2>1, <2>2 DEF IsASeq
<1>2. /\ k \in Nat \ {0} /\ Done("rules") = k - 1 /\ Done("rules")' = k /\ k - 1 + 1 = k
  BY RuleDone
<1>3. /\ t.nslots = Cardinality(Filling(k)) /\ IsFiniteSet(Filling(k)) /\ t.nslots \in Nat
      /\ IsASeq(t.merges) /\ Len(t.merges) = MergeOf(k) - 1
  <2>1. MergesKept
    BY DEF ActionsFollow
  <2> QED
    BY <1>2, <2>1, FS_CardinalityType DEF MergesKept
<1>4. \A p : SlotOf(k, p) = t.nslots + p
  BY <1>3 DEF SlotOf, Filling
<1>5. \A path : path \in S <=> \E p \in D : r.from[p] = path
  BY DEF Range
<1>6. \A path, x : x \in Filled(r, path) <=> \E p \in D : r.from[p] = path /\ x = SlotOf(k, p)
  BY <1>4 DEF Filled
<1>7. /\ \A path : /\ ActionOf(path)'.drop = ActionOf(path).drop
                  /\ ActionOf(path)'.renameTo = ActionOf(path).renameTo
      /\ \A path \in S : ActionOf(path)'.slots = ActionOf(path).slots \cup Filled(r, path)
      /\ \A path \in S : ActionOf(path)'.consume <=> ActionOf(path).consume \/ ~r.keepSources
      /\ \A path : path \notin S => ActionOf(path)' = ActionOf(path)
      /\ \A path : path \in DOMAIN t'.actions <=> path \in S \/ path \in DOMAIN t.actions
  <2>1. PICK new :
          /\ DOMAIN new = S /\ t'.actions = Over(new, t.actions)
          /\ \A path \in S :
               /\ new[path].drop = ActionOf(path).drop
               /\ new[path].renameTo = ActionOf(path).renameTo
               /\ new[path].slots = ActionOf(path).slots \cup Filled(r, path)
               /\ new[path].consume <=> ActionOf(path).consume \/ ~r.keepSources
    BY DEF JoinsActions
  <2> HIDE DEF S, D
  <2>2. /\ \A path : ActionOf(path)' = IF path \in S THEN new[path] ELSE ActionOf(path)
        /\ \A path : path \in DOMAIN t'.actions <=> path \in S \/ path \in DOMAIN t.actions
    BY <2>1, ActionAdded
  <2> QED
    BY <2>1, <2>2
<1> HIDE DEF S, D
<1>9. \A path : path \notin S => Filled(r, path) = {}
  BY <1>5, <1>6
<1>10. /\ \A i, path : Drops(i, path)' <=> Drops(i, path)
       /\ \A i, path : Renames(i, path)' <=> Renames(i, path)
       /\ \A i : Ruled(i, "drop")' <=> Ruled(i, "drop")
       /\ \A i : Ruled(i, "rename")' <=> Ruled(i, "rename")
       /\ \A i : Ruled(i, "merge")' <=> Ruled(i, "merge") \/ i = k
       /\ \A i, p : SlotOf(i, p)' = SlotOf(i, p)
       /\ \A i : MergeOf(i)' = MergeOf(i)
  BY RuleDone
<1>11. \A s, path : Merges(s, path)' <=>
         Merges(s, path) \/ \E p \in D : s = <<k, p>> /\ r.from[p] = path
  BY RuleDone DEF D
<1>12. DropsKept' /\ RenamesKept'
  BY <1>1, <1>7, <1>10 DEF ActionsFollow, DropsKept, RenamesKept
<1>13. SlotsKept'
  <2>1. ASSUME NEW path, NEW x
        PROVE  x \in ActionOf(path)'.slots <=> x \in ActionOf(path).slots \/ x \in Filled(r, path)
    BY <1>7, <1>9
  <2>3. \A path, x : x \in ActionOf(path).slots <=> \E s : Merges(s, path) /\ x = SlotOf(s[1], s[2])
    BY DEF ActionsFollow, SlotsKept
  <2>4. ASSUME NEW path, NEW x
        PROVE  x \in ActionOf(path)'.slots <=> \E s : Merges(s, path)' /\ x = SlotOf(s[1], s[2])
    <3> DEFINE After == \E s : Merges(s, path)' /\ x = SlotOf(s[1], s[2])
               Kept == \E s : Merges(s, path) /\ x = SlotOf(s[1], s[2])
               Added == \E p \in D : r.from[p] = path /\ x = SlotOf(k, p)
    <3>1. x \in ActionOf(path)'.slots <=> x \in ActionOf(path).slots \/ x \in Filled(r, path)
      BY <2>1
    <3>2. x \in Filled(r, path) <=> Added
      BY <1>6
    <3>3. After <=> Kept \/ Added
      <4>1. ASSUME NEW s, Merges(s, path)', x = SlotOf(s[1], s[2]) PROVE Kept \/ Added
        <5>1. CASE Merges(s, path)
          BY <4>1, <5>1
        <5>2. CASE \E p \in D : s = <<k, p>> /\ r.from[p] = path
          <6>1. PICK p \in D : s = <<k, p>> /\ r.from[p] = path
            BY <5>2
          <6>2. s[1] = k /\ s[2] = p
            BY <6>1
          <6> QED
            BY <4>1, <6>1, <6>2
        <5> QED
          BY <1>11, <4>1, <5>1, <5>2
      <4>2. ASSUME NEW p \in D, r.from[p] = path, x = SlotOf(k, p) PROVE After
        <5>1. PICK s : s = <<k, p>>
          OBVIOUS
        <5>2. s[1] = k /\ s[2] = p
          BY <5>1
        <5>3. Merges(s, path)'
          BY <1>11, <4>2, <5>1
        <5> QED
          BY <4>2, <5>2, <5>3
      <4>3. Kept => After
        BY <1>11
      <4> QED
        BY <4>1, <4>2, <4>3
    <3>4. x \in ActionOf(path).slots <=> Kept
      BY <2>3
    <3>5. x \in ActionOf(path)'.slots <=> After
      <4> HIDE DEF After, Kept, Added
      <4> QED
        BY <3>1, <3>2, <3>3, <3>4
    <3> QED
      BY <3>5
  <2>5. \A s : SlotOf(s[1], s[2])' = SlotOf(s[1], s[2])
    BY <1>10
  <2> HIDE DEF D
  <2> QED
    BY <2>4, <2>5 DEF SlotsKept
<1>14. ConsumesKept'
  <2>1. ASSUME NEW path
        PROVE  ActionOf(path)'.consume <=>
                 ActionOf(path).consume \/ (path \in S /\ ~r.keepSources)
    BY <1>7
  <2>2. ASSUME NEW path
        PROVE  (\E s : Merges(s, path)' /\ ~cfg.rules[s[1]].keepSources) <=>
                 \/ \E s : Merges(s, path) /\ ~cfg.rules[s[1]].keepSources
                 \/ path \in S /\ ~r.keepSources
    <3>1. ASSUME NEW s, Merges(s, path)', ~cfg.rules[s[1]].keepSources
          PROVE  \/ Merges(s, path) /\ ~cfg.rules[s[1]].keepSources
                 \/ path \in S /\ ~r.keepSources
      <4>1. CASE \E p \in D : s = <<k, p>> /\ r.from[p] = path
        <5>1. path \in S /\ s[1] = k
          BY <1>5, <4>1
        <5> QED
          BY <3>1, <5>1
      <4> QED
        BY <1>11, <3>1, <4>1
    <3>2. ASSUME path \in S, ~r.keepSources
          PROVE  \E s : Merges(s, path)' /\ ~cfg.rules[s[1]].keepSources
      <4>1. PICK p \in D : r.from[p] = path
        BY <1>5, <3>2
      <4>2. PICK s : s = <<k, p>>
        OBVIOUS
      <4>3. s[1] = k
        BY <4>2
      <4>4. Merges(s, path)'
        BY <1>11, <4>1, <4>2
      <4>5. ~cfg.rules[s[1]].keepSources
        BY <3>2, <4>3
      <4> QED
        BY <4>4, <4>5
    <3>3. \A s : Merges(s, path) => Merges(s, path)'
      BY <1>11
    <3> QED
      BY <3>1, <3>2, <3>3
  <2> QED
    BY <1>1, <2>1, <2>2 DEF ActionsFollow, ConsumesKept
<1>15. PathsNamed'
  BY <1>5, <1>7, <1>10, <1>11 DEF ActionsFollow, PathsNamed
<1>16. PathsRight'
  BY <1>1, <1>10 DEF ActionsFollow, PathsRight
<1>17. MergesKept'
  <2>1. Filling(k + 1) = Filling(k) \cup ({k} \X D) /\ Filling(k) \cap ({k} \X D) = {}
    <3>1. \A s : s \in {k} \X D <=> \E p \in D : s = <<k, p>>
      OBVIOUS
    <3>2. \A s : s \in {k} \X D <=> s \in MergeSources /\ s[1] = k
      BY <1>1, <3>1, SourceIs DEF D
    <3>3. \A s \in MergeSources : s[1] \in Nat
      BY <1>1, SourceIs
    <3>4. \A s \in MergeSources : /\ s[1] < k + 1 <=> s[1] < k \/ s[1] = k
                                 /\ ~(s[1] < k /\ s[1] = k)
      BY <1>2, <3>3
    <3> QED
      BY <3>2, <3>4 DEF Filling
  <2>2. IsFiniteSet({k} \X D) /\ Cardinality({k} \X D) = Len(r.from)
    <3>1. IsFiniteSet(D) /\ Cardinality(D) = Len(r.from)
      BY <1>1, FS_Interval
    <3>2. IsFiniteSet({k}) /\ Cardinality({k}) = 1
      BY FS_Singleton
    <3>3. IsFiniteSet({k} \X D) /\ Cardinality({k} \X D) = Cardinality({k}) * Cardinality(D)
      <4> DEFINE one == {k}
      <4>1. IsFiniteSet(one)
        BY <3>2
      <4> HIDE DEF one, D
      <4>2. IsFiniteSet(one \X D) /\ Cardinality(one \X D) = Cardinality(one) * Cardinality(D)
        BY <3>1, <4>1, FS_Product
      <4> QED
        BY <4>2 DEF one
    <3> QED
      BY <1>1, <3>1, <3>2, <3>3
  <2>3. IsFiniteSet(Filling(k + 1)) /\ Cardinality(Filling(k + 1)) = t'.nslots
    <3>1. /\ IsFiniteSet(Filling(k) \cup ({k} \X D))
          /\ Cardinality(Filling(k) \cup ({k} \X D)) =
               Cardinality(Filling(k)) + Cardinality({k} \X D)
                 - Cardinality(Filling(k) \cap ({k} \X D))
      BY <1>3, <2>2, FS_Union
    <3> QED
      <4> DEFINE new == {k} \X D
      <4>1. /\ IsFiniteSet(Filling(k) \cup new) /\ Filling(k + 1) = Filling(k) \cup new
            /\ Cardinality(Filling(k) \cup new) =
                 Cardinality(Filling(k)) + Cardinality(new) - Cardinality(Filling(k) \cap new)
            /\ Cardinality(new) = Len(r.from) /\ Filling(k) \cap new = {}
        BY <2>1, <2>2, <3>1
      <4> HIDE DEF new
      <4>2. Cardinality(Filling(k) \cap new) = 0
        BY <4>1, FS_EmptySet
      <4>3. t'.nslots = t.nslots + Len(r.from)
        BY DEF JoinsMerges
      <4>4. Cardinality(Filling(k + 1)) = t.nslots + Len(r.from) - 0
        BY <1>3, <4>1, <4>2
      <4>5. t.nslots + Len(r.from) - 0 = t.nslots + Len(r.from)
        BY <1>1, <1>3
      <4> QED
        BY <4>1, <4>3, <4>4, <4>5
  <2>4. MergeOf(k + 1) = MergeOf(k) + 1 /\ MergeOf(k) \in Nat \ {0}
    BY <1>1, <1>2, MergesCounted
  <2> DEFINE slots == [p \in D |-> SlotOf(k, p)]
  <2>0. PICK e : t'.merges = Append(t.merges, e) /\ e.slots = slots
    <3>1. PICK e : /\ t'.merges = Append(t.merges, e)
                   /\ e.slots = [p \in DOMAIN r.from |-> t.nslots + p]
      BY DEF JoinsMerges
    <3>2. [p \in DOMAIN r.from |-> t.nslots + p] = slots
      BY <1>4 DEF D
    <3> QED
      BY <3>1, <3>2
  <2> HIDE DEF slots
  <2>5. /\ IsASeq(t'.merges) /\ Len(t'.merges) = MergeOf(k + 1) - 1
        /\ t'.merges[MergeOf(k)] = e
        /\ \A j \in 1 .. MergeOf(k) - 1 : t'.merges[j] = t.merges[j]
    <3>1. IsASeq(t'.merges)
      BY <1>3, <2>0, AppendASeq
    <3>2. /\ Len(t.merges) \in Nat /\ Len(t'.merges) = Len(t.merges) + 1
          /\ t'.merges[Len(t.merges) + 1] = e
          /\ \A j \in 1 .. Len(t.merges) : t'.merges[j] = t.merges[j]
      BY <1>3, <2>0 DEF IsASeq
    <3>3. Len(t.merges) + 1 = MergeOf(k) /\ Len(t.merges) = MergeOf(k) - 1
      BY <1>3, <2>4
    <3> QED
      BY <1>3, <2>4, <3>1, <3>2, <3>3
  <2>6. ASSUME NEW i, Ruled(i, "merge")
        PROVE  t'.merges[MergeOf(i)] = t.merges[MergeOf(i)]
    <3>1. i \in RulesOf("merge") /\ i \in Nat /\ i < k
      BY <1>1, <1>2, <2>6, SourceIs DEF Ruled
    <3>2. MergeOf(i) < MergeOf(k) /\ MergeOf(i) \in Nat \ {0}
      BY <1>1, <1>2, <3>1, MergesCounted
    <3> QED
      BY <2>4, <2>5, <3>2
  <2>7. ASSUME NEW i, Ruled(i, "merge") \/ i = k
        PROVE  t'.merges[MergeOf(i)].slots = [p \in DOMAIN cfg.rules[i].from |-> SlotOf(i, p)]
    <3>1. CASE i = k
      <4>1. [p \in DOMAIN cfg.rules[i].from |-> SlotOf(i, p)] = slots
        BY <3>1 DEF D, slots
      <4> QED
        BY <2>0, <2>5, <3>1, <4>1
    <3>2. CASE Ruled(i, "merge")
      BY <2>6, <3>2 DEF ActionsFollow, MergesKept
    <3> QED
      BY <2>7, <3>1, <3>2
  <2>8. \A i : [p \in DOMAIN cfg.rules[i].from |-> SlotOf(i, p)]'
               = [p \in DOMAIN cfg.rules[i].from |-> SlotOf(i, p)]
    BY <1>1, <1>10
  <2>9. Filling(Done("rules") + 1)' = Filling(k + 1) /\ MergeOf(Done("rules") + 1)' = MergeOf(k + 1)
    BY RuleDone
  <2> QED
    BY <1>1, <1>10, <2>3, <2>5, <2>7, <2>8, <2>9 DEF MergesKept
<1> QED
  BY <1>12, <1>13, <1>14, <1>15, <1>16, <1>17 DEF ActionsFollow

LEMMA RuleFollows ==
  ASSUME IInv, UsesKept, ActionsFollow, pc = "rules", Rules, pc' # "failed"
  PROVE  ActionsFollow'
<1> DEFINE r == cfg.rules[k]
<1>1. CASE Ends({})
  <2> DEFINE S == {}
  <2>1. Ends(S)
    BY <1>1
  <2> HIDE DEF S
  <2>2. Done("rules")' = Done("rules")
    BY <2>1, DoneStays DEF Looping
  <2>3. UNCHANGED <<cfg, t.actions, t.nslots, t.merges>>
    BY <1>1 DEF Ends, Untouched, Fields
  <2> QED
    BY <2>2, <2>3, ActionsStay
<1>2. CASE ~Ends({})
  <2>1. /\ Goes(RuleFields) /\ k \in DOMAIN cfg.rules
        /\ \/ /\ r.op = "rename" /\ UNCHANGED <<t.nslots, t.merges>>
              /\ Len(r.from) = 1
              /\ ActionOf(r.from[1]).renameTo = NoPath
              /\ t'.actions =
                   Over([x \in {r.from[1]} |-> [ActionOf(x) EXCEPT !.renameTo = r.to]], t.actions)
           \/ /\ r.op = "drop" /\ UNCHANGED <<t.nslots, t.merges>>
              /\ r.path # <<>>
              /\ t'.actions =
                   Over([x \in {r.path} |-> [ActionOf(x) EXCEPT !.drop = TRUE]], t.actions)
           \/ r.op = "merge"
           \/ r.op = "default" /\ UNCHANGED <<t.actions, t.nslots, t.merges>>
    BY <1>2, RulesSteps
  <2>2. CASE r.op = "rename"
    BY <2>1, <2>2, RenameFollows
  <2>3. CASE r.op = "drop"
    BY <2>1, <2>3, DropFollows
  <2>4. CASE r.op = "merge"
    <3> DEFINE new == [path \in Range(r.from) |->
                        [ActionOf(path) EXCEPT !.slots = @ \cup Filled(r, path),
                                               !.consume = Consumes(r, ActionOf(path))]]
    <3>1. t'.nslots = t.nslots + Len(r.from) /\ t'.actions = Over(new, t.actions)
      BY <1>2, <2>4, RulesSteps
    <3>2. \E e : /\ t'.merges = Append(t.merges, e)
                 /\ e.slots = [n \in DOMAIN r.from |-> t.nslots + n]
      BY <1>2, <2>4, RulesSteps
    <3>3. JoinsMerges(r)
      BY <3>1, <3>2 DEF JoinsMerges
    <3>4. ASSUME NEW path \in Range(r.from)
          PROVE  /\ new[path].drop = ActionOf(path).drop
                 /\ new[path].renameTo = ActionOf(path).renameTo
                 /\ new[path].slots = ActionOf(path).slots \cup Filled(r, path)
                 /\ new[path].consume <=> ActionOf(path).consume \/ ~r.keepSources
      <4>1. IsAction(ActionOf(path))
        BY ActionOfIs DEF IInv
      <4>2. new[path] = [ActionOf(path) EXCEPT !.slots = @ \cup Filled(r, path),
                                               !.consume = Consumes(r, ActionOf(path))]
        OBVIOUS
      <4> HIDE DEF new, r
      <4> QED
        BY <4>1, <4>2 DEF IsAction, Consumes
    <3>5. DOMAIN new = Range(r.from)
      OBVIOUS
    <3> HIDE DEF new
    <3>6. JoinsActions(r)
      BY <3>1, <3>4, <3>5 DEF JoinsActions
    <3> QED
      BY <2>1, <2>4, <3>3, <3>6, MergeFollows
  <2>5. CASE r.op = "default"
    BY <2>1, <2>5, DefaultFollows
  <2> HIDE DEF r
  <2> QED
    BY <2>1, <2>2, <2>3, <2>4, <2>5
<1> QED
  BY <1>1, <1>2

-----------------------------------------------------------------------------
(* Sections below a path that is dropped.                                   *)

LEMMA PrefixIs ==
  ASSUME NEW s, NEW p, IsASeq(s), IsASeq(p), s # <<>>
  PROVE  IsPrefix(s, p) <=> \E n \in DOMAIN p : SubSeq(p, 1, n) = s
<1>1. /\ Len(s) \in Nat /\ Len(p) \in Nat /\ DOMAIN p = 1 .. Len(p) /\ Len(s) # 0
      /\ SubSeq(s, 1, Len(s)) = s
  BY DEF IsASeq
<1>2. \A n \in 1 .. Len(p) : Len(SubSeq(p, 1, n)) = n
  BY DEF IsASeq
<1> QED
  BY <1>1, <1>2 DEF IsPrefix

LEMMA DeadIs ==
  ASSUME cfg \in Configs, Done("rules") = Entries("rules"), DropsKept, PathsRight,
         NEW from, IsASeq(from)
  PROVE  Dropped(from) <=> \E i \in RulesOf("drop") : IsPrefix(cfg.rules[i].path, from)
<1>1. DOMAIN cfg.rules = 1 .. Entries("rules") /\ Entries("rules") \in Nat
  BY Counted DEF Looping
<1>2. \A i : Ruled(i, "drop") <=> i \in RulesOf("drop")
  BY <1>1 DEF Ruled, RulesOf
<1>3. \A i \in RulesOf("drop") : IsASeq(cfg.rules[i].path) /\ cfg.rules[i].path # <<>>
  BY <1>2, ConfigsAssumption DEF IsConfig, RulesOf, PathsRight
<1>4. \A i \in RulesOf("drop") : IsPrefix(cfg.rules[i].path, from) <=>
        \E n \in DOMAIN from : SubSeq(from, 1, n) = cfg.rules[i].path
  BY <1>3, PrefixIs
<1>5. \A n : ActionOf(SubSeq(from, 1, n)).drop <=>
        \E i \in RulesOf("drop") : cfg.rules[i].path = SubSeq(from, 1, n)
  BY <1>2 DEF DropsKept, Drops
<1> QED
  BY <1>4, <1>5 DEF Dropped

LEMMA SectionsStay ==
  ASSUME SectionsDead, UNCHANGED cfg, Done("sections")' = Done("sections"),
         \A s \in 1 .. Done("sections") : t'.sections[s] = t.sections[s]
  PROVE  SectionsDead'
<1>1. RulesOf("drop")' = RulesOf("drop")
  BY EntriesStay
<1> QED
  BY <1>1 DEF SectionsDead

LEMMA SectionFollows ==
  ASSUME IInv, UsesKept, RulesFollow, pc = "sections", Sections, pc' # "failed"
  PROVE  SectionsDead'
<1>1. /\ cfg \in Configs /\ k \in Nat \ {0} /\ UNCHANGED cfg /\ IsASeq(t.sections)
      /\ "sections" \in Conditioned /\ "sections" \in Looping /\ "rules" \in Looping
      /\ pc \in Range(Steps)
  BY StepNames, TablesSeqs DEF IInv, Shaped, Sections, Looping, Conditioned, Table
<1>2. Done("sections") = k - 1 /\ Done("rules") = Entries("rules")
  <2>1. Place("rules") < Place(pc)
    BY Places
  <2> QED
    BY <1>1, <2>1, DoneIs
<1>3. Len(t.sections) = k - 1
  <2>1. Place(pc) = 12 /\ Place("sections") = 12
    BY Places
  <2> QED
    BY <1>1, <1>2, <2>1 DEF UsesKept, TablesGrow, Table, Made
<1>4. CASE /\ Ends({"sections"})
           /\ t'.sections = IF t.sections = <<>> THEN <<WholeRecord>> ELSE t.sections
  <2> DEFINE S == {"sections"}
  <2>1. Ends(S)
    BY <1>4
  <2> HIDE DEF S
  <2>2. Done("sections")' = Done("sections")
    BY <1>1, <2>1, DoneStays
  <2>3. \A s \in 1 .. Done("sections") : t'.sections[s] = t.sections[s]
    <3>1. CASE t.sections = <<>>
      <4>1. k - 1 = 0
        BY <1>3, <3>1
      <4> QED
        BY <1>2, <4>1
    <3>2. CASE t.sections # <<>>
      BY <1>4, <3>2
    <3> QED
      BY <3>1, <3>2
  <2> QED
    BY <1>1, <2>2, <2>3, SectionsStay DEF RulesFollow
<1>5. ASSUME Goes({"sections", "conds"}), NEW e, t'.sections = Append(t.sections, e),
             e.dead = Dropped(cfg.sections[k].from)
      PROVE  SectionsDead'
  <2> DEFINE S == {"sections", "conds"}
  <2>1. Goes(S)
    BY <1>5
  <2> HIDE DEF S
  <2>2. Done("sections")' = k
    BY <1>1, <2>1, DoneGoes
  <2>3. k <= Entries("sections") /\ DOMAIN cfg.sections = 1 .. Entries("sections")
    BY <1>1, <2>1, Counted DEF Goes, Looping
  <2>4. IsASeq(cfg.sections[k].from)
    BY <1>1, <2>3, Counted, ConfigsAssumption DEF IsConfig
  <2>5. e.dead <=> \E i \in RulesOf("drop") : IsPrefix(cfg.rules[i].path, cfg.sections[k].from)
    BY <1>1, <1>2, <1>5, <2>4, DeadIs DEF RulesFollow, ActionsFollow
  <2>6. t'.sections[k] = e /\ \A s \in 1 .. k - 1 : t'.sections[s] = t.sections[s]
    <3>1. k - 1 + 1 = k
      BY <1>1
    <3> QED
      BY <1>1, <1>3, <1>5, <3>1, AppendASeq
  <2>7. ASSUME NEW s \in 1 .. k
        PROVE  t'.sections[s].dead <=>
                 \E i \in RulesOf("drop") : IsPrefix(cfg.rules[i].path, cfg.sections[s].from)
    <3>1. CASE s = k
      BY <2>5, <2>6, <3>1
    <3>2. CASE s \in 1 .. k - 1
      BY <1>2, <2>6, <3>2 DEF RulesFollow, SectionsDead
    <3> QED
      BY <1>1, <3>1, <3>2
  <2>8. RulesOf("drop")' = RulesOf("drop")
    BY <1>1, EntriesStay
  <2> QED
    BY <1>1, <2>2, <2>7, <2>8 DEF SectionsDead
<1> QED
  BY <1>4, <1>5, SectionsSteps

LEMMA RulesStep ==
  ASSUME IInv, UsesKept, RulesFollow, Next, pc' # "failed"
  PROVE  RulesFollow'
<1>1. PICK S : (Ends(S) \/ Goes(S)) /\ S \subseteq FieldsOf(pc)
  BY StepsTouch
<1>2. /\ UNCHANGED cfg /\ Untouched(S) /\ "rules" \in Looping /\ "sections" \in Looping
      /\ pc \in Range(Steps)
  BY <1>1 DEF Ends, Goes, Looping, Conditioned
<1>3. \A step \in {"rules", "sections"} : step # pc => Done(step)' = Done(step)
  BY <1>1, <1>2, DoneStays, DoneGoes
<1>4. CASE pc = "rules"
  <2>1. Rules
    BY <1>4 DEF Next, Decode, New, Flatten, Input, Derive, Columns, KeyPolicy, KeyFilters,
                SegmentAliases, Aliases, Sections, Outputs, Expose, Finish
  <2>2. ActionsFollow'
    BY <1>4, <2>1, RuleFollows DEF RulesFollow
  <2>3. "sections" \notin S
    BY <1>1, <1>4 DEF FieldsOf, RuleFields
  <2>4. t'.sections = t.sections /\ Done("sections")' = Done("sections")
    BY <1>2, <1>3, <1>4, <2>3 DEF Untouched, Fields
  <2>5. SectionsDead'
    BY <1>2, <2>4, SectionsStay DEF RulesFollow
  <2> QED
    BY <2>2, <2>5 DEF RulesFollow
<1>5. CASE pc # "rules"
  <2>1. S \cap RuleFields = {}
    BY <1>1, <1>2, <1>5, StepNames DEF FieldsOf, RuleFields
  <2>2. UNCHANGED <<t.actions, t.nslots, t.merges>> /\ Done("rules")' = Done("rules")
    BY <1>2, <1>3, <1>5, <2>1 DEF Untouched, Fields, RuleFields
  <2>3. ActionsFollow'
    BY <1>2, <2>2, ActionsStay DEF RulesFollow
  <2>4. CASE pc = "sections"
    <3>1. Sections
      BY <2>4 DEF Next, Decode, New, Flatten, Input, Derive, Columns, KeyPolicy, KeyFilters,
                  SegmentAliases, Aliases, Rules, Outputs, Expose, Finish
    <3> QED
      BY <2>3, <2>4, <3>1, SectionFollows DEF RulesFollow
  <2>5. CASE pc # "sections"
    <3>1. "sections" \notin S
      BY <1>1, <1>2, <1>5, <2>5, StepNames DEF FieldsOf
    <3>2. t'.sections = t.sections /\ Done("sections")' = Done("sections")
      BY <1>2, <1>3, <2>5, <3>1 DEF Untouched, Fields
    <3>3. SectionsDead'
      BY <1>2, <3>2, SectionsStay DEF RulesFollow
    <3> QED
      BY <2>3, <3>3 DEF RulesFollow
  <2> QED
    BY <2>4, <2>5
<1> QED
  BY <1>4, <1>5

AreRulesKept == pc # "failed" => RulesFollow

LEMMA RulesInvariant == Spec => []AreRulesKept
<1>1. Init => AreRulesKept
  <2> SUFFICES ASSUME Init PROVE RulesFollow
    BY DEF AreRulesKept
  <2>1. /\ cfg \in Configs /\ pc = "decode" /\ t.actions = NoTable /\ t.nslots = 0
        /\ t.merges = <<>>
    BY DEF Init
  <2>2. Done("rules") = 0 /\ Done("sections") = 0
    BY <2>1, Places DEF Done
  <2>3. \A op : RulesOf(op) \subseteq Nat \ {0}
    BY <2>1, SourceIs
  <2>4. \A i, op : ~Ruled(i, op)
    BY <2>2, <2>3 DEF Ruled
  <2>5. \A s \in MergeSources : s[1] \in Nat \ {0}
    BY <2>1, <2>3, SourceIs
  <2>6. \A s, path : ~Merges(s, path)
    BY <2>2, <2>5 DEF Merges
  <2>7. \A i, path : ~Drops(i, path) /\ ~Renames(i, path)
    BY <2>4 DEF Drops, Renames
  <2>8. \A path : ActionOf(path) = NoAction /\ path \notin DOMAIN t.actions
    BY <2>1 DEF ActionOf, NoTable
  <2>9. DropsKept /\ RenamesKept /\ SlotsKept /\ ConsumesKept /\ PathsNamed /\ PathsRight
    BY <2>4, <2>6, <2>7, <2>8
    DEF DropsKept, RenamesKept, SlotsKept, ConsumesKept, PathsNamed, PathsRight, NoAction
  <2>10. MergesKept
    <3>1. Filling(0 + 1) = {}
      BY <2>5 DEF Filling
    <3>2. IsFiniteSet(Filling(0 + 1)) /\ Cardinality(Filling(0 + 1)) = 0
      BY <3>1, FS_EmptySet
    <3>3. MergeOf(0 + 1) = 1
      BY <2>1, MergesCounted
    <3>4. IsASeq(<<>>) /\ Len(<<>>) = 0
      BY DEF IsASeq
    <3> QED
      BY <2>1, <2>2, <2>4, <3>2, <3>3, <3>4 DEF MergesKept
  <2>11. SectionsDead
    BY <2>2 DEF SectionsDead
  <2> QED
    BY <2>9, <2>10, <2>11 DEF RulesFollow, ActionsFollow
<1>2. ASSUME IInv, AreUsesKept, AreRulesKept, [Next]_vars PROVE AreRulesKept'
  <2>1. CASE Next
    <3>1. pc # "failed"
      BY <2>1, StepNamed, StepNames
    <3> QED
      BY <1>2, <2>1, <3>1, RulesStep DEF AreUsesKept, AreRulesKept
  <2>2. CASE UNCHANGED vars
    <3>1. UNCHANGED <<cfg, t, pc, k>>
      BY <2>2 DEF vars
    <3>2. Done("rules")' = Done("rules") /\ Done("sections")' = Done("sections")
      BY <3>1, EntriesStay DEF Done, Place
    <3>3. RulesFollow => RulesFollow'
      BY <3>1, <3>2, ActionsStay, SectionsStay DEF RulesFollow
    <3> QED
      BY <1>2, <3>1, <3>3 DEF AreRulesKept
  <2> QED
    BY <1>2, <2>1, <2>2
<1> QED
  BY <1>1, <1>2, Invariance, UsesInvariant, PTL DEF Spec

(* RulesAsWritten (addRename, addDrop, addMerge, dropped): the action at a  *)
(* path is what all rules that name it ask for, each source of a merge      *)
(* fills a slot of its own, and the dead sections are those below a drop.   *)
THEOREM RulesAreAsWritten == Spec => []RulesAsWritten
<1>1. ASSUME IInv, RulesFollow, pc = "done" PROVE RulesAsWritten
  <2> DEFINE r == cfg.rules
             n == Entries("rules")
  <2>1. /\ cfg \in Configs /\ Done("rules") = n /\ n \in Nat /\ DOMAIN r = 1 .. n
        /\ Done("sections") = Entries("sections")
        /\ DOMAIN cfg.sections = 1 .. Entries("sections")
    BY <1>1, AllDone, Counted DEF IInv, Shaped, Looping, Conditioned
  <2>2. /\ \A i, op : Ruled(i, op) <=> i \in RulesOf(op)
        /\ \A op : RulesOf(op) \subseteq 1 .. n
    BY <2>1 DEF Ruled, RulesOf
  <2>3. \A s \in MergeSources : s[1] \in Nat /\ s[1] <= n
    BY <2>1, <2>2, SourceIs
  <2>4. /\ \A i, path : Drops(i, path) <=> i \in RulesOf("drop") /\ r[i].path = path
        /\ \A i, path : Renames(i, path) <=> i \in RulesOf("rename") /\ r[i].from = <<path>>
        /\ \A s, path : Merges(s, path) <=> s \in MergeSources /\ PathOf(s) = path
    BY <2>1, <2>2, <2>3 DEF Drops, Renames, Merges
  <2> DEFINE Asked(a, path) ==
               /\ a.drop <=> \E i \in RulesOf("drop") : r[i].path = path
               /\ \A i \in RulesOf("rename") : r[i].from = <<path>> => a.renameTo = r[i].to
               /\ a.renameTo # NoPath => \E i \in RulesOf("rename") : r[i].from = <<path>>
               /\ a.consume <=> \E s \in MergeSources : PathOf(s) = path /\ ~r[s[1]].keepSources
  <2>5. ASSUME NEW path PROVE Asked(ActionOf(path), path)
    BY <1>1, <2>4 DEF RulesFollow, ActionsFollow, DropsKept, RenamesKept, ConsumesKept
  <2>6. ASSUME NEW path
        PROVE  ActionOf(path).slots =
                 {SlotOf(s[1], s[2]) : s \in {s \in MergeSources : PathOf(s) = path}}
    BY <1>1, <2>4 DEF RulesFollow, ActionsFollow, SlotsKept
  <2>7. DOMAIN t.actions = {r[i].path : i \in RulesOf("drop")}
                             \cup {r[i].from[1] : i \in RulesOf("rename")}
                             \cup {PathOf(s) : s \in MergeSources}
    <3>1. \A path : path \in DOMAIN t.actions <=>
            (\E i : Drops(i, path) \/ Renames(i, path)) \/ (\E s : Merges(s, path))
      BY <1>1 DEF RulesFollow, ActionsFollow, PathsNamed
    <3>2. \A i \in RulesOf("rename") : r[i].from = <<r[i].from[1]>>
      BY <1>1, <2>2 DEF RulesFollow, ActionsFollow, PathsRight
    <3>3. \A i, path : Renames(i, path) <=> i \in RulesOf("rename") /\ r[i].from[1] = path
      BY <2>4, <3>2
    <3> DEFINE dropped == {r[i].path : i \in RulesOf("drop")}
               renamed == {r[i].from[1] : i \in RulesOf("rename")}
               merged == {PathOf(s) : s \in MergeSources}
    <3>4. ASSUME NEW path
          PROVE  /\ path \in dropped <=> \E i : Drops(i, path)
                 /\ path \in renamed <=> \E i : Renames(i, path)
                 /\ path \in merged <=> \E s : Merges(s, path)
      BY <2>4, <3>3
    <3> HIDE DEF dropped, renamed, merged
    <3>5. \A path : path \in DOMAIN t.actions <=> path \in dropped \cup renamed \cup merged
      BY <3>1, <3>4
    <3>6. DOMAIN t.actions = dropped \cup renamed \cup merged
      BY <3>5
    <3> QED
      BY <3>6 DEF dropped, renamed, merged
  <2>8. /\ Len(t.merges) = Cardinality(RulesOf("merge"))
        /\ \A i \in RulesOf("merge") :
             t.merges[MergeOf(i)].slots = [p \in DOMAIN r[i].from |-> SlotOf(i, p)]
    <3>1. /\ MergeOf(n + 1) = Cardinality(RulesOf("merge")) + 1
          /\ Cardinality(RulesOf("merge")) \in Nat
      BY <2>1, MergesCounted
    <3>2. /\ Len(t.merges) = MergeOf(n + 1) - 1
          /\ \A i \in RulesOf("merge") :
               t.merges[MergeOf(i)].slots = [p \in DOMAIN r[i].from |-> SlotOf(i, p)]
      BY <1>1, <2>1, <2>2 DEF RulesFollow, ActionsFollow, MergesKept
    <3> QED
      BY <3>1, <3>2
  <2>9. \A s \in DOMAIN cfg.sections :
          t.sections[s].dead <=>
            \E i \in RulesOf("drop") : IsPrefix(r[i].path, cfg.sections[s].from)
    BY <1>1, <2>1 DEF RulesFollow, SectionsDead
  <2>10. ASSUME NEW path \in DOMAIN t.actions
         PROVE  LET a == t.actions[path]
                IN  /\ a.drop <=> \E i \in RulesOf("drop") : r[i].path = path
                    /\ \A i \in RulesOf("rename") : r[i].from = <<path>> => a.renameTo = r[i].to
                    /\ a.renameTo # NoPath => \E i \in RulesOf("rename") : r[i].from = <<path>>
                    /\ a.slots = {SlotOf(s[1], s[2]) :
                                    s \in {s \in MergeSources : PathOf(s) = path}}
                    /\ a.consume <=>
                         \E s \in MergeSources : PathOf(s) = path /\ ~r[s[1]].keepSources
    <3>1. t.actions[path] = ActionOf(path)
      BY DEF ActionOf
    <3> HIDE DEF r, n
    <3>2. t.actions[path].slots = {SlotOf(s[1], s[2]) :
                                    s \in {s \in MergeSources : PathOf(s) = path}}
      BY <2>6, <3>1
    <3>3. Asked(t.actions[path], path)
      <4> HIDE DEF Asked
      <4> QED
        BY <2>5, <3>1
    <3> QED
      BY <3>2, <3>3, Zenon
  <2> QED
    BY <2>7, <2>8, <2>9, <2>10, Zenon DEF RulesAsWritten, PathOf
<1>2. IInv /\ AreRulesKept => RulesAsWritten
  BY <1>1 DEF AreRulesKept, RulesAsWritten
<1> QED
  BY <1>2, Invariance, RulesInvariant, PTL

-----------------------------------------------------------------------------
(* What is accepted.  The derived values that come before rank r, which is  *)
(* what a list of sources may read that is checked with limit r.            *)

EarlyNames(r) == {n \in DerivedNames : Cardinality(Before(n)) + 1 < r}

ReadBy(s) == IF s.kind \in {"map", "lower"} THEN s.from ELSE s
Reads(s, n) == ReadBy(s).kind = "var" /\ ReadBy(s).var = n

LEMMA NamesReadIs ==
  ASSUME NEW list, NEW n
  PROVE  n \in NamesRead(list) <=>
           n \in DerivedNames \ {Now} /\ \E p \in DOMAIN list : Reads(list[p], n)
BY DEF NamesRead, Reads, ReadBy

LEMMA BeforeFinite ==
  ASSUME cfg \in Configs, NEW n \in DerivedNames
  PROVE  /\ Cardinality(Before(n)) \in Nat /\ Cardinality(DerivedNames) \in Nat
         /\ Cardinality(Before(n)) < Cardinality(DerivedNames)
<1>1. Before(n) = Lower(DerivedNames, n)
  BY DEF Before, Lower
<1> QED
  BY <1>1, NamesFinite, RankBelowAll

LEMMA NameCompiled ==
  ASSUME NEW u, u.kind \in {"path", "var"}
  PROVE  LET c == PathOrVariable(u)
         IN  /\ c.kind = "derived" <=> u.kind = "var" /\ u.var \in DerivedNames \ {Now}
             /\ c.kind = "derived" => c.idx = Cardinality(Before(u.var)) + 1
             /\ c.kind \notin {"map", "lower"}
<1> DEFINE c == PathOrVariable(u)
<1>1. CASE u.kind = "path"
  <2>1. c = Over([kind |-> "path"], PathRef(u.path))
    BY <1>1 DEF PathOrVariable
  <2>2. c.kind = "path" /\ DOMAIN c = {"kind", "name", "inherit"}
    BY <2>1 DEF Over, PathRef
  <2> QED
    BY <1>1, <2>2
<1>2. CASE u.kind = "var"
  <2>1. c = IF u.var = Now THEN [kind |-> "now"]
            ELSE IF u.var \in DerivedNames
                 THEN [kind |-> "derived", idx |-> Cardinality(Before(u.var)) + 1]
                 ELSE [kind |-> "var", var |-> u.var]
    BY <1>2 DEF PathOrVariable
  <2> QED
    BY <1>2, <2>1
<1> QED
  BY <1>1, <1>2

(* A source that is right reads a derived value just when its compiled form *)
(* does, itself or through its from (source, function).                     *)
LEMMA SourceBound ==
  ASSUME cfg \in Configs, NEW s, IsSource(s),
         s.kind \in {"map", "lower"} => s.from.kind \in {"path", "var"}, NEW r \in Nat \ {0}
  PROVE  DerivedIdx(CompiledSource(s)) < r <=>
           \A n \in DerivedNames \ {Now} : Reads(s, n) => n \in EarlyNames(r)
<1> DEFINE u == ReadBy(s)
           c == PathOrVariable(u)
<1>1. s.kind \in {"path", "var", "skew", "map", "lower"}
  BY DEF IsSource
<1>2. CASE s.kind = "skew"
  <2>1. CompiledSource(s) = [kind |-> "skew", sent |-> PathRef(s.sent.path),
                             original |-> PathRef(s.original.path)]
    BY <1>2 DEF CompiledSource
  <2>2. DerivedIdx(CompiledSource(s)) = 0
    BY <2>1 DEF DerivedIdx, Origin
  <2>3. \A n : ~Reads(s, n)
    BY <1>2 DEF Reads, ReadBy
  <2> QED
    BY <2>2, <2>3
<1>3. CASE s.kind # "skew"
  <2>1. u.kind \in {"path", "var"}
    BY <1>1, <1>3 DEF ReadBy
  <2>2. DerivedIdx(CompiledSource(s)) = IF c.kind = "derived" THEN c.idx ELSE 0
    <3>1. CASE s.kind \in {"path", "var"}
      <4>1. u = s /\ CompiledSource(s) = c
        BY <3>1 DEF ReadBy, CompiledSource
      <4>2. c.kind \notin {"map", "lower"}
        BY <2>1, NameCompiled
      <4> QED
        BY <4>1, <4>2 DEF DerivedIdx, Origin
    <3>2. CASE s.kind = "map"
      <4>1. CompiledSource(s) = [kind |-> "map", from |-> c, values |-> s.values]
        BY <3>2 DEF ReadBy, CompiledSource
      <4> HIDE DEF c
      <4> QED
        BY <4>1 DEF DerivedIdx, Origin
    <3>3. CASE s.kind = "lower"
      <4>1. CompiledSource(s) = [kind |-> "lower", from |-> c]
        BY <3>3 DEF ReadBy, CompiledSource
      <4> HIDE DEF c
      <4> QED
        BY <4>1 DEF DerivedIdx, Origin
    <3> QED
      BY <1>1, <1>3, <3>1, <3>2, <3>3
  <2>3. /\ c.kind = "derived" <=> u.kind = "var" /\ u.var \in DerivedNames \ {Now}
        /\ c.kind = "derived" => c.idx = Cardinality(Before(u.var)) + 1
    BY <2>1, NameCompiled
  <2>4. \A n : Reads(s, n) <=> u.kind = "var" /\ u.var = n
    BY DEF Reads
  <2> HIDE DEF u, c
  <2>5. CASE c.kind = "derived"
    <3>1. u.var \in EarlyNames(r) <=> Cardinality(Before(u.var)) + 1 < r
      BY <2>3, <2>5 DEF EarlyNames
    <3> QED
      BY <2>2, <2>3, <2>4, <2>5, <3>1
  <2>6. CASE c.kind # "derived"
    BY <2>2, <2>3, <2>4, <2>6
  <2> QED
    BY <2>5, <2>6
<1> QED
  BY <1>2, <1>3

LEMMA ListBound ==
  ASSUME cfg \in Configs, NEW list, AreSources(list), FromStrings(list), NEW r \in Nat \ {0}
  PROVE  ReadsBefore(CompiledSources(list), r) <=> NamesRead(list) \subseteq EarlyNames(r)
<1>1. \A p \in DOMAIN list :
        DerivedIdx(CompiledSource(list[p])) < r <=>
          \A n \in DerivedNames \ {Now} : Reads(list[p], n) => n \in EarlyNames(r)
  <2> TAKE p \in DOMAIN list
  <2>1. IsSource(list[p])
    BY DEF AreSources
  <2>2. list[p].kind \in {"map", "lower"} => list[p].from.kind \in {"path", "var"}
    BY DEF FromStrings
  <2> QED
    BY <2>1, <2>2, SourceBound
<1>2. ReadsBefore(CompiledSources(list), r) <=>
        \A p \in DOMAIN list : DerivedIdx(CompiledSource(list[p])) < r
  BY DEF ReadsBefore, CompiledSources
<1>3. NamesRead(list) \subseteq EarlyNames(r) <=>
        \A n \in DerivedNames \ {Now} :
          (\E p \in DOMAIN list : Reads(list[p], n)) => n \in EarlyNames(r)
  BY NamesReadIs
<1> QED
  BY <1>1, <1>2, <1>3

(* Before the first name there is none, before all that follow there are    *)
(* all, and before a name are those that come before it.                    *)
LEMMA EarlyIs ==
  ASSUME cfg \in Configs
  PROVE  /\ EarlyNames(1) = {}
         /\ EarlyNames(Cardinality(DerivedNames) + 1) = DerivedNames
         /\ \A n \in DerivedNames : EarlyNames(Cardinality(Before(n)) + 1) = Before(n)
<1>1. ASSUME NEW m \in DerivedNames
      PROVE  m \notin EarlyNames(1) /\ m \in EarlyNames(Cardinality(DerivedNames) + 1)
  <2>1. /\ Cardinality(Before(m)) \in Nat /\ Cardinality(DerivedNames) \in Nat
        /\ Cardinality(Before(m)) < Cardinality(DerivedNames)
    BY BeforeFinite
  <2> QED
    BY <2>1 DEF EarlyNames
<1>2. ASSUME NEW n \in DerivedNames, NEW m \in DerivedNames
      PROVE  m \in EarlyNames(Cardinality(Before(n)) + 1) <=> m < n
  <2>1. /\ Before(m) = Lower(DerivedNames, m) /\ Before(n) = Lower(DerivedNames, n)
        /\ m \in Nat /\ n \in Nat
    BY NamesFinite DEF Before, Lower
  <2>2. Cardinality(Before(m)) \in Nat /\ Cardinality(Before(n)) \in Nat
    BY BeforeFinite
  <2>3. m < n => Cardinality(Before(m)) < Cardinality(Before(n))
    BY <2>1, NamesFinite, RankGrows
  <2>4. n < m => Cardinality(Before(n)) < Cardinality(Before(m))
    BY <2>1, NamesFinite, RankGrows
  <2>5. m = n => Cardinality(Before(n)) = Cardinality(Before(m))
    OBVIOUS
  <2>6. Cardinality(Before(m)) + 1 < Cardinality(Before(n)) + 1 <=> m < n
    BY <2>1, <2>2, <2>3, <2>4, <2>5
  <2> QED
    BY <2>6 DEF EarlyNames
<1>3. \A r : EarlyNames(r) \subseteq DerivedNames
  BY DEF EarlyNames
<1>4. \A n : Before(n) = {m \in DerivedNames : m < n}
  BY DEF Before
<1> QED
  BY <1>1, <1>2, <1>3, <1>4

(* Every condition that has a number is right. *)
CondsRight == \A c \in DOMAIN condIdx : IsCond(condIdx[c])

(* when accepts a condition, new or known, if it is right and reads nothing *)
(* too late.                                                                *)
LEMMA WhenChecked ==
  ASSUME cfg \in Configs, CondsKept, CondsCompiled, CondsRight, NEW w, IsWhen(w), NEW limit \in Nat
  PROVE  WhenOK(w, limit) <=> CondReads(w, EarlyNames(limit + 1))
<1>1. CASE w = NoCond
  BY <1>1 DEF WhenOK, CondReads, IsNew
<1>2. CASE w # NoCond
  <2>1. CondReads(w, EarlyNames(limit + 1)) <=>
          IsCond(w) /\ NamesRead(w.path) \subseteq EarlyNames(limit + 1)
    BY <1>2 DEF CondReads
  <2>2. IsCond(w) => (ReadsBefore(CompiledSources(w.path), limit + 1) <=>
                        NamesRead(w.path) \subseteq EarlyNames(limit + 1))
    <3> SUFFICES ASSUME IsCond(w)
                 PROVE  ReadsBefore(CompiledSources(w.path), limit + 1) <=>
                          NamesRead(w.path) \subseteq EarlyNames(limit + 1)
      OBVIOUS
    <3>1. AreSources(w.path) /\ FromStrings(w.path) /\ limit + 1 \in Nat \ {0}
      BY <1>2 DEF IsCond, IsWhen
    <3> QED
      BY <3>1, ListBound
  <2>3. /\ WhenOK(w, limit) <=> /\ IsNew(w) => IsCond(w)
                                /\ ReadsBefore(Conds(w)[Number(w)].srcs, limit + 1)
    BY <1>2 DEF WhenOK
  <2>4. /\ Known(w) \in {0} \cup DOMAIN condIdx
        /\ Known(w) # 0 => condIdx[Known(w)] = w
    <3> DEFINE hits == {i \in 1..Len(condIdx) : condIdx[i] = w}
    <3>1. Known(w) = IF hits # {} THEN Min(hits) ELSE 0
      BY DEF Known, SelectInSeq
    <3> QED
      BY <3>1, FirstEntry DEF CondsKept
  <2>5. DOMAIN t.conds = DOMAIN condIdx /\ DOMAIN t.conds = 1 .. Len(t.conds)
        /\ Len(t.conds) = Len(condIdx) /\ Len(t.conds) \in Nat
    BY DEF CondsKept, IsASeq
  <2>6. CASE IsNew(w)
    <3>1. Conds(w) = Append(t.conds, CompiledCond(w)) /\ Number(w) = Len(t.conds) + 1
      BY <1>2, <2>5, <2>6 DEF Conds, Number
    <3>2. Conds(w)[Number(w)] = CompiledCond(w)
      BY <3>1, AppendASeq DEF CondsKept
    <3> QED
      BY <2>1, <2>2, <2>3, <2>6, <3>2, CondSources
  <2>7. CASE ~IsNew(w)
    <3>1. Known(w) # 0 /\ Conds(w) = t.conds /\ Number(w) = Known(w)
      BY <1>2, <2>7 DEF IsNew, Conds, Number
    <3>2. Known(w) \in DOMAIN condIdx /\ condIdx[Known(w)] = w
      BY <2>4, <3>1
    <3>3. IsCond(w) /\ t.conds[Known(w)] = CompiledCond(w)
      BY <2>5, <3>2 DEF CondsRight, CondsCompiled
    <3> QED
      BY <2>1, <2>2, <2>3, <2>7, <3>1, <3>3, CondSources
  <2> QED
    BY <2>6, <2>7
<1> QED
  BY <1>1, <1>2

-----------------------------------------------------------------------------
(* What the reference says of one entry of a section, alone and beside      *)
(* another, and of the first n entries.                                     *)

ValueRight(n) ==
  LET d == cfg.derive[n]
  IN  /\ n # 0 /\ n # Now
      /\ AreSources(d.from) /\ NamesRead(d.from) \subseteq Before(n)
      /\ d.normalize \in NormalizeModes
      /\ CondReads(d.when, Before(n))

ColumnRight(c) ==
  /\ c.to # <<>> /\ AreSources(c.from) /\ CondReads(c.when, DerivedNames)
  /\ c.as \in {"", "raw", "string", "number", "bool"}

AliasRight(a) ==
  /\ CondReads(a.when, DerivedNames)
  /\ a.from # <<>>
  /\ a.to \notin ColumnKeys \cup {<<>>, cfg.rest} /\ IsWritten(a.to)
  /\ \A p \in DOMAIN a.from : Froms(a)[p] \notin {<<>>, a.to}

AliasesMeet(i, j) ==
  LET a == cfg.aliases[i]
      b == cfg.aliases[j]
  IN  \A p \in DOMAIN a.from : \A q \in DOMAIN b.from :
        /\ i = j \/ (a.when = NoCond /\ b.when = NoCond)
        /\ Froms(a)[p] = Froms(b)[q]
        => i = j /\ p = q

RulesMeet(i, j) ==
  LET r == cfg.rules[i]
      s == cfg.rules[j]
  IN  /\ r.op = "default" /\ s.op = "default" /\ r.path = s.path => i = j
      /\ r.op = "rename" /\ s.op = "rename" /\ r.from = s.from => i = j
      /\ r.op = "rename" /\ s.op = "drop" => r.from # <<s.path>>

SectionRight(s) == CondReads(s.when, DerivedNames)
SectionsMeet(i, j) ==
  cfg.sections[i].id # "" /\ cfg.sections[i].id = cfg.sections[j].id => i = j

OutputRight(o) ==
  /\ o.name.kind = "text" \/ (o.name.kind = "var" /\ o.name.var \in DerivedNames)
  /\ CondReads(o.when, DerivedNames)
  /\ \A id \in Range(o.sections) : id # "" /\ \E s \in Range(cfg.sections) : s.id = id

Alone(step, i) ==
  CASE step = "derive"   -> ValueRight(NameOf(i))
    [] step = "columns"  -> ColumnRight(cfg.columns[i])
    [] step = "aliases"  -> AliasRight(cfg.aliases[i])
    [] step = "rules"    -> RuleRight(cfg.rules[i])
    [] step = "sections" -> SectionRight(cfg.sections[i])
    [] step = "outputs"  -> OutputRight(cfg.outputs[i])

Meet(step, i, j) ==
  CASE step = "aliases"  -> AliasesMeet(i, j)
    [] step = "rules"    -> RulesMeet(i, j)
    [] step = "sections" -> SectionsMeet(i, j)
    [] OTHER             -> TRUE

UpTo(step, n) ==
  /\ \A i \in 1 .. n : Alone(step, i)
  /\ \A i, j \in 1 .. n : Meet(step, i, j)

(* The entry k is right, beside those before it. *)
Joins(step) ==
  /\ Alone(step, k) /\ Meet(step, k, k)
  /\ \A i \in 1 .. k - 1 : Meet(step, i, k) /\ Meet(step, k, i)

LEMMA UpToNext ==
  ASSUME k \in Nat \ {0}, NEW step, UpTo(step, k - 1)
  PROVE  UpTo(step, k) <=> Joins(step)
<1>1. \A i : i \in 1 .. k <=> i \in 1 .. k - 1 \/ i = k
  OBVIOUS
<1>2. ASSUME Joins(step) PROVE UpTo(step, k)
  <2>1. \A i \in 1 .. k : Alone(step, i)
    BY <1>1, <1>2 DEF UpTo, Joins
  <2>2. ASSUME NEW i \in 1 .. k, NEW j \in 1 .. k
        PROVE  Meet(step, i, j)
    <3>1. CASE i = k
      BY <1>1, <1>2, <3>1 DEF Joins
    <3>2. CASE j = k
      BY <1>1, <1>2, <3>2 DEF Joins
    <3>3. CASE i # k /\ j # k
      BY <1>1, <3>3 DEF UpTo
    <3> QED
      BY <3>1, <3>2, <3>3
  <2> QED
    BY <2>1, <2>2 DEF UpTo
<1>3. ASSUME UpTo(step, k) PROVE Joins(step)
  BY <1>1, <1>3 DEF UpTo, Joins
<1> QED
  BY <1>2, <1>3

LEMMA EntryChecks ==
  ASSUME pc \in Range(Steps), NEW ok, NEW made, Entry(ok, made)
  PROVE  pc' # "failed" <=> ok
BY StepNames DEF Entry, Fail, Goto

LEMMA WhenChecks ==
  ASSUME pc \in Range(Steps), NEW w, NEW limit, NEW ok, NEW made, EntryWhen(w, limit, ok, made)
  PROVE  pc' # "failed" <=> ok /\ WhenOK(w, limit)
BY StepNames DEF EntryWhen, Entry, Fail, Goto

LEMMA WholeChecks ==
  ASSUME pc \in Range(Steps), pc # "finish", NEW ok, NEW made, Whole(ok, made)
  PROVE  pc' # "failed" <=> ok
<1>1. NextStep # "failed"
  BY NextPlace, StepNames
<1> QED
  BY <1>1 DEF Whole, Fail, Goto

LEMMA EndChecks ==
  ASSUME pc \in Range(Steps), pc # "finish", NEW made, EndStep(made)
  PROVE  pc' # "failed"
<1>1. NextStep # "failed"
  BY NextPlace, StepNames
<1> QED
  BY <1>1 DEF EndStep, Goto

(* An entry of a loop is compiled just when it is right beside those before *)
(* it; a loop does not fail at its end.                                     *)
Checked == IF k <= Entries(pc) THEN pc' # "failed" <=> Joins(pc) ELSE pc' # "failed"

LEMMA NamesChosen ==
  ASSUME cfg \in Configs, NEW i \in 1 .. Cardinality(DerivedNames)
  PROVE  NameOf(i) \in DerivedNames /\ Cardinality(Before(NameOf(i))) = i - 1
<1>1. i - 1 \in Nat /\ i - 1 < Cardinality(DerivedNames)
  BY NamesFinite
<1>2. \E n \in DerivedNames : Cardinality(Lower(DerivedNames, n)) = i - 1
  BY <1>1, NamesFinite, EveryRank
<1>3. \A n : Lower(DerivedNames, n) = Before(n)
  BY DEF Lower, Before
<1>4. \E n \in DerivedNames : Cardinality(Before(n)) = i - 1
  BY <1>2, <1>3
<1> QED
  BY <1>4 DEF NameOf

LEMMA DeriveChecked ==
  ASSUME IInv, UsesKept, CondsRight, Derive
  PROVE  Checked
<1>1. /\ cfg \in Configs /\ pc = "derive" /\ pc \in Range(Steps) /\ k \in Nat \ {0}
      /\ Entries("derive") = Cardinality(DerivedNames) /\ Cardinality(DerivedNames) \in Nat
      /\ CondsKept /\ CondsCompiled
  BY StepNames, Counted, NamesFinite DEF IInv, UsesKept, Shaped, Derive
<1>2. CASE k > Cardinality(DerivedNames)
  <2>1. EndStep(t)
    BY <1>2 DEF Derive
  <2> QED
    BY <1>1, <1>2, <2>1, EndChecks DEF Checked
<1>3. CASE ~(k > Cardinality(DerivedNames))
  <2> DEFINE name == NameOf(k)
             d == cfg.derive[name]
             ok == /\ name \notin {0, Now}
                   /\ AreSources(d.from)
                   /\ ReadsBefore(CompiledSources(d.from), k)
                   /\ d.normalize \in NormalizeModes
  <2>1. \E made : EntryWhen(d.when, k - 1, ok, made)
    BY <1>3 DEF Derive, DeriveValue, NameOf
  <2>2. name \in DerivedNames /\ Cardinality(Before(name)) = k - 1
    BY <1>1, <1>3, NamesChosen
  <2>3. EarlyNames(k) = Before(name)
    <3>1. EarlyNames(Cardinality(Before(name)) + 1) = Before(name)
      BY <1>1, <2>2, EarlyIs
    <3>2. Cardinality(Before(name)) + 1 = k
      BY <1>1, <2>2
    <3> QED
      BY <3>1, <3>2
  <2>4. FromStrings(d.from) /\ IsWhen(d.when)
    BY <1>1, <2>2, ConfigsAssumption DEF IsConfig, DerivedNames
  <2>5. AreSources(d.from) =>
          (ReadsBefore(CompiledSources(d.from), k) <=> NamesRead(d.from) \subseteq Before(name))
    <3> SUFFICES ASSUME AreSources(d.from)
                 PROVE  ReadsBefore(CompiledSources(d.from), k) <=>
                          NamesRead(d.from) \subseteq Before(name)
      OBVIOUS
    <3> HIDE DEF d, name
    <3>1. ReadsBefore(CompiledSources(d.from), k) <=> NamesRead(d.from) \subseteq EarlyNames(k)
      BY <1>1, <2>4, ListBound
    <3> QED
      BY <2>3, <3>1
  <2>6. WhenOK(d.when, k - 1) <=> CondReads(d.when, Before(name))
    <3>1. k - 1 \in Nat /\ (k - 1) + 1 = k
      BY <1>1
    <3> HIDE DEF d, name
    <3>2. WhenOK(d.when, k - 1) <=> CondReads(d.when, EarlyNames((k - 1) + 1))
      BY <1>1, <2>4, <3>1, WhenChecked
    <3> QED
      BY <2>3, <3>1, <3>2
  <2>7. pc' # "failed" <=> ok /\ WhenOK(d.when, k - 1)
    <3> HIDE DEF ok, d
    <3> QED
      BY <1>1, <2>1, WhenChecks
  <2>8. ValueRight(name) <=> ok /\ WhenOK(d.when, k - 1)
    <3> HIDE DEF name
    <3>1. ValueRight(name) <=>
            /\ name # 0 /\ name # Now
            /\ AreSources(d.from) /\ NamesRead(d.from) \subseteq Before(name)
            /\ d.normalize \in NormalizeModes
            /\ CondReads(d.when, Before(name))
      BY DEF ValueRight
    <3> HIDE DEF d
    <3> QED
      BY <2>5, <2>6, <3>1
  <2>9. Joins("derive") <=> ValueRight(name)
    BY DEF Joins, Alone, Meet
  <2> HIDE DEF ok, d, name
  <2> QED
    BY <1>1, <1>3, <2>7, <2>8, <2>9 DEF Checked
<1> QED
  BY <1>2, <1>3

(* After derive a condition may read every derived value. *)
LEMMA LateChecked ==
  ASSUME IInv, CondsCompiled, CondsRight, pc \in Range(Steps) \ ToDerive, NEW w, IsWhen(w)
  PROVE  WhenOK(w, Len(t.derived)) <=> CondReads(w, DerivedNames)
<1>1. cfg \in Configs /\ CondsKept /\ Cardinality(DerivedNames) \in Nat
  BY NamesFinite DEF IInv, Shaped
<1>2. Len(t.derived) = Cardinality(DerivedNames)
  BY StepNames DEF IInv, DerivedKept
<1>3. EarlyNames(Len(t.derived) + 1) = DerivedNames
  BY <1>1, <1>2, EarlyIs
<1>4. WhenOK(w, Len(t.derived)) <=> CondReads(w, EarlyNames(Len(t.derived) + 1))
  BY <1>1, <1>2, WhenChecked
<1> QED
  BY <1>3, <1>4

LEMMA ColumnsChecked ==
  ASSUME IInv, UsesKept, CondsRight, Columns
  PROVE  Checked
<1>1. /\ cfg \in Configs /\ pc = "columns" /\ pc \in Range(Steps) \ ToDerive /\ k \in Nat \ {0}
      /\ Entries("columns") = Len(cfg.columns) /\ Entries("columns") \in Nat
      /\ DOMAIN cfg.columns = 1 .. Entries("columns") /\ CondsCompiled
  BY StepNames, Counted DEF IInv, UsesKept, Shaped, Columns, Entries, Looping, Conditioned,
     ToDerive, Opening
<1>2. CASE k > Len(cfg.columns)
  <2>1. EndStep(t)
    BY <1>2 DEF Columns
  <2> QED
    BY <1>1, <1>2, <2>1, EndChecks DEF Checked
<1>3. CASE ~(k > Len(cfg.columns))
  <2> DEFINE c == cfg.columns[k]
             ok == /\ c.to # <<>>
                   /\ c.as \in {"", "raw", "string", "number", "bool"}
                   /\ AreSources(c.from)
  <2>1. \E made : EntryWhen(c.when, Len(t.derived), ok, made)
    BY <1>3 DEF Columns, Column
  <2>2. IsWhen(c.when)
    BY <1>1, <1>3, ConfigsAssumption DEF IsConfig
  <2>3. WhenOK(c.when, Len(t.derived)) <=> CondReads(c.when, DerivedNames)
    <3> HIDE DEF c
    <3> QED
      BY <1>1, <2>2, LateChecked
  <2>4. pc' # "failed" <=> ok /\ WhenOK(c.when, Len(t.derived))
    <3> HIDE DEF ok, c
    <3> QED
      BY <1>1, <2>1, WhenChecks
  <2>5. ColumnRight(c) <=> ok /\ CondReads(c.when, DerivedNames)
    BY DEF ColumnRight
  <2>6. Joins("columns") <=> ColumnRight(c)
    BY DEF Joins, Alone, Meet
  <2> HIDE DEF ok, c
  <2> QED
    BY <1>1, <1>3, <2>3, <2>4, <2>5, <2>6 DEF Checked
<1> QED
  BY <1>2, <1>3

LEMMA SectionsChecked ==
  ASSUME IInv, UsesKept, CondsRight, Sections
  PROVE  Checked
<1>1. /\ cfg \in Configs /\ pc = "sections" /\ pc \in Range(Steps) \ ToDerive /\ k \in Nat \ {0}
      /\ Entries("sections") = Len(cfg.sections) /\ Entries("sections") \in Nat
      /\ DOMAIN cfg.sections = 1 .. Entries("sections") /\ CondsCompiled
  BY StepNames, Counted DEF IInv, UsesKept, Shaped, Sections, Entries, Looping, Conditioned,
     ToDerive, Opening
<1>2. CASE ~(k <= Len(cfg.sections))
  <2>1. \E made : EndStep(made)
    BY <1>2 DEF Sections
  <2> QED
    BY <1>1, <1>2, <2>1, EndChecks DEF Checked
<1>3. CASE k <= Len(cfg.sections)
  <2> DEFINE s == cfg.sections[k]
             ok == s.id \notin SectionIds(k - 1)
  <2>1. \E made : EntryWhen(s.when, Len(t.derived), ok, made)
    BY <1>3 DEF Sections, SectionEntry
  <2>2. IsWhen(s.when)
    BY <1>1, <1>3, ConfigsAssumption DEF IsConfig
  <2>3. WhenOK(s.when, Len(t.derived)) <=> CondReads(s.when, DerivedNames)
    <3> HIDE DEF s
    <3> QED
      BY <1>1, <2>2, LateChecked
  <2>4. pc' # "failed" <=> ok /\ WhenOK(s.when, Len(t.derived))
    <3> HIDE DEF ok, s
    <3> QED
      BY <1>1, <2>1, WhenChecks
  <2>5. ok <=> \A i \in 1 .. k - 1 : SectionsMeet(i, k) /\ SectionsMeet(k, i)
    <3>1. \A i \in 1 .. k - 1 : i # k
      BY <1>1
    <3>2. ok <=> \A i \in 1 .. k - 1 : ~(s.id = cfg.sections[i].id /\ s.id # "")
      BY DEF SectionIds
    <3>3. \A i \in 1 .. k - 1 : SectionsMeet(i, k) /\ SectionsMeet(k, i)
                                  <=> ~(s.id = cfg.sections[i].id /\ s.id # "")
      BY <3>1 DEF SectionsMeet
    <3> HIDE DEF ok, s
    <3> QED
      BY <3>2, <3>3
  <2>6. Joins("sections") <=> SectionRight(s) /\ \A i \in 1 .. k - 1 : SectionsMeet(i, k)
                                                                   /\ SectionsMeet(k, i)
    <3>1. SectionsMeet(k, k)
      BY DEF SectionsMeet
    <3> QED
      BY <3>1 DEF Joins, Alone, Meet
  <2>7. SectionRight(s) <=> CondReads(s.when, DerivedNames)
    BY DEF SectionRight
  <2> HIDE DEF ok, s
  <2> QED
    BY <1>1, <1>3, <2>3, <2>4, <2>5, <2>6, <2>7 DEF Checked
<1> QED
  BY <1>2, <1>3

LEMMA OutputsChecked ==
  ASSUME IInv, UsesKept, CondsRight, Outputs
  PROVE  Checked
<1>1. /\ cfg \in Configs /\ pc = "outputs" /\ pc \in Range(Steps) \ ToDerive /\ k \in Nat \ {0}
      /\ Entries("outputs") = Len(cfg.outputs) /\ Entries("outputs") \in Nat
      /\ DOMAIN cfg.outputs = 1 .. Entries("outputs") /\ CondsCompiled
      /\ DOMAIN cfg.sections = 1 .. Len(cfg.sections)
  BY StepNames, Counted DEF IInv, UsesKept, Shaped, Outputs, Entries, Looping, Conditioned,
     ToDerive, Opening
<1>2. CASE ~(k <= Len(cfg.outputs))
  <2>1. \E made : EndStep(made)
    BY <1>2 DEF Outputs
  <2> QED
    BY <1>1, <1>2, <2>1, EndChecks DEF Checked
<1>3. CASE k <= Len(cfg.outputs)
  <2> DEFINE o == cfg.outputs[k]
             ok == /\ o.name.kind = "var" => o.name.var \in DerivedNames
                   /\ o.name.kind # "none"
                   /\ Range(o.sections) \subseteq SectionIds(Len(cfg.sections))
  <2>1. \E made : EntryWhen(o.when, Len(t.derived), ok, made)
    BY <1>3 DEF Outputs, OutputEntry
  <2>2. IsWhen(o.when) /\ o.name.kind \in {"none", "text", "var"}
    BY <1>1, <1>3, ConfigsAssumption DEF IsConfig
  <2>3. WhenOK(o.when, Len(t.derived)) <=> CondReads(o.when, DerivedNames)
    <3> HIDE DEF o
    <3> QED
      BY <1>1, <2>2, LateChecked
  <2>4. pc' # "failed" <=> ok /\ WhenOK(o.when, Len(t.derived))
    <3> HIDE DEF ok, o
    <3> QED
      BY <1>1, <2>1, WhenChecks
  <2>5. \A id : id \in SectionIds(Len(cfg.sections)) <=>
                  id # "" /\ \E s \in Range(cfg.sections) : s.id = id
    BY <1>1 DEF SectionIds, Range
  <2>6. Range(o.sections) \subseteq SectionIds(Len(cfg.sections)) <=>
          \A id \in Range(o.sections) : id # "" /\ \E s \in Range(cfg.sections) : s.id = id
    <3> HIDE DEF o
    <3> QED
      BY <2>5
  <2>7. OutputRight(o) <=> ok /\ CondReads(o.when, DerivedNames)
    BY <2>2, <2>6 DEF OutputRight
  <2>8. Joins("outputs") <=> OutputRight(o)
    BY DEF Joins, Alone, Meet
  <2> HIDE DEF ok, o
  <2> QED
    BY <1>1, <1>3, <2>3, <2>4, <2>7, <2>8 DEF Checked
<1> QED
  BY <1>2, <1>3

(* The defaults are those of the rules compiled. *)
DefaultsKept ==
  \A path : (\E d \in DOMAIN t.defaults : t.defaults[d].key = path) <=>
              \E i : Ruled(i, "default") /\ cfg.rules[i].path = path

LEMMA RulesChecked ==
  ASSUME IInv, UsesKept, RulesFollow, DefaultsKept, UpTo("rules", k - 1), Rules
  PROVE  Checked
<1>1. /\ cfg \in Configs /\ pc = "rules" /\ pc \in Range(Steps) /\ k \in Nat \ {0}
      /\ Entries("rules") = Len(cfg.rules) /\ Entries("rules") \in Nat
      /\ DOMAIN cfg.rules = 1 .. Entries("rules")
  BY StepNames, Counted DEF IInv, Shaped, Rules, Entries, Looping, Conditioned
<1>2. CASE k > Len(cfg.rules)
  <2>1. EndStep(t)
    BY <1>2 DEF Rules
  <2> QED
    BY <1>1, <1>2, <2>1, EndChecks DEF Checked
<1>3. CASE ~(k > Len(cfg.rules))
  <2> DEFINE r == cfg.rules[k]
  <2>1. Done("rules") = k - 1 /\ k \in DOMAIN cfg.rules
    BY <1>1, <1>3, DoneIs DEF Looping
  <2>2. \A i, op : Ruled(i, op) <=> i \in 1 .. k - 1 /\ cfg.rules[i].op = op
    BY <1>1, <1>3, <2>1 DEF Ruled, RulesOf
  <2>3. /\ r.op \in {"rename", "merge"} => IsASeq(r.from)
        /\ \A i \in 1 .. k : cfg.rules[i].op = "rename" => cfg.rules[i].to # NoPath
    BY <1>1, <1>3, ConfigsAssumption DEF IsConfig
  <2>4. \A i \in 1 .. k - 1 : i # k /\ RuleRight(cfg.rules[i])
    BY <1>1 DEF UpTo, Alone
  <2>5. RenamesKept /\ DropsKept
    BY DEF RulesFollow, ActionsFollow
  <2>6. Joins("rules") <=> /\ RuleRight(r) /\ RulesMeet(k, k)
                           /\ \A i \in 1 .. k - 1 : RulesMeet(i, k) /\ RulesMeet(k, i)
    BY DEF Joins, Alone, Meet
  <2>7. CASE r.op = "rename"
    <3> DEFINE path == r.from[1]
               ok == /\ Len(r.from) = 1 /\ r.from[1] # <<>> /\ r.to # <<>>
                     /\ ActionOf(r.from[1]).renameTo = NoPath
                     /\ ~ActionOf(r.from[1]).drop
    <3>1. \E made : Entry(ok, made)
      BY <1>1, <1>3, <2>7 DEF Rules, AddRename
    <3>2. pc' # "failed" <=> ok
      <4> HIDE DEF ok
      <4> QED
        BY <1>1, <3>1, EntryChecks
    <3>3. RuleRight(r) <=> Len(r.from) = 1 /\ r.from[1] # <<>> /\ r.to # <<>>
      BY <2>7 DEF RuleRight
    <3>4. ActionOf(path).renameTo # NoPath <=>
            \E i \in 1 .. k - 1 : cfg.rules[i].op = "rename" /\ cfg.rules[i].from = <<path>>
      <4>1. ASSUME ActionOf(path).renameTo # NoPath
            PROVE  \E i \in 1 .. k - 1 : cfg.rules[i].op = "rename" /\ cfg.rules[i].from = <<path>>
        <5>1. PICK i : Renames(i, path)
          BY <2>5, <4>1 DEF RenamesKept
        <5> QED
          BY <2>2, <5>1 DEF Renames
      <4>2. ASSUME NEW i \in 1 .. k - 1, cfg.rules[i].op = "rename", cfg.rules[i].from = <<path>>
            PROVE  ActionOf(path).renameTo # NoPath
        <5>1. Renames(i, path)
          BY <2>2, <4>2 DEF Renames
        <5>2. ActionOf(path).renameTo = cfg.rules[i].to
          BY <2>5, <5>1 DEF RenamesKept
        <5> QED
          BY <1>1, <2>3, <4>2, <5>2
      <4> QED
        BY <4>1, <4>2
    <3>5. ActionOf(path).drop <=>
            \E i \in 1 .. k - 1 : cfg.rules[i].op = "drop" /\ cfg.rules[i].path = path
      <4>1. ActionOf(path).drop <=> \E i : Drops(i, path)
        BY <2>5 DEF DropsKept
      <4>2. \A i : Drops(i, path) <=> i \in 1 .. k - 1 /\ cfg.rules[i].op = "drop"
                                      /\ cfg.rules[i].path = path
        BY <2>2 DEF Drops
      <4> QED
        BY <4>1, <4>2
    <3>6. Len(r.from) = 1 => r.from = <<path>>
      BY <2>3, <2>7 DEF IsASeq
    <3>7. RulesMeet(k, k)
      BY <2>7 DEF RulesMeet
    <3>8. \A i \in 1 .. k - 1 :
            RulesMeet(i, k) /\ RulesMeet(k, i) <=>
              /\ cfg.rules[i].op = "rename" => cfg.rules[i].from # r.from
              /\ cfg.rules[i].op = "drop" => r.from # <<cfg.rules[i].path>>
      BY <2>4, <2>7 DEF RulesMeet
    <3>9. Len(r.from) = 1 =>
            (/\ ActionOf(path).renameTo = NoPath
             /\ ~ActionOf(path).drop
             <=> \A i \in 1 .. k - 1 : RulesMeet(i, k) /\ RulesMeet(k, i))
      <4> SUFFICES ASSUME Len(r.from) = 1
                   PROVE  /\ ActionOf(path).renameTo = NoPath
                          /\ ~ActionOf(path).drop
                          <=> \A i \in 1 .. k - 1 : RulesMeet(i, k) /\ RulesMeet(k, i)
        OBVIOUS
      <4>1. r.from = <<path>>
        BY <3>6
      <4> HIDE DEF r, path
      <4>2. \A q : r.from = <<q>> <=> path = q
        BY <4>1
      <4> QED
        BY <3>4, <3>5, <3>8, <4>1, <4>2
    <3> HIDE DEF r
    <3> QED
      BY <1>1, <1>3, <2>6, <3>2, <3>3, <3>7, <3>9 DEF Checked
  <2>8. CASE r.op = "drop"
    <3> DEFINE ok == r.path # <<>> /\ ActionOf(r.path).renameTo = NoPath
    <3>1. \E made : Entry(ok, made)
      BY <1>1, <1>3, <2>8 DEF Rules, AddDrop
    <3>2. pc' # "failed" <=> ok
      <4> HIDE DEF ok
      <4> QED
        BY <1>1, <3>1, EntryChecks
    <3>3. RuleRight(r) <=> r.path # <<>>
      BY <2>8 DEF RuleRight
    <3>4. ActionOf(r.path).renameTo # NoPath <=>
            \E i \in 1 .. k - 1 : cfg.rules[i].op = "rename" /\ cfg.rules[i].from = <<r.path>>
      <4>1. ASSUME ActionOf(r.path).renameTo # NoPath
            PROVE  \E i \in 1 .. k - 1 :
                     cfg.rules[i].op = "rename" /\ cfg.rules[i].from = <<r.path>>
        <5>1. PICK i : Renames(i, r.path)
          BY <2>5, <4>1 DEF RenamesKept
        <5> QED
          BY <2>2, <5>1 DEF Renames
      <4>2. ASSUME NEW i \in 1 .. k - 1, cfg.rules[i].op = "rename", cfg.rules[i].from = <<r.path>>
            PROVE  ActionOf(r.path).renameTo # NoPath
        <5>1. Renames(i, r.path)
          BY <2>2, <4>2 DEF Renames
        <5>2. ActionOf(r.path).renameTo = cfg.rules[i].to
          BY <2>5, <5>1 DEF RenamesKept
        <5> QED
          BY <1>1, <2>3, <4>2, <5>2
      <4> QED
        BY <4>1, <4>2
    <3>5. RulesMeet(k, k)
      BY <2>8 DEF RulesMeet
    <3>6. \A i \in 1 .. k - 1 :
            RulesMeet(i, k) /\ RulesMeet(k, i) <=>
              (cfg.rules[i].op = "rename" => cfg.rules[i].from # <<r.path>>)
      BY <2>4, <2>8 DEF RulesMeet
    <3> HIDE DEF r
    <3> QED
      BY <1>1, <1>3, <2>6, <3>2, <3>3, <3>4, <3>5, <3>6 DEF Checked
  <2>9. CASE r.op = "merge"
    <3> DEFINE ok == /\ r.from # <<>> /\ r.to # <<>>
                     /\ r.mode \in {"", "concat", "array", "first"}
                     /\ <<>> \notin Range(r.from)
    <3>1. \E made : Entry(ok, made)
      BY <1>1, <1>3, <2>9 DEF Rules, AddMerge
    <3>2. pc' # "failed" <=> ok
      <4> HIDE DEF ok
      <4> QED
        BY <1>1, <3>1, EntryChecks
    <3>3. RuleRight(r) <=> ok
      BY <2>9 DEF RuleRight
    <3>4. RulesMeet(k, k) /\ \A i \in 1 .. k - 1 : RulesMeet(i, k) /\ RulesMeet(k, i)
      BY <2>9 DEF RulesMeet
    <3> HIDE DEF r, ok
    <3> QED
      BY <1>1, <1>3, <2>6, <3>2, <3>3, <3>4 DEF Checked
  <2>10. CASE r.op = "default"
    <3> DEFINE ok == /\ r.path # <<>> /\ r.value # NoName
                     /\ \A d \in Range(t.defaults) : d.key # r.path
    <3>1. \E made : Entry(ok, made)
      BY <1>1, <1>3, <2>10 DEF Rules, AddDefault
    <3>2. pc' # "failed" <=> ok
      <4> HIDE DEF ok
      <4> QED
        BY <1>1, <3>1, EntryChecks
    <3>3. RuleRight(r) <=> r.path # <<>> /\ r.value # NoName
      BY <2>10 DEF RuleRight
    <3>4. (\E d \in DOMAIN t.defaults : t.defaults[d].key = r.path) <=>
            \E i : Ruled(i, "default") /\ cfg.rules[i].path = r.path
      BY DEF DefaultsKept
    <3>5. (\A d \in Range(t.defaults) : d.key # r.path) <=>
            ~\E d \in DOMAIN t.defaults : t.defaults[d].key = r.path
      BY DEF Range
    <3>6. RulesMeet(k, k)
      BY <2>10 DEF RulesMeet
    <3>7. \A i \in 1 .. k - 1 :
            RulesMeet(i, k) /\ RulesMeet(k, i) <=>
              ~(cfg.rules[i].op = "default" /\ cfg.rules[i].path = r.path)
      BY <2>4, <2>10 DEF RulesMeet
    <3> HIDE DEF r
    <3>8. (\A d \in Range(t.defaults) : d.key # r.path) <=>
            \A i \in 1 .. k - 1 : RulesMeet(i, k) /\ RulesMeet(k, i)
      BY <2>2, <3>4, <3>5, <3>7
    <3> QED
      BY <1>1, <1>3, <2>6, <3>2, <3>3, <3>6, <3>8 DEF Checked
  <2>11. CASE r.op \notin {"rename", "drop", "merge", "default"}
    <3>1. Fail
      BY <1>3, <2>11 DEF Rules
    <3>2. ~RuleRight(r)
      BY <2>11 DEF RuleRight
    <3> QED
      BY <1>1, <1>3, <2>6, <3>1, <3>2 DEF Checked, Fail, Goto
  <2> QED
    BY <2>7, <2>8, <2>9, <2>10, <2>11
<1> QED
  BY <1>2, <1>3

-----------------------------------------------------------------------------
(* Aliases: the keys of columns and the key of the rest are those of the    *)
(* config by then.                                                          *)

ColumnsNamed == ColumnNames(t) = {cfg.columns[i].to : i \in 1 .. Done("columns")}

RestKept ==
  pc \in {"segmentAliases", "aliases"} => t.rest = IF cfg.rest = <<>> THEN NoName ELSE cfg.rest

AliasOwn(a) ==
  /\ a.from # <<>>
  /\ a.to \notin ColumnKeys \cup {<<>>, cfg.rest} /\ IsWritten(a.to)
  /\ \A p \in DOMAIN a.from : Froms(a)[p] \notin {<<>>, a.to}

LEMMA ColumnKeysAre ==
  ASSUME IInv, UsesKept, ColumnsNamed, pc \in Range(Steps), Place(pc) > Place("columns")
  PROVE  ColumnNames(t) = ColumnKeys
<1>1. DOMAIN cfg.columns = 1 .. Entries("columns")
  BY Counted DEF IInv, Shaped
<1>2. Done("columns") = Entries("columns")
  BY DoneIs DEF Looping, Conditioned
<1>3. ColumnNames(t) = {cfg.columns[i].to : i \in DOMAIN cfg.columns}
  BY <1>1, <1>2 DEF ColumnsNamed
<1> QED
  BY <1>3 DEF ColumnKeys, Range

LEMMA AliasOKIs ==
  ASSUME IInv, UsesKept, ColumnsNamed, RestKept, pc = "aliases",
         NEW a, a.to \in Keys \cup {<<>>}, NEW group
  PROVE  AliasOK(a, group) <=>
           /\ AliasOwn(a) /\ IsInjective(Froms(a))
           /\ \A key : Lists(a, key) => key \notin DOMAIN group
<1>1. ColumnNames(t) = ColumnKeys
  BY ColumnKeysAre, Places, StepNames
<1>2. t.rest = IF cfg.rest = <<>> THEN NoName ELSE cfg.rest
  BY DEF RestKept
<1>3. a.to # <<>> => (a.to # t.rest <=> a.to # cfg.rest)
  BY <1>2, ConfigsAssumption
<1>4. \A key : Lists(a, key) <=> \E p \in DOMAIN a.from : Froms(a)[p] = key
  BY DEF Lists, Froms, Range
<1>5. (\A norm \in Range(Froms(a)) : norm \notin {<<>>, a.to} \cup DOMAIN group) <=>
        /\ \A p \in DOMAIN a.from : Froms(a)[p] \notin {<<>>, a.to}
        /\ \A key : Lists(a, key) => key \notin DOMAIN group
  <2>1. \A norm : norm \in Range(Froms(a)) <=> Lists(a, norm)
    BY DEF Lists
  <2> QED
    BY <1>4, <2>1
<1> QED
  BY <1>1, <1>3, <1>5 DEF AliasOK, AliasOwn

LEMMA AliasMeetsItself ==
  ASSUME NEW i
  PROVE  AliasesMeet(i, i) <=> IsInjective(Froms(cfg.aliases[i]))
<1>1. DOMAIN Froms(cfg.aliases[i]) = DOMAIN cfg.aliases[i].from
  BY DEF Froms
<1> QED
  BY <1>1 DEF AliasesMeet, IsInjective

LEMMA AliasesMeetIs ==
  ASSUME NEW i, NEW j, i # j
  PROVE  AliasesMeet(i, j) /\ AliasesMeet(j, i) <=>
           (cfg.aliases[i].when = NoCond /\ cfg.aliases[j].when = NoCond =>
              \A key : Lists(cfg.aliases[i], key) => ~Lists(cfg.aliases[j], key))
<1> DEFINE a == cfg.aliases[i]
           b == cfg.aliases[j]
<1>1. /\ \A key : Lists(a, key) <=> \E p \in DOMAIN a.from : Froms(a)[p] = key
      /\ \A key : Lists(b, key) <=> \E p \in DOMAIN b.from : Froms(b)[p] = key
  BY DEF Lists, Froms, Range
<1>2. AliasesMeet(i, j) <=>
        (a.when = NoCond /\ b.when = NoCond =>
           \A p \in DOMAIN a.from : \A q \in DOMAIN b.from : Froms(a)[p] # Froms(b)[q])
  BY DEF AliasesMeet
<1>3. AliasesMeet(j, i) <=>
        (a.when = NoCond /\ b.when = NoCond =>
           \A p \in DOMAIN a.from : \A q \in DOMAIN b.from : Froms(a)[p] # Froms(b)[q])
  BY DEF AliasesMeet
<1>4. (\A key : Lists(a, key) => ~Lists(b, key)) <=>
        \A p \in DOMAIN a.from : \A q \in DOMAIN b.from : Froms(a)[p] # Froms(b)[q]
  <2> HIDE DEF a, b
  <2> QED
    BY <1>1
<1> QED
  BY <1>2, <1>3, <1>4

LEMMA AliasesChecked ==
  ASSUME IInv, UsesKept, CondsRight, GroupsFollow, ColumnsNamed, RestKept, Aliases
  PROVE  Checked
<1>1. /\ cfg \in Configs /\ pc = "aliases" /\ pc \in Range(Steps) \ ToDerive /\ k \in Nat \ {0}
      /\ Entries("aliases") = Len(cfg.aliases) /\ Entries("aliases") \in Nat
      /\ DOMAIN cfg.aliases = 1 .. Entries("aliases") /\ CondsCompiled
  BY StepNames, Counted DEF IInv, UsesKept, Shaped, Aliases, Entries, Looping, Conditioned,
     ToDerive, Opening
<1>2. CASE k > Len(cfg.aliases)
  <2>1. \E made : EndStep(made)
    BY <1>2 DEF Aliases
  <2> QED
    BY <1>1, <1>2, <2>1, EndChecks DEF Checked
<1>3. CASE ~(k > Len(cfg.aliases))
  <2> DEFINE a == cfg.aliases[k]
  <2>1. Done("aliases") = k - 1 /\ k \in DOMAIN cfg.aliases /\ \A i \in 1 .. k - 1 : i # k
    BY <1>1, <1>3, DoneIs DEF Looping, Conditioned
  <2>2. IsWhen(a.when) /\ a.to \in Keys \cup {<<>>}
    BY <1>1, <2>1, ConfigsAssumption DEF IsConfig
  <2>3. AliasEntry(a)
    BY <1>3 DEF Aliases
  <2>4. AliasRight(a) <=> AliasOwn(a) /\ CondReads(a.when, DerivedNames)
    BY DEF AliasRight, AliasOwn
  <2>5. \A i \in 1 .. k - 1 :
          AliasesMeet(i, k) /\ AliasesMeet(k, i) <=>
            (cfg.aliases[i].when = NoCond /\ a.when = NoCond =>
               \A key : Lists(cfg.aliases[i], key) => ~Lists(a, key))
    <3> TAKE i \in 1 .. k - 1
    <3>1. i # k
      BY <2>1
    <3> QED
      BY <3>1, AliasesMeetIs
  <2>6. AliasesMeet(k, k) <=> IsInjective(Froms(a))
    BY AliasMeetsItself
  <2>7. Joins("aliases") <=>
          /\ AliasOwn(a) /\ CondReads(a.when, DerivedNames) /\ IsInjective(Froms(a))
          /\ \A i \in 1 .. k - 1 : AliasesMeet(i, k) /\ AliasesMeet(k, i)
    BY <2>4, <2>6 DEF Joins, Alone, Meet
  <2>8. \A group : AliasOK(a, group) <=>
          /\ AliasOwn(a) /\ IsInjective(Froms(a))
          /\ \A key : Lists(a, key) => key \notin DOMAIN group
    <3> HIDE DEF a
    <3> QED
      BY <1>1, <2>2, AliasOKIs
  <2>9. CASE a.when # NoCond
    <3>1. \E made : EntryWhen(a.when, Len(t.derived), AliasOK(a, NoTable), made)
      BY <2>3, <2>9 DEF AliasEntry
    <3> HIDE DEF a
    <3>2. pc' # "failed" <=> AliasOK(a, NoTable) /\ WhenOK(a.when, Len(t.derived))
      BY <1>1, <3>1, WhenChecks
    <3>3. WhenOK(a.when, Len(t.derived)) <=> CondReads(a.when, DerivedNames)
      BY <1>1, <2>2, LateChecked
    <3>4. AliasOK(a, NoTable) <=> AliasOwn(a) /\ IsInjective(Froms(a))
      BY <2>8 DEF NoTable
    <3>5. \A i \in 1 .. k - 1 : AliasesMeet(i, k) /\ AliasesMeet(k, i)
      BY <2>5, <2>9
    <3> QED
      BY <1>1, <1>3, <2>7, <3>2, <3>3, <3>4, <3>5 DEF Checked
  <2>10. CASE a.when = NoCond
    <3>1. \E made : Entry(AliasOK(a, plain), made)
      BY <2>3, <2>10 DEF AliasEntry
    <3>2. \A i : InPlain(i) <=> i \in 1 .. k - 1 /\ cfg.aliases[i].when = NoCond
      BY <1>1, <1>3, <2>1 DEF InPlain, Conditional
    <3>3. \A key : key \in DOMAIN plain <=> \E i : InPlain(i) /\ Lists(cfg.aliases[i], key)
      BY DEF GroupsFollow, PlainKeys
    <3>4. CondReads(a.when, DerivedNames)
      BY <2>10 DEF CondReads
    <3> HIDE DEF a
    <3>5. pc' # "failed" <=> AliasOK(a, plain)
      BY <1>1, <3>1, EntryChecks
    <3>6. (\A key : Lists(a, key) => key \notin DOMAIN plain) <=>
            \A i \in 1 .. k - 1 : AliasesMeet(i, k) /\ AliasesMeet(k, i)
      <4>1. ASSUME \A key : Lists(a, key) => key \notin DOMAIN plain, NEW i \in 1 .. k - 1
            PROVE  AliasesMeet(i, k) /\ AliasesMeet(k, i)
        BY <2>5, <3>2, <3>3, <4>1
      <4>2. ASSUME \A i \in 1 .. k - 1 : AliasesMeet(i, k) /\ AliasesMeet(k, i),
                   NEW key, Lists(a, key), key \in DOMAIN plain
            PROVE  FALSE
        <5>1. PICK i : InPlain(i) /\ Lists(cfg.aliases[i], key)
          BY <3>3, <4>2
        <5>2. i \in 1 .. k - 1 /\ cfg.aliases[i].when = NoCond
          BY <3>2, <5>1
        <5>3. AliasesMeet(i, k) /\ AliasesMeet(k, i)
          BY <4>2, <5>2
        <5> QED
          BY <2>5, <2>10, <4>2, <5>1, <5>2, <5>3
      <4> QED
        BY <4>1, <4>2
    <3> QED
      BY <1>1, <1>3, <2>7, <2>8, <3>4, <3>5, <3>6 DEF Checked
  <2> QED
    BY <2>9, <2>10
<1> QED
  BY <1>2, <1>3

-----------------------------------------------------------------------------
(* Segment aliases: those the range has yielded, and the table of them.     *)

Yielded ==
  IF Place(pc) > Place("segmentAliases") THEN DOMAIN cfg.segAliases
  ELSE IF pc = "segmentAliases" /\ k # 1 THEN DOMAIN cfg.segAliases \ todo ELSE {}

SegmentRight(f) == Snaked(f) # <<>> /\ cfg.segAliases[f] \notin {<<>>, Snaked(f)}

SegmentsTo(D) ==
  /\ \A f \in D : SegmentRight(f)
  /\ \A f, g \in D : Snaked(f) = Snaked(g) => f = g

SegmentsKept ==
  Place(pc) <= Place("segmentAliases") => DOMAIN t.segAliases = {Snaked(f) : f \in Yielded}

LEMMA SegmentChecked ==
  ASSUME IInv, SegmentsKept, SegmentsTo(Yielded), SegmentAliases
  PROVE  \/ pc' # "failed" /\ Ends({}) /\ Yielded = DOMAIN cfg.segAliases
         \/ \E from \in DOMAIN cfg.segAliases \ Yielded :
              /\ pc' # "failed" <=> SegmentsTo(Yielded \cup {from})
              /\ pc' # "failed" => /\ Goes({"segAliases"})
                                   /\ Yielded' = Yielded \cup {from}
                                   /\ DOMAIN t'.segAliases = DOMAIN t.segAliases \cup {Snaked(from)}
<1> DEFINE left == IF k = 1 THEN DOMAIN cfg.segAliases ELSE todo
<1>1. /\ Fields \subseteq DOMAIN t /\ pc = "segmentAliases" /\ pc \in Range(Steps) \ Looping
      /\ UNCHANGED <<cfg, plain>> /\ todo \subseteq DOMAIN cfg.segAliases /\ k \in Nat \ {0}
  BY StepNames DEF IInv, Shaped, SegmentAliases, Looping, Conditioned
<1>2. Yielded = DOMAIN cfg.segAliases \ left
  BY <1>1, Places DEF Yielded
<1>3. DOMAIN t.segAliases = {Snaked(f) : f \in Yielded}
  BY <1>1, Places DEF SegmentsKept
<1>4. CASE left = {}
  <2>1. EndStep(t) /\ condIdx' = condIdx
    BY <1>4 DEF SegmentAliases, EndStep
  <2>2. pc' # "failed"
    BY <1>1, <2>1, EndChecks
  <2>3. Untouched({})
    BY <1>1, <2>1 DEF Untouched, EndStep
  <2>4. Ends({})
    BY <1>1, <2>1, <2>3, EndsHere DEF EndStep, Goto
  <2> QED
    BY <1>2, <1>4, <2>2, <2>4
<1>5. CASE left # {}
  <2>1. \E from \in left : SegmentAlias(from) /\ todo' = left \ {from}
    BY <1>5 DEF SegmentAliases
  <2>2. left \subseteq DOMAIN cfg.segAliases
    BY <1>1
  <2> HIDE DEF left
  <2>3. PICK from \in left : SegmentAlias(from) /\ todo' = left \ {from}
    BY <2>1
  <2> DEFINE norm == Snaked(from)
             to == cfg.segAliases[from]
             ok == norm # <<>> /\ to # <<>> /\ norm # to /\ norm \notin DOMAIN t.segAliases
             made == [t EXCEPT !.segAliases = Over([x \in {norm} |-> to], @)]
  <2>4. Entry(ok, made)
    BY <2>3 DEF SegmentAlias
  <2>5. /\ Fields \subseteq DOMAIN made /\ \A f \in Fields \ {"segAliases"} : made[f] = t[f]
        /\ DOMAIN made.segAliases = DOMAIN t.segAliases \cup {norm}
    BY <1>1 DEF Over, Fields
  <2>6. from \in DOMAIN cfg.segAliases \ Yielded
    BY <1>2, <2>2, <2>3
  <2>7. ok <=> SegmentsTo(Yielded \cup {from})
    <3>1. ok <=> SegmentRight(from) /\ \A f \in Yielded : Snaked(f) # Snaked(from)
      BY <1>3 DEF SegmentRight
    <3> HIDE DEF ok
    <3> QED
      BY <2>6, <3>1 DEF SegmentsTo
  <2> HIDE DEF ok, made, norm
  <2>8. pc' # "failed" <=> ok
    BY <1>1, <2>4, EntryChecks
  <2>9. ASSUME pc' # "failed"
        PROVE  /\ Goes({"segAliases"})
               /\ Yielded' = Yielded \cup {from}
               /\ DOMAIN t'.segAliases = DOMAIN t.segAliases \cup {norm}
    <3> DEFINE S == {"segAliases"}
    <3>1. Fields \subseteq DOMAIN made /\ \A f \in Fields \ S : made[f] = t[f]
      BY <2>5
    <3> HIDE DEF S
    <3>2. Goes(S) /\ t' = made
      BY <1>1, <2>4, <2>9, <3>1, PlainGoes
    <3>3. pc' = pc /\ k' = k + 1
      BY <3>2 DEF Goes
    <3>4. Place(pc)' = Place(pc) /\ Place("segmentAliases")' = Place("segmentAliases")
      BY <3>3 DEF Place
    <3>5. Yielded' = DOMAIN cfg.segAliases \ todo'
      BY <1>1, <3>3, <3>4, Places DEF Yielded
    <3>6. Yielded' = Yielded \cup {from}
      BY <1>2, <2>2, <2>3, <3>5
    <3> QED
      BY <2>5, <3>2, <3>6 DEF S
  <2> QED
    BY <2>6, <2>7, <2>8, <2>9 DEF norm
<1> QED
  BY <1>4, <1>5

-----------------------------------------------------------------------------
(* What the reference says depends on the config alone, and what it says of *)
(* aliases on whether keys are normalised.                                  *)

LEMMA ReadsStay ==
  ASSUME UNCHANGED cfg
  PROVE  /\ DerivedNames' = DerivedNames
         /\ \A n : Before(n)' = Before(n)
         /\ \A i : NameOf(i)' = NameOf(i)
         /\ \A list : NamesRead(list)' = NamesRead(list)
         /\ \A w, names : CondReads(w, names)' <=> CondReads(w, names)
         /\ ColumnKeys' = ColumnKeys
<1>1. DerivedNames' = DerivedNames /\ \A n : Before(n)' = Before(n)
  BY DEF DerivedNames, Before
<1>2. \A i : NameOf(i)' = NameOf(i)
  BY <1>1 DEF NameOf
<1>3. \A list : NamesRead(list)' = NamesRead(list)
  BY <1>1 DEF NamesRead
<1>4. \A w, names : CondReads(w, names)' <=> CondReads(w, names)
  BY <1>3 DEF CondReads
<1>5. ColumnKeys' = ColumnKeys
  BY DEF ColumnKeys
<1> QED
  BY <1>1, <1>2, <1>3, <1>4, <1>5

LEMMA EntriesRightStay ==
  ASSUME UNCHANGED cfg
  PROVE  /\ \A n : ValueRight(n)' <=> ValueRight(n)
         /\ \A c : ColumnRight(c)' <=> ColumnRight(c)
         /\ \A s : SectionRight(s)' <=> SectionRight(s)
         /\ \A o : OutputRight(o)' <=> OutputRight(o)
         /\ \A i, j : RulesMeet(i, j)' <=> RulesMeet(i, j)
         /\ \A i, j : SectionsMeet(i, j)' <=> SectionsMeet(i, j)
<1>1. ASSUME NEW n PROVE ValueRight(n)' <=> ValueRight(n)
  BY ReadsStay DEF ValueRight
<1>2. ASSUME NEW c PROVE ColumnRight(c)' <=> ColumnRight(c)
  BY ReadsStay DEF ColumnRight
<1>3. ASSUME NEW s PROVE SectionRight(s)' <=> SectionRight(s)
  BY ReadsStay DEF SectionRight
<1>4. ASSUME NEW o PROVE OutputRight(o)' <=> OutputRight(o)
  BY ReadsStay DEF OutputRight
<1>5. ASSUME NEW i, NEW j PROVE RulesMeet(i, j)' <=> RulesMeet(i, j)
  BY DEF RulesMeet
<1>6. ASSUME NEW i, NEW j PROVE SectionsMeet(i, j)' <=> SectionsMeet(i, j)
  BY DEF SectionsMeet
<1> QED
  BY <1>1, <1>2, <1>3, <1>4, <1>5, <1>6

LEMMA AliasesRightStay ==
  ASSUME t'.snake = t.snake, UNCHANGED cfg
  PROVE  /\ \A i : AliasRight(cfg.aliases[i])' <=> AliasRight(cfg.aliases[i])
         /\ \A i, j : AliasesMeet(i, j)' <=> AliasesMeet(i, j)
         /\ \A D : SegmentsTo(D)' <=> SegmentsTo(D)
<1>1. \A key : IsWritten(key)' <=> IsWritten(key)
  BY DEF IsWritten
<1>2. /\ \A seg : Snaked(seg)' = Snaked(seg)
      /\ \A i : Froms(cfg.aliases[i])' = Froms(cfg.aliases[i])
  BY FromsSame
<1>3. ASSUME NEW i PROVE AliasRight(cfg.aliases[i])' <=> AliasRight(cfg.aliases[i])
  BY <1>1, <1>2, ReadsStay DEF AliasRight
<1>4. ASSUME NEW i, NEW j PROVE AliasesMeet(i, j)' <=> AliasesMeet(i, j)
  BY <1>2 DEF AliasesMeet
<1>5. ASSUME NEW D PROVE SegmentsTo(D)' <=> SegmentsTo(D)
  BY <1>2 DEF SegmentsTo, SegmentRight
<1> QED
  BY <1>3, <1>4, <1>5

LEMMA UpToStays ==
  ASSUME UNCHANGED cfg, NEW step \in Looping, step = "aliases" => t'.snake = t.snake, NEW n
  PROVE  UpTo(step, n)' <=> UpTo(step, n)
<1>1. ASSUME NEW i PROVE Alone(step, i)' <=> Alone(step, i)
  <2>1. CASE step = "derive"
    BY <2>1, ReadsStay, EntriesRightStay DEF Alone
  <2>2. CASE step = "columns"
    BY <2>2, EntriesRightStay DEF Alone
  <2>3. CASE step = "aliases"
    BY <2>3, AliasesRightStay DEF Alone
  <2>4. CASE step = "rules"
    BY <2>4 DEF Alone
  <2>5. CASE step = "sections"
    BY <2>5, EntriesRightStay DEF Alone
  <2>6. CASE step = "outputs"
    BY <2>6, EntriesRightStay DEF Alone
  <2> QED
    BY <2>1, <2>2, <2>3, <2>4, <2>5, <2>6 DEF Looping, Conditioned
<1>2. ASSUME NEW i, NEW j PROVE Meet(step, i, j)' <=> Meet(step, i, j)
  BY EntriesRightStay, AliasesRightStay DEF Meet
<1> QED
  BY <1>1, <1>2 DEF UpTo

(* The steps that are no loops. *)
Once == {"decode", "new", "flatten", "input", "keyPolicy", "keyFilters", "expose"}

LEMMA OnceStays ==
  ASSUME UNCHANGED cfg, NEW step \in Once
  PROVE  Right(step)' <=> Right(step)
<1>1. /\ IsDecoded' <=> IsDecoded
      /\ IsPooled' <=> IsPooled
      /\ IsFlatten' <=> IsFlatten
      /\ IsInput' <=> IsInput
  BY DEF IsDecoded, IsPooled, IsFlatten, IsInput
<1>2. KeyFiltersRight' <=> KeyFiltersRight
  BY ReadsStay DEF KeyFiltersRight
<1> QED
  BY <1>1, <1>2, ReadsStay DEF Right, Once

LEMMA RightStays ==
  ASSUME UNCHANGED <<cfg, t>>
  PROVE  \A step : Right(step)' <=> Right(step)
<1>1. DeriveRight' <=> DeriveRight
  BY ReadsStay DEF DeriveRight
<1>2. ColumnsRight' <=> ColumnsRight
  BY ReadsStay DEF ColumnsRight
<1>3. SegmentAliasesRight' <=> SegmentAliasesRight
  BY FromsSame DEF SegmentAliasesRight
<1>4. AliasesRight' <=> AliasesRight
  <2>1. \A key : IsWritten(key)' <=> IsWritten(key)
    BY DEF IsWritten
  <2> QED
    BY <2>1, FromsSame, ReadsStay DEF AliasesRight
<1>5. RulesRight' <=> RulesRight
  BY DEF RulesRight, RulesOf
<1>6. SectionsRight' <=> SectionsRight
  BY ReadsStay DEF SectionsRight
<1>7. OutputsRight' <=> OutputsRight
  BY ReadsStay DEF OutputsRight
<1>8. \A step \in Once : Right(step)' <=> Right(step)
  BY OnceStays
<1>9. \A step : step \notin Once => (Right(step)' <=> Right(step))
  BY <1>1, <1>2, <1>3, <1>4, <1>5, <1>6, <1>7 DEF Right, Once
<1> QED
  BY <1>8, <1>9

(* Whether a section is right as a whole is whether its entries are. *)
LEMMA RightIs ==
  ASSUME IInv
  PROVE  /\ \A step \in Looping : Right(step) <=> UpTo(step, Entries(step))
         /\ Right("segmentAliases") <=> SegmentsTo(DOMAIN cfg.segAliases)
<1>1. /\ cfg \in Configs
      /\ DOMAIN cfg.columns = 1 .. Entries("columns")
      /\ DOMAIN cfg.aliases = 1 .. Entries("aliases")
      /\ DOMAIN cfg.rules = 1 .. Entries("rules")
      /\ DOMAIN cfg.sections = 1 .. Entries("sections")
      /\ DOMAIN cfg.outputs = 1 .. Entries("outputs")
      /\ Entries("derive") = Cardinality(DerivedNames)
  BY Counted DEF IInv, Shaped
<1>2. Right("derive") <=> UpTo("derive", Entries("derive"))
  <2>1. Right("derive") <=> \A n \in DerivedNames : ValueRight(n)
    BY DEF Right, DeriveRight, ValueRight
  <2>2. UpTo("derive", Entries("derive")) <=>
          \A i \in 1 .. Cardinality(DerivedNames) : ValueRight(NameOf(i))
    BY <1>1 DEF UpTo, Alone, Meet
  <2>3. \A i \in 1 .. Cardinality(DerivedNames) : NameOf(i) \in DerivedNames
    BY <1>1, NamesChosen
  <2>4. ASSUME NEW n \in DerivedNames
        PROVE  \E i \in 1 .. Cardinality(DerivedNames) : NameOf(i) = n
    <3> DEFINE i == Cardinality(Before(n)) + 1
    <3>1. i \in 1 .. Cardinality(DerivedNames) /\ Cardinality(Before(n)) = i - 1
      BY <1>1, BeforeFinite
    <3> HIDE DEF i
    <3>2. NameOf(i) \in DerivedNames /\ Cardinality(Before(NameOf(i))) = Cardinality(Before(n))
      BY <1>1, <3>1, NamesChosen
    <3>3. /\ Before(n) = Lower(DerivedNames, n) /\ n \in Nat
          /\ Before(NameOf(i)) = Lower(DerivedNames, NameOf(i)) /\ NameOf(i) \in Nat
      BY <1>1, <3>2, NamesFinite DEF Before, Lower
    <3>4. NameOf(i) < n => Cardinality(Before(NameOf(i))) < Cardinality(Before(n))
      BY <1>1, <3>2, <3>3, NamesFinite, RankGrows
    <3>5. n < NameOf(i) => Cardinality(Before(n)) < Cardinality(Before(NameOf(i)))
      BY <1>1, <3>2, <3>3, NamesFinite, RankGrows
    <3>6. Cardinality(Before(n)) \in Nat
      BY <1>1, BeforeFinite
    <3>7. NameOf(i) = n
      BY <3>2, <3>3, <3>4, <3>5, <3>6
    <3> QED
      BY <3>1, <3>7
  <2> QED
    BY <2>1, <2>2, <2>3, <2>4
<1>3. Right("columns") <=> UpTo("columns", Entries("columns"))
  <2>1. Right("columns") <=> \A i \in DOMAIN cfg.columns : ColumnRight(cfg.columns[i])
    BY DEF Right, ColumnsRight, ColumnRight, Range
  <2> QED
    BY <1>1, <2>1 DEF UpTo, Alone, Meet
<1>4. Right("aliases") <=> UpTo("aliases", Entries("aliases"))
  <2>1. Right("aliases") <=>
          /\ \A i \in DOMAIN cfg.aliases : AliasRight(cfg.aliases[i])
          /\ \A i, j \in DOMAIN cfg.aliases : AliasesMeet(i, j)
    BY DEF Right, AliasesRight, AliasRight, AliasesMeet
  <2> QED
    BY <1>1, <2>1 DEF UpTo, Alone, Meet
<1>5. Right("rules") <=> UpTo("rules", Entries("rules"))
  <2>1. Right("rules") <=>
          /\ \A i \in DOMAIN cfg.rules : RuleRight(cfg.rules[i])
          /\ \A i, j \in DOMAIN cfg.rules : RulesMeet(i, j)
    BY DEF Right, RulesRight, RulesMeet, RulesOf, Range
  <2> QED
    BY <1>1, <2>1 DEF UpTo, Alone, Meet
<1>6. Right("sections") <=> UpTo("sections", Entries("sections"))
  <2>1. Right("sections") <=>
          /\ \A i \in DOMAIN cfg.sections : SectionRight(cfg.sections[i])
          /\ \A i, j \in DOMAIN cfg.sections : SectionsMeet(i, j)
    BY DEF Right, SectionsRight, SectionRight, SectionsMeet
  <2> QED
    BY <1>1, <2>1 DEF UpTo, Alone, Meet
<1>7. Right("outputs") <=> UpTo("outputs", Entries("outputs"))
  <2>1. Right("outputs") <=> \A o \in Range(cfg.outputs) : OutputRight(o)
    BY DEF Right, OutputsRight, OutputRight
  <2>2. (\A o \in Range(cfg.outputs) : OutputRight(o)) <=>
          \A i \in DOMAIN cfg.outputs : OutputRight(cfg.outputs[i])
    BY DEF Range
  <2> QED
    BY <1>1, <2>1, <2>2 DEF UpTo, Alone, Meet
<1>8. Right("segmentAliases") <=> SegmentsTo(DOMAIN cfg.segAliases)
  BY DEF Right, SegmentAliasesRight, SegmentsTo, SegmentRight
<1> QED
  BY <1>2, <1>3, <1>4, <1>5, <1>6, <1>7, <1>8 DEF Looping, Conditioned

-----------------------------------------------------------------------------
(* The steps that are no loops. A list has no entry twice just when it has  *)
(* as many as they are.                                                     *)

LEMMA FilterIs ==
  ASSUME NEW list, IsASeq(list)
  PROVE  IsFilter(list) <=> FilterRight(list)
<1>1. Len(list) \in Nat /\ DOMAIN list = 1 .. Len(list) /\ list \in [1 .. Len(list) -> Range(list)]
  BY DEF IsASeq
<1>2. list \in Surjection(1 .. Len(list), Range(list))
  BY <1>1 DEF Surjection, Range
<1>3. IsFiniteSet(1 .. Len(list)) /\ Cardinality(1 .. Len(list)) = Len(list)
  BY <1>1, FS_Interval
<1>4. Cardinality(Range(list)) = Cardinality(1 .. Len(list)) <=>
        list \in Injection(1 .. Len(list), Range(list))
  BY <1>2, <1>3, FS_Surjection
<1>5. list \in Injection(1 .. Len(list), Range(list)) <=> IsInjective(list)
  BY <1>1 DEF Injection
<1>6. (\A n \in DOMAIN list : list[n].text # <<>>) <=> \A e \in Range(list) : e.text # <<>>
  BY DEF Range
<1> QED
  BY <1>3, <1>4, <1>5, <1>6 DEF IsFilter, FilterRight

LEMMA OnceChecked ==
  ASSUME IInv, UsesKept, ColumnsNamed,
         Decode \/ New \/ Flatten \/ Input \/ KeyPolicy \/ KeyFilters \/ Expose
  PROVE  pc \in Once /\ (pc' # "failed" <=> Right(pc))
<1>1. cfg \in Configs
  BY DEF IInv, Shaped
<1>2. CASE Decode
  BY <1>2, WholeChecks, StepNames DEF Decode, Once, Right
<1>3. CASE New
  BY <1>3, WholeChecks, StepNames DEF New, Once, Right
<1>4. CASE Flatten
  BY <1>4, WholeChecks, StepNames DEF Flatten, Once, Right
<1>5. CASE Input
  BY <1>5, WholeChecks, StepNames DEF Input, Once, Right
<1>6. CASE KeyPolicy
  <2> DEFINE ok == /\ cfg.normalize \in NormalizeModes
                   /\ cfg.onCollision \in {"", "keep", "first", "error"}
  <2>1. pc = "keyPolicy" /\ \E made : Whole(ok, made)
    BY <1>6 DEF KeyPolicy
  <2>2. Right("keyPolicy") <=> ok
    BY DEF Right
  <2> HIDE DEF ok
  <2> QED
    BY <2>1, <2>2, WholeChecks, StepNames DEF Once
<1>7. CASE KeyFilters
  <2> DEFINE ok == /\ IsFilter(cfg.keep) /\ IsFilter(cfg.drop)
                   /\ \A e \in Range(cfg.keep) \cap Range(cfg.drop) : e.star
                   /\ cfg.rest # <<>> => cfg.keep # <<>> /\ cfg.rest \notin ColumnNames(t)
  <2>1. pc = "keyFilters" /\ \E made : Whole(ok, made)
    BY <1>7 DEF KeyFilters
  <2>2. ColumnNames(t) = ColumnKeys
    BY <2>1, ColumnKeysAre, Places, StepNames
  <2>3. IsASeq(cfg.keep) /\ IsASeq(cfg.drop)
    BY <1>1, ConfigsAssumption DEF IsConfig
  <2>4. /\ IsFilter(cfg.keep) <=> FilterRight(cfg.keep)
        /\ IsFilter(cfg.drop) <=> FilterRight(cfg.drop)
    BY <2>3, FilterIs
  <2>5. Right("keyFilters") <=> ok
    BY <2>2, <2>4 DEF Right, KeyFiltersRight
  <2> HIDE DEF ok
  <2> QED
    BY <2>1, <2>5, WholeChecks, StepNames DEF Once
<1>8. CASE Expose
  <2> DEFINE ok == cfg.expose # <<>> =>
                     AreSources(cfg.expose) /\ ReadsBefore(CompiledSources(cfg.expose), 1)
  <2>1. pc = "expose" /\ \E made : Whole(ok, made)
    BY <1>8 DEF Expose
  <2>2. FromStrings(cfg.expose)
    BY <1>1, ConfigsAssumption DEF IsConfig
  <2>3. AreSources(cfg.expose) =>
          (ReadsBefore(CompiledSources(cfg.expose), 1) <=> NamesRead(cfg.expose) = {})
    <3> SUFFICES ASSUME AreSources(cfg.expose)
                 PROVE  ReadsBefore(CompiledSources(cfg.expose), 1) <=> NamesRead(cfg.expose) = {}
      OBVIOUS
    <3>1. ReadsBefore(CompiledSources(cfg.expose), 1) <=>
            NamesRead(cfg.expose) \subseteq EarlyNames(1)
      BY <1>1, <2>2, ListBound
    <3> QED
      BY <1>1, <3>1, EarlyIs
  <2>4. Right("expose") <=> ok
    BY <2>3 DEF Right
  <2> HIDE DEF ok
  <2> QED
    BY <2>1, <2>4, WholeChecks, StepNames DEF Once
<1> QED
  BY <1>2, <1>3, <1>4, <1>5, <1>6, <1>7, <1>8

-----------------------------------------------------------------------------
(* All that has been read so far is right. *)

RightSoFar ==
  /\ \A step \in Looping : UpTo(step, Done(step))
  /\ \A step \in Once : Place(step) < Place(pc) => Right(step)
  /\ SegmentsTo(Yielded)

TablesNamed == ColumnsNamed /\ RestKept /\ SegmentsKept /\ DefaultsKept

(* A condition has a number only if an entry uses it that is right. *)
LEMMA CondsAreRight ==
  ASSUME UsesKept, RightSoFar
  PROVE  CondsRight
<1> SUFFICES ASSUME NEW c \in DOMAIN condIdx PROVE IsCond(condIdx[c])
  BY DEF CondsRight
<1> DEFINE w == condIdx[c]
<1>1. w \in Range(condIdx)
  BY DEF Range
<1> HIDE DEF w
<1>2. w # NoCond /\ Used(w)
  BY <1>1 DEF UsesKept, CondsUsed
<1>3. PICK step \in Conditioned : \E i \in 1 .. Done(step) : w = WhenOf(step, i)
  BY <1>2 DEF Used
<1>4. PICK i \in 1 .. Done(step) : w = WhenOf(step, i)
  BY <1>3
<1>5. Alone(step, i)
  BY DEF RightSoFar, UpTo, Looping
<1>6. \E names : CondReads(w, names)
  <2>1. CASE step = "derive"
    BY <1>4, <1>5, <2>1 DEF Alone, WhenOf, ValueRight
  <2>2. CASE step = "columns"
    BY <1>4, <1>5, <2>2 DEF Alone, WhenOf, ColumnRight
  <2>3. CASE step = "aliases"
    BY <1>4, <1>5, <2>3 DEF Alone, WhenOf, AliasRight
  <2>4. CASE step = "sections"
    BY <1>4, <1>5, <2>4 DEF Alone, WhenOf, SectionRight
  <2>5. CASE step = "outputs"
    BY <1>4, <1>5, <2>5 DEF Alone, WhenOf, OutputRight
  <2> QED
    BY <2>1, <2>2, <2>3, <2>4, <2>5 DEF Conditioned
<1>7. IsCond(w)
  BY <1>2, <1>6 DEF CondReads
<1> QED
  BY <1>7 DEF w

(* A step that fails leaves what is made as it is. *)
LEMMA FailsBy ==
  ASSUME pc \in Range(Steps), pc # "finish", pc' = "failed",
         \/ \E made : EndStep(made)
         \/ \E ok, made : Whole(ok, made) \/ Entry(ok, made)
         \/ \E w, limit, ok, made : EntryWhen(w, limit, ok, made)
         \/ Fail
  PROVE  t' = t /\ err' = pc
<1>1. CASE \E made : EndStep(made)
  BY <1>1, EndChecks
<1>2. CASE \E ok, made : Whole(ok, made)
  <2>1. NextStep # "failed"
    BY NextPlace, StepNames
  <2> QED
    BY <1>2, <2>1 DEF Whole, Fail, Goto
<1>3. CASE \E ok, made : Entry(ok, made)
  BY <1>3, StepNames DEF Entry, Fail
<1>4. CASE \E w, limit, ok, made : EntryWhen(w, limit, ok, made)
  BY <1>4, StepNames DEF EntryWhen, Entry, Fail
<1>5. CASE Fail
  BY <1>5 DEF Fail
<1> QED
  BY <1>1, <1>2, <1>3, <1>4, <1>5

LEMMA FailsOnly ==
  ASSUME Next, pc' = "failed"
  PROVE  UNCHANGED <<cfg, t>> /\ err' = pc
<1> DEFINE Acts == \/ \E made : EndStep(made)
                   \/ \E ok, made : Whole(ok, made) \/ Entry(ok, made)
                   \/ \E w, limit, ok, made : EntryWhen(w, limit, ok, made)
                   \/ Fail
<1>1. CASE Decode \/ New \/ Flatten \/ Input \/ KeyPolicy \/ KeyFilters \/ Expose
  <2>1. UNCHANGED cfg /\ \E ok, made : Whole(ok, made)
    BY <1>1 DEF Decode, New, Flatten, Input, KeyPolicy, KeyFilters, Expose, Whole
  <2>2. pc # "finish"
    BY <1>1 DEF Decode, New, Flatten, Input, KeyPolicy, KeyFilters, Expose
  <2> QED
    BY <2>1, <2>2, StepNamed, FailsBy
<1>2. CASE Derive
  <2>1. UNCHANGED cfg /\ Acts /\ pc # "finish"
    BY <1>2 DEF Derive, DeriveValue
  <2> QED
    BY <2>1, StepNamed, FailsBy
<1>3. CASE Columns
  <2>1. UNCHANGED cfg /\ Acts /\ pc # "finish"
    BY <1>3 DEF Columns, Column
  <2> QED
    BY <2>1, StepNamed, FailsBy
<1>4. CASE SegmentAliases
  <2>1. UNCHANGED cfg /\ Acts /\ pc # "finish"
    BY <1>4 DEF SegmentAliases, SegmentAlias
  <2> QED
    BY <2>1, StepNamed, FailsBy
<1>5. CASE Aliases
  <2>1. UNCHANGED cfg /\ Acts /\ pc # "finish"
    BY <1>5 DEF Aliases, AliasEntry
  <2> QED
    BY <2>1, StepNamed, FailsBy
<1>6. CASE Rules
  <2>1. UNCHANGED cfg /\ Acts /\ pc # "finish"
    BY <1>6 DEF Rules, AddRename, AddDrop, AddMerge, AddDefault
  <2> QED
    BY <2>1, StepNamed, FailsBy
<1>7. CASE Sections
  <2>1. UNCHANGED cfg /\ Acts /\ pc # "finish"
    BY <1>7 DEF Sections, SectionEntry
  <2> QED
    BY <2>1, StepNamed, FailsBy
<1>8. CASE Outputs
  <2>1. UNCHANGED cfg /\ Acts /\ pc # "finish"
    BY <1>8 DEF Outputs, OutputEntry
  <2> QED
    BY <2>1, StepNamed, FailsBy
<1>9. CASE Finish
  BY <1>9 DEF Finish, Goto
<1> QED
  BY <1>1, <1>2, <1>3, <1>4, <1>5, <1>6, <1>7, <1>8, <1>9 DEF Next

(* What a step that checks an entry, or all of a section, finds. *)
LEMMA StepChecked ==
  ASSUME IInv, UsesKept, GroupsFollow, RulesFollow, RightSoFar, TablesNamed, Next
  PROVE  \/ pc \in Looping /\ Checked
         \/ pc \in Once /\ (pc' # "failed" <=> Right(pc))
         \/ pc = "segmentAliases" /\ SegmentAliases
         \/ pc = "finish" /\ pc' = "done"
<1>1. CondsRight
  BY CondsAreRight
<1>2. ColumnsNamed /\ RestKept /\ SegmentsKept /\ DefaultsKept
  BY DEF TablesNamed
<1>3. CASE Decode \/ New \/ Flatten \/ Input \/ KeyPolicy \/ KeyFilters \/ Expose
  BY <1>2, <1>3, OnceChecked
<1>4. CASE Derive
  <2>1. pc \in Looping
    BY <1>4 DEF Derive, Looping, Conditioned
  <2> QED
    BY <1>1, <1>4, <2>1, DeriveChecked
<1>5. CASE Columns
  <2>1. pc \in Looping
    BY <1>5 DEF Columns, Looping, Conditioned
  <2> QED
    BY <1>1, <1>5, <2>1, ColumnsChecked
<1>6. CASE SegmentAliases
  BY <1>6 DEF SegmentAliases
<1>7. CASE Aliases
  <2>1. pc \in Looping
    BY <1>7 DEF Aliases, Looping, Conditioned
  <2> QED
    BY <1>1, <1>2, <1>7, <2>1, AliasesChecked
<1>8. CASE Rules
  <2>1. pc = "rules" /\ pc \in Looping /\ pc \in Range(Steps)
    BY <1>8, StepNames DEF Rules, Looping, Conditioned
  <2>2. Done("rules") = k - 1
    BY <2>1, DoneIs
  <2>3. UpTo("rules", k - 1)
    BY <2>1, <2>2 DEF RightSoFar
  <2> QED
    BY <1>2, <1>8, <2>1, <2>3, RulesChecked
<1>9. CASE Sections
  <2>1. pc \in Looping
    BY <1>9 DEF Sections, Looping, Conditioned
  <2> QED
    BY <1>1, <1>9, <2>1, SectionsChecked
<1>10. CASE Outputs
  <2>1. pc \in Looping
    BY <1>10 DEF Outputs, Looping, Conditioned
  <2> QED
    BY <1>1, <1>10, <2>1, OutputsChecked
<1>11. CASE Finish
  BY <1>11 DEF Finish, Goto
<1> QED
  BY <1>3, <1>4, <1>5, <1>6, <1>7, <1>8, <1>9, <1>10, <1>11 DEF Next

LEMMA YieldedStays ==
  ASSUME IInv, NEW S, Ends(S) \/ Goes(S), pc # "segmentAliases"
  PROVE  Yielded' = Yielded /\ (Place(pc) < Place("segmentAliases") => Yielded = {})
<1> DEFINE D == DOMAIN cfg.segAliases
<1>1. /\ UNCHANGED cfg /\ pc \in Range(Steps) /\ pc' \in Range(Steps) \cup {"done"}
      /\ (pc' = pc \/ (Place(pc') = Place(pc) + 1 /\ k' = 1))
  BY DEF Ends, Goes
<1>2. Place("segmentAliases")' = 9 /\ Place("segmentAliases") = 9 /\ Place(pc)' = Place(pc')
  BY Places DEF Place
<1>3. Place(pc) \in Nat /\ Place(pc) # 9 /\ Place(pc') \in Nat
  BY <1>1, <1>2, PlacesDiffer, StepNames
<1>4. Yielded = IF Place(pc) > 9 THEN D ELSE {}
  BY <1>2 DEF Yielded
<1>5. Yielded' = IF Place(pc') > 9 THEN D
                 ELSE IF pc' = "segmentAliases" /\ k' # 1 THEN D \ todo' ELSE {}
  BY <1>1, <1>2 DEF Yielded
<1>6. Place(pc') > 9 <=> Place(pc) > 9
  BY <1>1, <1>3
<1>7. ~(pc' = "segmentAliases" /\ k' # 1)
  BY <1>1
<1> QED
  BY <1>2, <1>3, <1>4, <1>5, <1>6, <1>7

LEMMA ActsAt ==
  ASSUME Next
  PROVE  /\ pc = "columns" => Columns
         /\ pc = "keyFilters" => KeyFilters
         /\ pc = "segmentAliases" => SegmentAliases
         /\ pc = "rules" => Rules
BY DEF Next, Decode, New, Flatten, Input, Derive, Columns, KeyPolicy, KeyFilters, SegmentAliases,
       Aliases, Rules, Sections, Outputs, Expose, Finish

LEMMA RightGoesOn ==
  ASSUME IInv, UsesKept, GroupsFollow, RulesFollow, RightSoFar, TablesNamed, Next,
         pc' # "failed"
  PROVE  RightSoFar'
<1>1. PICK S : (Ends(S) \/ Goes(S)) /\ S \subseteq FieldsOf(pc)
  BY StepsTouch
<1>2. UNCHANGED cfg /\ pc \in Range(Steps) /\ Untouched(S) /\ k \in Nat \ {0}
  BY <1>1 DEF Ends, Goes, IInv, Shaped
<1>3. pc # "keyPolicy" => t'.snake = t.snake
  <2>1. pc # "keyPolicy" => "snake" \notin S
    BY <1>1, <1>2, StepNames DEF FieldsOf, RuleFields
  <2> QED
    BY <1>2, <2>1 DEF Untouched, Fields
<1>4. /\ pc \in Looping => Checked
      /\ pc \in Once => Right(pc)
  <2>1. pc \in Looping => pc \notin Once \cup {"segmentAliases", "finish"}
    BY DEF Looping, Conditioned, Once
  <2>2. pc \in Once => pc \notin {"segmentAliases", "finish"}
    BY DEF Once
  <2> QED
    BY <2>1, <2>2, StepChecked
<1>5. ASSUME NEW step \in Looping PROVE UpTo(step, Done(step))'
  <2>1. UpTo(step, Done(step))
    BY DEF RightSoFar
  <2>2. CASE pc = "keyPolicy" /\ step = "aliases"
    <3>1. Done(step) = 0
      BY <1>2, <2>2, DoneIs, Places
    <3>2. Done(step)' = 0
      <4>1. Done(step)' = IF step = pc THEN k ELSE Done(step)
        BY <1>1, <2>2, DoneStays, DoneGoes
      <4> QED
        BY <2>2, <3>1, <4>1
    <3>3. \A i : i \notin 1 .. 0
      OBVIOUS
    <3> QED
      BY <3>2, <3>3 DEF UpTo
  <2>3. CASE ~(pc = "keyPolicy" /\ step = "aliases")
    <3>1. \A n : UpTo(step, n)' <=> UpTo(step, n)
      BY <1>2, <1>3, <2>3, UpToStays
    <3>2. CASE step = pc /\ Goes(S)
      <4>1. Done(step) = k - 1 /\ Done(step)' = k
        BY <1>2, <3>2, DoneIs, DoneGoes
      <4>2. Joins(step)
        BY <1>4, <3>2 DEF Checked, Goes
      <4>3. UpTo(step, k)
        BY <1>2, <2>1, <4>1, <4>2, UpToNext
      <4> QED
        BY <3>1, <4>1, <4>3
    <3>3. CASE ~(step = pc /\ Goes(S))
      <4>1. Done(step)' = Done(step)
        BY <1>1, <3>3, DoneStays, DoneGoes
      <4> QED
        BY <2>1, <3>1, <4>1
    <3> QED
      BY <3>2, <3>3
  <2> QED
    BY <2>2, <2>3
<1>6. ASSUME NEW step \in Once, Place(step)' < Place(pc)' PROVE Right(step)'
  <2>1. step \in Range(Steps) /\ Place(step)' = Place(step) /\ Place(pc)' = Place(pc')
    BY StepNames DEF Once, Place
  <2>2. Place(step) \in Nat /\ Place(pc) \in Nat /\ (Place(step) = Place(pc) => step = pc)
    BY <1>2, <2>1, PlacesDiffer
  <2>3. Place(pc') = Place(pc) \/ Place(pc') = Place(pc) + 1
    BY <1>1 DEF Ends, Goes
  <2>4. Place(step) < Place(pc) \/ step = pc
    BY <1>6, <2>1, <2>2, <2>3
  <2>5. Right(step)
    BY <1>4, <2>4 DEF RightSoFar
  <2> QED
    BY <1>2, <2>5, OnceStays
<1>7. SegmentsTo(Yielded)'
  <2>1. SegmentsTo(Yielded)
    BY DEF RightSoFar
  <2>2. CASE pc = "segmentAliases"
    <3>1. \A D : SegmentsTo(D)' <=> SegmentsTo(D)
      BY <1>2, <1>3, <2>2, AliasesRightStay
    <3>2. SegmentAliases /\ SegmentsKept
      BY <2>2, ActsAt DEF TablesNamed
    <3>3. CASE Ends({}) /\ Yielded = DOMAIN cfg.segAliases
      <4>1. Place(pc') = Place(pc) + 1
        BY <3>3 DEF Ends
      <4>2. Place("segmentAliases")' = 9 /\ Place(pc)' = 10
        <5>1. Place("segmentAliases")' = Place("segmentAliases") /\ Place(pc)' = Place(pc')
          BY DEF Place
        <5> QED
          BY <2>2, <4>1, <5>1, Places
      <4>3. Yielded' = Yielded
        BY <1>2, <3>3, <4>2 DEF Yielded
      <4> QED
        BY <2>1, <3>1, <4>3
    <3>4. CASE \E from : SegmentsTo(Yielded \cup {from}) /\ Yielded' = Yielded \cup {from}
      BY <3>1, <3>4
    <3> QED
      BY <2>1, <3>2, <3>3, <3>4, SegmentChecked
  <2>3. CASE pc = "keyPolicy"
    <3>1. Yielded' = {}
      BY <1>1, <2>3, YieldedStays, Places
    <3> QED
      BY <3>1 DEF SegmentsTo
  <2>4. CASE pc \notin {"segmentAliases", "keyPolicy"}
    <3>1. Yielded' = Yielded
      BY <1>1, <2>4, YieldedStays
    <3>2. \A D : SegmentsTo(D)' <=> SegmentsTo(D)
      BY <1>2, <1>3, <2>4, AliasesRightStay
    <3> QED
      BY <2>1, <3>1, <3>2
  <2> QED
    BY <2>2, <2>3, <2>4
<1> QED
  BY <1>5, <1>6, <1>7 DEF RightSoFar

LEMMA ColumnAdded ==
  ASSUME IInv, pc' # "failed", Columns, k <= Entries("columns")
  PROVE  \E e : t'.columns = Append(t.columns, e) /\ e.name = cfg.columns[k].to
<1>1. /\ Fields \subseteq DOMAIN t /\ ~(k > Len(cfg.columns))
  BY Counted DEF IInv, Shaped, Looping, Conditioned, Entries
<1> DEFINE c == cfg.columns[k]
           e == [name |-> c.to, srcs |-> CompiledSources(c.from), when |-> Number(c.when),
                 as |-> IF c.as = "" THEN "raw" ELSE c.as, quiet |-> c.quiet]
           made == [t EXCEPT !.columns = Append(@, e)]
<1>2. \E ok : EntryWhen(c.when, Len(t.derived), ok, made)
  BY <1>1 DEF Columns, Column
<1>3. e.name = c.to
  OBVIOUS
<1> HIDE DEF c, e
<1>4. "columns" \in DOMAIN made /\ made.columns = Append(t.columns, e)
  BY <1>1 DEF Fields
<1> HIDE DEF made
<1>5. \E conds : t' = [made EXCEPT !.conds = conds]
  BY <1>2 DEF EntryWhen, Entry, Fail, Goto
<1>6. t'.columns = made.columns
  BY <1>4, <1>5
<1> QED
  BY <1>3, <1>4, <1>6 DEF c

LEMMA RestSet ==
  ASSUME IInv, pc' # "failed", KeyFilters
  PROVE  t'.rest = IF cfg.rest = <<>> THEN NoName ELSE cfg.rest
<1>1. Fields \subseteq DOMAIN t
  BY DEF IInv, Shaped
<1> DEFINE made == [t EXCEPT !.keep = IF cfg.keep = <<>> THEN NoFilter ELSE Matched(cfg.keep),
                             !.drop = Matched(cfg.drop),
                             !.rest = IF cfg.rest = <<>> THEN NoName ELSE cfg.rest]
<1>2. \E ok : Whole(ok, made)
  BY DEF KeyFilters
<1>3. made.rest = IF cfg.rest = <<>> THEN NoName ELSE cfg.rest
  BY <1>1 DEF Fields
<1> HIDE DEF made
<1>4. t' = made
  BY <1>2 DEF Whole, Fail, Goto
<1> QED
  BY <1>3, <1>4

LEMMA DefaultAdded ==
  ASSUME IInv, pc' # "failed", Rules, k <= Entries("rules")
  PROVE  LET r == cfg.rules[k]
         IN  IF r.op = "default" THEN \E e : t'.defaults = Append(t.defaults, e) /\ e.key = r.path
             ELSE t'.defaults = t.defaults
<1> DEFINE r == cfg.rules[k]
<1>1. Fields \subseteq DOMAIN t /\ ~(k > Len(cfg.rules))
  BY DEF IInv, Shaped, Entries
<1>2. /\ CASE r.op = "rename"  -> AddRename(r)
           [] r.op = "drop"    -> AddDrop(r)
           [] r.op = "merge"   -> AddMerge(r)
           [] r.op = "default" -> AddDefault(r)
           [] OTHER -> Fail
      /\ ~Fail
  BY <1>1 DEF Rules, Fail, Goto
<1> HIDE DEF r
<1>3. ASSUME NEW ok, NEW made, Entry(ok, made) PROVE t' = made
  BY <1>3, <1>2 DEF Entry
<1>4. CASE r.op = "rename"
  <2> DEFINE made == [t EXCEPT !.actions =
               Over([x \in {r.from[1]} |-> [ActionOf(x) EXCEPT !.renameTo = r.to]], @)]
  <2>1. \E ok : Entry(ok, made)
    BY <1>2, <1>4 DEF AddRename
  <2>2. made.defaults = t.defaults
    BY <1>1 DEF Fields
  <2> HIDE DEF made
  <2> QED
    BY <1>3, <1>4, <2>1, <2>2 DEF r
<1>5. CASE r.op = "drop"
  <2> DEFINE made == [t EXCEPT !.actions =
               Over([x \in {r.path} |-> [ActionOf(x) EXCEPT !.drop = TRUE]], @)]
  <2>1. \E ok : Entry(ok, made)
    BY <1>2, <1>5 DEF AddDrop
  <2>2. made.defaults = t.defaults
    BY <1>1 DEF Fields
  <2> HIDE DEF made
  <2> QED
    BY <1>3, <1>5, <2>1, <2>2 DEF r
<1>6. CASE r.op = "merge"
  <2> DEFINE new == Over([path \in Range(r.from) |->
                            LET action == ActionOf(path)
                            IN  [action EXCEPT !.slots = @ \cup Filled(r, path),
                                               !.consume = Consumes(r, action)]], t.actions)
             total == t.nslots + Len(r.from)
             e == [to |-> r.to, mode |-> IF r.mode = "" THEN "concat" ELSE r.mode,
                   slots |-> [n \in DOMAIN r.from |-> t.nslots + n]]
             made == [t EXCEPT !.actions = new, !.nslots = total, !.merges = Append(@, e)]
  <2>1. \E ok : Entry(ok, made)
    BY <1>2, <1>6 DEF AddMerge
  <2> HIDE DEF new, total, e
  <2>2. made.defaults = t.defaults
    BY <1>1 DEF Fields
  <2> HIDE DEF made
  <2> QED
    BY <1>3, <1>6, <2>1, <2>2 DEF r
<1>7. CASE r.op = "default"
  <2> DEFINE e == [key |-> r.path, value |-> r.value]
             made == [t EXCEPT !.defaults = Append(@, e)]
  <2>1. \E ok : Entry(ok, made)
    BY <1>2, <1>7 DEF AddDefault
  <2>2. e.key = r.path
    OBVIOUS
  <2> HIDE DEF e
  <2>3. made.defaults = Append(t.defaults, e)
    BY <1>1 DEF Fields
  <2> HIDE DEF made
  <2> QED
    BY <1>3, <1>7, <2>1, <2>2, <2>3 DEF r
<1> QED
  BY <1>2, <1>4, <1>5, <1>6, <1>7

LEMMA TablesGoOn ==
  ASSUME IInv, UsesKept, RightSoFar, TablesNamed, Next, pc' # "failed"
  PROVE  TablesNamed'
<1>1. PICK S : (Ends(S) \/ Goes(S)) /\ S \subseteq FieldsOf(pc)
  BY StepsTouch
<1>2. /\ UNCHANGED cfg /\ cfg \in Configs /\ pc \in Range(Steps) /\ Untouched(S)
      /\ pc' \in Range(Steps) \cup {"done"} /\ k \in Nat \ {0}
      /\ "columns" \in Looping /\ "rules" \in Looping
  BY <1>1 DEF Ends, Goes, IInv, Shaped, Looping, Conditioned
<1>3. /\ Place(pc) \in Nat /\ (Place(pc') = Place(pc) \/ Place(pc') = Place(pc) + 1)
      /\ Place(pc)' = Place(pc') /\ \A step : Place(step)' = Place(step)
  <2>1. Place(pc)' = Place(pc') /\ \A step : Place(step)' = Place(step)
    BY DEF Place
  <2>2. Place(pc') = Place(pc) \/ Place(pc') = Place(pc) + 1
    BY <1>1 DEF Ends, Goes
  <2>3. Place(pc) \in Nat
    BY <1>2, PlacesDiffer
  <2> QED
    BY <2>1, <2>2, <2>3
<1>4. ColumnsNamed'
  <2>1. CASE pc = "columns" /\ Goes(S)
    <3>1. Done("columns") = k - 1 /\ Done("columns")' = k /\ k <= Entries("columns")
      BY <1>2, <2>1, DoneIs, DoneGoes DEF Goes
    <3>2. PICK e : t'.columns = Append(t.columns, e) /\ e.name = cfg.columns[k].to
      BY <2>1, <3>1, ActsAt, ColumnAdded
    <3>3. IsASeq(t.columns)
      BY DEF IInv, ColumnsKept
    <3>4. /\ DOMAIN t'.columns = DOMAIN t.columns \cup {Len(t.columns) + 1}
          /\ t'.columns[Len(t.columns) + 1] = e
          /\ \A i \in DOMAIN t.columns : t'.columns[i] = t.columns[i]
      BY <3>2, <3>3, AppendASeq
    <3>5. ColumnNames(t)' = ColumnNames(t) \cup {cfg.columns[k].to}
      BY <3>2, <3>4 DEF ColumnNames
    <3>6. \A i : i \in 1 .. k <=> i \in 1 .. k - 1 \/ i = k
      BY <1>2
    <3>7. ColumnNames(t) = {cfg.columns[i].to : i \in 1 .. k - 1}
      BY <3>1 DEF TablesNamed, ColumnsNamed
    <3>8. ColumnNames(t)' = {cfg.columns[i].to : i \in 1 .. k}
      BY <3>5, <3>6, <3>7
    <3> QED
      BY <1>2, <3>1, <3>8 DEF ColumnsNamed
  <2>2. CASE ~(pc = "columns" /\ Goes(S))
    <3>1. Done("columns")' = Done("columns")
      BY <1>1, <1>2, <2>2, DoneStays, DoneGoes
    <3>2. t'.columns = t.columns
      <4>1. CASE pc = "columns"
        <5>1. Columns /\ k > Len(cfg.columns)
          BY <1>1, <2>2, <4>1, ActsAt DEF Ends, Looping, Conditioned, Entries
        <5> QED
          BY <5>1 DEF Columns, EndStep
      <4>2. CASE pc # "columns"
        <5>1. "columns" \notin S
          BY <1>1, <1>2, <4>2, StepNames DEF FieldsOf, RuleFields
        <5> QED
          BY <1>2, <5>1 DEF Untouched, Fields
      <4> QED
        BY <4>1, <4>2
    <3> QED
      BY <1>2, <3>1, <3>2 DEF TablesNamed, ColumnsNamed, ColumnNames
  <2> QED
    BY <2>1, <2>2
<1>5. RestKept'
  <2>1. CASE pc = "keyFilters"
    BY <1>2, <2>1, ActsAt, RestSet DEF RestKept
  <2>2. CASE pc # "keyFilters" /\ pc' \in {"segmentAliases", "aliases"}
    <3>1. Place(pc') \in 9 .. 10 /\ Place(pc) # 8
      BY <1>2, <2>2, Places, PlacesDiffer, StepNames
    <3>2. Place(pc) \in 9 .. 10
      BY <1>3, <3>1
    <3>3. pc \in {"segmentAliases", "aliases"}
      BY <1>2, <3>2, Places, StepNames
    <3>4. "rest" \notin S
      BY <1>1, <3>3 DEF FieldsOf
    <3>5. t'.rest = t.rest
      BY <1>2, <3>4 DEF Untouched, Fields
    <3> QED
      BY <1>2, <3>3, <3>5 DEF TablesNamed, RestKept
  <2> QED
    BY <2>1, <2>2 DEF RestKept
<1>6. SegmentsKept'
  <2> SUFFICES ASSUME Place(pc') <= 9
               PROVE  DOMAIN t'.segAliases = {Snaked(f) : f \in Yielded}'
    BY <1>3, Places DEF SegmentsKept
  <2>1. DOMAIN t.segAliases = {Snaked(f) : f \in Yielded}
    BY <1>3, Places DEF TablesNamed, SegmentsKept
  <2>2. CASE pc = "segmentAliases"
    <3>1. Place(pc) = 9 /\ SegmentAliases /\ SegmentsKept
      BY <2>2, ActsAt, Places DEF TablesNamed
    <3>2. ~Ends({})
      BY <1>3, <3>1 DEF Ends
    <3>3. PICK from : /\ Goes({"segAliases"}) /\ Yielded' = Yielded \cup {from}
                      /\ DOMAIN t'.segAliases = DOMAIN t.segAliases \cup {Snaked(from)}
      BY <3>1, <3>2, SegmentChecked DEF RightSoFar
    <3>4. t'.snake = t.snake
      BY <3>3 DEF Goes, Untouched, Fields
    <3>5. \A seg : Snaked(seg)' = Snaked(seg)
      BY <1>2, <3>4, FromsSame
    <3>6. {Snaked(f) : f \in Yielded}' = {Snaked(f) : f \in Yielded \cup {from}}
      BY <3>3, <3>5
    <3> QED
      BY <2>1, <3>3, <3>6
  <2>3. CASE pc # "segmentAliases"
    <3>1. Place(pc) < 9
      BY <1>2, <1>3, <2>3, Places, PlacesDiffer, StepNames
    <3>2. Yielded = {} /\ Yielded' = {}
      BY <1>1, <2>3, <3>1, YieldedStays, Places
    <3>3. "segAliases" \notin S
      BY <1>1, <1>2, <2>3, StepNames DEF FieldsOf, RuleFields
    <3>4. t'.segAliases = t.segAliases
      BY <1>2, <3>3 DEF Untouched, Fields
    <3> QED
      BY <2>1, <3>2, <3>4
  <2> QED
    BY <2>2, <2>3
<1>7. DefaultsKept'
  <2>1. CASE pc = "rules" /\ Goes(S)
    <3>1. /\ Rules /\ k <= Entries("rules") /\ k \in DOMAIN cfg.rules
          /\ Done("rules") = k - 1 /\ Done("rules")' = k
      BY <1>2, <2>1, ActsAt, DoneIs, DoneGoes, Counted DEF Goes
    <3>2. Goes(RuleFields)
      <4>1. Ends({}) \/ Goes(RuleFields)
        BY <3>1, RulesSteps
      <4>2. ~Ends({})
        BY <1>2, <2>1 DEF Ends, Goes
      <4> QED
        BY <4>1, <4>2
    <3>3. \A i, op : Ruled(i, op)' <=> Ruled(i, op) \/ (i = k /\ cfg.rules[k].op = op)
      BY <2>1, <3>1, <3>2, RuleDone
    <3>4. CASE cfg.rules[k].op = "default"
      <4>1. PICK e : t'.defaults = Append(t.defaults, e) /\ e.key = cfg.rules[k].path
        BY <3>1, <3>4, DefaultAdded
      <4>2. IsASeq(t.defaults)
        BY DEF IInv, RulesKept
      <4>3. /\ DOMAIN t'.defaults = DOMAIN t.defaults \cup {Len(t.defaults) + 1}
            /\ t'.defaults[Len(t.defaults) + 1] = e
            /\ \A i \in DOMAIN t.defaults : t'.defaults[i] = t.defaults[i]
        BY <4>1, <4>2, AppendASeq
      <4>4. \A path : (\E d \in DOMAIN t'.defaults : t'.defaults[d].key = path) <=>
                        (\E d \in DOMAIN t.defaults : t.defaults[d].key = path)
                        \/ cfg.rules[k].path = path
        BY <4>1, <4>3
      <4> QED
        BY <1>2, <3>3, <3>4, <4>4 DEF TablesNamed, DefaultsKept
    <3>5. CASE cfg.rules[k].op # "default"
      <4>1. t'.defaults = t.defaults
        BY <3>1, <3>5, DefaultAdded
      <4> QED
        BY <1>2, <3>3, <3>5, <4>1 DEF TablesNamed, DefaultsKept
    <3> QED
      BY <3>4, <3>5
  <2>2. CASE ~(pc = "rules" /\ Goes(S))
    <3>1. Done("rules")' = Done("rules")
      BY <1>1, <1>2, <2>2, DoneStays, DoneGoes
    <3>2. \A i, op : Ruled(i, op)' <=> Ruled(i, op)
      BY <1>2, <3>1, EntriesStay DEF Ruled
    <3>3. t'.defaults = t.defaults
      <4>1. CASE pc = "rules"
        <5>1. Rules /\ k > Len(cfg.rules)
          BY <1>1, <2>2, <4>1, ActsAt DEF Ends, Looping, Entries
        <5> QED
          BY <5>1 DEF Rules, EndStep
      <4>2. CASE pc # "rules"
        <5>1. "defaults" \notin S
          BY <1>1, <1>2, <4>2, StepNames DEF FieldsOf
        <5> QED
          BY <1>2, <5>1 DEF Untouched, Fields
      <4> QED
        BY <4>1, <4>2
    <3> QED
      BY <1>2, <3>2, <3>3 DEF TablesNamed, DefaultsKept
  <2> QED
    BY <2>1, <2>2
<1> QED
  BY <1>4, <1>5, <1>6, <1>7 DEF TablesNamed

RightKept == RightSoFar /\ TablesNamed

LEMMA RightInit == Init => RightKept
<1> SUFFICES ASSUME Init PROVE RightKept
  OBVIOUS
<1>1. /\ cfg \in Configs /\ pc = "decode" /\ k = 1 /\ t.columns = <<>>
      /\ t.segAliases = NoTable /\ t.defaults = <<>>
  BY DEF Init
<1>2. \A step \in Looping : Done(step) = 0
  <2> TAKE step \in Looping
  <2>1. Place(pc) < Place(step) /\ pc # step /\ Place(step) \in Nat /\ Place(pc) \in Nat
    BY <1>1, Places DEF Looping, Conditioned
  <2> QED
    BY <2>1 DEF Done
<1>3. Yielded = {}
  BY <1>1, Places DEF Yielded
<1>4. \A i : i \notin 1 .. 0
  OBVIOUS
<1>5. RightSoFar
  <2>1. \A step \in Looping : UpTo(step, Done(step))
    BY <1>2, <1>4 DEF UpTo
  <2>2. ASSUME NEW step \in Once, Place(step) < Place(pc) PROVE FALSE
    BY <1>1, <2>2, Places DEF Once
  <2>3. SegmentsTo(Yielded)
    BY <1>3 DEF SegmentsTo
  <2> QED
    BY <2>1, <2>2, <2>3 DEF RightSoFar
<1>6. ColumnsNamed
  BY <1>1, <1>2, <1>4 DEF ColumnsNamed, ColumnNames, Looping, Conditioned
<1>7. RestKept
  BY <1>1 DEF RestKept
<1>8. SegmentsKept
  BY <1>1, <1>3 DEF SegmentsKept, NoTable
<1>9. DefaultsKept
  <2>1. \A i, op : ~Ruled(i, op)
    <3>1. Done("rules") = 0
      BY <1>2 DEF Looping
    <3>2. \A op : RulesOf(op) \subseteq Nat \ {0}
      BY <1>1, SourceIs
    <3> QED
      BY <3>1, <3>2 DEF Ruled
  <2> QED
    BY <1>1, <2>1 DEF DefaultsKept
<1> QED
  BY <1>5, <1>6, <1>7, <1>8, <1>9 DEF RightKept, TablesNamed

LEMMA RightSame ==
  ASSUME UNCHANGED vars, RightKept
  PROVE  RightKept'
<1>1. UNCHANGED <<cfg, t, todo, pc, k>> /\ t'.snake = t.snake
  BY DEF vars
<1>2. /\ \A step : Place(step)' = Place(step) /\ Done(step)' = Done(step)
      /\ Place(pc)' = Place(pc)
  BY <1>1, EntriesStay DEF Place, Done
<1>3. Yielded' = Yielded
  BY <1>1, <1>2 DEF Yielded
<1>4. RightSoFar'
  <2>1. \A step \in Looping : UpTo(step, Done(step))'
    <3> TAKE step \in Looping
    <3>1. \A n : UpTo(step, n)' <=> UpTo(step, n)
      BY <1>1, UpToStays
    <3>2. UpTo(step, Done(step))
      BY DEF RightKept, RightSoFar
    <3> QED
      BY <1>2, <3>1, <3>2
  <2>2. \A step \in Once : Place(step)' < Place(pc)' => Right(step)'
    BY <1>1, <1>2, OnceStays DEF RightKept, RightSoFar
  <2>3. SegmentsTo(Yielded)'
    <3>1. \A D : SegmentsTo(D)' <=> SegmentsTo(D)
      BY <1>1, AliasesRightStay
    <3> QED
      BY <1>3, <3>1 DEF RightKept, RightSoFar
  <2> QED
    BY <2>1, <2>2, <2>3 DEF RightSoFar
<1>5. ColumnsNamed' /\ RestKept'
  BY <1>1, <1>2 DEF RightKept, TablesNamed, ColumnsNamed, ColumnNames, RestKept
<1>6. SegmentsKept'
  <2>1. \A seg : Snaked(seg)' = Snaked(seg)
    BY <1>1, FromsSame
  <2>2. {Snaked(f) : f \in Yielded}' = {Snaked(f) : f \in Yielded}
    BY <1>3, <2>1
  <2> QED
    BY <1>1, <1>2, <2>2 DEF RightKept, TablesNamed, SegmentsKept
<1>7. DefaultsKept'
  <2>1. \A i, op : Ruled(i, op)' <=> Ruled(i, op)
    BY <1>1, <1>2, EntriesStay DEF Ruled
  <2> QED
    BY <1>1, <2>1 DEF RightKept, TablesNamed, DefaultsKept
<1> QED
  BY <1>4, <1>5, <1>6, <1>7 DEF RightKept, TablesNamed

IsRightKept == pc # "failed" => RightKept

LEMMA RightInvariant == Spec => []IsRightKept
<1>1. Init => IsRightKept
  BY RightInit DEF IsRightKept
<1>2. ASSUME IInv, AreUsesKept, AreGroupsKept, AreRulesKept, IsRightKept, [Next]_vars
      PROVE  IsRightKept'
  <2>1. CASE Next /\ pc' # "failed"
    <3>1. pc # "failed"
      BY <2>1, StepNamed, StepNames
    <3>2. UsesKept /\ GroupsFollow /\ RulesFollow /\ RightSoFar /\ TablesNamed
      BY <1>2, <3>1 DEF AreUsesKept, AreGroupsKept, AreRulesKept, IsRightKept, RightKept
    <3>3. RightSoFar' /\ TablesNamed'
      BY <1>2, <2>1, <3>2, RightGoesOn, TablesGoOn
    <3> QED
      BY <3>3 DEF IsRightKept, RightKept
  <2>2. CASE Next /\ pc' = "failed"
    BY <2>2 DEF IsRightKept
  <2>3. CASE UNCHANGED vars
    <3>1. pc' = pc
      BY <2>3 DEF vars
    <3> QED
      BY <1>2, <2>3, <3>1, RightSame DEF IsRightKept
  <2> QED
    BY <1>2, <2>1, <2>2, <2>3
<1> QED
  BY <1>1, <1>2, Invariance, UsesInvariant, GroupsInvariant, RulesInvariant, PTL DEF Spec

-----------------------------------------------------------------------------
(* The steps that are over are right, and one that fails is not. *)

LEMMA StepKinds ==
  Range(Steps) = Looping \cup Once \cup {"segmentAliases", "finish"}
BY StepNames DEF Looping, Conditioned, Once

LEMMA EarlierRight ==
  ASSUME IInv, UsesKept, RightSoFar, pc \in Range(Steps) \cup {"done"},
         NEW step \in Range(Steps), Place(step) < Place(pc)
  PROVE  Right(step)
<1>1. CASE step \in Looping
  <2>1. Done(step) = Entries(step)
    <3>1. Place(step) \in Nat /\ Place(pc) \in Nat
      BY PlacesDiffer
    <3>2. Place(pc) > Place(step)
      BY <3>1
    <3> QED
      BY <1>1, <3>2, DoneIs
  <2>2. UpTo(step, Entries(step))
    BY <1>1, <2>1 DEF RightSoFar
  <2> QED
    BY <1>1, <2>2, RightIs
<1>2. CASE step \in Once
  BY <1>2 DEF RightSoFar
<1>3. CASE step = "segmentAliases"
  <2>1. Yielded = DOMAIN cfg.segAliases
    <3>1. Place(step) \in Nat /\ Place(pc) \in Nat
      BY PlacesDiffer
    <3> QED
      BY <1>3, <3>1 DEF Yielded
  <2> QED
    BY <1>3, <2>1, RightIs DEF RightSoFar
<1>4. CASE step = "finish"
  BY <1>4 DEF Right
<1> QED
  BY <1>1, <1>2, <1>3, <1>4, StepKinds

LEMMA UpToLess ==
  ASSUME NEW step, NEW n \in Nat, NEW m \in Nat, m <= n, UpTo(step, n)
  PROVE  UpTo(step, m)
<1>1. \A i : i \in 1 .. m => i \in 1 .. n
  OBVIOUS
<1> QED
  BY <1>1 DEF UpTo

LEMMA FailWrong ==
  ASSUME IInv, UsesKept, GroupsFollow, RulesFollow, RightSoFar, TablesNamed, Next,
         pc' = "failed"
  PROVE  ~Right(pc)
<1>1. pc \in Range(Steps) /\ k \in Nat \ {0}
  BY StepNamed DEF IInv, Shaped
<1>2. CASE pc \in Looping /\ Checked
  <2>1. k <= Entries(pc) /\ ~Joins(pc)
    BY <1>2 DEF Checked
  <2>2. Entries(pc) \in Nat /\ Done(pc) = k - 1
    BY <1>1, <1>2, DoneIs, Counted DEF IInv, Shaped
  <2>3. UpTo(pc, k - 1)
    BY <1>2, <2>2 DEF RightSoFar
  <2>4. ~UpTo(pc, k)
    BY <1>1, <2>1, <2>3, UpToNext
  <2>5. ~UpTo(pc, Entries(pc))
    BY <1>1, <2>1, <2>2, <2>4, UpToLess
  <2> QED
    BY <1>2, <2>5, RightIs
<1>3. CASE pc \in Once /\ (pc' # "failed" <=> Right(pc))
  BY <1>3
<1>4. CASE pc = "segmentAliases" /\ SegmentAliases
  <2>1. SegmentsKept /\ SegmentsTo(Yielded)
    BY DEF TablesNamed, RightSoFar
  <2>2. PICK from \in DOMAIN cfg.segAliases \ Yielded : ~SegmentsTo(Yielded \cup {from})
    BY <1>4, <2>1, SegmentChecked
  <2>3. Yielded \cup {from} \subseteq DOMAIN cfg.segAliases
    BY <1>4 DEF Yielded
  <2>4. ~SegmentsTo(DOMAIN cfg.segAliases)
    BY <2>2, <2>3 DEF SegmentsTo
  <2> QED
    BY <1>4, <2>4, RightIs
<1>5. CASE pc = "finish" /\ pc' = "done"
  BY <1>5
<1> QED
  BY <1>2, <1>3, <1>4, <1>5, StepChecked

LEMMA BeforeHere ==
  ASSUME NEW step \in Range(Steps), NEW n \in DOMAIN Steps, \A m \in 1 .. n : Steps[m] # step
  PROVE  Steps[n] \in Range(Steps) /\ Place(Steps[n]) < Place(step)
<1>1. DOMAIN Steps = 1 .. 15
  BY DEF Steps
<1>2. \A m \in 1 .. 15 : Place(Steps[m]) = m
  BY Places DEF Steps
<1>3. PICK p \in 1 .. 15 : Steps[p] = step
  BY <1>1 DEF Range
<1>4. n < p
  BY <1>1, <1>3
<1> QED
  BY <1>1, <1>2, <1>3, <1>4 DEF Range

DoneIsRight == pc = "done" => \A n \in DOMAIN Steps : Right(Steps[n])

FailIsWrong ==
  pc = "failed" => /\ ~Right(err)
                   /\ \A n \in DOMAIN Steps :
                        (\A m \in 1 .. n : Steps[m] # err) => Right(Steps[n])

(* RightIsAccepted (New): a config is accepted just when each of its        *)
(* entries is right, whatever their order and whichever share a condition,  *)
(* a name or a path; if not, the error is that of the first step that is    *)
(* wrong.                                                                   *)
THEOREM RightAreAccepted == Spec => []RightIsAccepted
<1>1. ASSUME IInv, AreUsesKept, IsRightKept PROVE DoneIsRight
  <2> SUFFICES ASSUME pc = "done", NEW n \in DOMAIN Steps PROVE Right(Steps[n])
    BY DEF DoneIsRight
  <2>1. UsesKept /\ RightSoFar
    BY <1>1 DEF AreUsesKept, IsRightKept, RightKept
  <2>2. Steps[n] \in Range(Steps)
    BY DEF Range
  <2>3. Place(Steps[n]) < Place(pc)
    BY <2>2, Places, StepNames
  <2> QED
    BY <1>1, <2>1, <2>2, <2>3, EarlierRight
<1>2. Init => FailIsWrong
  BY DEF Init, FailIsWrong
<1>3. ASSUME IInv, AreUsesKept, AreGroupsKept, AreRulesKept, IsRightKept, FailIsWrong,
             [Next]_vars
      PROVE  FailIsWrong'
  <2>1. CASE Next /\ pc' = "failed"
    <3>1. pc \in Range(Steps) /\ pc # "failed"
      BY <2>1, StepNamed, StepNames
    <3>2. UsesKept /\ GroupsFollow /\ RulesFollow /\ RightSoFar /\ TablesNamed
      BY <1>3, <3>1 DEF AreUsesKept, AreGroupsKept, AreRulesKept, IsRightKept, RightKept
    <3>3. UNCHANGED <<cfg, t>> /\ err' = pc
      BY <2>1, FailsOnly
    <3>4. ~Right(pc)
      BY <1>3, <2>1, <3>2, FailWrong
    <3>5. ASSUME NEW n \in DOMAIN Steps, \A m \in 1 .. n : Steps[m] # pc PROVE Right(Steps[n])
      <4>1. Steps[n] \in Range(Steps) /\ Place(Steps[n]) < Place(pc)
        BY <3>1, <3>5, BeforeHere
      <4> QED
        BY <1>3, <3>1, <3>2, <4>1, EarlierRight
    <3>6. \A step : Right(step)' <=> Right(step)
      BY <3>3, RightStays
    <3>7. ~Right(err)'
      BY <3>3, <3>4, <3>6
    <3>8. \A n \in DOMAIN Steps : (\A m \in 1 .. n : Steps[m] # err') => Right(Steps[n])'
      BY <3>3, <3>5, <3>6
    <3>9. Steps' = Steps
      BY DEF Steps
    <3> QED
      BY <3>7, <3>8, <3>9 DEF FailIsWrong
  <2>2. CASE pc' # "failed"
    BY <2>2 DEF FailIsWrong
  <2>3. CASE UNCHANGED vars
    <3>1. UNCHANGED <<cfg, t, pc, err>>
      BY <2>3 DEF vars
    <3>2. \A step : Right(step)' <=> Right(step)
      BY <3>1, RightStays
    <3>3. Steps' = Steps
      BY DEF Steps
    <3> QED
      BY <1>3, <3>1, <3>2, <3>3 DEF FailIsWrong
  <2> QED
    BY <1>3, <2>1, <2>2, <2>3
<1>4. DoneIsRight /\ FailIsWrong => RightIsAccepted
  BY DEF DoneIsRight, FailIsWrong, RightIsAccepted
<1> QED
  BY <1>1, <1>2, <1>3, <1>4, Invariance, UsesInvariant, GroupsInvariant, RulesInvariant,
     RightInvariant, PTL DEF Spec

=============================================================================
