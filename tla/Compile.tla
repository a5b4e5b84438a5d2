------------------------------ MODULE Compile ------------------------------
(***************************************************************************)
(* Compile and New of config.go: a Config is checked and made into a       *)
(* Transformer, one entry of one section at a time, in the fixed order of  *)
(* the steps.  What it makes is a compiled config t in the sense of        *)
(* Compiled, from which the engine starts, with the actions that the walk  *)
(* asks for.                                                               *)
(*                                                                         *)
(* A path is a sequence of keys, an output key a sequence of characters,   *)
(* <<>> the empty string in both; a key in an alias is a sequence of       *)
(* segments.  Names of derived values are numbers in the order of the      *)
(* strings, 0 the empty one.  A source is [kind, ...] as in IsSource, a    *)
(* condition [path, tests], of which a right one has one test.  A config:  *)
(*   json (what its text is), maxPooled, arrays, maxDepth, sep, explode,   *)
(*   inherit (paths), derive (name -> [from, normalize, norm, required,    *)
(*   when]), columns <<[to, from, as, when, quiet]>>, normalize,           *)
(*   digitPrefix, onCollision, keep, drop <<[text, star]>>, rest,          *)
(*   segAliases (segment -> segment), aliases <<[to, from, when]>>, rules  *)
(*   <<[op, ...]>>, sections <<[id, from, when, quiet, prefix]>>, outputs  *)
(*   <<[name, when, sections]>>, expose                                    *)
(* The configs are those Compile can read from JSON, so two conditions are *)
(* equal just when their JSON is.                                          *)
(***************************************************************************)
EXTENDS Compiled

CONSTANTS
  Configs,       (* the configs                                          *)
  Keys,          (* the output keys that filters and prefixes may meet   *)
  SnakeOf,       (* the snake case of the segments that have another one *)
  Digits,        (* the characters that are digits                       *)
  Now,           (* the number of the name "now"                         *)
  NoCond,        (* a "when" that is absent                              *)
  NoPath         (* renameTo of an action that renames nothing           *)

(* What a config is once it is read: its lists are lists, finitely many     *)
(* derived values have names, every alias leads to a key of the instance,   *)
(* what a function is applied to is read from a string, a path or a         *)
(* variable, and so is the name of an output, absent or not.  Nothing else  *)
(* is assumed of what its entries say.                                      *)
FromStrings(list) ==
  \A n \in DOMAIN list : list[n].kind \in {"map", "lower"} => list[n].from.kind \in {"path", "var"}

IsWhen(w) == w = NoCond \/ (IsASeq(w.path) /\ IsASeq(w.tests) /\ FromStrings(w.path))

IsConfig(c) ==
  /\ IsFiniteSet(DOMAIN c.derive) /\ DOMAIN c.derive \subseteq Nat
  /\ \A n \in DOMAIN c.derive : IsASeq(c.derive[n].from) /\ IsWhen(c.derive[n].when)
  /\ IsASeq(c.columns) /\ IsASeq(c.keep) /\ IsASeq(c.drop) /\ IsASeq(c.aliases)
  /\ IsASeq(c.rules) /\ IsASeq(c.sections) /\ IsASeq(c.outputs) /\ IsASeq(c.expose)
  /\ \A i \in DOMAIN c.columns : IsASeq(c.columns[i].from) /\ IsWhen(c.columns[i].when)
  /\ \A i \in DOMAIN c.aliases :
       LET a == c.aliases[i]
       IN  IsASeq(a.from) /\ IsWhen(a.when) /\ a.to \in Keys \cup {<<>>}
  /\ \A i \in DOMAIN c.rules :
       /\ c.rules[i].op \in {"rename", "merge"} => IsASeq(c.rules[i].from)
       /\ c.rules[i].op = "rename" => c.rules[i].to # NoPath
       /\ c.rules[i].op = "drop" => IsASeq(c.rules[i].path)
  /\ \A i \in DOMAIN c.sections : IsASeq(c.sections[i].from) /\ IsWhen(c.sections[i].when)
  /\ \A i \in DOMAIN c.outputs : IsWhen(c.outputs[i].when)
  /\ \A n \in DOMAIN c.derive : FromStrings(c.derive[n].from)
  /\ \A i \in DOMAIN c.columns : FromStrings(c.columns[i].from)
  /\ FromStrings(c.expose)
  /\ \A i \in DOMAIN c.outputs : c.outputs[i].name.kind \in {"none", "text", "var"}

ASSUME ConfigsAssumption ==
  /\ \A c \in Configs : IsConfig(c)
  /\ NoPath # <<>>
  /\ NoName \notin Keys
  /\ \A keys \in SUBSET Keys : keys # NoFilter
  /\ \A key \in Keys : IsASeq(key)

VARIABLES
  cfg,           (* the config, fixed                                    *)
  t,             (* the Transformer under construction                   *)
  condIdx,       (* the conditions numbered so far, in their order       *)
  plain,         (* the aliases without a condition                      *)
  todo,          (* the segment aliases a range over the map will yield  *)
  pc, k,         (* the step, and its entry                              *)
  err            (* the step that found an error                         *)

vars == <<cfg, t, condIdx, plain, todo, pc, k, err>>

Steps ==
  <<"decode", "new", "flatten", "input", "derive", "columns", "keyPolicy", "keyFilters",
    "segmentAliases", "aliases", "rules", "sections", "outputs", "expose", "finish">>

NoTable == [x \in {} |-> x]

(* The entries of a map, and those of an older one that it does not replace. *)
(* This is @@ of the module TLC, written out: the prover has no definition   *)
(* of that.                                                                  *)
Over(new, old) ==
  [x \in DOMAIN new \cup DOMAIN old |-> IF x \in DOMAIN new THEN new[x] ELSE old[x]]

Init ==
  /\ cfg \in Configs
  /\ t = [conds |-> <<>>, derived |-> <<>>, columns |-> <<>>, groups |-> <<>>,
          sections |-> <<>>, outputs |-> <<>>, merges |-> <<>>, defaults |-> <<>>,
          digit |-> NoTable, keep |-> NoFilter, drop |-> {}, rest |-> NoName,
          collision |-> "keep", snake |-> FALSE, segAliases |-> NoTable,
          actions |-> NoTable, nslots |-> 0, named |-> FALSE, expose |-> <<>>]
  /\ condIdx = <<>>
  /\ plain = NoTable
  /\ todo = {}
  /\ pc = "decode" /\ k = 1
  /\ err = "none"

-----------------------------------------------------------------------------
(* Steps and their entries.                                                 *)

Goto(step) == pc' = step /\ k' = 1
NextStep == Steps[1 + CHOOSE n \in DOMAIN Steps : Steps[n] = pc]
Fail == Goto("failed") /\ err' = pc /\ UNCHANGED t

EndStep(made) == t' = made /\ Goto(NextStep) /\ UNCHANGED <<condIdx, err>>

(* A step that is no loop. *)
Whole(ok, made) ==
  /\ IF ok THEN t' = made /\ Goto(NextStep) /\ UNCHANGED err ELSE Fail
  /\ UNCHANGED <<cfg, condIdx, plain, todo>>

(* An entry is compiled if it is right, and the loop goes on. *)
Entry(ok, made) ==
  IF ok THEN t' = made /\ k' = k + 1 /\ UNCHANGED <<pc, err>> ELSE Fail

-----------------------------------------------------------------------------
(* Sources and conditions.                                                  *)

(* source and function: what is rejected. stray: a parameter that the       *)
(* function does not take.                                                  *)
IsPathOrVariable(s) == IF s.kind = "path" THEN s.path # <<>> ELSE s.var # 0

IsSource(s) ==
  CASE s.kind \in {"path", "var"} -> IsPathOrVariable(s)
    [] s.kind = "skew" ->
         ~s.stray /\ \A p \in {s.sent, s.original} : p.kind = "path" /\ p.path # <<>>
    [] s.kind = "map" -> ~s.stray /\ IsPathOrVariable(s.from) /\ DOMAIN s.values # {}
    [] s.kind = "lower" -> ~s.stray /\ IsPathOrVariable(s.from)
    [] OTHER -> FALSE

DerivedNames == DOMAIN cfg.derive
Before(name) == {n \in DerivedNames : n < name}

PathRef(path) == [name |-> path, inherit |-> Len(path) = 1 /\ path \in Range(cfg.inherit)]

PathOrVariable(s) ==
  IF s.kind = "path" THEN Over([kind |-> "path"], PathRef(s.path))
  ELSE IF s.var = Now THEN [kind |-> "now"]
  ELSE IF s.var \in DerivedNames
       THEN [kind |-> "derived", idx |-> Cardinality(Before(s.var)) + 1]
  ELSE [kind |-> "var", var |-> s.var]

CompiledSource(s) ==
  CASE s.kind = "skew"  -> [kind |-> "skew", sent |-> PathRef(s.sent.path),
                            original |-> PathRef(s.original.path)]
    [] s.kind = "map"   -> [kind |-> "map", from |-> PathOrVariable(s.from), values |-> s.values]
    [] s.kind = "lower" -> [kind |-> "lower", from |-> PathOrVariable(s.from)]
    [] OTHER -> PathOrVariable(s)

(* sources *)
AreSources(list) == list # <<>> /\ \A n \in DOMAIN list : IsSource(list[n])
CompiledSources(list) == [n \in DOMAIN list |-> CompiledSource(list[n])]

(* cond *)
IsCond(w) == AreSources(w.path) /\ Len(w.tests) = 1
CompiledCond(w) == Over([srcs |-> CompiledSources(w.path)], w.tests[1])

\* A slip of when: the test is no part of the key.
KnownByPath(w) == SelectInSeq(condIdx, LAMBDA x : x.path = w.path)

(* when: equal conditions share one index. limit: the derived values there  *)
(* are when the condition is first needed; it is checked on every use.      *)
Known(w) == SelectInSeq(condIdx, LAMBDA x : x = w)

IsNew(w) == w # NoCond /\ Known(w) = 0
Number(w) == IF w = NoCond THEN 0 ELSE IF IsNew(w) THEN Len(condIdx) + 1 ELSE Known(w)
Conds(w) == IF IsNew(w) THEN Append(t.conds, CompiledCond(w)) ELSE t.conds

\* A slip of when: the value that is being computed counts as there.
WhenSelf(w, limit) ==
  /\ IsNew(w) => IsCond(w)
  /\ w # NoCond => ReadsBefore(Conds(w)[Number(w)].srcs, limit + 2)

WhenOK(w, limit) ==
  /\ IsNew(w) => IsCond(w)
  /\ w # NoCond => ReadsBefore(Conds(w)[Number(w)].srcs, limit + 1)

\* A slip of when: the number of a new condition is not kept.
EntryWhenForgotten(w, limit, ok, made) ==
  /\ Entry(ok /\ WhenOK(w, limit), [made EXCEPT !.conds = Conds(w)])
  /\ UNCHANGED condIdx

(* An entry that uses condition w; its number is part of what is made. *)
EntryWhen(w, limit, ok, made) ==
  /\ Entry(ok /\ WhenOK(w, limit), [made EXCEPT !.conds = Conds(w)])
  /\ condIdx' = IF pc' # "failed" /\ IsNew(w) THEN Append(condIdx, w) ELSE condIdx

-----------------------------------------------------------------------------
(* The steps.                                                               *)

(* Compile: no unknown field, no data after the config. *)
IsDecoded == cfg.json = "config"
Decode == pc = "decode" /\ Whole(IsDecoded, t)

IsPooled == cfg.maxPooled >= 0
New == pc = "new" /\ Whole(IsPooled, t)

IsFlatten == cfg.arrays \in {"", "index", "raw", "string"} /\ cfg.maxDepth >= 0
Flatten == pc = "flatten" /\ Whole(IsFlatten, t)
Sep == IF cfg.sep = <<>> THEN <<".">> ELSE cfg.sep

IsInput == \A n \in DOMAIN cfg.inherit : Len(cfg.inherit[n]) = 1
Input == pc = "input" /\ Whole(IsInput, t)

(* derive: in the order of the names; a value reads only those before it. *)
NormalizeModes == {"", "none", "snake"}

DeriveValue(name) ==
  LET d == cfg.derive[name]
      srcs == CompiledSources(d.from)
  IN  EntryWhen(d.when, k - 1,
        /\ name \notin {0, Now}
        /\ AreSources(d.from)
        /\ ReadsBefore(srcs, k)
        /\ d.normalize \in NormalizeModes,
        [t EXCEPT !.derived = Append(@, [srcs |-> srcs, norm |-> d.norm,
                                         required |-> d.required, when |-> Number(d.when)])])

Derive ==
  /\ pc = "derive"
  /\ IF k > Cardinality(DerivedNames) THEN EndStep(t)
     ELSE DeriveValue(CHOOSE n \in DerivedNames : Cardinality(Before(n)) = k - 1)
  /\ UNCHANGED <<cfg, plain, todo>>

(* columns *)
Column(c) ==
  EntryWhen(c.when, Len(t.derived),
    /\ c.to # <<>>
    /\ c.as \in {"", "raw", "string", "number", "bool"}
    /\ AreSources(c.from),
    [t EXCEPT !.columns =
       Append(@, [name |-> c.to, srcs |-> CompiledSources(c.from), when |-> Number(c.when),
                  as |-> IF c.as = "" THEN "raw" ELSE c.as, quiet |-> c.quiet])])

Columns ==
  /\ pc = "columns"
  /\ IF k > Len(cfg.columns) THEN EndStep(t) ELSE Column(cfg.columns[k])
  /\ UNCHANGED <<cfg, plain, todo>>

(* keyPolicy. digit: the keys that get the prefix. *)
KeyPolicy ==
  /\ pc = "keyPolicy"
  /\ Whole(/\ cfg.normalize \in NormalizeModes
           /\ cfg.onCollision \in {"", "keep", "first", "error"},
       [t EXCEPT !.snake = cfg.normalize = "snake",
                 !.digit = IF cfg.digitPrefix = <<>> THEN NoTable
                           ELSE [key \in {x \in Keys : x # <<>> /\ x[1] \in Digits} |->
                                  cfg.digitPrefix \o key],
                 !.collision = IF cfg.onCollision = "" THEN "keep" ELSE cfg.onCollision])

(* compileKeyFilter: a filter is the set of the keys it matches. *)
IsFilter(list) == IsInjective(list) /\ \A n \in DOMAIN list : list[n].text # <<>>
Matches(list, key) ==
  \E n \in DOMAIN list : IF list[n].star THEN IsPrefix(list[n].text, key) ELSE list[n].text = key
IsWritten(key) == (cfg.keep = <<>> \/ Matches(cfg.keep, key)) /\ ~Matches(cfg.drop, key)
Matched(list) == {key \in Keys : Matches(list, key)}

(* keyFilters. Only entries without a star are looked up in the other list. *)
KeyFilters ==
  /\ pc = "keyFilters"
  /\ Whole(/\ IsFilter(cfg.keep) /\ IsFilter(cfg.drop)
           /\ \A e \in Range(cfg.keep) \cap Range(cfg.drop) : e.star
           /\ cfg.rest # <<>> => cfg.keep # <<>> /\ cfg.rest \notin ColumnNames(t),
       [t EXCEPT !.keep = IF cfg.keep = <<>> THEN NoFilter ELSE Matched(cfg.keep),
                 !.drop = Matched(cfg.drop),
                 !.rest = IF cfg.rest = <<>> THEN NoName ELSE cfg.rest])

(* snake of a segment, if keys are to be normalised; normKey. *)
Snaked(seg) == IF t.snake /\ seg \in DOMAIN SnakeOf THEN SnakeOf[seg] ELSE seg

Joined(segs) == FlattenSeq([n \in DOMAIN segs |-> IF n = 1 THEN segs[n] ELSE Sep \o segs[n]])
NormKey(segs) ==
  LET norm == [n \in DOMAIN segs |-> Snaked(segs[n])]
  IN  Joined(IF t.snake THEN SelectSeq(norm, LAMBDA seg : seg # <<>>) ELSE norm)

\* A slip of segmentAliases: the segment is looked up as it is written.
SegmentAliasUnnormed(from) ==
  LET norm == Snaked(from)
      to == cfg.segAliases[from]
  IN  Entry(norm # <<>> /\ to # <<>> /\ norm # to /\ from \notin DOMAIN t.segAliases,
            [t EXCEPT !.segAliases = Over([x \in {norm} |-> to], @)])

(* segmentAliases: in the order in which the range yields them. *)
SegmentAlias(from) ==
  LET norm == Snaked(from)
      to == cfg.segAliases[from]
  IN  Entry(norm # <<>> /\ to # <<>> /\ norm # to /\ norm \notin DOMAIN t.segAliases,
            [t EXCEPT !.segAliases = Over([x \in {norm} |-> to], @)])

SegmentAliases ==
  /\ pc = "segmentAliases"
  /\ LET left == IF k = 1 THEN DOMAIN cfg.segAliases ELSE todo
     IN  IF left = {} THEN EndStep(t) /\ todo' = {}
         ELSE \E from \in left :
                SegmentAlias(from) /\ todo' = left \ {from} /\ UNCHANGED condIdx
  /\ UNCHANGED <<cfg, plain>>

(* alias: what it may not be, in the group it joins; the group with it. *)
Froms(a) == [n \in DOMAIN a.from |-> NormKey(a.from[n])]

AliasOK(a, group) ==
  /\ a.to # <<>> /\ a.from # <<>>
  /\ a.to \notin ColumnNames(t)
  /\ IsWritten(a.to)
  /\ a.to # t.rest
  /\ IsInjective(Froms(a))
  /\ \A norm \in Range(Froms(a)) : norm \notin {<<>>, a.to} \cup DOMAIN group

Joining(a, group) == Over([norm \in Range(Froms(a)) |-> a.to], group)

(* aliases: those with a condition are groups of their own, tried in their  *)
(* order, those without are one, tried last.                                *)
AliasEntry(a) ==
  IF a.when # NoCond
  THEN /\ EntryWhen(a.when, Len(t.derived), AliasOK(a, NoTable),
            [t EXCEPT !.groups = Append(@, [when |-> Number(a.when), to |-> Joining(a, NoTable)])])
       /\ UNCHANGED plain
  ELSE /\ Entry(AliasOK(a, plain), t)
       /\ plain' = IF AliasOK(a, plain) THEN Joining(a, plain) ELSE plain
       /\ UNCHANGED condIdx

\* A slip of aliases: the group without a condition is tried first.
WithPlainFirst ==
  IF plain = NoTable THEN t.groups ELSE <<[when |-> 0, to |-> plain]>> \o t.groups

WithPlain ==
  IF plain = NoTable THEN t.groups ELSE Append(t.groups, [when |-> 0, to |-> plain])

Aliases ==
  /\ pc = "aliases"
  /\ IF k > Len(cfg.aliases)
     THEN EndStep([t EXCEPT !.groups = WithPlain]) /\ UNCHANGED plain
     ELSE AliasEntry(cfg.aliases[k])
  /\ UNCHANGED <<cfg, todo>>

(* rules. Each rule changes the action of one or more source paths. *)
NoAction == [drop |-> FALSE, renameTo |-> NoPath, slots |-> {}, consume |-> FALSE]
ActionOf(path) == IF path \in DOMAIN t.actions THEN t.actions[path] ELSE NoAction

AddRename(r) ==
  Entry(/\ Len(r.from) = 1 /\ r.from[1] # <<>> /\ r.to # <<>>
        /\ ActionOf(r.from[1]).renameTo = NoPath
        /\ ~ActionOf(r.from[1]).drop,
    [t EXCEPT !.actions = Over([x \in {r.from[1]} |-> [ActionOf(x) EXCEPT !.renameTo = r.to]], @)])

AddDrop(r) ==
  Entry(r.path # <<>> /\ ActionOf(r.path).renameTo = NoPath,
    [t EXCEPT !.actions = Over([x \in {r.path} |-> [ActionOf(x) EXCEPT !.drop = TRUE]], @)])

(* Every source of a merge fills a slot of its own. *)
Filled(r, path) == {t.nslots + n : n \in {n \in DOMAIN r.from : r.from[n] = path}}

\* A slip of addMerge: the last merge of a source decides.
ConsumesLast(r, action) == ~r.keepSources

Consumes(r, action) == action.consume \/ ~r.keepSources

AddMerge(r) ==
  Entry(/\ r.from # <<>> /\ r.to # <<>>
        /\ r.mode \in {"", "concat", "array", "first"}
        /\ <<>> \notin Range(r.from),
    [t EXCEPT !.actions =
                Over([path \in Range(r.from) |->
                       LET action == ActionOf(path)
                       IN  [action EXCEPT !.slots = @ \cup Filled(r, path),
                                          !.consume = Consumes(r, action)]], @),
              !.nslots = @ + Len(r.from),
              !.merges = Append(@, [to |-> r.to, mode |-> IF r.mode = "" THEN "concat" ELSE r.mode,
                                    slots |-> [n \in DOMAIN r.from |-> t.nslots + n]])])

AddDefault(r) ==
  Entry(/\ r.path # <<>> /\ r.value # NoName
        /\ \A d \in Range(t.defaults) : d.key # r.path,
    [t EXCEPT !.defaults = Append(@, [key |-> r.path, value |-> r.value])])

Rules ==
  /\ pc = "rules"
  /\ IF k > Len(cfg.rules) THEN EndStep(t)
     ELSE LET r == cfg.rules[k]
          IN  /\ CASE r.op = "rename"  -> AddRename(r)
                   [] r.op = "drop"    -> AddDrop(r)
                   [] r.op = "merge"   -> AddMerge(r)
                   [] r.op = "default" -> AddDefault(r)
                   [] OTHER -> Fail
              /\ UNCHANGED condIdx
  /\ UNCHANGED <<cfg, plain, todo>>

(* sections. dropped: a drop rule covers the root of the section. *)
Dropped(path) == \E n \in DOMAIN path : ActionOf(SubSeq(path, 1, n)).drop
SectionIds(n) == {cfg.sections[i].id : i \in 1 .. n} \ {""}

SectionEntry(s) ==
  EntryWhen(s.when, Len(t.derived), s.id \notin SectionIds(k - 1),
    [t EXCEPT !.sections =
       Append(@, [from |-> s.from, when |-> Number(s.when), quiet |-> s.quiet,
                  dead |-> Dropped(s.from),
                  dstBase |-> IF s.prefix = <<>> THEN <<>> ELSE s.prefix \o Sep])])

WholeRecord == [from |-> <<>>, when |-> 0, quiet |-> FALSE, dead |-> FALSE, dstBase |-> <<>>]

Sections ==
  /\ pc = "sections"
  /\ IF k <= Len(cfg.sections) THEN SectionEntry(cfg.sections[k])
     ELSE EndStep([t EXCEPT !.sections = IF @ = <<>> THEN <<WholeRecord>> ELSE @])
  /\ UNCHANGED <<cfg, plain, todo>>

(* outputs. A name that is a variable must be that of a derived value. *)
OutputEntry(o) ==
  EntryWhen(o.when, Len(t.derived),
    /\ o.name.kind = "var" => o.name.var \in DerivedNames
    /\ o.name.kind # "none"
    /\ Range(o.sections) \subseteq SectionIds(Len(cfg.sections)),
    [t EXCEPT !.named = TRUE,
       !.outputs = Append(@,
         [nameFrom |-> IF o.name.kind = "var" THEN PathOrVariable(o.name).idx ELSE 0,
          when |-> Number(o.when),
          member |-> IF o.sections = <<>> THEN DOMAIN t.sections
                     ELSE {i \in DOMAIN cfg.sections : cfg.sections[i].id \in Range(o.sections)}])])

Outputs ==
  /\ pc = "outputs"
  /\ IF k <= Len(cfg.outputs) THEN OutputEntry(cfg.outputs[k])
     ELSE EndStep([t EXCEPT !.outputs =
            IF @ = <<>> THEN <<[nameFrom |-> 0, when |-> 0, member |-> DOMAIN t.sections]>> ELSE @])
  /\ UNCHANGED <<cfg, plain, todo>>

(* expose: fields are resolved before any derived value is. *)
Expose ==
  /\ pc = "expose"
  /\ Whole(cfg.expose # <<>> =>
             AreSources(cfg.expose) /\ ReadsBefore(CompiledSources(cfg.expose), 1),
           [t EXCEPT !.expose = CompiledSources(cfg.expose)])

\* A slip of New: a filter that has only prefixes counts as empty.
FixKeysExact ==
  \/ t.snake \/ t.segAliases # NoTable \/ t.groups # <<>> \/ cfg.digitPrefix # <<>>
  \/ \E e \in Range(cfg.keep) \cup Range(cfg.drop) : ~e.star

(* The end of New: what rows need not do. *)
FixKeys ==
  \/ t.snake \/ t.segAliases # NoTable \/ t.groups # <<>> \/ cfg.digitPrefix # <<>>
  \/ cfg.keep # <<>> \/ cfg.drop # <<>>

Finish ==
  /\ pc = "finish"
  /\ t' = Over([fixKeys |-> FixKeys, simple |-> cfg.explode = <<>> /\ ~t.named,
                extend |-> Extend(t)], t)
  /\ Goto("done")
  /\ UNCHANGED <<cfg, condIdx, plain, todo, err>>

Next ==
  \/ Decode \/ New \/ Flatten \/ Input \/ Derive \/ Columns \/ KeyPolicy \/ KeyFilters
  \/ SegmentAliases \/ Aliases \/ Rules \/ Sections \/ Outputs \/ Expose \/ Finish

Spec == Init /\ [][Next]_vars

-----------------------------------------------------------------------------
(* The reference: what a config must be, step by step, whatever the order   *)
(* of its entries.                                                          *)

(* The derived values a list of sources reads. *)
NamesRead(list) ==
  {n \in DerivedNames \ {Now} : \E p \in DOMAIN list :
     LET s == IF list[p].kind \in {"map", "lower"} THEN list[p].from ELSE list[p]
     IN  s.kind = "var" /\ s.var = n}

CondReads(w, names) == w = NoCond \/ (IsCond(w) /\ NamesRead(w.path) \subseteq names)

DeriveRight ==
  \A n \in DerivedNames :
    LET d == cfg.derive[n]
    IN  /\ n # 0 /\ n # Now
        /\ AreSources(d.from) /\ NamesRead(d.from) \subseteq Before(n)
        /\ d.normalize \in NormalizeModes
        /\ CondReads(d.when, Before(n))

ColumnsRight ==
  \A c \in Range(cfg.columns) :
    /\ c.to # <<>> /\ AreSources(c.from) /\ CondReads(c.when, DerivedNames)
    /\ c.as \in {"", "raw", "string", "number", "bool"}

ColumnKeys == {c.to : c \in Range(cfg.columns)}

FilterRight(list) ==
  /\ \A e \in Range(list) : e.text # <<>>
  /\ Cardinality(Range(list)) = Len(list)

KeyFiltersRight ==
  /\ FilterRight(cfg.keep) /\ FilterRight(cfg.drop)
  /\ \A e \in Range(cfg.keep) : ~e.star => e \notin Range(cfg.drop)
  /\ cfg.rest # <<>> => cfg.keep # <<>> /\ cfg.rest \notin ColumnKeys

SegmentAliasesRight ==
  \A f, g \in DOMAIN cfg.segAliases :
    /\ Snaked(f) # <<>> /\ cfg.segAliases[f] \notin {<<>>, Snaked(f)}
    /\ Snaked(f) = Snaked(g) => f = g

AliasesRight ==
  \A i, j \in DOMAIN cfg.aliases :
    LET a == cfg.aliases[i]
        b == cfg.aliases[j]
    IN  /\ CondReads(a.when, DerivedNames)
        /\ a.from # <<>>
        /\ a.to \notin ColumnKeys \cup {<<>>, cfg.rest} /\ IsWritten(a.to)
        /\ \A p \in DOMAIN a.from :
             /\ Froms(a)[p] \notin {<<>>, a.to}
             /\ \A q \in DOMAIN b.from :
                  /\ i = j \/ (a.when = NoCond /\ b.when = NoCond)
                  /\ Froms(a)[p] = Froms(b)[q]
                  => i = j /\ p = q

RulesOf(op) == {i \in DOMAIN cfg.rules : cfg.rules[i].op = op}

RuleRight(r) ==
  CASE r.op = "rename"  -> Len(r.from) = 1 /\ r.from[1] # <<>> /\ r.to # <<>>
    [] r.op = "drop"    -> r.path # <<>>
    [] r.op = "merge"   -> /\ r.from # <<>> /\ <<>> \notin Range(r.from) /\ r.to # <<>>
                           /\ r.mode \in {"", "concat", "array", "first"}
    [] r.op = "default" -> r.path # <<>> /\ r.value # NoName
    [] OTHER -> FALSE

RulesRight ==
  /\ \A r \in Range(cfg.rules) : RuleRight(r)
  /\ \A i, j \in RulesOf("default") : cfg.rules[i].path = cfg.rules[j].path => i = j
  /\ \A i, j \in RulesOf("rename") : cfg.rules[i].from = cfg.rules[j].from => i = j
  /\ \A i \in RulesOf("rename"), j \in RulesOf("drop") :
       cfg.rules[i].from # <<cfg.rules[j].path>>

SectionsRight ==
  \A i, j \in DOMAIN cfg.sections :
    /\ CondReads(cfg.sections[i].when, DerivedNames)
    /\ cfg.sections[i].id # "" /\ cfg.sections[i].id = cfg.sections[j].id => i = j

OutputsRight ==
  \A o \in Range(cfg.outputs) :
    /\ o.name.kind = "text" \/ (o.name.kind = "var" /\ o.name.var \in DerivedNames)
    /\ CondReads(o.when, DerivedNames)
    /\ \A id \in Range(o.sections) : id # "" /\ \E s \in Range(cfg.sections) : s.id = id

Right(step) ==
  CASE step = "decode"         -> IsDecoded
    [] step = "new"            -> IsPooled
    [] step = "flatten"        -> IsFlatten
    [] step = "input"          -> IsInput
    [] step = "derive"         -> DeriveRight
    [] step = "columns"        -> ColumnsRight
    [] step = "keyPolicy"      -> /\ cfg.normalize \in NormalizeModes
                                  /\ cfg.onCollision \in {"", "keep", "first", "error"}
    [] step = "keyFilters"     -> KeyFiltersRight
    [] step = "segmentAliases" -> SegmentAliasesRight
    [] step = "aliases"        -> AliasesRight
    [] step = "rules"          -> RulesRight
    [] step = "sections"       -> SectionsRight
    [] step = "outputs"        -> OutputsRight
    [] step = "expose"         -> cfg.expose = <<>> \/ (AreSources(cfg.expose)
                                                        /\ NamesRead(cfg.expose) = {})
    [] OTHER -> TRUE

-----------------------------------------------------------------------------

(* The type of the compiler's variables; there is a number for each         *)
(* compiled condition, groups and sections come no faster than the entries  *)
(* they are made from, and the slots in use are numbered without a gap.     *)
TypeOK ==
  /\ pc \in Range(Steps) \cup {"failed", "done"}
  /\ k \in Nat \ {0}
  /\ err \in Range(Steps) \cup {"none"} /\ (err # "none" <=> pc = "failed")
  /\ Len(condIdx) = Len(t.conds) /\ IsInjective(condIdx)
  /\ Len(t.derived) <= Cardinality(DerivedNames)
  /\ pc = "aliases" => Len(t.groups) < k
  /\ pc = "sections" => Len(t.sections) < k
  /\ todo \subseteq DOMAIN cfg.segAliases
  /\ UNION {t.actions[path].slots : path \in DOMAIN t.actions} = 1 .. t.nslots

(* A config is accepted just when each of its entries is right, whatever    *)
(* their order and whichever share a condition, a name or a path; if not,   *)
(* the error is that of the first step that is wrong (New).                 *)
RightIsAccepted ==
  /\ pc = "done" => \A n \in DOMAIN Steps : Right(Steps[n])
  /\ pc = "failed" => /\ ~Right(err)
                      /\ \A n \in DOMAIN Steps :
                           (\A m \in 1 .. n : Steps[m] # err) => Right(Steps[n])

(* What the engine and the walk take for granted of a compiled config holds *)
(* of every one that New returns: no derived value and no condition of one  *)
(* reads a value that is computed later, though conditions are shared, no   *)
(* alias leads to a key that is a column's or that the filters remove, an   *)
(* action either drops or renames (when, derive, alias, addRename, addDrop). *)
(* The filters are asked for the key of an alias as it is before the digit  *)
(* prefix, where fixKey asks them for what it is after it: with both, an    *)
(* alias may still lead to a key that is never written.                     *)
ResultIsWellFormed ==
  pc = "done" =>
    /\ WellFormed(t)
    /\ \A path \in DOMAIN t.actions :
         LET a == t.actions[path]
         IN  path # <<>> /\ a.renameTo # <<>> /\ ~(a.drop /\ a.renameTo # NoPath)
    /\ \A o \in Range(t.outputs) :
         o.nameFrom \in 0 .. Len(t.derived) /\ o.member \subseteq DOMAIN t.sections

(* The entries that may have a condition: how many there are, the condition *)
(* as it is written, and the number that is compiled for it.                *)
Conditioned == {"derive", "columns", "aliases", "sections", "outputs"}

NameOf(i) == CHOOSE n \in DerivedNames : Cardinality(Before(n)) = i - 1
Conditional == {i \in DOMAIN cfg.aliases : cfg.aliases[i].when # NoCond}
GroupOf(i) == Cardinality({j \in Conditional : j < i}) + 1

Entries(step) ==
  CASE step = "derive"   -> Cardinality(DerivedNames)
    [] step = "columns"  -> Len(cfg.columns)
    [] step = "aliases"  -> Len(cfg.aliases)
    [] step = "rules"    -> Len(cfg.rules)
    [] step = "sections" -> Len(cfg.sections)
    [] step = "outputs"  -> Len(cfg.outputs)

WhenOf(step, i) ==
  CASE step = "derive"   -> cfg.derive[NameOf(i)].when
    [] step = "columns"  -> cfg.columns[i].when
    [] step = "aliases"  -> cfg.aliases[i].when
    [] step = "sections" -> cfg.sections[i].when
    [] step = "outputs"  -> cfg.outputs[i].when

NumberOf(step, i) ==
  CASE step = "derive"   -> t.derived[i].when
    [] step = "columns"  -> t.columns[i].when
    [] step = "aliases"  -> IF i \in Conditional THEN t.groups[GroupOf(i)].when ELSE 0
    [] step = "sections" -> t.sections[i].when
    [] step = "outputs"  -> t.outputs[i].when

(* Each entry that has a condition gets the number of one that is compiled  *)
(* from it, one that has none gets 0, and each condition is compiled once   *)
(* (when: "Equal conditions share one index").                              *)
CondsAsWritten ==
  pc = "done" =>
    LET written == {WhenOf(u[1], u[2]) :
                      u \in UNION {{step} \X (1 .. Entries(step)) : step \in Conditioned}} \ {NoCond}
    IN  /\ \A step \in Conditioned : \A i \in 1 .. Entries(step) :
             LET w == WhenOf(step, i)
                 when == NumberOf(step, i)
             IN  IF w = NoCond THEN when = 0 ELSE when # 0 /\ t.conds[when] = CompiledCond(w)
        /\ Len(t.conds) = Cardinality(written)

(* The sources of all merges, <<rule, position>>: each has a slot of its    *)
(* own, in the order they are written.                                      *)
MergeSources == UNION {{i} \X DOMAIN cfg.rules[i].from : i \in RulesOf("merge")}
MergeOf(i) == Cardinality({j \in RulesOf("merge") : j < i}) + 1
SlotOf(i, p) == Cardinality({s \in MergeSources : s[1] < i}) + p

(* The action at a path is what all rules that name it ask for, in whatever *)
(* order they come: a source of several merges fills a slot of each and is  *)
(* consumed if one of them wants it; a section is dead if a rule drops its  *)
(* root or what is above (addMerge, addDrop, dropped).                      *)
RulesAsWritten ==
  pc = "done" =>
    LET r == cfg.rules
        PathOf(s) == r[s[1]].from[s[2]]
    IN  /\ \A path \in DOMAIN t.actions :
             LET a == t.actions[path]
             IN  /\ a.drop <=> \E i \in RulesOf("drop") : r[i].path = path
                 /\ \A i \in RulesOf("rename") : r[i].from = <<path>> => a.renameTo = r[i].to
                 /\ a.renameTo # NoPath => \E i \in RulesOf("rename") : r[i].from = <<path>>
                 /\ a.slots = {SlotOf(s[1], s[2]) : s \in {s \in MergeSources : PathOf(s) = path}}
                 /\ a.consume <=> \E s \in MergeSources : PathOf(s) = path /\ ~r[s[1]].keepSources
        /\ DOMAIN t.actions = {r[i].path : i \in RulesOf("drop")}
                               \cup {r[i].from[1] : i \in RulesOf("rename")}
                               \cup {PathOf(s) : s \in MergeSources}
        /\ Len(t.merges) = Cardinality(RulesOf("merge"))
        /\ \A i \in RulesOf("merge") :
             t.merges[MergeOf(i)].slots = [p \in DOMAIN r[i].from |-> SlotOf(i, p)]
        /\ \A s \in DOMAIN cfg.sections :
             t.sections[s].dead <=>
               \E i \in RulesOf("drop") : IsPrefix(r[i].path, cfg.sections[s].from)

Lists(a, key) == key \in Range(Froms(a))

(* Whatever conditions hold, a key is replaced by the first alias of the    *)
(* config that lists it and whose condition holds, then by one that has     *)
(* none, and then prefixed; a key no alias knows is only prefixed (aliases, *)
(* fixKey).                                                                 *)
AliasesAsWritten ==
  pc = "done" =>
    \A true \in SUBSET Range(t.conds) : \A key \in Keys :
      LET on == [g \in DOMAIN t.groups |->
                  t.groups[g].when = 0 \/ t.conds[t.groups[g].when] \in true]
          first == {i \in Conditional :
                     CompiledCond(cfg.aliases[i].when) \in true /\ Lists(cfg.aliases[i], key)}
          second == {i \in DOMAIN cfg.aliases \ Conditional : Lists(cfg.aliases[i], key)}
          final == IF first # {} THEN cfg.aliases[Min(first)].to
                   ELSE IF second # {} THEN cfg.aliases[Min(second)].to ELSE key
      IN  FixedKey(t, on, key) =
            IF final # <<>> /\ final[1] \in Digits THEN cfg.digitPrefix \o final ELSE final

(* A config without fixKeys has no key that the walk or fixKey would have   *)
(* changed or left out (New: fixKeys).                                      *)
SkipIsSafe ==
  pc = "done" /\ ~t.fixKeys =>
    \A key \in Keys :
      /\ ~t.snake /\ DOMAIN t.segAliases = {}
      /\ FixedKey(t, [g \in DOMAIN t.groups |-> TRUE], key) = key
      /\ Verdict(t, key) = "written"

(* "the same entry in both keep and drop | rejected"                        *)
(* (docs/config-reference.md, keys errors).                                 *)
NoEntryInBoth == pc = "done" => Range(cfg.keep) \cap Range(cfg.drop) = {}

=============================================================================
