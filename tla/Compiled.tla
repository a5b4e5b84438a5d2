------------------------------ MODULE Compiled ------------------------------
(***************************************************************************)
(* A compiled config (the Transformer of transform.go, the types of        *)
(* config.go) and one source record, as far as building rows goes, and the *)
(* pure questions the engine asks of them: the value and the text of a     *)
(* source, conditions, derived values, and the final form of a key.        *)
(*                                                                         *)
(* A compiled config t:                                                    *)
(*   conds    <<[op, srcs, exists, want]>>      ; a "when" of 0 is absent  *)
(*   derived  <<[srcs, norm, required, when]>>                             *)
(*   columns  <<[name, srcs, as, when, quiet]>>                            *)
(*   groups   <<[when, to]>>                    ; aliasGroups              *)
(*   sections <<[when, quiet, dead]>>                                      *)
(*   outputs  <<[nameFrom, when, member]>>                                 *)
(*   merges   <<[to, mode, slots]>>   defaults  <<[key, value]>>           *)
(*   digit, keep, drop, rest, collision, dropNulls, dropEmptyObjects       *)
(* A source, by its kind: "path" [name, inherit], "derived" [idx], "var"   *)
(* [name], "now", "skew" [sent, original], which are paths, "map" [from,   *)
(* values, else] and "lower" [from, lower], of which from is a path or a   *)
(* variable and values and lower give the value for a text.  A record r:   *)
(*   container ; whether the root is an object or an array                 *)
(*   src, env  ; what each path finds in the record, in the envelope       *)
(*   vars, now ; the Options' variables and moment                         *)
(*   skewed    ; the text that skew makes of two moments of the record     *)
(*   nodes     ; for each section, the nodes its walk writes as one value, *)
(*               <<[key, val, slots, consume]>> in the order of the walk   *)
(* A value: [id, type, text, bad]; text tells what its text looks like,    *)
(* "none" if it has none, and bad whether an invalid number is in it.      *)
(***************************************************************************)
EXTENDS Integers, Sequences, FiniteSets, SequencesExt

CONSTANTS
  NoName,        (* keys.rest is not set                                 *)
  NoFilter       (* keys.keep is empty                                   *)

ValueTypes == {"scalar", "null", "object", "emptyObject", "array"}
TextKinds == {"none", "empty", "number", "bool", "time", "other"}

(* A nil *fastjson.Value. *)
Missing == [id |-> "missing", type |-> "missing", text |-> "none", bad |-> FALSE]

IsValue(v) ==
  /\ DOMAIN v = {"id", "type", "text", "bad"}
  /\ v = Missing \/ v.type \in ValueTypes
  /\ v.text \in TextKinds
  /\ v.text # "none" => v.type = "scalar" /\ ~v.bad /\ v.id \in STRING

-----------------------------------------------------------------------------
(* Sources.                                                                 *)

(* lookup: a null counts as missing, and a path listed in input.inherit     *)
(* falls back to the envelope.                                              *)
ValueAt(table, name) == IF table[name].type = "null" THEN Missing ELSE table[name]

Lookup(src, r) ==
  LET v == ValueAt(r.src, src.name)
  IN  IF v = Missing /\ src.inherit THEN ValueAt(r.env, src.name) ELSE v

TextValue(text) == [id |-> text, type |-> "scalar", text |-> "other", bad |-> FALSE]

(* The path or variable that a source reads: a map and a lower have theirs  *)
(* in from.                                                                 *)
Origin(src) == IF src.kind \in {"map", "lower"} THEN src.from ELSE src

(* What a path or a variable stands for, given the derived values computed  *)
(* so far: an empty derived value and an empty variable are none, and skew  *)
(* needs two moments (what it makes of them is in Skew).                    *)
PlainValue(src, r, dv) ==
  CASE src.kind = "path"    -> Lookup(src, r)
    [] src.kind = "derived" -> IF dv[src.idx] = "" THEN Missing ELSE TextValue(dv[src.idx])
    [] src.kind = "var"     -> IF r.vars[src.name].text = "empty" THEN Missing
                               ELSE r.vars[src.name]
    [] src.kind = "skew"    -> IF /\ Lookup(src.sent, r).text = "time"
                                  /\ Lookup(src.original, r).text = "time"
                               THEN TextValue(r.skewed) ELSE Missing
    [] OTHER -> TextValue(r.now)

IsEmptyText(v) == v.text \in {"none", "empty"}

(* mapValue, v being what from stands for: an empty text is a miss that     *)
(* else does not cover.                                                     *)
MapValue(src, v) ==
  IF IsEmptyText(v) THEN Missing
  ELSE IF v.id \in DOMAIN src.values THEN src.values[v.id] ELSE src.else

(* The text of from in lower case, if there is any. *)
Lowered(src, v) ==
  IF IsEmptyText(v) THEN Missing
  ELSE IF v.id \in DOMAIN src.lower THEN src.lower[v.id] ELSE v

SourceValue(src, r, dv) ==
  LET v == PlainValue(Origin(src), r, dv)
  IN  CASE src.kind = "map"   -> MapValue(src, v)
        [] src.kind = "lower" -> Lowered(src, v)
        [] OTHER -> v

(* text: only a path may give an empty text. *)
HasText(src, v) ==
  v.text # "none" /\ (v.text = "empty" => src.kind = "path")

(* present: a path or a map is present with a value of any type, a map also *)
(* with a null or with an empty text.                                       *)
Present(src, v) ==
  IF src.kind \in {"path", "map"} THEN v # Missing ELSE HasText(src, v)

(* The first source of a list that passes a test. *)
FirstSource(srcs, Passes(_)) == SelectInSeq(srcs, Passes)

(* evalCond *)
EvalCond(c, r, dv) ==
  IF c.op = "exists"
  THEN LET IsThere(src) == Present(src, SourceValue(src, r, dv))
       IN  c.exists = (FirstSource(c.srcs, IsThere) # 0)
  ELSE LET Speaks(src) == HasText(src, SourceValue(src, r, dv))
           first == FirstSource(c.srcs, Speaks)
       IN  first # 0 /\ SourceValue(c.srcs[first], r, dv).id \in c.want

(* appendDerived: the text of the first source that has one, normalised and *)
(* prefixed as the table norm says; nothing may be left of it.              *)
DerivedText(d, r, dv) ==
  LET Speaks(src) == HasText(src, SourceValue(src, r, dv))
      first == FirstSource(d.srcs, Speaks)
  IN  IF first = 0 THEN ""
      ELSE LET text == SourceValue(d.srcs[first], r, dv).id
           IN  IF text \in DOMAIN d.norm THEN d.norm[text] ELSE text

(* writeColumns, the cases of the switch: whether a source has a value the  *)
(* column can take, and the value as it is written. Only a value that is    *)
(* copied from the record can hold an invalid number.                       *)
Takes(c, src, v) ==
  CASE c.as = "number" -> HasText(src, v) /\ v.text = "number"
    [] c.as = "bool"   -> HasText(src, v) /\ v.text = "bool"
    [] c.as = "raw" /\ src.kind = "map"  -> v # Missing /\ v.text # "empty"
    [] c.as = "raw" /\ src.kind = "path" -> v # Missing
    [] OTHER -> HasText(src, v)

ColumnSource(c, r, dv) ==
  LET Fits(src) == Takes(c, src, SourceValue(src, r, dv))
  IN  FirstSource(c.srcs, Fits)

ColumnValue(c, r, dv) == SourceValue(c.srcs[ColumnSource(c, r, dv)], r, dv)

-----------------------------------------------------------------------------
(* Keys.                                                                    *)

(* fixKey: the first group that is on and knows the key replaces it, the    *)
(* digit prefix follows. on tells which groups are on.                      *)
FixedKey(t, on, key) ==
  LET hits == {g \in DOMAIN t.groups : on[g] /\ key \in DOMAIN t.groups[g].to}
      aliased == IF hits = {} THEN key
                 ELSE t.groups[CHOOSE g \in hits : \A x \in hits : g <= x].to[key]
  IN  IF aliased \in DOMAIN t.digit THEN t.digit[aliased] ELSE aliased

(* The drop and keep lists: "written", "dropped" or "notKept". *)
Verdict(t, key) ==
  IF key \in t.drop THEN "dropped"
  ELSE IF t.keep # NoFilter /\ key \notin t.keep THEN "notKept"
  ELSE "written"

ColumnNames(t) == {t.columns[c].name : c \in DOMAIN t.columns}

(* New: rows may extend one another when nothing follows the sections. *)
Extend(t) == t.merges = <<>> /\ t.defaults = <<>> /\ t.rest = NoName

(* The writer of a node that is one value, and the node types of slots. *)
Capturable(v) == v.type \in {"scalar", "null"}

(* derivedIdx: the derived value a source reads, itself or through its from, *)
(* or 0.                                                                    *)
DerivedIdx(src) == IF Origin(src).kind = "derived" THEN Origin(src).idx ELSE 0

(* What the compiler guarantees (columns, keyFilters, alias, derive, when). *)
ReadsBefore(srcs, n) == \A s \in DOMAIN srcs : DerivedIdx(srcs[s]) < n

(* A list of sources reads derived values that there are. *)
IsASeq(s) == s \in Seq(Range(s))

AreSourcesOf(t, srcs) ==
  /\ IsASeq(srcs)
  /\ \A s \in DOMAIN srcs :
       Origin(srcs[s]).kind = "derived" => Origin(srcs[s]).idx \in DOMAIN t.derived

WellFormed(t) ==
  LET CondBefore(when, n) == when # 0 => ReadsBefore(t.conds[when].srcs, n)
  IN  /\ IsASeq(t.derived) /\ IsASeq(t.columns)
      /\ \A c \in DOMAIN t.conds : AreSourcesOf(t, t.conds[c].srcs)
      /\ \A c \in DOMAIN t.columns : t.columns[c].when \in {0} \cup DOMAIN t.conds
      /\ \A d \in DOMAIN t.derived :
           /\ ReadsBefore(t.derived[d].srcs, d)
           /\ CondBefore(t.derived[d].when, d)
      /\ \A g \in DOMAIN t.groups : \A key \in DOMAIN t.groups[g].to :
           LET to == t.groups[g].to[key]
           IN  /\ to # key
               /\ to \notin ColumnNames(t) /\ to # t.rest
               /\ Verdict(t, to) = "written"
      /\ t.rest # NoName => t.keep # NoFilter /\ t.rest \notin ColumnNames(t)
      /\ \A a, b \in DOMAIN t.defaults :
           t.defaults[a].key = t.defaults[b].key => a = b

=============================================================================
