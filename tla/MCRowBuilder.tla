---------------------------- MODULE MCRowBuilder ----------------------------
(* Small instances of RowBuilder. The second derived value depends on a     *)
(* condition that reads the first, so that conditions are known before all   *)
(* derived values are; it is the text of the first in lower case.            *)
(* Two families of configs: SectionConfigs are about sections, outputs and   *)
(* the rows that extend one another, TailConfigs about what stands before    *)
(* and after the nodes: aliases, keep, rest, merges, defaults.               *)
EXTENDS RowBuilder

LOCAL V(id, type, text) == [id |-> id, type |-> type, text |-> text, bad |-> FALSE]
LOCAL Path(name, inherit) == [kind |-> "path", name |-> name, inherit |-> inherit]
LOCAL From(n) == [kind |-> "derived", idx |-> n]
LOCAL Var(name) == [kind |-> "var", name |-> name]
LOCAL Map(from, values) == [kind |-> "map", from |-> from, values |-> values, else |-> Missing]
LOCAL Lower(from, lower) == [kind |-> "lower", from |-> from, lower |-> lower]

word   == V("w", "scalar", "other")
track  == V("track", "scalar", "other")
one    == V("1", "scalar", "number")
blank  == V("", "scalar", "empty")
null   == V("null", "null", "none")
list   == V("list", "array", "none")
object == V("object", "emptyObject", "none")
nan    == [id |-> "nan", type |-> "scalar", text |-> "none", bad |-> TRUE]

NoMap == [x \in {} |-> x]

LOCAL Section(when, q, dead) == [when |-> when, quiet |-> q, dead |-> dead]
LOCAL Output(nameFrom, when, member) == [nameFrom |-> nameFrom, when |-> when, member |-> member]
LOCAL Col(name, srcs, as, when, q) ==
  [name |-> name, srcs |-> srcs, as |-> as, when |-> when, quiet |-> q]

(* Condition 1 asks for the flag, 2 for the first derived value to be a      *)
(* table, 3 whether a map of it has anything; the map has a null for it.    *)
Conditions ==
  <<[op |-> "exists", srcs |-> <<Path("flag", TRUE)>>, exists |-> TRUE, want |-> {}],
    [op |-> "equals", srcs |-> <<From(1)>>, exists |-> FALSE, want |-> {"track", "t_w"}],
    [op |-> "exists", srcs |-> <<Map(From(1), [x \in {"t_w"} |-> null])>>,
     exists |-> TRUE, want |-> {}]>>

Base ==
  [conds |-> Conditions,
   derived |-> <<[srcs |-> <<Path("type", FALSE)>>, norm |-> [x \in {"w"} |-> "t_w"],
                  required |-> FALSE, when |-> 0],
                 [srcs |-> <<Lower(From(1), [x \in {"t_w"} |-> track])>>, norm |-> NoMap,
                  required |-> FALSE, when |-> 3]>>,
   columns |-> <<>>, groups |-> <<>>,
   sections |-> <<Section(0, FALSE, FALSE), Section(0, FALSE, FALSE), Section(0, FALSE, FALSE)>>,
   outputs |-> <<Output(0, 0, {1, 2, 3})>>, merges |-> <<>>, defaults |-> <<>>,
   digit |-> NoMap, keep |-> NoFilter, drop |-> {}, rest |-> NoName,
   collision |-> "keep", dropNulls |-> FALSE, dropEmptyObjects |-> FALSE]

-----------------------------------------------------------------------------

Columns ==
  <<Col("id", <<Path("id", TRUE)>>, "raw", 1, FALSE),
    Col("id", <<Path("id", FALSE), Var("tenant"), From(2)>>, "string", 2, TRUE)>>

SectionConfigs ==
  {[Base EXCEPT !.collision = policy, !.columns = Columns, !.outputs = outs,
                !.derived[1].required = special,
                !.sections = <<Section(0, FALSE, FALSE), Section(1, q, FALSE),
                               Section(0, FALSE, special)>>] :
     policy \in {"keep", "first", "error"}, q \in BOOLEAN, special \in BOOLEAN,
     outs \in {<<Output(0, 0, {1}), Output(1, 0, {1, 2}), Output(0, 2, {1, 2, 3})>>,
               <<Output(0, 0, {2}), Output(0, 2, {1, 2}), Output(1, 0, {2, 3})>>}}

LOCAL Node(key, val) == [key |-> key, val |-> val, slots |-> {}, consume |-> FALSE]

SectionRecords ==
  {[container |-> TRUE,
    src |-> [x \in {"id", "type", "flag"} |->
              CASE x = "id" -> id [] x = "type" -> type [] x = "flag" -> null],
    env |-> [x \in {"id", "flag"} |-> IF x = "flag" THEN flag ELSE one],
    vars |-> [x \in {"tenant"} |-> blank], now |-> "now", skewed |-> "0",
    nodes |-> <<first, second, third>>] :
     id \in {Missing, list}, type \in {blank, word}, flag \in {Missing, object},
     first \in {<<Node("x", word), Node("id", word)>>, <<Node("x", word), Node("x", one)>>},
     second \in {<<Node("x", one)>>, <<Node("y", one), Node("id", one)>>},
     third \in {<<Node("x", one)>>, <<Node("y", nan)>>}}
  \cup {[container |-> FALSE]}

-----------------------------------------------------------------------------

LOCAL Group(when, to) == [when |-> when, to |-> to]

TailConfigs ==
  {[Base EXCEPT !.collision = policy,
      !.columns = <<Col("id", <<Map(Path("id", FALSE), [x \in {"1"} |-> null]), Path("id", FALSE)>>, as, 1, FALSE)>>,
      !.groups = <<Group(1, [x \in {"x"} |-> "y"]), Group(0, [x \in {"x"} |-> "z"])>>,
      !.digit = [x \in {"9"} |-> "_9"],
      !.drop = {"junk"},
      !.keep = filter.keep, !.rest = filter.rest,
      !.merges = merges,
      !.defaults = <<[key |-> "y", value |-> "dy"], [key |-> "id", value |-> "did"]>>,
      !.sections[3].quiet = TRUE,
      !.outputs = <<Output(0, 0, {1}), Output(0, 1, {1, 2, 3})>>,
      !.dropNulls = strip, !.dropEmptyObjects = strip] :
     policy \in {"keep", "first", "error"}, strip \in BOOLEAN, as \in {"number", "raw"},
     filter \in {[keep |-> NoFilter, rest |-> NoName],
                 [keep |-> {"y", "z"}, rest |-> NoName],
                 [keep |-> {"y", "z"}, rest |-> "extra"]},
     merges \in {<<[to |-> "y", mode |-> "concat", slots |-> <<1, 2>>]>>,
                 <<[to |-> "m", mode |-> "array", slots |-> <<1, 2>>],
                   [to |-> "m", mode |-> "first", slots |-> <<3>>]>>}}

LOCAL Source(key, val, fills, consume) ==
  [key |-> key, val |-> val, slots |-> fills, consume |-> consume]

TailRecords ==
  {[container |-> TRUE,
    src |-> [x \in {"id", "type", "flag"} |->
              CASE x = "id" -> id [] x = "type" -> word [] x = "flag" -> flag],
    env |-> [x \in {"id", "flag"} |-> Missing],
    vars |-> NoMap, now |-> "now", skewed |-> "0",
    nodes |-> nodes] :
     id \in {blank, one}, flag \in {Missing, word},
     nodes \in {<<<<Source("x", null, {1}, FALSE), Node("id", word)>>,
                  <<Source("x", word, {2, 3}, FALSE)>>, <<Node("9", object), Node("junk", nan)>>>>,
                <<<<Source("x", one, {1, 3}, TRUE), Node("9", one)>>, <<>>, <<Node("z", list)>>>>,
                <<<<Source("x", nan, {3}, TRUE)>>, <<Node("9", nan)>>, <<>>>>}}

-----------------------------------------------------------------------------

MCConfigs == SectionConfigs \cup TailConfigs
MCRecords(c) == IF c \in SectionConfigs THEN SectionRecords ELSE TailRecords

=============================================================================
