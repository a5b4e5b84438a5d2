----------------------------- MODULE MCCompile -----------------------------
(* Small instances of Compile: one family of configs for each way in which  *)
(* entries of different sections meet.                                      *)
EXTENDS Compile

A == <<"a">>
AB == <<"a", "b">>
X == <<"x">>
Upper == <<"A">>
One == <<"1">>
Sign == <<"$">>
AX == A \o <<".">> \o X

MCKeys == {A, AB, X, Upper, One, Sign, AX, Upper \o <<".">> \o X}
MCSnakeOf == [seg \in {Upper, Sign} |-> IF seg = Upper THEN A ELSE <<>>]
MCDigits == {"1"}

LOCAL Path(path) == [kind |-> "path", path |-> path]
LOCAL Var(n) == [kind |-> "var", var |-> n]
LOCAL Lower(from) == [kind |-> "lower", from |-> from, stray |-> FALSE]
LOCAL Map(from, values) == [kind |-> "map", from |-> from, values |-> values, stray |-> FALSE]
LOCAL Skew(sent, original) == [kind |-> "skew", sent |-> sent, original |-> original, stray |-> FALSE]

LOCAL Exists(there) == [op |-> "exists", exists |-> there, want |-> {}]
LOCAL Equals(want) == [op |-> "equals", exists |-> FALSE, want |-> want]
LOCAL When(source, test) == [path |-> <<source>>, tests |-> <<test>>]

Base ==
  [json |-> "config", maxPooled |-> 0, arrays |-> "", maxDepth |-> 0, sep |-> <<>>, explode |-> <<>>,
   inherit |-> <<>>, derive |-> NoTable, columns |-> <<>>, normalize |-> "",
   digitPrefix |-> <<>>, onCollision |-> "", keep |-> <<>>, drop |-> <<>>, rest |-> <<>>,
   segAliases |-> NoTable, aliases |-> <<>>, rules |-> <<>>, sections |-> <<>>,
   outputs |-> <<>>, expose |-> <<>>]

LOCAL Derived(from, when) ==
  [from |-> from, normalize |-> "", norm |-> NoTable, required |-> FALSE, when |-> when]
LOCAL Col(to, from, when) == [to |-> to, from |-> from, as |-> "", when |-> when, quiet |-> FALSE]
LOCAL AliasTo(to, from, when) == [to |-> to, from |-> from, when |-> when]
LOCAL Section(id, from, when) ==
  [id |-> id, from |-> from, when |-> when, quiet |-> FALSE, prefix |-> A]
LOCAL Text == [kind |-> "text"]
LOCAL Output(name, when, ids) == [name |-> name, when |-> when, sections |-> ids]

-----------------------------------------------------------------------------
(* Derived values 1 and 3, around "now" (2); 5 is defined by no config.     *)

LOCAL Flag == When(Path(A), Exists(TRUE))
LOCAL NoFlag == When(Path(A), Exists(FALSE))
LOCAL First == When(Var(1), Equals({"v"}))
LOCAL Second == When(Lower(Var(3)), Equals({"v"}))
LOCAL Whens == {NoCond, Flag, NoFlag, First, Second}

Conditions ==
  {[Base EXCEPT
      !.derive = [n \in {1, 3} |-> IF n = 1 THEN Derived(<<from1>>, when1) ELSE Derived(<<from3>>, when3)],
      !.columns = <<Col(A, <<Var(3), Path(A)>>, column)>>,
      !.aliases = <<AliasTo(AB, <<<<X>>>>, alias)>>,
      !.sections = <<Section("s", <<"a">>, Second)>>,
      !.outputs = <<Output(Var(1), output, <<"s">>)>>] :
     from1 \in {Path(A), Var(3)}, from3 \in {Var(1), Map(Var(3), [x \in {"w"} |-> "v"])},
     when1 \in Whens, when3 \in Whens,
     column \in {NoCond, NoFlag, Second}, alias \in {NoCond, First}, output \in {NoCond, Flag}}

LOCAL WrongSources ==
  {Path(<<>>), Var(0), Lower(Path(<<>>)), Map(Var(1), NoTable), Skew(Path(A), Var(2)),
   [Lower(Var(1)) EXCEPT !.stray = TRUE], [kind |-> "other"]}
LOCAL RightSources == {Path(A), Var(2), Var(5), Skew(Path(A), Path(AB)), Lower(Var(2)), Lower(Var(1))}

Sources ==
  {[Base EXCEPT !.derive = [n \in {1} |-> Derived(<<Path(A)>>, NoCond)],
                !.inherit = <<A>>, !.explode = explode,
                !.columns = <<Col(X, <<Path(A), source>>, NoCond)>>] :
     source \in RightSources \cup WrongSources, explode \in {<<>>, A}}
  \cup {[Base EXCEPT !.derive = [n \in {1} |-> Derived(<<Path(A)>>, NoCond)], !.expose = <<source>>] :
         source \in RightSources \cup {Var(1)}}

-----------------------------------------------------------------------------

LOCAL Only(text) == [text |-> text, star |-> FALSE]
LOCAL All(text) == [text |-> text, star |-> TRUE]

Filters ==
  {[Base EXCEPT !.columns = <<Col(X, <<Path(A)>>, NoCond)>>,
                !.keep = keep, !.drop = drop, !.rest = rest,
                !.aliases = aliases, !.digitPrefix = prefix] :
     keep \in {<<>>, <<All(A), Only(One)>>, <<Only(AB)>>, <<Only(A), Only(A)>>},
     drop \in {<<>>, <<Only(AB)>>, <<All(A)>>, <<Only(<<>>)>>},
     rest \in {<<>>, X, AB}, prefix \in {<<>>, <<"_">>},
     aliases \in {<<>>, <<AliasTo(X, <<<<A>>>>, NoCond)>>, <<AliasTo(AB, <<<<One>>>>, NoCond)>>,
                  <<AliasTo(One, <<<<AB>>>>, NoCond)>>, <<AliasTo(A, <<>>, NoCond)>>}}

LOCAL Names == {<<<<A>>>>, <<<<Upper>>, <<X>>>>, <<<<Sign>>>>, <<<<Upper, Sign, X>>, <<AB>>>>}

Aliasing ==
  {[Base EXCEPT !.normalize = normalize, !.digitPrefix = prefix,
                !.aliases = <<AliasTo(One, first, NoCond), AliasTo(AB, second, when),
                              AliasTo(X, third, Flag)>>] :
     normalize \in {"", "snake"}, prefix \in {<<>>, <<"_">>}, first \in Names, second \in Names,
     when \in {NoCond, Flag, NoFlag}, third \in {<<<<A>>>>, <<<<Sign, AB>>>>}}
  \cup {[Base EXCEPT !.normalize = normalize, !.segAliases = table] :
         normalize \in {"", "none", "snake", "other"},
         table \in {[x \in {Upper} |-> X], [x \in {Sign, A} |-> AB], [x \in {Upper, A, X} |-> One],
                    [x \in {A} |-> A], [x \in {Upper} |-> A]}}

-----------------------------------------------------------------------------

LOCAL PA == <<"a">>
LOCAL PAB == <<"a", "b">>

LOCAL Merge(from, keepSources) ==
  [op |-> "merge", from |-> from, to |-> X, mode |-> "", keepSources |-> keepSources]

LOCAL Rule ==
  {[op |-> "rename", from |-> <<PA>>, to |-> X], [op |-> "rename", from |-> <<PAB>>, to |-> AB],
   [op |-> "rename", from |-> <<PA, PAB>>, to |-> X],
   [op |-> "drop", path |-> PA], [op |-> "drop", path |-> PAB],
   Merge(<<PA, PAB>>, FALSE), Merge(<<PAB, PAB>>, TRUE), Merge(<<PA>>, TRUE),
   [op |-> "default", path |-> A, value |-> "1"], [op |-> "default", path |-> A, value |-> "2"],
   [op |-> "default", path |-> X, value |-> NoName], [op |-> "other"]}

Ruling ==
  {[Base EXCEPT !.rules = <<first, second, third>>,
                !.sections = <<Section("s", PAB, NoCond), Section("", PA, Flag), Section(id, <<>>, NoCond)>>,
                !.outputs = <<Output(Text, NoCond, <<>>), Output(name, Flag, <<"s", "u">>)>>] :
     first \in Rule, second \in Rule, third \in Rule, id \in {"s", "u"}, name \in {Text}}
  \cup {[Base EXCEPT !.derive = [n \in {1} |-> Derived(<<Path(A)>>, NoCond)],
                     !.sections = <<Section("u", PA, NoCond)>>, !.outputs = <<Output(name, NoCond, ids)>>] :
         name \in {Text, Var(1), Var(5), [kind |-> "none"]}, ids \in {<<>>, <<"u">>, <<"", "u">>, <<"s">>}}

(* One wrong entry in an otherwise empty config. *)
Singles ==
  {Base, [Base EXCEPT !.json = "data after it"], [Base EXCEPT !.maxPooled = -1],
   [Base EXCEPT !.maxDepth = -1], [Base EXCEPT !.arrays = "raw"],
   [Base EXCEPT !.arrays = "other"], [Base EXCEPT !.inherit = <<A, <<>>>>],
   [Base EXCEPT !.inherit = <<AB>>], [Base EXCEPT !.onCollision = "other"],
   [Base EXCEPT !.onCollision = "first", !.keep = <<All(A)>>],
   [Base EXCEPT !.columns = <<[Col(A, <<Path(A)>>, NoCond) EXCEPT !.as = "other"]>>],
   [Base EXCEPT !.columns = <<Col(<<>>, <<Path(A)>>, NoCond)>>],
   [Base EXCEPT !.columns = <<Col(A, <<>>, NoCond)>>],
   [Base EXCEPT !.columns = <<Col(A, <<Path(A)>>, [Flag EXCEPT !.tests = <<>>])>>],
   [Base EXCEPT !.columns = <<Col(A, <<Path(A)>>, [Flag EXCEPT !.tests = @ \o First.tests])>>],
   [Base EXCEPT !.columns = <<Col(A, <<Path(A)>>, [Flag EXCEPT !.path = <<>>])>>]}
  \cup {[Base EXCEPT !.derive = [n \in {name} |-> Derived(<<Path(A)>>, NoCond)]] : name \in {0, 2}}
  \cup {[Base EXCEPT !.derive = [n \in {1} |-> [Derived(<<Path(A)>>, NoCond) EXCEPT !.normalize = mode]]] :
         mode \in {"snake", "other"}}

MCConfigs == Conditions \cup Sources \cup Filters \cup Aliasing \cup Ruling \cup Singles

=============================================================================
