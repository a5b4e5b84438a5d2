-------------------------------- MODULE Rows --------------------------------
(***************************************************************************)
(* What the rows of a record are, said at once and without an engine: no   *)
(* caches, no key set, no row that starts as a copy of another (the        *)
(* comments of Record, build, claim and openRow in transform.go).          *)
(*                                                                         *)
(* Everything that wants to be in a row is a candidate and has a place: a  *)
(* column, a node of an active section, a merge, a default, the rest       *)
(* column.  The row is the candidates that win their name, in the order of *)
(* their places.                                                           *)
(***************************************************************************)
EXTENDS Compiled

(* The derived values, the first n of them, each from those before it. *)
DerivedUpTo(t, r) ==
  LET dv[n \in 0 .. Len(t.derived)] ==
        IF n = 0 THEN <<>>
        ELSE LET d == t.derived[n]
                 on == d.when = 0 \/ EvalCond(t.conds[d.when], r, dv[n - 1])
             IN  Append(dv[n - 1], IF on THEN DerivedText(d, r, dv[n - 1]) ELSE "")
  IN  dv

(* What a record decides for all of its rows: its derived values and which  *)
(* conditions hold.                                                         *)
Facts(t, r) ==
  LET FactsOf(dv) == [derived |-> dv,
                      holds |-> [c \in DOMAIN t.conds |-> EvalCond(t.conds[c], r, dv)]]
  IN  FactsOf(DerivedUpTo(t, r)[Len(t.derived)])

Holds(facts, when) == when = 0 \/ facts.holds[when]

(* A required derived value that is on but empty fails the record. *)
RequiredMissing(t, r) ==
  LET Misses(d, before) ==
        /\ d.required
        /\ d.when = 0 \/ EvalCond(t.conds[d.when], r, before)
        /\ DerivedText(d, r, before) = ""
  IN  \E n \in DOMAIN t.derived : Misses(t.derived[n], DerivedUpTo(t, r)[n - 1])

-----------------------------------------------------------------------------
(* Places: columns come first, then nodes, section by section.              *)

ColumnAt(c) == <<1, c, 0>>
NodeAt(sec, p) == <<2, sec, p>>
MergeAt(m) == <<3, m, 0>>
DefaultAt(d) == <<4, d, 0>>
RestAt == <<5, 0, 0>>

Precedes(a, b) ==
  \/ a[1] < b[1]
  \/ a[1] = b[1] /\ a[2] < b[2]
  \/ a[1] = b[1] /\ a[2] = b[2] /\ a[3] < b[3]

Before(S, b) == {a \in S : Precedes(a, b)}

(* The values of F at the places S, in their order. *)
Nth(S, n) == CHOOSE a \in {b \in S : Cardinality(Before(S, b)) = n - 1} : TRUE
Listed(S, F) == [n \in 1 .. Cardinality(S) |-> F[Nth(S, n)]]

-----------------------------------------------------------------------------
(* Columns.                                                                 *)

ActiveColumns(t, facts) == {c \in DOMAIN t.columns : Holds(facts, t.columns[c].when)}

(* The name of an active column belongs to it, value or not; the first of   *)
(* them says whether that is silent.                                        *)
Owned(t, facts) == {t.columns[c].name : c \in ActiveColumns(t, facts)}

OwnedQuietly(t, facts) ==
  {t.columns[c].name : c \in
    {c \in ActiveColumns(t, facts) :
      /\ t.columns[c].quiet
      /\ \A b \in ActiveColumns(t, facts) : t.columns[b].name = t.columns[c].name => c <= b}}

(* The columns that are active and have a value. *)
Filled(t, r, facts) ==
  {c \in ActiveColumns(t, facts) : ColumnSource(t.columns[c], r, facts.derived) # 0}

(* The first active column of a name that has a value gives it. *)
ColumnPlaces(t, r, facts) ==
  LET First(filled) ==
        {c \in filled : \A b \in filled : t.columns[b].name = t.columns[c].name => c <= b}
  IN  {ColumnAt(c) : c \in First(Filled(t, r, facts))}

-----------------------------------------------------------------------------
(* Nodes.                                                                   *)

IsOn(t, facts, sec) == ~t.sections[sec].dead /\ Holds(facts, t.sections[sec].when)

(* The nodes of the row of output o, and one of them. *)
Nodes(t, r, facts, o) ==
  UNION {{NodeAt(sec, p) : p \in DOMAIN r.nodes[sec]} :
           sec \in {sec \in t.outputs[o].member : IsOn(t, facts, sec)}}

NodeOf(r, a) == r.nodes[a[2]][a[3]]

KeyOf(t, r, facts, a) ==
  FixedKey(t, [g \in DOMAIN t.groups |-> Holds(facts, t.groups[g].when)], NodeOf(r, a).key)

(* A node that a merge takes over, a null or an empty object that is not    *)
(* wanted, is no candidate.                                                 *)
Survives(t, node) ==
  /\ ~(node.consume /\ Capturable(node.val))
  /\ ~(t.dropNulls /\ node.val.type = "null")
  /\ ~(t.dropEmptyObjects /\ node.val.type = "emptyObject")

WithVerdict(t, r, facts, nodes, verdict) ==
  {a \in nodes : Survives(t, NodeOf(r, a)) /\ Verdict(t, KeyOf(t, r, facts, a)) = verdict}

(* Unmapped keys, except copies of columns, make up the rest column. *)
RestNodes(t, r, facts, nodes) ==
  {a \in WithVerdict(t, r, facts, nodes, "notKept") :
    t.rest # NoName /\ KeyOf(t, r, facts, a) \notin Owned(t, facts)}

RestValue(t, r, facts, nodes) ==
  Listed(RestNodes(t, r, facts, nodes),
         [a \in nodes |-> <<KeyOf(t, r, facts, a), NodeOf(r, a).val.id>>])

-----------------------------------------------------------------------------
(* Merges: what the last node at each source path left for them.            *)

Captured(r, nodes, slot) ==
  LET hits == {a \in nodes : slot \in NodeOf(r, a).slots /\ Capturable(NodeOf(r, a).val)}
  IN  IF hits = {} THEN Missing
      ELSE NodeOf(r, CHOOSE a \in hits : \A b \in hits : ~Precedes(a, b)).val

(* first takes the first that is not null, array all that are there, concat *)
(* all that are not null.                                                   *)
Merged(mode, vals) ==
  LET there == SelectSeq(vals, LAMBDA v : v # Missing)
      texts == SelectSeq(there, LAMBDA v : v.type # "null")
      used == CASE mode = "first" -> IF texts = <<>> THEN <<>> ELSE <<Head(texts)>>
                [] mode = "array" -> there
                [] mode = "concat" -> texts
  IN  [value |-> <<mode>> \o [p \in DOMAIN used |-> used[p].id],
       empty |-> used = <<>>,
       bad |-> \E p \in DOMAIN used : used[p].bad]

MergeResult(t, r, nodes, m) ==
  Merged(t.merges[m].mode,
         [p \in DOMAIN t.merges[m].slots |-> Captured(r, nodes, t.merges[m].slots[p])])

-----------------------------------------------------------------------------
(* Candidates.                                                              *)

Candidate(name, value, quiet, bad) ==
  [name |-> name, value |-> value, quiet |-> quiet, bad |-> bad]

(* What stands at a place of a row with these nodes. *)
CandidateAt(t, r, facts, nodes, a) ==
  CASE a[1] = 1 ->
         LET c == t.columns[a[2]]
             v == ColumnValue(c, r, facts.derived)
         IN  Candidate(c.name, <<v.id>>, FALSE, v.bad)
    [] a[1] = 2 ->
         LET v == NodeOf(r, a).val
         IN  Candidate(KeyOf(t, r, facts, a), <<v.id>>, t.sections[a[2]].quiet, v.bad)
    [] a[1] = 3 ->
         LET result == MergeResult(t, r, nodes, a[2])
         IN  Candidate(t.merges[a[2]].to, result.value, FALSE, FALSE)
    [] a[1] = 4 -> Candidate(t.defaults[a[2]].key, <<t.defaults[a[2]].value>>, FALSE, FALSE)
    [] a[1] = 5 -> Candidate(t.rest, RestValue(t, r, facts, nodes), FALSE, FALSE)

CandidatesAt(t, r, facts, nodes, places) ==
  [a \in places |-> CandidateAt(t, r, facts, nodes, a)]

(* The candidates that get their name: columns, and of the others the first *)
(* whose name is no column's.                                               *)
Winners(t, facts, cands) ==
  {a \in DOMAIN cands :
    \/ a[1] = 1
    \/ /\ cands[a].name \notin Owned(t, facts)
       /\ \/ t.collision = "keep"
          \/ \A b \in Before(DOMAIN cands, a) : cands[b].name # cands[a].name}

(* The places before those of the defaults, and the defaults: one is a      *)
(* candidate if nothing before it is written under its key.                 *)
Early(t, r, facts, nodes) ==
  ColumnPlaces(t, r, facts)
    \cup WithVerdict(t, r, facts, nodes, "written")
    \cup {MergeAt(m) : m \in {m \in DOMAIN t.merges : ~MergeResult(t, r, nodes, m).empty}}

Late(t, r, facts, nodes) ==
  LET Taken(early) == {early[a].name : a \in Winners(t, facts, early)}
      taken == Taken(CandidatesAt(t, r, facts, nodes, Early(t, r, facts, nodes)))
  IN  {DefaultAt(d) : d \in {d \in DOMAIN t.defaults : t.defaults[d].key \notin taken}}
        \cup (IF RestNodes(t, r, facts, nodes) = {} THEN {} ELSE {RestAt})

(* All that wants to be in the row. *)
Wanted(t, r, facts, nodes) ==
  CandidatesAt(t, r, facts, nodes, Early(t, r, facts, nodes) \cup Late(t, r, facts, nodes))

(* Those that are left out and reported in Record.Dropped. *)
Losers(t, facts, cands) ==
  {a \in DOMAIN cands \ Winners(t, facts, cands) :
    ~cands[a].quiet /\ cands[a].name \notin OwnedQuietly(t, facts)}

-----------------------------------------------------------------------------
(* Rows.                                                                    *)

Row(t, r, facts, o) ==
  LET RowOf(cands) ==
        [output |-> o,
         body |-> Listed(Winners(t, facts, cands),
                         [a \in DOMAIN cands |-> <<cands[a].name, cands[a].value>>]),
         dropped |-> Cardinality(Losers(t, facts, cands))]
  IN  RowOf(Wanted(t, r, facts, Nodes(t, r, facts, o)))

(* What makes a row fail, and its record with it. A bad number in a merge   *)
(* or in the rest does so even if it is not written.                        *)
Collisions(t, facts, cands) ==
  {a \in DOMAIN cands \ Winners(t, facts, cands) :
    t.collision = "error" /\ ~cands[a].quiet /\ cands[a].name \notin Owned(t, facts)}

InvalidNumbers(t, r, facts, nodes, cands) ==
  {a \in Winners(t, facts, cands) : cands[a].bad}
    \cup {MergeAt(m) : m \in {m \in DOMAIN t.merges : MergeResult(t, r, nodes, m).bad}}
    \cup {a \in RestNodes(t, r, facts, nodes) : NodeOf(r, a).val.bad}

RowErrors(t, r, facts, o) ==
  LET ErrorsOf(nodes, cands) ==
        {e \in {"ErrCollision", "ErrInvalidNumber"} :
          IF e = "ErrCollision" THEN Collisions(t, facts, cands) # {}
          ELSE InvalidNumbers(t, r, facts, nodes, cands) # {}}
      OfNodes(nodes) == ErrorsOf(nodes, Wanted(t, r, facts, nodes))
  IN  OfNodes(Nodes(t, r, facts, o))

(* The outputs that match: their condition holds and they have a name. *)
Matching(t, facts) ==
  {o \in DOMAIN t.outputs :
    /\ Holds(facts, t.outputs[o].when)
    /\ t.outputs[o].nameFrom = 0 \/ facts.derived[t.outputs[o].nameFrom] # ""}

(* The rows are those of the outputs that match, in the order of the config. *)
AreRowsOf(t, r, rows) ==
  LET Are(facts) ==
        /\ {rows[p].output : p \in DOMAIN rows} = Matching(t, facts)
        /\ \A p, q \in DOMAIN rows : p < q => rows[p].output < rows[q].output
        /\ \A p \in DOMAIN rows : rows[p] = Row(t, r, facts, rows[p].output)
  IN  Are(Facts(t, r))

(* The errors a record may end with; none means its rows are delivered. *)
Errors(t, r) ==
  LET OfRows(facts, outs) ==
        IF outs = {} THEN {"ErrNoOutput"} ELSE UNION {RowErrors(t, r, facts, o) : o \in outs}
      WithFacts(facts) == OfRows(facts, Matching(t, facts))
  IN  IF ~r.container THEN {"ErrRootNotContainer"}
      ELSE IF RequiredMissing(t, r) THEN {"ErrRequired"}
      ELSE WithFacts(Facts(t, r))

=============================================================================
