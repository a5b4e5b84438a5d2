------------------------------ MODULE WalkProofs ------------------------------
(***************************************************************************)
(* Why the walk is right, for every record, config and section.            *)
(***************************************************************************)
EXTENDS Walk, Induction, SequenceTheorems, FiniteSetTheorems

Nodes == DOMAIN doc.parent
Root == RootOf(t.sections[sec])
Parent(n) == doc.parent[n]

(* The key of a node before a rename, its path, and what is written for it. *)
PlainKey == [n \in Nodes \ {1} |-> Places[Parent(n)].out \o Segment(n)]
PathOf == [n \in Nodes \ {1} |-> Places[Parent(n)].src \o Key(n)]
EntryOf == [n \in Nodes |-> EntryAt(Places, n)]
Entries == {EntryOf[n] : n \in Nodes}
Failing == {n \in Nodes : Fails(EntryOf[n])}
Ones == Single(Places)

Frames == [node : Nodes, ls : Nat, ld : Nat, mark : Nat, renamed : BOOLEAN, last : Nodes]

(* The calls in progress lead from the root of the section to the current   *)
(* node; what is left for one of them to visit comes after all below it.    *)
(* A call whose node is past its action has renamed it if the action does.  *)
Linked(p) ==
  /\ Parent(calls[p].node) = calls[p - 1].node
  /\ calls[p - 1].last = calls[p].node
  /\ Places[calls[p - 1].node].open
  /\ calls[p].ld = Len(Places[calls[p - 1].node].out)
  /\ calls[p].ls = IF HasActions THEN Len(Places[calls[p - 1].node].src)
                   ELSE Len(t.sections[sec].srcBase)
  /\ p < Len(calls) \/ pc \in {"visit", "handle"} =>
       (calls[p].renamed <=> Places[calls[p].node].action.renameTo # NoPath)

Stacked ==
  /\ calls \in Seq(Frames) /\ calls # <<>>
  /\ \A p \in DOMAIN calls :
       /\ calls[p].node <= calls[p].last
       /\ Places[calls[p].node].level = p
       /\ ~calls[p].renamed => calls[p].mark = 0
  /\ calls[1].node = Root /\ ~calls[1].renamed
  /\ \A p \in DOMAIN calls : p > 1 => Linked(p)
  /\ \A p, q \in DOMAIN calls : p < q =>
       /\ calls[p].node < calls[q].node
       /\ \A c \in Nodes : Parent(c) = calls[p].node /\ c > calls[p].last => c > calls[q].node

(* Where the keys of the renames lie in save: where one ends the next       *)
(* begins, and the last one ends it.                                        *)
MarkOf(p) == IF p = Len(calls) + 1 THEN Len(save) ELSE calls[p].mark
IsMark(p) == IF p = Len(calls) + 1 THEN TRUE ELSE calls[p].renamed
NoneBetween(p, q) == \A x \in DOMAIN calls : p < x /\ x < q => ~calls[x].renamed
EndOf(p) == calls[p].mark + Len(PlainKey[calls[p].node])

Saved ==
  /\ save \in Texts
  /\ \A q \in 1 .. Len(calls) + 1 : IsMark(q) =>
       /\ NoneBetween(0, q) => MarkOf(q) = 0
       /\ \A p \in DOMAIN calls : p < q /\ calls[p].renamed =>
            /\ EndOf(p) <= MarkOf(q)
            /\ NoneBetween(p, q) => EndOf(p) = MarkOf(q)
  /\ \A p \in DOMAIN calls : calls[p].renamed =>
       SubSeq(save, calls[p].mark + 1, EndOf(p)) = PlainKey[calls[p].node]

(* The paths at each step. *)
Positioned ==
  /\ src \in Texts /\ dst \in Texts
  /\ ~HasActions => src = t.sections[sec].srcBase
  /\ pc = "visit" =>
       /\ dst = Places[Node].out
       /\ HasActions => src = Places[Node].src
       /\ depth = Len(calls)
       /\ Len(calls) > 1 => Places[Node].open
  /\ pc # "visit" =>
       /\ Len(calls) > 1
       /\ depth = Len(calls) - 1
  /\ pc = "node" =>
       /\ dst = PlainKey[Node]
       /\ HasActions => src = PathOf[Node]
       /\ Places[Node].seen <=> ~Places[Node].action.drop
       /\ ~Current.renamed
  /\ pc = "handle" =>
       /\ dst = Places[Node].key
       /\ HasActions => src = PathOf[Node]
       /\ Places[Node].seen
  /\ pc = "leave" =>
       /\ HasActions => Len(src) >= Current.ls /\ SubSeq(src, 1, Current.ls) = Places[Parent(Node)].src
       /\ ~Current.renamed =>
            Len(dst) >= Current.ld /\ SubSeq(dst, 1, Current.ld) = Places[Parent(Node)].out

(* What the first m calls still have to visit begins at or before n. *)
Ahead(m, n) ==
  \E p \in 1 .. m : \E c \in Nodes :
    Parent(c) = calls[p].node /\ c > calls[p].last /\ c <= n

FoundNodes == {found[p].node : p \in DOMAIN found}
NotAhead == {n \in Ones : ~Ahead(Len(calls), n)}
NotAheadAbove == {n \in Ones : ~Ahead(Len(calls) - 1, n)}
BeforeNode == {n \in Ones : n < Node}

(* What is found so far: all that lies before what is still ahead.          *)
Collected ==
  /\ found \in Seq(Entries)
  /\ FoundNodes \subseteq Ones
  /\ \A p, q \in DOMAIN found : p < q => found[p].node < found[q].node
  /\ \A p \in DOMAIN found : found[p] = EntryOf[found[p].node]
  /\ err = "none" =>
       /\ \A n \in FoundNodes : n \notin Failing
       /\ pc = "visit" => FoundNodes = NotAhead
       /\ pc \in {"node", "handle"} => FoundNodes = BeforeNode
       /\ pc = "leave" => FoundNodes = NotAheadAbove
       /\ pc \in {"node", "handle"} => Current.last = Node
  /\ err # "none" =>
       /\ pc \in {"visit", "leave", "idle"}
       /\ FoundNodes = Reached(Places)

Walking == pc # "idle" => doc \in Docs /\ sec \in DOMAIN t.sections /\ Root \in Nodes
                          /\ Stacked /\ Saved /\ Positioned /\ Collected

Idle ==
  pc = "idle" =>
    /\ calls = <<>> /\ src \in Texts /\ dst \in Texts /\ save = <<>>
    /\ sec = 0 => found = <<>>
    /\ sec # 0 => /\ doc \in Docs /\ sec \in DOMAIN t.sections /\ NodesAsSpecified
                  /\ dst = t.sections[sec].dstBase
                  /\ src = t.sections[sec].srcBase
                  /\ depth = 1

Typed ==
  /\ t \in Configs
  /\ doc \in Docs \cup {NoDoc}
  /\ sec \in 0 .. Len(t.sections)
  /\ pc \in {"idle", "visit", "node", "handle", "leave"}
  /\ err \in {"none", "failed"}

IInv == Typed /\ Walking /\ Idle

-----------------------------------------------------------------------------
(* The record and the config.                                               *)

LEMMA DocFacts ==
  ASSUME doc \in Docs
  PROVE  /\ Len(doc.parent) \in Nat /\ Nodes = 1 .. Len(doc.parent) /\ 1 \in Nodes
         /\ \A n \in Nodes :
              /\ n \in Nat /\ n >= 1
              /\ Parent(n) \in Nat /\ Parent(n) < n
              /\ n = 1 => Parent(n) = 0
              /\ n # 1 => Parent(n) \in Nodes /\ IsContainer(Parent(n))
              /\ doc.bad[n] \in BOOLEAN
         /\ \A m, n \in Nodes : Parent(n) < m /\ m < n => Parent(n) <= Parent(m)
<1>1. /\ doc.parent \in Seq(Nat) /\ doc.parent # <<>>
  BY DocsAssumption
<1>2. Len(doc.parent) \in Nat /\ Nodes = 1 .. Len(doc.parent) /\ 1 \in Nodes
  BY <1>1 DEF Nodes
<1>3. \A n \in Nodes : Parent(n) \in Nat
  BY <1>1, <1>2, ElementOfSeq DEF Parent
<1>4. \A n \in Nodes : Parent(n) < n /\ doc.bad[n] \in BOOLEAN
  BY DocsAssumption DEF Nodes, Parent
<1>5. \A n \in Nodes : IF n = 1 THEN Parent(n) = 0
                       ELSE Parent(n) > 0 /\ IsContainer(Parent(n))
  BY DocsAssumption DEF Nodes, Parent, IsContainer
<1>6. \A m, n \in Nodes : Parent(n) < m /\ m < n => Parent(n) <= Parent(m)
  BY DocsAssumption DEF Nodes, Parent
<1> QED BY <1>2, <1>3, <1>4, <1>5, <1>6

LEMMA KeyText ==
  ASSUME doc \in Docs, NEW n \in Nodes, n # 1
  PROVE  Key(n) \in Texts
<1> DEFINE p == Parent(n)
           before == {c \in Children(p) : c <= n}
<1>1. CASE doc.type[p] # "array"
  BY <1>1, TextsAssumption DEF Key, Nodes, Parent
<1>2. CASE doc.type[p] = "array"
  <2>1. IsFiniteSet(Children(p))
    <3>1. IsFiniteSet(1 .. Len(doc.parent))
      BY DocFacts, FS_Interval
    <3>2. Children(p) \subseteq 1 .. Len(doc.parent)
      BY DocFacts DEF Children, Nodes
    <3> QED BY <3>1, <3>2, FS_Subset
  <2>2. /\ IsFiniteSet(before) /\ Cardinality(before) <= Cardinality(Children(p))
        /\ before # {}
    <3>1. n \in before
      BY DocFacts DEF Children, Nodes, Parent
    <3>2. before \subseteq Children(p)
      OBVIOUS
    <3> QED BY <2>1, <3>1, <3>2, FS_Subset
  <2>3. Cardinality(before) \in Nat \ {0} /\ Cardinality(Children(p)) \in Nat
    <3> HIDE DEF before, p
    <3> QED BY <2>1, <2>2, FS_CardinalityType, FS_EmptySet
  <2>4. Cardinality(Children(p)) <= Len(IndexText) /\ IndexText \in Seq(Tokens)
    BY TextsAssumption, DocFacts DEF Children, Nodes, Parent
  <2>5. Cardinality(before) \in 1 .. Len(IndexText)
    BY <2>2, <2>3, <2>4
  <2>6. Key(n) = <<IndexText[Cardinality(before)]>>
    BY <1>2 DEF Key, Parent
  <2> QED BY <2>4, <2>5, <2>6, ElementOfSeq DEF Texts
<1> QED BY <1>1, <1>2

LEMMA SegmentText ==
  ASSUME doc \in Docs, t \in Configs, NEW n \in Nodes, n # 1
  PROVE  Segment(n) \in Texts
<1>1. Key(n) \in Texts
  BY KeyText
<1>2. Snaked(Key(n)) \in Texts
  BY <1>1, TextsAssumption DEF Snaked
<1>3. \A seg \in DOMAIN t.alias : t.alias[seg] \in Texts
  BY TextsAssumption
<1> QED BY <1>1, <1>2, <1>3 DEF Segment

LEMMA ConfigTexts ==
  ASSUME t \in Configs
  PROVE  /\ t.sep \in Texts
         /\ \A path : Action(path).renameTo \in Texts \cup {NoPath}
         /\ \A s \in DOMAIN t.sections : t.sections[s].srcBase \in Texts /\ t.sections[s].dstBase \in Texts
<1>1. \A path : Action(path).renameTo \in Texts \cup {NoPath}
  BY TextsAssumption DEF Action, NoAction
<1>2. \A s \in DOMAIN t.sections : t.sections[s].srcBase \in Texts /\ t.sections[s].dstBase \in Texts
  BY TextsAssumption DEF Range
<1> QED BY <1>1, <1>2, TextsAssumption

(* The root of a section is a node, or there is none. *)
LEMMA RootIsNode ==
  ASSUME doc \in Docs, t \in Configs, NEW s \in DOMAIN t.sections
  PROVE  RootOf(t.sections[s]) \in Nodes \cup {0}
<1> DEFINE from == t.sections[s].from
           Named(n, name) == {c \in Children(n) : Key(c) = name}
           Next1(n, name) == IF n = 0 THEN 0 ELSE IF Named(n, name) = {} THEN 0 ELSE Min(Named(n, name))
           IsAt(k, h) == h = [j \in 0 .. k |-> IF j = 0 THEN 1 ELSE Next1(h[j - 1], from[j])]
           Undefined == {k \in 0 .. Len(from) : ~ \E h : IsAt(k, h)}
<1>1. Len(from) \in Nat
  BY TextsAssumption DEF Range
<1>2. \A n, name : Next1(n, name) \in Nodes \cup {0}
  <2> SUFFICES ASSUME NEW n, NEW name, n # 0, Named(n, name) # {}
               PROVE  Min(Named(n, name)) \in Nodes
    OBVIOUS
  <2>1. Named(n, name) \subseteq Nodes
    BY DEF Children, Nodes
  <2>2. Named(n, name) \subseteq Nat
    BY <2>1, DocFacts
  <2>3. \E x \in Named(n, name) : \A y \in Named(n, name) : x <= y
    <3> HIDE DEF Named
    <3> QED BY <2>2, LeastNumber
  <2> HIDE DEF Named
  <2> QED BY <2>1, <2>3 DEF Min
<1> HIDE DEF Next1
<1>3. Undefined = {}
  <2> SUFFICES ASSUME Undefined # {} PROVE FALSE
    OBVIOUS
  <2>1. PICK k \in Undefined : \A j \in Undefined : k <= j
    <3>1. Undefined \subseteq Nat
      BY <1>1
    <3> HIDE DEF Undefined
    <3> QED BY <3>1, LeastNumber
  <2>2. CASE k = 0
    <3>1. IsAt(0, [j \in 0 .. 0 |-> 1])
      OBVIOUS
    <3> QED BY <2>2, <3>1
  <2>3. CASE k # 0
    <3>1. k - 1 \in 0 .. Len(from) /\ k - 1 \notin Undefined
      <4> k \in 0 .. Len(from)
        OBVIOUS
      <4> HIDE DEF Undefined
      <4> QED BY <1>1, <2>1, <2>3
    <3>2. PICK h : IsAt(k - 1, h)
      BY <3>1
    <3>3. IsAt(k, [j \in 0 .. k |-> IF j = 0 THEN 1 ELSE Next1(h[j - 1], from[j])])
      BY <3>1, <3>2
    <3> QED BY <3>3
  <2> QED BY <2>2, <2>3
<1>4. PICK h : IsAt(Len(from), h)
  BY <1>1, <1>3
<1> DEFINE at == CHOOSE at : IsAt(Len(from), at)
<1>5. IsAt(Len(from), at)
  BY <1>4
<1>6. RootOf(t.sections[s]) = at[Len(from)]
  BY DEF RootOf, Next1
<1> HIDE DEF at
<1>7. at[Len(from)] = IF Len(from) = 0 THEN 1 ELSE Next1(at[Len(from) - 1], from[Len(from)])
  <2> HIDE DEF from
  <2>1. Len(from) \in 0 .. Len(from)
    BY <1>1
  <2> QED BY <1>5, <2>1, Zenon
<1> QED BY <1>2, <1>6, <1>7, DocFacts

(* The places. *)

PlaceFrom(places, n) ==
  IF n = Root
  THEN [Nowhere EXCEPT !.open = IsContainer(n), !.src = t.sections[sec].srcBase,
                       !.out = t.sections[sec].dstBase, !.level = 1]
  ELSE IF n = 1 THEN Nowhere
  ELSE IF places[Parent(n)].open THEN PlaceBelow(places[Parent(n)], n)
  ELSE Nowhere

(* The recursion of Places has a solution, as parents come first. *)
LEMMA PlacesUnfold ==
  ASSUME doc \in Docs
  PROVE  Places = [n \in Nodes |-> PlaceFrom(Places, n)]
<1> DEFINE size == Len(doc.parent)
           IsPlaces(k, h) == h = [n \in 1 .. k |-> PlaceFrom(h, n)]
           Undefined == {k \in 0 .. size : ~ \E h : IsPlaces(k, h)}
<1>1. size \in Nat /\ Nodes = 1 .. size
  BY DocFacts
<1>2. Undefined = {}
  <2> SUFFICES ASSUME Undefined # {} PROVE FALSE
    OBVIOUS
  <2>1. PICK k \in Undefined : \A j \in Undefined : k <= j
    <3>1. Undefined \subseteq Nat
      BY <1>1
    <3> HIDE DEF Undefined
    <3> QED BY <3>1, LeastNumber
  <2>2. k \in 0 .. size
    OBVIOUS
  <2>3. CASE k = 0
    <3>1. IsPlaces(0, <<>>)
      OBVIOUS
    <3> QED BY <2>3, <3>1
  <2>4. CASE k # 0
    <3>1. k - 1 \in 0 .. size /\ k - 1 \notin Undefined
      <4> HIDE DEF Undefined
      <4> QED BY <1>1, <2>1, <2>2, <2>4
    <3>2. PICK h : IsPlaces(k - 1, h)
      BY <3>1
    <3> DEFINE g == [n \in 1 .. k |-> PlaceFrom(h, n)]
    <3>3. ASSUME NEW n \in 1 .. k PROVE PlaceFrom(h, n) = PlaceFrom(g, n)
      <4>1. n \in Nodes /\ n \in Nat
        BY <1>1, <2>2
      <4>2. CASE n = 1
        BY <4>2 DEF PlaceFrom
      <4>3. CASE n # 1
        <5>1. Parent(n) \in 1 .. k - 1
          BY <1>1, <2>2, <4>1, <4>3, DocFacts
        <5>2. h[Parent(n)] = PlaceFrom(h, Parent(n))
          <6> HIDE DEF PlaceFrom
          <6> QED BY <3>2, <5>1, Zenon
        <5>3. g[Parent(n)] = PlaceFrom(h, Parent(n))
          BY <2>2, <5>1
        <5> HIDE DEF g
        <5> QED BY <5>2, <5>3 DEF PlaceFrom
      <4> QED BY <4>2, <4>3
    <3>4. IsPlaces(k, g)
      BY <3>3
    <3> QED BY <3>4
  <2> QED BY <2>3, <2>4
<1>3. \E h : IsPlaces(size, h)
  BY <1>1, <1>2
<1>4. \E h : h = [n \in Nodes |-> PlaceFrom(h, n)]
  BY <1>1, <1>3
<1> QED BY <1>4 DEF Places, PlaceFrom, Nodes, Root, Parent

LEMMA PlaceOfRoot ==
  ASSUME doc \in Docs, Root \in Nodes
  PROVE  /\ ~Places[Root].seen
         /\ Places[Root].open = IsContainer(Root)
         /\ Places[Root].src = t.sections[sec].srcBase
         /\ Places[Root].out = t.sections[sec].dstBase
         /\ Places[Root].level = 1
<1>1. Places[Root] = [Nowhere EXCEPT !.open = IsContainer(Root), !.src = t.sections[sec].srcBase,
                                     !.out = t.sections[sec].dstBase, !.level = 1]
  BY PlacesUnfold DEF PlaceFrom
<1> QED BY <1>1 DEF Nowhere

(* Only what lies below an open node has a place. *)
LEMMA PlaceOfOther ==
  ASSUME doc \in Docs, NEW n \in Nodes, n # Root
  PROVE  \/ n # 1 /\ Places[Parent(n)].open /\ Places[n] = PlaceBelow(Places[Parent(n)], n)
         \/ (n = 1 \/ ~Places[Parent(n)].open) /\ Places[n] = Nowhere
<1>1. Places[n] = PlaceFrom(Places, n)
  BY PlacesUnfold
<1>2. PlaceFrom(Places, n) = IF n = 1 THEN Nowhere
                             ELSE IF Places[Parent(n)].open THEN PlaceBelow(Places[Parent(n)], n)
                             ELSE Nowhere
  BY DEF PlaceFrom
<1> HIDE DEF Parent
<1> QED BY <1>1, <1>2, Zenon

LEMMA PlaceTyped ==
  ASSUME doc \in Docs, t \in Configs, sec \in DOMAIN t.sections, NEW n \in Nodes
  PROVE  /\ Places[n].src \in Texts /\ Places[n].out \in Texts /\ Places[n].key \in Texts
         /\ Places[n].level \in Nat
         /\ Places[n].seen \in BOOLEAN /\ Places[n].open \in BOOLEAN
<1> DEFINE Good(m) == /\ Places[m].src \in Texts /\ Places[m].out \in Texts /\ Places[m].key \in Texts
                      /\ Places[m].level \in Nat
                      /\ Places[m].seen \in BOOLEAN /\ Places[m].open \in BOOLEAN
           Bad == {m \in Nodes : ~Good(m)}
<1>1. <<>> \in Texts /\ <<".">> \in Texts /\ t.sep \in Texts
      /\ t.sections[sec].srcBase \in Texts /\ t.sections[sec].dstBase \in Texts
  BY ConfigTexts, TextsAssumption DEF Texts
<1>2. \A a, b : a \in Texts /\ b \in Texts => a \o b \in Texts
  BY DEF Texts
<1>3. ASSUME NEW m \in Nodes, Places[m] = Nowhere PROVE Good(m)
  BY <1>1, <1>3 DEF Nowhere
<1>4. ASSUME NEW m \in Nodes, m # 1, Good(Parent(m)), Places[m] = PlaceBelow(Places[Parent(m)], m)
      PROVE  Good(m)
  <2> DEFINE above == Places[Parent(m)]
             action == Action(above.src \o Key(m))
             key == IF action.renameTo # NoPath THEN action.renameTo ELSE above.out \o Segment(m)
             seen == ~IsNameless(m) /\ ~action.drop
  <2>1. above.src \o Key(m) \in Texts
    BY <1>2, <1>4, KeyText
  <2>2. key \in Texts
    <3>1. above.out \o Segment(m) \in Texts
      BY <1>2, <1>4, SegmentText
    <3>2. action.renameTo \in Texts \cup {NoPath}
      BY ConfigTexts
    <3> QED BY <3>1, <3>2
  <2>3. Places[m] = [seen |-> seen, open |-> seen /\ Enters(m, above.level), key |-> key,
          src |-> (above.src \o Key(m)) \o <<".">>, out |-> key \o t.sep, level |-> above.level + 1,
          action |-> action]
    BY <1>4 DEF PlaceBelow
  <2>4. (above.src \o Key(m)) \o <<".">> \in Texts /\ key \o t.sep \in Texts
    BY <1>1, <1>2, <2>1, <2>2
  <2>5. above.level + 1 \in Nat
    BY <1>4
  <2> HIDE DEF key, action, seen, above
  <2>6. seen \in BOOLEAN
    BY DEF seen
  <2> QED BY <2>2, <2>3, <2>4, <2>5, <2>6
<1>5. CASE Bad # {}
  <2>1. Bad \subseteq Nat
    BY DocFacts
  <2>2. PICK m \in Bad : \A k \in Bad : m <= k
    <3> HIDE DEF Bad
    <3> QED BY <1>5, <2>1, LeastNumber
  <2>3. m \in Nodes /\ ~Good(m)
    OBVIOUS
  <2>4. CASE m = Root
    <3>1. IsContainer(Root) \in BOOLEAN
      BY DEF IsContainer
    <3>2. Places[m] = [Nowhere EXCEPT !.open = IsContainer(Root), !.src = t.sections[sec].srcBase,
                                      !.out = t.sections[sec].dstBase, !.level = 1]
      BY <2>3, <2>4, PlacesUnfold DEF PlaceFrom
    <3> QED BY <1>1, <2>3, <3>1, <3>2 DEF Nowhere
  <2>5. CASE m # Root
    <3>1. CASE Places[m] = Nowhere
      BY <1>3, <2>3, <3>1
    <3>2. CASE m # 1 /\ Places[m] = PlaceBelow(Places[Parent(m)], m)
      <4>1. Parent(m) \in Nodes /\ Parent(m) < m /\ m \in Nat /\ Parent(m) \in Nat
        BY <2>3, <3>2, DocFacts
      <4>2. Good(Parent(m))
        <5> SUFFICES Parent(m) \notin Bad
          BY <4>1
        <5> HIDE DEF Bad
        <5> QED BY <2>2, <4>1
      <4> QED BY <1>4, <2>3, <3>2, <4>2
    <3> HIDE DEF Good
    <3> QED BY <2>3, <2>5, <3>1, <3>2, PlaceOfOther
  <2> QED BY <2>4, <2>5
<1> QED BY <1>5

(* What has a place lies below the root; what it lies below is open. *)
LEMMA PlaceInside ==
  ASSUME doc \in Docs, NEW n \in Nodes, Places[n].open \/ Places[n].seen, n # Root
  PROVE  /\ n # 1 /\ Parent(n) \in Nodes
         /\ Places[Parent(n)].open
         /\ Places[n] = PlaceBelow(Places[Parent(n)], n)
<1>1. Places[n] # Nowhere
  BY DEF Nowhere
<1> QED BY <1>1, PlaceOfOther, DocFacts

LEMMA PlaceAfterRoot ==
  ASSUME doc \in Docs, NEW n \in Nodes, Places[n].open \/ Places[n].seen
  PROVE  Root \in Nodes /\ Root <= n
<1> DEFINE Bad == {m \in Nodes : (Places[m].open \/ Places[m].seen) /\ ~(Root \in Nodes /\ Root <= m)}
<1>1. CASE Bad # {}
  <2>1. Bad \subseteq Nat
    BY DocFacts
  <2>2. PICK m \in Bad : \A k \in Bad : m <= k
    <3> HIDE DEF Bad
    <3> QED BY <1>1, <2>1, LeastNumber
  <2>3. m \in Nodes /\ (Places[m].open \/ Places[m].seen) /\ ~(Root \in Nodes /\ Root <= m)
    OBVIOUS
  <2>4. m # Root
    BY <2>3, DocFacts
  <2>5. Parent(m) \in Nodes /\ Places[Parent(m)].open /\ Parent(m) < m /\ m \in Nat /\ Parent(m) \in Nat
    BY <2>3, <2>4, PlaceInside, DocFacts
  <2>6. Parent(m) \notin Bad
    <3> HIDE DEF Bad
    <3> QED BY <2>2, <2>5
  <2>7. Root \in Nodes /\ Root <= Parent(m)
    BY <2>5, <2>6
  <2> HIDE DEF Bad
  <2> QED BY <2>3, <2>5, <2>7, DocFacts
<1> QED BY <1>1

-----------------------------------------------------------------------------
(* The calls in progress, in terms of the place of their nodes.             *)

InWalk == /\ doc \in Docs /\ t \in Configs /\ sec \in DOMAIN t.sections
          /\ Root \in Nodes /\ Stacked

LEMMA CallFacts ==
  ASSUME InWalk
  PROVE  /\ Len(calls) \in Nat /\ Len(calls) >= 1 /\ DOMAIN calls = 1 .. Len(calls)
         /\ \A p \in 1 .. Len(calls) :
              /\ calls[p] \in Frames
              /\ calls[p].node \in Nodes /\ calls[p].last \in Nodes
              /\ calls[p].node \in Nat /\ calls[p].last \in Nat
              /\ calls[p].node <= calls[p].last
              /\ Root <= calls[p].node
<1>1. calls \in Seq(Frames) /\ calls # <<>>
  BY DEF InWalk, Stacked
<1>2. Len(calls) \in Nat /\ Len(calls) >= 1 /\ DOMAIN calls = 1 .. Len(calls)
  BY <1>1
<1>3. ASSUME NEW p \in 1 .. Len(calls)
      PROVE  /\ calls[p] \in Frames
             /\ calls[p].node \in Nodes /\ calls[p].last \in Nodes
             /\ calls[p].node \in Nat /\ calls[p].last \in Nat
             /\ calls[p].node <= calls[p].last
             /\ Root <= calls[p].node
  <2>1. calls[p] \in Frames
    BY <1>1, <1>2, ElementOfSeq
  <2>2. calls[p].node \in Nodes /\ calls[p].last \in Nodes
    BY <2>1 DEF Frames
  <2>3. \A n \in Nodes : n \in Nat
    BY DocFacts DEF InWalk
  <2>4. calls[1].node = Root /\ calls[p].node <= calls[p].last
    BY <1>2 DEF InWalk, Stacked
  <2>5. p > 1 => calls[1].node < calls[p].node
    BY <1>2 DEF InWalk, Stacked
  <2>6. Root \in Nat
    BY <2>3 DEF InWalk
  <2>7. Root <= calls[p].node
    BY <1>2, <2>2, <2>3, <2>4, <2>5, <2>6
  <2> QED BY <2>1, <2>2, <2>3, <2>4, <2>7
<1> QED BY <1>2, <1>3

(* What has a place and comes after the node that call k was or is at       *)
(* comes after what is ahead of call k, if there is nothing below that node.*)
NoGap ==
  \A k \in 1 .. Len(calls) :
    \/ calls[k].last = calls[k].node
    \/ Parent(calls[k].last) = calls[k].node /\ ~Places[calls[k].last].open
    => \A n \in Nodes : n > calls[k].last /\ (Places[n].seen \/ Places[n].open) => Ahead(k, n)

LEMMA GapIsAhead == InWalk => NoGap
<1> SUFFICES ASSUME InWalk, NEW k \in 1 .. Len(calls),
                    \/ calls[k].last = calls[k].node
                    \/ Parent(calls[k].last) = calls[k].node /\ ~Places[calls[k].last].open
             PROVE  \A n \in Nodes : n > calls[k].last /\ (Places[n].seen \/ Places[n].open)
                      => Ahead(k, n)
  BY DEF NoGap
<1> USE DEF InWalk
<1> DEFINE x == calls[k].last
           Bad == {n \in Nodes : n > x /\ (Places[n].seen \/ Places[n].open) /\ ~Ahead(k, n)}
<1>1. CASE Bad # {}
  <2>1. Bad \subseteq Nat
    BY DocFacts
  <2>2. PICK n \in Bad : \A m \in Bad : n <= m
    <3> HIDE DEF Bad
    <3> QED BY <1>1, <2>1, LeastNumber
  <2>3. n \in Nodes /\ n > x /\ (Places[n].seen \/ Places[n].open) /\ ~Ahead(k, n)
    OBVIOUS
  <2>4. x \in Nodes /\ x \in Nat /\ n \in Nat /\ calls[k].node \in Nat /\ Root \in Nat
        /\ Root <= calls[k].node /\ calls[k].node <= x /\ k \in Nat
    BY <2>3, CallFacts, DocFacts
  <2>5. n # Root
    BY <2>3, <2>4
  <2> DEFINE m == Parent(n)
  <2>6. n # 1 /\ m \in Nodes /\ m \in Nat /\ m < n /\ Places[m].open
    BY <2>3, <2>5, PlaceInside, DocFacts
  <2>7. CASE m > x
    <3>1. m \notin Bad
      <4> HIDE DEF Bad
      <4> QED BY <2>2, <2>4, <2>6
    <3>2. Ahead(k, m)
      BY <2>6, <2>7, <3>1
    <3>3. PICK p \in 1 .. k : \E c \in Nodes : Parent(c) = calls[p].node /\ c > calls[p].last /\ c <= m
      BY <3>2 DEF Ahead
    <3>4. PICK c \in Nodes : Parent(c) = calls[p].node /\ c > calls[p].last /\ c <= m
      BY <3>3
    <3>5. c \in Nat /\ c <= n
      BY <2>4, <2>6, <3>4, DocFacts
    <3> QED BY <2>3, <3>4, <3>5 DEF Ahead
  <2>8. CASE m = x
    <3>1. x = calls[k].node
      BY <2>6, <2>8
    <3> QED BY <2>3, <2>4, <2>8, <3>1 DEF Ahead
  <2>9. CASE m < x
    <3> DEFINE Up == {p \in 1 .. k : calls[p].node <= m}
    <3>1. Root <= m
      BY <2>6, PlaceAfterRoot
    <3>2. PICK p \in Up : \A q \in Up : q <= p
      <4>1. 1 \in Up
        BY <2>4, <3>1, CallFacts DEF Stacked
      <4>2. Up \subseteq 0 .. k
        OBVIOUS
      <4> HIDE DEF Up
      <4> QED BY <2>4, <4>1, <4>2, GreatestNumber
    <3>3. p \in 1 .. k /\ calls[p].node <= m
      OBVIOUS
    <3>4. p \in 1 .. Len(calls) /\ p \in Nat /\ calls[p].node \in Nat /\ calls[p].last \in Nat
      BY <2>4, <3>3, CallFacts
    <3>5. CASE p = k
      <4>1. CASE calls[k].node = m
        BY <2>3, <2>4, <4>1 DEF Ahead
      <4>2. CASE calls[k].node < m
        <5>1. Parent(x) = calls[k].node
          BY <2>4, <2>6, <2>9, <4>2
        <5>2. m <= Parent(x)
          BY <2>3, <2>4, <2>9, DocFacts
        <5> QED BY <2>4, <2>6, <4>2, <5>1, <5>2
      <4> QED BY <2>4, <2>6, <3>3, <3>5, <4>1, <4>2
    <3>6. CASE p # k
      <4> DEFINE y == calls[p + 1].node
      <4>1. p + 1 \in 1 .. k /\ p + 1 \in 1 .. Len(calls) /\ p + 1 > 1 /\ p + 1 - 1 = p
        BY <2>4, <3>3, <3>4, <3>6, CallFacts
      <4>2. y > m /\ y \in Nat /\ y \in Nodes
        <5>1. p + 1 \notin Up
          <6> HIDE DEF Up
          <6> QED BY <3>2, <3>4
        <5>2. y \in Nat /\ y \in Nodes
          BY <4>1, CallFacts
        <5> QED BY <2>6, <4>1, <5>1, <5>2
      <4>3. Parent(y) = calls[p].node /\ calls[p].last = y
        <5>1. Linked(p + 1)
          BY <4>1, CallFacts DEF Stacked
        <5> QED BY <4>1, <5>1 DEF Linked
      <4>4. y <= x
        <5>1. p + 1 < k => y < calls[k].node
          BY <4>1, CallFacts DEF Stacked
        <5>2. p + 1 = k \/ p + 1 < k
          BY <2>4, <3>4, <4>1
        <5> QED BY <2>4, <4>2, <5>1, <5>2
      <4>5. CASE calls[p].node = m
        <5>1. n > calls[p].last
          BY <2>3, <2>4, <4>2, <4>3, <4>4
        <5> QED BY <2>3, <2>4, <3>3, <4>5, <5>1 DEF Ahead
      <4>6. CASE calls[p].node < m
        <5>1. m <= Parent(y)
          <6> HIDE DEF y
          <6>1. y \in Nodes /\ Parent(n) < y /\ y < n
            BY <2>3, <2>4, <2>6, <4>2, <4>4
          <6> QED BY <2>3, <6>1, DocFacts
        <5>2. m <= calls[p].node
          BY <4>3, <5>1
        <5> HIDE DEF m, InWalk
        <5> QED BY <2>6, <3>4, <4>6, <5>2
      <4> QED BY <2>6, <3>3, <3>4, <4>5, <4>6
    <3> QED BY <3>5, <3>6
  <2> QED BY <2>4, <2>6, <2>7, <2>8, <2>9
<1> QED BY <1>1

(* What is left for a call above comes after what is left for the last one. *)
LEMMA AboveIsLater ==
  ASSUME InWalk, NEW p \in 1 .. Len(calls) - 1, NEW c \in Nodes,
         Parent(c) = calls[p].node, c > calls[p].last, NEW n \in Remaining
  PROVE  c > n
<1> USE DEF InWalk
<1> DEFINE k == Len(calls)
<1>1. k \in Nat /\ p \in Nat /\ p < k /\ p \in DOMAIN calls /\ k \in DOMAIN calls /\ k \in 1 .. Len(calls)
  BY CallFacts
<1>2. n \in Nodes /\ Parent(n) = calls[k].node /\ n > calls[k].last
  BY DEF Remaining, Children, Node, Current, Nodes, Parent
<1>3. c > calls[k].node /\ calls[p].node < calls[k].node
  BY <1>1 DEF Stacked
<1>4. calls[k].node \in Nat /\ calls[p].node \in Nat /\ c \in Nat /\ n \in Nat
  BY <1>1, <1>2, CallFacts, DocFacts
<1>5. CASE c = n
  BY <1>2, <1>3, <1>4, <1>5
<1>6. CASE c < n
  <2>1. Parent(n) <= Parent(c)
    BY <1>2, <1>3, <1>4, <1>6, DocFacts
  <2> QED BY <1>2, <1>3, <1>4, <2>1
<1> QED BY <1>4, <1>5, <1>6

LEMMA PlaceOfChild ==
  ASSUME doc \in Docs, NEW n \in Nodes, n # 1, n # Root, Places[Parent(n)].open
  PROVE  /\ Places[n].src = PathOf[n] \o <<".">>
         /\ Places[n].out = Places[n].key \o t.sep
         /\ Places[n].level = Places[Parent(n)].level + 1
         /\ Places[n].action = Action(PathOf[n])
         /\ Places[n].key = IF Places[n].action.renameTo # NoPath THEN Places[n].action.renameTo
                            ELSE PlainKey[n]
         /\ Places[n].seen <=> ~IsNameless(n) /\ ~Places[n].action.drop
         /\ Places[n].open <=> Places[n].seen /\ Enters(n, Places[Parent(n)].level)
<1>1. Places[n] = PlaceBelow(Places[Parent(n)], n)
  BY PlaceOfOther
<1>2. PathOf[n] = Places[Parent(n)].src \o Key(n) /\ PlainKey[n] = Places[Parent(n)].out \o Segment(n)
  BY DEF PathOf, PlainKey
<1> DEFINE above == Places[Parent(n)]
           action == Action(PathOf[n])
           key == IF action.renameTo # NoPath THEN action.renameTo ELSE PlainKey[n]
           seen == ~IsNameless(n) /\ ~action.drop
<1>3. Places[n] = [seen |-> seen, open |-> seen /\ Enters(n, above.level), key |-> key,
                   src |-> PathOf[n] \o <<".">>, out |-> key \o t.sep, level |-> above.level + 1,
                   action |-> action]
  BY <1>1, <1>2 DEF PlaceBelow
<1>4. /\ Places[n].seen = seen
      /\ Places[n].open = (seen /\ Enters(n, above.level))
      /\ Places[n].key = key /\ Places[n].action = action
  <2> HIDE DEF seen, key, action, above
  <2> QED BY <1>3
<1>5. /\ Places[n].src = PathOf[n] \o <<".">>
      /\ Places[n].out = key \o t.sep
      /\ Places[n].level = above.level + 1
  <2> HIDE DEF seen, key, action, above
  <2> QED BY <1>3
<1> QED BY <1>4, <1>5

LEMMA KeyTyped ==
  ASSUME doc \in Docs, t \in Configs, sec \in DOMAIN t.sections, NEW n \in Nodes, n # 1
  PROVE  PlainKey[n] \in Texts /\ PathOf[n] \in Texts
<1>1. Parent(n) \in Nodes
  BY DocFacts
<1>2. Places[Parent(n)].out \in Texts /\ Places[Parent(n)].src \in Texts
  BY <1>1, PlaceTyped
<1>3. Segment(n) \in Texts /\ Key(n) \in Texts
  BY SegmentText, KeyText
<1>4. PathOf[n] = Places[Parent(n)].src \o Key(n) /\ PlainKey[n] = Places[Parent(n)].out \o Segment(n)
  BY DEF PathOf, PlainKey
<1> HIDE DEF Parent
<1> QED BY <1>2, <1>3, <1>4 DEF Texts

-----------------------------------------------------------------------------
(* The steps of the walk leave the record, the config and the section alone.*)

LEMMA SamePlaces ==
  ASSUME UNCHANGED <<t, doc, sec>>
  PROVE  /\ Places' = Places /\ Nodes' = Nodes /\ Root' = Root /\ Frames' = Frames
         /\ HasActions' = HasActions /\ PlainKey' = PlainKey /\ PathOf' = PathOf
         /\ Ones' = Ones /\ EntryOf' = EntryOf /\ Entries' = Entries
         /\ Failing' = Failing /\ Reached(Places)' = Reached(Places)
<1>1. Places' = Places
  BY SMT DEF Places, PlaceBelow, Action, IsNameless, Snaked, Key, Children, Enters, RootOf,
             Segment, IsContainer, Nowhere, NoAction
<1>2. Nodes' = Nodes /\ HasActions' = HasActions
  BY DEF Nodes, HasActions
<1>3. Frames' = Frames
  BY <1>2 DEF Frames
<1>4. Root' = Root
  BY SMT DEF Root, RootOf, Key, Children
<1>5. PlainKey' = PlainKey /\ PathOf' = PathOf
  BY <1>1, <1>2, SMT DEF PlainKey, PathOf, Parent, Segment, Key, Children, Snaked
<1>6. EntryOf' = EntryOf
  BY <1>1, <1>2, SMT DEF EntryOf, EntryAt, Entry, IsContainer
<1>7. Ones' = Ones
  BY <1>1, SMT DEF Ones, Single
<1>8. Entries' = Entries
  BY <1>2, <1>6 DEF Entries
<1>9. Failing' = Failing
  BY <1>2, <1>6 DEF Failing, Fails
<1>10. Reached(Places)' = Reached(Places)
  BY <1>1, SMT DEF Reached, Single, Fails, EntryAt, Entry, IsContainer
<1> QED BY <1>1, <1>2, <1>3, <1>4, <1>5, <1>6, <1>7, <1>8, <1>9, <1>10

LEMMA ReachedIs ==
  Reached(Places) = {n \in Ones : \A m \in Ones : m < n => m \notin Failing}
<1>1. \A m \in Ones : Fails(EntryAt(Places, m)) <=> m \in Failing
  <2>1. \A m \in Ones : m \in Nodes
    BY DEF Ones, Single, Nodes
  <2> QED BY <2>1 DEF Failing, EntryOf
<1> QED BY <1>1 DEF Reached, Ones

LEMMA NodeStays ==
  ASSUME UNCHANGED <<doc, calls>>
  PROVE  Node' = Node /\ Current' = Current /\ Parent(Node)' = Parent(Node) /\ Texts' = Texts
BY DEF Node, Current, Parent, Texts

LEMMA AheadStays ==
  ASSUME UNCHANGED <<t, doc, sec, calls>>
  PROVE  NotAhead' = NotAhead /\ NotAheadAbove' = NotAheadAbove /\ BeforeNode' = BeforeNode
BY SamePlaces DEF NotAhead, NotAheadAbove, BeforeNode, Ahead, Parent, Node, Current

LEMMA SavedStays ==
  ASSUME Saved, UNCHANGED <<t, doc, sec, calls, save>>
  PROVE  Saved'
BY SamePlaces DEF Saved, IsMark, MarkOf, NoneBetween, EndOf, Texts

LEMMA StackedStays ==
  ASSUME Stacked, UNCHANGED <<t, doc, sec, calls>>, pc' \in {"visit", "handle"} => pc \in {"visit", "handle"}
  PROVE  Stacked'
BY SamePlaces DEF Stacked, Linked, Parent

-----------------------------------------------------------------------------
(* What is ahead, at the node of the last call.                             *)

Active == InWalk /\ Saved /\ Positioned /\ Collected

LEMMA NodeFacts ==
  ASSUME InWalk, Len(calls) > 1
  PROVE  /\ Len(calls) \in Nat /\ Len(calls) - 1 \in 1 .. Len(calls)
         /\ Len(calls) \in 1 .. Len(calls)
         /\ Node \in Nodes /\ Node \in Nat /\ Node # 1 /\ Node # Root
         /\ Parent(Node) = calls[Len(calls) - 1].node /\ calls[Len(calls) - 1].last = Node
         /\ Parent(Node) \in Nodes
         /\ Places[Parent(Node)].open /\ Places[Parent(Node)].level = Len(calls) - 1
         /\ Linked(Len(calls))
<1> DEFINE k == Len(calls)
<1>1. k \in Nat /\ k - 1 \in 1 .. k /\ k \in 1 .. k /\ DOMAIN calls = 1 .. k
  BY CallFacts
<1>2. Linked(k)
  BY <1>1 DEF InWalk, Stacked
<1>3. Parent(Node) = calls[k - 1].node /\ calls[k - 1].last = Node /\ Places[Parent(Node)].open
  BY <1>2 DEF Linked, Node, Current
<1>4. Places[Parent(Node)].level = k - 1
  BY <1>1, <1>3 DEF InWalk, Stacked
<1>5. Node \in Nodes /\ Node \in Nat /\ Parent(Node) \in Nodes
  BY <1>1, <1>3, CallFacts DEF Node, Current
<1>6. Node # Root
  <2>1. calls[1].node = Root /\ calls[1].node < calls[k].node
    BY <1>1 DEF InWalk, Stacked
  <2> QED BY <1>1, <2>1, CallFacts DEF Node, Current
<1>7. Node # 1
  BY <1>5, DocFacts DEF InWalk
<1> QED BY <1>1, <1>2, <1>3, <1>4, <1>5, <1>6, <1>7

(* All that is left for the calls above comes after the node. *)
LEMMA AboveIsAfterNode ==
  ASSUME InWalk, Len(calls) > 1, NEW n \in Nodes, Ahead(Len(calls) - 1, n)
  PROVE  n > Node
<1>1. PICK p \in 1 .. Len(calls) - 1 : \E c \in Nodes :
        Parent(c) = calls[p].node /\ c > calls[p].last /\ c <= n
  BY DEF Ahead
<1>2. PICK c \in Nodes : Parent(c) = calls[p].node /\ c > calls[p].last /\ c <= n
  BY <1>1
<1>3. c > Node
  <2>1. p \in DOMAIN calls /\ Len(calls) \in DOMAIN calls /\ p < Len(calls)
    BY NodeFacts, CallFacts
  <2> QED BY <1>2, <2>1 DEF InWalk, Stacked, Node, Current
<1>4. c \in Nat /\ n \in Nat /\ Node \in Nat
  BY NodeFacts, DocFacts DEF InWalk
<1> QED BY <1>2, <1>3, <1>4

LEMMA AfterClosedNode ==
  ASSUME InWalk, Len(calls) > 1, ~Places[Node].open
  PROVE  NotAheadAbove = {n \in Ones : n <= Node}
<1> DEFINE k == Len(calls) - 1
<1>1. ASSUME NEW n \in Ones PROVE ~Ahead(k, n) <=> n <= Node
  <2>1. n \in Nodes /\ Places[n].seen
    BY DEF Ones, Single, Nodes
  <2>2. n \in Nat /\ Node \in Nat
    BY <2>1, NodeFacts, DocFacts DEF InWalk
  <2>3. Ahead(k, n) => n > Node
    BY <2>1, AboveIsAfterNode
  <2>4. n > Node => Ahead(k, n)
    <3>1. NoGap
      BY GapIsAhead
    <3>2. k \in 1 .. Len(calls) /\ calls[k].last = Node /\ Parent(Node) = calls[k].node
      BY NodeFacts
    <3> QED BY <2>1, <3>1, <3>2 DEF NoGap
  <2> QED BY <2>2, <2>3, <2>4
<1> QED BY <1>1 DEF NotAheadAbove

LEMMA BelowOpenNode ==
  ASSUME InWalk, Len(calls) > 1, Places[Node].open, Current.last = Node
  PROVE  NotAhead = BeforeNode
<1> DEFINE k == Len(calls)
<1>1. ASSUME NEW n \in Ones PROVE ~Ahead(k, n) <=> n < Node
  <2>1. n \in Nodes /\ Places[n].seen /\ n # Node
    BY DEF Ones, Single, Nodes
  <2>2. n \in Nat /\ Node \in Nat /\ k \in Nat
    BY <2>1, NodeFacts, DocFacts DEF InWalk
  <2>3. Ahead(k, n) => n > Node
    <3> SUFFICES ASSUME Ahead(k, n) PROVE n > Node
      OBVIOUS
    <3>1. PICK p \in 1 .. k : \E c \in Nodes :
            Parent(c) = calls[p].node /\ c > calls[p].last /\ c <= n
      BY DEF Ahead
    <3>2. CASE p = k
      <4>1. PICK c \in Nodes : c > Node /\ c <= n
        BY <3>1, <3>2 DEF Current
      <4> QED BY <2>2, <4>1, DocFacts DEF InWalk
    <3>3. CASE p # k
      <4>1. p \in 1 .. k - 1
        BY <2>2, <3>3
      <4>2. Ahead(k - 1, n)
        BY <3>1, <4>1 DEF Ahead
      <4> QED BY <2>1, <4>2, AboveIsAfterNode
    <3> QED BY <3>2, <3>3
  <2>4. n > Node => Ahead(k, n)
    <3>1. NoGap
      BY GapIsAhead
    <3>2. k \in 1 .. Len(calls) /\ calls[k].last = Node /\ calls[k].node = Node
      BY NodeFacts DEF Current, Node
    <3> QED BY <2>1, <3>1, <3>2 DEF NoGap
  <2> QED BY <2>1, <2>2, <2>3, <2>4
<1> QED BY <1>1 DEF NotAhead, BeforeNode

(* A prefix is what a key is cut to. *)
LEMMA PrefixOf ==
  ASSUME NEW a \in Texts, NEW b \in Texts
  PROVE  /\ a \o b \in Texts /\ Len(a \o b) = Len(a) + Len(b) /\ Len(a) \in Nat
         /\ Len(a \o b) >= Len(a)
         /\ SubSeq(a \o b, 1, Len(a)) = a
<1>1. a \in Seq(Tokens) /\ b \in Seq(Tokens)
  BY DEF Texts
<1>2. Len(a \o b) = Len(a) + Len(b) /\ Len(a) \in Nat /\ Len(b) \in Nat
  BY <1>1
<1>3. SubSeq(a \o b, 1, Len(a)) = SubSeq(a, 1, Len(a))
  BY <1>1, <1>2, SubSeqOfConcat1
<1>4. SubSeq(a, 1, Len(a)) = a
  BY <1>1, SubSeqFull
<1> QED BY <1>1, <1>2, <1>3, <1>4 DEF Texts

LEMMA PrefixOfTwo ==
  ASSUME NEW a \in Texts, NEW b \in Texts, NEW c \in Texts
  PROVE  /\ Len((a \o b) \o c) >= Len(a)
         /\ SubSeq((a \o b) \o c, 1, Len(a)) = a
<1>1. (a \o b) \o c = a \o (b \o c)
  BY ConcatAssociative DEF Texts
<1> QED BY <1>1, PrefixOf

(* What node, handle and their callees start from is what leave restores.   *)
LEMMA PathIsExtended ==
  ASSUME InWalk, Len(calls) > 1
  PROVE  LET above == Places[Parent(Node)]
         IN  /\ above.src \in Texts /\ above.out \in Texts
             /\ PlainKey[Node] \in Texts /\ PathOf[Node] \in Texts
             /\ Current.ld = Len(above.out)
             /\ HasActions => Current.ls = Len(above.src)
             /\ Len(PlainKey[Node]) >= Len(above.out)
             /\ SubSeq(PlainKey[Node], 1, Len(above.out)) = above.out
             /\ Len(PathOf[Node]) >= Len(above.src)
             /\ SubSeq(PathOf[Node], 1, Len(above.src)) = above.src
<1> DEFINE above == Places[Parent(Node)]
<1> USE DEF InWalk
<1>1. above.src \in Texts /\ above.out \in Texts
  BY NodeFacts, PlaceTyped
<1>2. Key(Node) \in Texts /\ Segment(Node) \in Texts
  BY NodeFacts, KeyText, SegmentText
<1>3. PlainKey[Node] = above.out \o Segment(Node) /\ PathOf[Node] = above.src \o Key(Node)
  BY NodeFacts DEF PlainKey, PathOf
<1>4. Current.ld = Len(above.out) /\ (HasActions => Current.ls = Len(above.src))
  BY NodeFacts DEF Linked, Current
<1> HIDE DEF above, InWalk
<1>5. /\ PlainKey[Node] \in Texts /\ Len(PlainKey[Node]) >= Len(above.out)
      /\ SubSeq(PlainKey[Node], 1, Len(above.out)) = above.out
  BY <1>1, <1>2, <1>3, PrefixOf
<1>6. /\ PathOf[Node] \in Texts /\ Len(PathOf[Node]) >= Len(above.src)
      /\ SubSeq(PathOf[Node], 1, Len(above.src)) = above.src
  BY <1>1, <1>2, <1>3, PrefixOf
<1> QED BY <1>1, <1>4, <1>5, <1>6 DEF above

LEMMA InWalkStays ==
  ASSUME InWalk, UNCHANGED <<t, doc, sec>>, Stacked'
  PROVE  InWalk'
BY SamePlaces DEF InWalk

-----------------------------------------------------------------------------
(* One lemma per step.                                                      *)

LEMMA DropKeeps ==
  ASSUME Active, Drop
  PROVE  Active' /\ pc' # "idle"
<1>1. /\ UNCHANGED <<t, doc, sec, src, dst, save, depth, calls, found, err>>
      /\ pc = "node" /\ pc' = "leave" /\ Action(src).drop
  BY DEF Drop
<1>2. InWalk /\ Saved /\ Positioned /\ Collected /\ Stacked
  BY DEF Active, InWalk
<1>3. InWalk' /\ Saved'
  BY <1>1, <1>2, StackedStays, SavedStays, InWalkStays
<1>4. Len(calls) > 1
  BY <1>1, <1>2 DEF Positioned
<1>5. Places[Node].action.drop
  <2>1. Places[Node].action = Action(PathOf[Node])
    BY <1>2, <1>4, NodeFacts, PlaceOfChild DEF InWalk
  <2>2. Action(src) = Action(PathOf[Node])
    BY <1>1, <1>2 DEF Positioned, HasActions, Action
  <2> QED BY <1>1, <2>1, <2>2
<1>6. ~Places[Node].seen /\ ~Places[Node].open
  BY <1>2, <1>4, <1>5, NodeFacts, PlaceOfChild DEF InWalk
<1>7. Positioned'
  <2>1. dst = PlainKey[Node] /\ (HasActions => src = PathOf[Node]) /\ ~Current.renamed
    BY <1>1, <1>2 DEF Positioned
  <2>2. /\ HasActions => Len(src) >= Current.ls /\ SubSeq(src, 1, Current.ls) = Places[Parent(Node)].src
        /\ Len(dst) >= Current.ld /\ SubSeq(dst, 1, Current.ld) = Places[Parent(Node)].out
    BY <1>2, <1>4, <2>1, PathIsExtended
  <2>3. src \in Texts /\ dst \in Texts /\ (~HasActions => src = t.sections[sec].srcBase)
        /\ depth = Len(calls) - 1
    BY <1>1, <1>2 DEF Positioned
  <2> QED BY <1>1, <1>4, <2>2, <2>3, NodeStays, SamePlaces DEF Positioned
<1>8. Collected'
  <2>1. err = "none" /\ FoundNodes = BeforeNode
    BY <1>1, <1>2 DEF Collected
  <2>2. Node \notin Ones
    BY <1>6 DEF Ones, Single
  <2>3. FoundNodes = NotAheadAbove
    <3>1. \A n \in Ones : n < Node <=> n <= Node
      BY <1>2, <1>4, <2>2, NodeFacts, DocFacts DEF Ones, Single, InWalk, Nodes
    <3> QED BY <1>2, <1>4, <1>6, <2>1, <3>1, AfterClosedNode DEF BeforeNode
  <2> QED BY <1>1, <1>2, <2>1, <2>3, SamePlaces, AheadStays DEF Collected, FoundNodes
<1> QED BY <1>1, <1>3, <1>7, <1>8 DEF Active

LEMMA WriteKeeps ==
  ASSUME Active, Write
  PROVE  Active' /\ pc' # "idle"
<1> DEFINE entry == Entry(Node, dst, Action(src))
<1>1. /\ UNCHANGED <<t, doc, sec, src, dst, save, depth, calls>>
      /\ pc = "handle" /\ pc' = "leave" /\ ~Enters(Node, depth)
      /\ found' = Append(found, entry)
      /\ err' = IF Fails(entry) THEN "failed" ELSE err
  BY DEF Write
<1>2. InWalk /\ Saved /\ Positioned /\ Collected /\ Stacked /\ doc \in Docs
  BY DEF Active, InWalk
<1>3. InWalk' /\ Saved'
  BY <1>1, <1>2, StackedStays, SavedStays, InWalkStays
<1>4. Len(calls) > 1 /\ depth = Len(calls) - 1 /\ Places[Node].seen
      /\ dst = Places[Node].key /\ (HasActions => src = PathOf[Node])
  BY <1>1, <1>2 DEF Positioned
<1>5. Action(src) = Places[Node].action
  <2>1. Places[Node].action = Action(PathOf[Node])
    BY <1>2, <1>4, NodeFacts, PlaceOfChild
  <2> QED BY <1>4, <2>1 DEF HasActions, Action
<1>6. ~Places[Node].open
  <2>1. Places[Node].open => Enters(Node, Places[Parent(Node)].level)
    BY <1>2, <1>4, NodeFacts, PlaceOfChild
  <2>2. Places[Parent(Node)].level = depth
    BY <1>2, <1>4, NodeFacts
  <2> QED BY <1>1, <2>1, <2>2
<1>7. Positioned'
  <2>1. ~Current.renamed => dst = PlainKey[Node]
    <3>1. Current.renamed <=> Places[Node].action.renameTo # NoPath
      BY <1>1, <1>2, <1>4, NodeFacts DEF Linked, Current, Node
    <3>2. Places[Node].key = IF Places[Node].action.renameTo # NoPath
                             THEN Places[Node].action.renameTo ELSE PlainKey[Node]
      BY <1>2, <1>4, NodeFacts, PlaceOfChild
    <3> QED BY <1>4, <3>1, <3>2
  <2>2. /\ HasActions => Len(src) >= Current.ls /\ SubSeq(src, 1, Current.ls) = Places[Parent(Node)].src
        /\ ~Current.renamed =>
             Len(dst) >= Current.ld /\ SubSeq(dst, 1, Current.ld) = Places[Parent(Node)].out
    BY <1>2, <1>4, <2>1, PathIsExtended
  <2>3. src \in Texts /\ dst \in Texts /\ (~HasActions => src = t.sections[sec].srcBase)
        /\ depth = Len(calls) - 1
    BY <1>1, <1>2 DEF Positioned
  <2> QED BY <1>1, <1>4, <2>2, <2>3, NodeStays, SamePlaces DEF Positioned
<1>8. Collected'
  <2> USE DEF FoundNodes
  <2>1. /\ err = "none" /\ FoundNodes = BeforeNode
        /\ found \in Seq(Entries) /\ \A n \in FoundNodes : n \notin Failing
        /\ \A p, q \in DOMAIN found : p < q => found[p].node < found[q].node
        /\ \A p \in DOMAIN found : found[p] = EntryOf[found[p].node]
    BY <1>1, <1>2 DEF Collected
  <2>2. Node \in Ones /\ Node \in Nat /\ Node \in Nodes
    BY <1>2, <1>4, <1>6, NodeFacts DEF Ones, Single, Nodes
  <2>3. entry = EntryOf[Node] /\ entry.node = Node /\ (Fails(entry) <=> Node \in Failing)
    <3>1. entry = EntryOf[Node] /\ entry.node = Node
      BY <1>4, <1>5, <2>2 DEF EntryOf, EntryAt, Entry
    <3> HIDE DEF entry
    <3> QED BY <2>2, <3>1 DEF Failing
  <2>4. /\ Len(found) \in Nat /\ DOMAIN found = 1 .. Len(found) /\ DOMAIN found' = 1 .. Len(found) + 1
        /\ found' \in Seq(Entries)
        /\ \A p \in DOMAIN found : found'[p] = found[p]
        /\ found'[Len(found) + 1] = entry
    <3>1. entry \in Entries
      BY <2>2, <2>3 DEF Entries
    <3> HIDE DEF entry
    <3> QED BY <1>1, <2>1, <3>1
  <2> HIDE DEF entry
  <2>5. FoundNodes' = FoundNodes \cup {Node}
    <3>1. DOMAIN found' = DOMAIN found \cup {Len(found) + 1}
      BY <2>4
    <3> QED BY <2>3, <2>4, <3>1
  <2>6. FoundNodes' = {n \in Ones : n <= Node}
    <3>1. \A n \in Ones : n \in Nat
      BY <1>2, DocFacts DEF Ones, Single, Nodes
    <3>2. \A n \in Ones : n <= Node <=> n < Node \/ n = Node
      BY <2>2, <3>1
    <3> HIDE DEF FoundNodes
    <3> QED BY <2>1, <2>2, <2>5, <3>2 DEF BeforeNode
  <2>7. \A p, q \in DOMAIN found' : p < q => found'[p].node < found'[q].node
    <3> SUFFICES ASSUME NEW p \in DOMAIN found', NEW q \in DOMAIN found', p < q
                 PROVE  found'[p].node < found'[q].node
      OBVIOUS
    <3>0. p \in 1 .. Len(found) + 1 /\ q \in 1 .. Len(found) + 1
      BY <2>4
    <3>1. p \in DOMAIN found
      BY <2>4, <3>0
    <3>2. CASE q \in DOMAIN found
      BY <2>1, <2>4, <3>1, <3>2
    <3>3. CASE q = Len(found) + 1
      <4>1. found[p].node \in FoundNodes
        BY <3>1
      <4>2. found[p].node < Node
        BY <2>1, <4>1 DEF BeforeNode
      <4> QED BY <2>3, <2>4, <3>1, <3>3, <4>2
    <3> QED BY <2>4, <3>2, <3>3
  <2>8. \A p \in DOMAIN found' : found'[p] = EntryOf[found'[p].node]
    <3> SUFFICES ASSUME NEW p \in DOMAIN found' PROVE found'[p] = EntryOf[found'[p].node]
      OBVIOUS
    <3>1. p \in DOMAIN found \/ p = Len(found) + 1
      BY <2>4
    <3> QED BY <2>1, <2>3, <2>4, <3>1
  <2>9. FoundNodes' \subseteq Ones
    BY <2>6
  <2>10. CASE Node \notin Failing
    <3>1. err' = "none" /\ \A n \in FoundNodes' : n \notin Failing
      BY <1>1, <2>1, <2>3, <2>5, <2>10
    <3>2. FoundNodes' = NotAheadAbove
      BY <1>2, <1>4, <1>6, <2>6, AfterClosedNode
    <3> HIDE DEF FoundNodes
    <3> QED BY <1>1, <2>4, <2>7, <2>8, <2>9, <3>1, <3>2, SamePlaces, AheadStays DEF Collected
  <2>11. CASE Node \in Failing
    <3>1. err' = "failed"
      BY <1>1, <2>3, <2>11
    <3>2. FoundNodes' = Reached(Places)
      <4>1. \A n \in Ones : n \in Nat
        BY <1>2, DocFacts DEF Ones, Single, Nodes
      <4>2. \A n \in Ones : n < Node => n \notin Failing
        BY <2>1 DEF BeforeNode
      <4>3. Reached(Places) = {n \in Ones : \A m \in Ones : m < n => m \notin Failing}
        BY ReachedIs
      <4> HIDE DEF FoundNodes
      <4>4. ASSUME NEW n \in Ones PROVE n <= Node <=> \A m \in Ones : m < n => m \notin Failing
        BY <2>2, <2>11, <4>1, <4>2, <4>4
      <4> QED BY <2>6, <4>3, <4>4
    <3>3. Reached(Places)' = Reached(Places)
      BY <1>1, SamePlaces
    <3> HIDE DEF FoundNodes
    <3> QED BY <1>1, <2>4, <2>7, <2>8, <2>9, <3>1, <3>2, <3>3, SamePlaces DEF Collected
  <2> QED BY <2>10, <2>11
<1> QED BY <1>1, <1>3, <1>7, <1>8 DEF Active

LEMMA DescendKeeps ==
  ASSUME Active, Descend
  PROVE  Active' /\ pc' # "idle"
<1>1. /\ UNCHANGED <<t, doc, sec, save, calls, found, err>>
      /\ pc = "handle" /\ pc' = "visit" /\ Enters(Node, depth)
      /\ depth' = depth + 1
      /\ src' = IF HasActions THEN Append(src, ".") ELSE src
      /\ dst' = dst \o t.sep
  BY DEF Descend
<1>2. InWalk /\ Saved /\ Positioned /\ Collected /\ Stacked /\ doc \in Docs /\ t \in Configs
  BY DEF Active, InWalk
<1>3. InWalk' /\ Saved'
  BY <1>1, <1>2, StackedStays, SavedStays, InWalkStays
<1>4. /\ Len(calls) > 1 /\ Len(calls) \in Nat /\ depth = Len(calls) - 1 /\ Places[Node].seen
      /\ dst = Places[Node].key /\ (HasActions => src = PathOf[Node])
      /\ src \in Texts /\ dst \in Texts /\ (~HasActions => src = t.sections[sec].srcBase)
  BY <1>1, <1>2, CallFacts DEF Positioned
<1>5. Places[Node].open /\ Places[Node].src = PathOf[Node] \o <<".">>
      /\ Places[Node].out = Places[Node].key \o t.sep
  <2>1. Places[Parent(Node)].level = depth
    BY <1>2, <1>4, NodeFacts
  <2> QED BY <1>1, <1>2, <1>4, <2>1, NodeFacts, PlaceOfChild
<1>6. Positioned'
  <2>1. dst' = Places[Node].out /\ dst' \in Texts
    BY <1>1, <1>2, <1>4, <1>5, ConfigTexts DEF Texts
  <2>2. /\ src' \in Texts
        /\ HasActions => src' = Places[Node].src
        /\ ~HasActions => src' = t.sections[sec].srcBase
    <3>1. "." \in Tokens
      BY TextsAssumption
    <3>2. Append(src, ".") = src \o <<".">> /\ Append(src, ".") \in Texts
      BY <1>4, <3>1 DEF Texts
    <3> QED BY <1>1, <1>4, <1>5, <3>2
  <2>3. depth' = Len(calls)
    BY <1>1, <1>4
  <2>4. pc' = "visit" /\ calls' = calls /\ t' = t /\ sec' = sec
    BY <1>1
  <2>5. Places' = Places /\ HasActions' = HasActions /\ Node' = Node /\ Texts' = Texts
    BY <1>1, NodeStays, SamePlaces
  <2> QED BY <1>5, <2>1, <2>2, <2>3, <2>4, <2>5 DEF Positioned
<1>7. Collected'
  <2>1. err = "none" /\ FoundNodes = BeforeNode /\ Current.last = Node
    BY <1>1, <1>2 DEF Collected
  <2>2. FoundNodes = NotAhead
    BY <1>2, <1>4, <1>5, <2>1, BelowOpenNode
  <2>3. pc' = "visit" /\ UNCHANGED <<doc, calls, found, err>> /\ FoundNodes' = FoundNodes
    BY <1>1 DEF FoundNodes
  <2>4. Ones' = Ones /\ NotAhead' = NotAhead /\ Entries' = Entries /\ EntryOf' = EntryOf
        /\ Failing' = Failing
    BY <1>1, SamePlaces, AheadStays
  <2> QED BY <1>2, <2>1, <2>2, <2>3, <2>4 DEF Collected
<1> QED BY <1>1, <1>3, <1>6, <1>7 DEF Active

LEMMA SectionsAreNumbered ==
  ASSUME t \in Configs
  PROVE  DOMAIN t.sections = 1 .. Len(t.sections) /\ Len(t.sections) \in Nat
BY TextsAssumption DEF Range

(* What a section gives when all calls are done. *)
LEMMA DoneIsSpecified ==
  /\ found \in Seq(Entries)
  /\ \A p, q \in DOMAIN found : p < q => found[p].node < found[q].node
  /\ \A p \in DOMAIN found : found[p] = EntryOf[found[p].node]
  /\ FoundNodes = Reached(Places)
  => NodesAsSpecified
<1> SUFFICES ASSUME \A p \in DOMAIN found : found[p] = EntryOf[found[p].node],
                    FoundNodes = Reached(Places),
                    NEW p \in DOMAIN found
             PROVE  found[p] = EntryAt(Places, found[p].node)
  BY DEF NodesAsSpecified, FoundNodes
<1>1. found[p].node \in Nodes
  BY DEF FoundNodes, Reached, Single, Nodes
<1> QED BY <1>1 DEF EntryOf

LEMMA EndVisitKeeps ==
  ASSUME Active, EndVisit
  PROVE  /\ pc' # "idle" => Active'
         /\ pc' = "idle" => Idle'
<1>1. /\ UNCHANGED <<t, doc, sec, src, dst, save, found, err>>
      /\ pc = "visit" /\ (err # "none" \/ Remaining = {})
      /\ IF Len(calls) = 1 THEN pc' = "idle" /\ calls' = <<>> /\ UNCHANGED depth
         ELSE pc' = "leave" /\ depth' = depth - 1 /\ UNCHANGED calls
  BY DEF EndVisit, EndVisitAt
<1>2. InWalk /\ Saved /\ Positioned /\ Collected /\ Stacked /\ doc \in Docs /\ t \in Configs
      /\ sec \in DOMAIN t.sections
  BY DEF Active, InWalk
<1>3. Len(calls) \in Nat /\ Len(calls) >= 1
  BY <1>2, CallFacts
<1>4. /\ dst = Places[Node].out /\ (HasActions => src = Places[Node].src)
      /\ src \in Texts /\ dst \in Texts /\ (~HasActions => src = t.sections[sec].srcBase)
      /\ depth = Len(calls)
  BY <1>1, <1>2 DEF Positioned
<1>5. \A n \in Nodes : err = "none" => (Ahead(Len(calls), n) <=> Ahead(Len(calls) - 1, n))
  <2>1. ASSUME NEW c \in Nodes, Parent(c) = calls[Len(calls)].node, c > calls[Len(calls)].last,
               err = "none"
        PROVE  FALSE
    BY <1>1, <2>1 DEF Remaining, Children, Node, Current, Nodes, Parent
  <2> QED BY <1>3, <2>1 DEF Ahead
<1>6. CASE Len(calls) > 1
  <2>1. pc' = "leave" /\ depth' = Len(calls) - 1 /\ UNCHANGED calls
    BY <1>1, <1>3, <1>4, <1>6
  <2>2. InWalk' /\ Saved'
    BY <1>1, <1>2, <2>1, StackedStays, SavedStays, InWalkStays
  <2>3. Positioned'
    <3>1. /\ PlainKey[Node] \in Texts /\ PathOf[Node] \in Texts /\ t.sep \in Texts /\ <<".">> \in Texts
          /\ Places[Parent(Node)].out \in Texts /\ Places[Parent(Node)].src \in Texts
      BY <1>2, <1>6, PathIsExtended, ConfigTexts, TextsAssumption DEF Texts
    <3>2. HasActions => Len(src) >= Current.ls /\ SubSeq(src, 1, Current.ls) = Places[Parent(Node)].src
      <4>1. Places[Node].src = PathOf[Node] \o <<".">>
        BY <1>2, <1>6, NodeFacts, PlaceOfChild
      <4>2. PathOf[Node] = Places[Parent(Node)].src \o Key(Node) /\ Key(Node) \in Texts
        BY <1>2, <1>6, NodeFacts, KeyText DEF PathOf
      <4> DEFINE above == Places[Parent(Node)].src
      <4>3. /\ above \in Texts
            /\ HasActions => src = (above \o Key(Node)) \o <<".">>
            /\ HasActions => Current.ls = Len(above)
        BY <1>2, <1>4, <1>6, <3>1, <4>1, <4>2, PathIsExtended
      <4> DEFINE dot == <<".">>
      <4> HIDE DEF above, dot
      <4>4. Len((above \o Key(Node)) \o dot) >= Len(above) /\ SubSeq((above \o Key(Node)) \o dot, 1, Len(above)) = above
        <5>1. above \in Texts /\ Key(Node) \in Texts
          BY <4>2, <4>3
        <5>2. dot \in Texts
          BY <3>1 DEF dot
        <5> QED BY <5>1, <5>2, PrefixOfTwo
      <4>5. HasActions => Len(src) >= Current.ls /\ SubSeq(src, 1, Current.ls) = above
        BY <4>3, <4>4 DEF dot
      <4> QED BY <4>5 DEF above
    <3>3. ~Current.renamed =>
             Len(dst) >= Current.ld /\ SubSeq(dst, 1, Current.ld) = Places[Parent(Node)].out
      <4> SUFFICES ASSUME ~Current.renamed
                   PROVE  Len(dst) >= Current.ld /\ SubSeq(dst, 1, Current.ld) = Places[Parent(Node)].out
        OBVIOUS
      <4>1. Places[Node].action.renameTo = NoPath
        BY <1>1, <1>2, <1>6, NodeFacts DEF Linked, Current, Node
      <4>2. Places[Node].out = PlainKey[Node] \o t.sep
        BY <1>2, <1>6, <4>1, NodeFacts, PlaceOfChild
      <4>3. PlainKey[Node] = Places[Parent(Node)].out \o Segment(Node) /\ Segment(Node) \in Texts
        BY <1>2, <1>6, NodeFacts, SegmentText DEF PlainKey
      <4> DEFINE above == Places[Parent(Node)].out
      <4>4. above \in Texts /\ dst = (above \o Segment(Node)) \o t.sep /\ Current.ld = Len(above)
        BY <1>2, <1>4, <1>6, <3>1, <4>2, <4>3, PathIsExtended
      <4> HIDE DEF above
      <4>5. Len(dst) >= Current.ld /\ SubSeq(dst, 1, Current.ld) = above
        <5>1. above \in Texts /\ Segment(Node) \in Texts /\ t.sep \in Texts
          BY <3>1, <4>3, <4>4
        <5>2. /\ Len((above \o Segment(Node)) \o t.sep) >= Len(above)
              /\ SubSeq((above \o Segment(Node)) \o t.sep, 1, Len(above)) = above
          BY <5>1, PrefixOfTwo
        <5> QED BY <4>4, <5>2
      <4> QED BY <4>5 DEF above
    <3> QED BY <1>1, <1>4, <1>6, <2>1, <3>2, <3>3, NodeStays, SamePlaces DEF Positioned
  <2>4. Collected'
    <3>1. err = "none" => FoundNodes = NotAheadAbove
      <4>1. err = "none" => FoundNodes = NotAhead
        BY <1>1, <1>2 DEF Collected
      <4> QED BY <1>5, <4>1 DEF NotAhead, NotAheadAbove, Ones, Single, Nodes
    <3>2. Reached(Places)' = Reached(Places) /\ FoundNodes' = FoundNodes
      BY <1>1, SamePlaces DEF FoundNodes
    <3>3. NotAheadAbove' = NotAheadAbove
      BY <1>1, <2>1, AheadStays
    <3> QED BY <1>1, <1>2, <2>1, <3>1, <3>2, <3>3, SamePlaces DEF Collected
  <2> QED BY <2>1, <2>2, <2>3, <2>4 DEF Active
<1>7. CASE Len(calls) = 1
  <2>1. pc' = "idle" /\ calls' = <<>>
    BY <1>1, <1>7
  <2>2. FoundNodes = Reached(Places)
    <3>1. CASE err # "none"
      BY <1>2, <3>1 DEF Collected
    <3>2. CASE err = "none"
      <4>1. FoundNodes = {n \in Ones : ~Ahead(1, n)} /\ \A n \in FoundNodes : n \notin Failing
        BY <1>1, <1>2, <1>7, <3>2 DEF Collected, NotAhead
      <4>2. \A n \in Nodes : ~Ahead(1, n)
        <5>1. \A n \in Nodes : ~Ahead(0, n)
          BY DEF Ahead
        <5> QED BY <1>5, <1>7, <3>2, <5>1
      <4>3. FoundNodes = Ones
        BY <4>1, <4>2 DEF Ones, Single, Nodes
      <4> QED BY <4>1, <4>3, ReachedIs
    <3> QED BY <3>1, <3>2
  <2>3. NodesAsSpecified'
    <3>1. (found \in Seq(Entries)
           /\ (\A p, q \in DOMAIN found : p < q => found[p].node < found[q].node)
           /\ (\A p \in DOMAIN found : found[p] = EntryOf[found[p].node])
           /\ FoundNodes = Reached(Places)
           => NodesAsSpecified)'
      BY DoneIsSpecified, PTL
    <3>2. Reached(Places)' = Reached(Places) /\ FoundNodes' = FoundNodes
      BY <1>1, SamePlaces DEF FoundNodes
    <3> QED BY <1>1, <1>2, <2>2, <3>1, <3>2, SamePlaces DEF Collected
  <2>4. doc' \in Docs /\ src' \in Texts' /\ dst' \in Texts'
    BY <1>1, <1>2, <1>4 DEF Texts
  <2>5. Node = Root /\ Root \in Nodes
    BY <1>2, <1>7 DEF InWalk, Stacked, Node, Current
  <2>6. dst = t.sections[sec].dstBase /\ src = t.sections[sec].srcBase /\ depth = 1
    BY <1>2, <1>4, <1>7, <2>5, PlaceOfRoot
  <2>7. save = <<>>
    <3>1. DOMAIN calls = 1 .. 1 /\ ~calls[1].renamed
      BY <1>2, <1>7, CallFacts DEF InWalk, Stacked
    <3>2. NoneBetween(0, 2) /\ IsMark(2) /\ MarkOf(2) = Len(save) /\ 2 \in 1 .. Len(calls) + 1
      BY <1>7, <3>1 DEF NoneBetween, IsMark, MarkOf
    <3>3. Len(save) = 0 /\ save \in Texts
      BY <1>2, <3>2 DEF Saved
    <3> QED BY <3>3 DEF Texts
  <2>8. UNCHANGED <<t, doc, sec, src, dst, save, depth>> /\ sec \in DOMAIN t.sections /\ sec # 0
    <3>1. sec # 0
      BY <1>2, SectionsAreNumbered
    <3> QED BY <1>1, <1>2, <1>7, <3>1
  <2> QED BY <2>1, <2>3, <2>4, <2>6, <2>7, <2>8 DEF Idle
<1>8. Len(calls) > 1 \/ Len(calls) = 1
  <2>1. \A k \in Nat : k >= 1 => k > 1 \/ k = 1
    OBVIOUS
  <2> QED BY <1>3, <2>1
<1> QED BY <1>6, <1>7, <1>8, Zenon

(* What renames add to save, and take from it. *)
LEMMA SubSeqOfFirst ==
  ASSUME NEW a \in Texts, NEW b \in Texts, NEW m \in Nat, NEW n \in Nat, m >= 1, n <= Len(a)
  PROVE  SubSeq(a \o b, m, n) = SubSeq(a, m, n)
<1>1. CASE n < m
  BY <1>1, SubSeqEmpty
<1>2. CASE m <= n
  <2>1. m \in 1 .. Len(a) /\ n \in 1 .. Len(a)
    BY <1>2 DEF Texts
  <2> QED BY <2>1, SubSeqOfConcat1 DEF Texts
<1> QED BY <1>1, <1>2

LEMMA SubSeqOfSecond ==
  ASSUME NEW a \in Texts, NEW b \in Texts
  PROVE  SubSeq(a \o b, Len(a) + 1, Len(a) + Len(b)) = b
<1>1. Len(a) \in Nat /\ Len(b) \in Nat
  BY DEF Texts
<1>2. CASE Len(b) = 0
  <2>1. b = <<>>
    BY <1>2 DEF Texts
  <2> QED BY <1>1, <1>2, <2>1, SubSeqEmpty
<1>3. CASE Len(b) # 0
  <2>1. SubSeq(a \o b, Len(a) + 1, Len(a) + Len(b)) = SubSeq(b, Len(a) + 1 - Len(a), Len(a) + Len(b) - Len(a))
    BY <1>1, <1>3, SubSeqOfConcat2 DEF Texts
  <2>2. Len(a) + 1 - Len(a) = 1 /\ Len(a) + Len(b) - Len(a) = Len(b)
    BY <1>1
  <2> QED BY <2>1, <2>2, SubSeqFull DEF Texts
<1> QED BY <1>2, <1>3

LEMMA PrefixTyped ==
  ASSUME NEW T, NEW a \in Seq(T), NEW j \in 0 .. Len(a)
  PROVE  SubSeq(a, 1, j) \in Seq(T) /\ Len(SubSeq(a, 1, j)) = j
<1>1. SubSeq(a, 1, j) \in Seq(T)
  OBVIOUS
<1>2. Len(SubSeq(a, 1, j)) = j
  OBVIOUS
<1> QED BY <1>1, <1>2

LEMMA SubSeqOfPart ==
  ASSUME NEW T, NEW a \in Seq(T), NEW j \in 1 .. Len(a), NEW m \in 1 .. j, NEW n \in 1 .. j
  PROVE  SubSeq(SubSeq(a, 1, j), m, n) = SubSeq(a, m, n)
<1>1. 1 \in 1 .. Len(a) /\ m \in 1 .. j - 1 + 1 /\ n \in 1 .. j - 1 + 1
  OBVIOUS
<1>2. SubSeq(SubSeq(a, 1, j), m, n) = SubSeq(a, 1 + m - 1, 1 + n - 1)
  BY <1>1, SubSeqOfSubSeq
<1>3. 1 + m - 1 = m /\ 1 + n - 1 = n
  OBVIOUS
<1> QED BY <1>2, <1>3

LEMMA SubSeqOfPrefix ==
  ASSUME NEW a \in Texts, NEW j \in 0 .. Len(a), NEW m \in Nat, NEW n \in Nat, m >= 1, n <= j
  PROVE  /\ SubSeq(a, 1, j) \in Texts /\ Len(SubSeq(a, 1, j)) = j
         /\ SubSeq(SubSeq(a, 1, j), m, n) = SubSeq(a, m, n)
<1>1. a \in Seq(Tokens) /\ Len(a) \in Nat /\ j \in Nat
  BY DEF Texts
<1>2. Len(SubSeq(a, 1, j)) = j
  BY <1>1, PrefixTyped
<1>3. SubSeq(a, 1, j) \in Seq(Tokens)
  BY <1>1, PrefixTyped
<1>4. ASSUME n < m PROVE SubSeq(SubSeq(a, 1, j), m, n) = SubSeq(a, m, n)
  BY <1>4, SubSeqEmpty
<1>5. ASSUME m <= n PROVE SubSeq(SubSeq(a, 1, j), m, n) = SubSeq(a, m, n)
  <2>1. j \in 1 .. Len(a) /\ m \in 1 .. j /\ n \in 1 .. j
    BY <1>1, <1>5
  <2> QED BY <1>1, <2>1, SubSeqOfPart
<1> QED BY <1>2, <1>3, <1>4, <1>5 DEF Texts

LEMMA KeyTypedOfCall ==
  ASSUME InWalk, NEW p \in 1 .. Len(calls), calls[p].renamed
  PROVE  /\ PlainKey[calls[p].node] \in Texts /\ Len(PlainKey[calls[p].node]) \in Nat
         /\ calls[p].mark \in Nat /\ p > 1
<1>1. p > 1 /\ p - 1 \in 1 .. Len(calls) /\ p \in DOMAIN calls
  BY CallFacts DEF InWalk, Stacked
<1>2. calls[p - 1].node < calls[p].node
  BY <1>1, CallFacts DEF InWalk, Stacked
<1>3. calls[p].node # 1 /\ calls[p].node \in Nodes
  BY <1>1, <1>2, CallFacts, DocFacts DEF InWalk
<1>4. PlainKey[calls[p].node] \in Texts
  BY <1>3, KeyTyped DEF InWalk
<1>5. calls[p].mark \in Nat
  BY CallFacts DEF Frames
<1> QED BY <1>1, <1>4, <1>5 DEF Texts

LEMMA RenameKeeps ==
  ASSUME Active, Rename
  PROVE  Active' /\ pc' # "idle"
<1> DEFINE k == Len(calls)
           renames == Action(src).renameTo # NoPath
<1>1. /\ UNCHANGED <<t, doc, sec, src, depth, found, err>>
      /\ pc = "node" /\ pc' = "handle" /\ ~Action(src).drop
      /\ ~renames => UNCHANGED <<save, dst, calls>>
      /\ renames => /\ calls' = [calls EXCEPT ![k].renamed = TRUE, ![k].mark = Len(save)]
                    /\ save' = save \o dst
                    /\ dst' = Action(src).renameTo
  BY DEF Rename
<1>2. InWalk /\ Saved /\ Positioned /\ Collected /\ Stacked /\ doc \in Docs /\ t \in Configs
      /\ sec \in DOMAIN t.sections
  BY DEF Active, InWalk
<1>3. /\ k > 1 /\ k \in Nat /\ depth = k - 1 /\ dst = PlainKey[Node]
      /\ (HasActions => src = PathOf[Node]) /\ ~Current.renamed
      /\ (Places[Node].seen <=> ~Places[Node].action.drop)
      /\ src \in Texts /\ dst \in Texts /\ save \in Texts
      /\ (~HasActions => src = t.sections[sec].srcBase)
  BY <1>1, <1>2, CallFacts DEF Positioned, Saved
<1>4. Action(src) = Places[Node].action
  <2>1. Places[Node].action = Action(PathOf[Node])
    BY <1>2, <1>3, NodeFacts, PlaceOfChild
  <2> QED BY <1>3, <2>1 DEF HasActions, Action
<1> HIDE DEF renames
<1>5. renames <=> Places[Node].action.renameTo # NoPath
  BY <1>4 DEF renames
<1>6. /\ calls' \in Seq(Frames) /\ Len(calls') = k /\ DOMAIN calls' = 1 .. k /\ DOMAIN calls = 1 .. k
      /\ \A p \in 1 .. k :
           /\ calls'[p].node = calls[p].node /\ calls'[p].last = calls[p].last
           /\ calls'[p].ls = calls[p].ls /\ calls'[p].ld = calls[p].ld
           /\ p < k => calls'[p] = calls[p]
      /\ calls'[k].renamed <=> renames
      /\ renames => calls'[k].mark = Len(save)
      /\ ~renames => calls'[k].mark = 0
  <2>1. calls \in Seq(Frames) /\ DOMAIN calls = 1 .. k /\ k \in 1 .. k
    BY <1>2, <1>3 DEF Stacked
  <2>2. calls[k] \in Frames /\ ~calls[k].renamed /\ calls[k].mark = 0
    BY <1>2, <1>3, <2>1 DEF Stacked, Current
  <2>3. Len(save) \in Nat
    BY <1>3 DEF Texts
  <2>4. CASE ~renames
    BY <1>1, <2>1, <2>2, <2>4
  <2>5. CASE renames
    <3> DEFINE call == [calls[k] EXCEPT !.renamed = TRUE, !.mark = Len(save)]
    <3>1. call \in Frames
      BY <2>2, <2>3 DEF Frames
    <3>2. call.node = calls[k].node /\ call.last = calls[k].last /\ call.ls = calls[k].ls
          /\ call.ld = calls[k].ld /\ call.renamed /\ call.mark = Len(save)
      BY <2>2 DEF Frames
    <3>3. calls' = [calls EXCEPT ![k] = call]
      BY <1>1, <2>1, <2>5
    <3> HIDE DEF call
    <3>4. calls' \in Seq(Frames) /\ Len(calls') = k /\ DOMAIN calls' = 1 .. k
      BY <2>1, <3>1, <3>3
    <3>5. calls'[k] = call
      BY <2>1, <3>3
    <3>6. \A p \in 1 .. k : p # k => calls'[p] = calls[p]
      BY <2>1, <3>3
    <3>7. \A p \in 1 .. k :
           /\ calls'[p].node = calls[p].node /\ calls'[p].last = calls[p].last
           /\ calls'[p].ls = calls[p].ls /\ calls'[p].ld = calls[p].ld
           /\ p < k => calls'[p] = calls[p]
      <4> SUFFICES ASSUME NEW p \in 1 .. k
                   PROVE  /\ calls'[p].node = calls[p].node /\ calls'[p].last = calls[p].last
                          /\ calls'[p].ls = calls[p].ls /\ calls'[p].ld = calls[p].ld
                          /\ p < k => calls'[p] = calls[p]
        OBVIOUS
      <4>1. CASE p = k
        BY <1>3, <3>2, <3>5, <4>1
      <4>2. CASE p # k
        BY <3>6, <4>2
      <4> QED BY <4>1, <4>2
    <3>8. calls'[k].renamed /\ calls'[k].mark = Len(save)
      BY <3>2, <3>5
    <3> HIDE DEF k
    <3> QED BY <2>1, <2>5, <3>4, <3>7, <3>8
  <2> QED BY <2>4, <2>5
<1>7. Stacked'
  <2>1. \A p \in 1 .. k : p > 1 => Linked(p)'
    <3> SUFFICES ASSUME NEW p \in 1 .. k, p > 1 PROVE Linked(p)'
      OBVIOUS
    <3>1. Linked(p) /\ p - 1 \in 1 .. k /\ p - 1 < k /\ p \in Nat
      BY <1>2, <1>3, <1>6 DEF Stacked
    <3>2. /\ Parent(calls[p].node) = calls[p - 1].node /\ calls[p - 1].last = calls[p].node
          /\ Places[calls[p - 1].node].open /\ calls[p].ld = Len(Places[calls[p - 1].node].out)
          /\ calls[p].ls = IF HasActions THEN Len(Places[calls[p - 1].node].src)
                           ELSE Len(t.sections[sec].srcBase)
          /\ p < k => (calls[p].renamed <=> Places[calls[p].node].action.renameTo # NoPath)
      BY <3>1 DEF Linked
    <3>3. p < k => calls'[p].renamed = calls[p].renamed
      BY <1>6
    <3>4. p = k => calls[p].node = Node
      BY DEF Node, Current
    <3>5. calls'[p].renamed <=> Places[calls[p].node].action.renameTo # NoPath
      <4>1. p < k \/ p = k
        BY <1>3, <3>1
      <4> QED BY <1>5, <1>6, <3>2, <3>3, <3>4, <4>1
    <3>6. doc' = doc /\ t' = t /\ sec' = sec /\ Places' = Places /\ HasActions' = HasActions
      BY <1>1, SamePlaces
    <3>7. /\ calls'[p].node = calls[p].node /\ calls'[p - 1].node = calls[p - 1].node
          /\ calls'[p - 1].last = calls[p - 1].last
          /\ calls'[p].ls = calls[p].ls /\ calls'[p].ld = calls[p].ld
      BY <1>6, <3>1
    <3> QED BY <3>2, <3>5, <3>6, <3>7 DEF Linked, Parent
  <2>2. \A p \in 1 .. k :
           /\ calls'[p].node <= calls'[p].last
           /\ Places[calls'[p].node].level = p
           /\ ~calls'[p].renamed => calls'[p].mark = 0
    <3> SUFFICES ASSUME NEW p \in 1 .. k
                 PROVE  /\ calls'[p].node <= calls'[p].last
                        /\ Places[calls'[p].node].level = p
                        /\ ~calls'[p].renamed => calls'[p].mark = 0
      OBVIOUS
    <3>1. /\ calls[p].node <= calls[p].last /\ Places[calls[p].node].level = p
          /\ ~calls[p].renamed => calls[p].mark = 0
      BY <1>2, <1>6 DEF Stacked
    <3>2. p < k \/ p = k
      BY <1>3
    <3> QED BY <1>6, <3>1, <3>2
  <2>3. calls'[1].node = Root /\ ~calls'[1].renamed /\ calls' # <<>>
    BY <1>2, <1>3, <1>6 DEF Stacked
  <2>4. \A p, q \in 1 .. k : p < q =>
          /\ calls'[p].node < calls'[q].node
          /\ \A c \in Nodes : Parent(c) = calls'[p].node /\ c > calls'[p].last => c > calls'[q].node
    BY <1>2, <1>6 DEF Stacked
  <2>5. /\ Places' = Places /\ Root' = Root /\ Frames' = Frames /\ Nodes' = Nodes /\ doc' = doc
    BY <1>1, SamePlaces
  <2>6. DOMAIN calls' = 1 .. k /\ calls' \in Seq(Frames)
    BY <1>6
  <2> HIDE DEF k
  <2> QED BY <2>1, <2>2, <2>3, <2>4, <2>5, <2>6 DEF Stacked, Parent
<1>8. Saved'
  <2>1. CASE ~renames
    BY <1>1, <1>2, <2>1, SavedStays
  <2>2. CASE renames
    <3> DEFINE plain == PlainKey[Node]
    <3>1. /\ PlainKey' = PlainKey /\ Texts' = Texts /\ plain \in Texts /\ Len(plain) \in Nat /\ Len(save) \in Nat
          /\ save' = save \o plain /\ save' \in Texts /\ Len(save') = Len(save) + Len(plain)
      <4>1. plain \in Texts
        BY <1>3
      <4>2. save' = save \o plain
        BY <1>1, <1>3, <2>2
      <4> HIDE DEF plain
      <4> QED BY <1>1, <1>3, <4>1, <4>2, SamePlaces, PrefixOf DEF Texts
    <3>2. /\ calls'[k].renamed /\ ~calls[k].renamed
          /\ \A p \in 1 .. k : p # k => p < k /\ calls'[p] = calls[p]
      <4>1. calls'[k].renamed /\ ~calls[k].renamed
        BY <1>3, <1>6, <2>2 DEF Current
      <4>2. \A p \in 1 .. k : p # k => p < k
        BY <1>3
      <4> QED BY <1>6, <4>1, <4>2
    <3>3. \A p \in 1 .. k - 1 : EndOf(p)' = EndOf(p)
      BY <1>3, <1>6, <3>1, <3>2 DEF EndOf
    <3>4. \A p \in 1 .. k : p = k => EndOf(p)' = Len(save')
      <4>1. calls'[k].node = Node /\ calls'[k].mark = Len(save)
        BY <1>3, <1>6, <2>2 DEF Node, Current
      <4> HIDE DEF k
      <4> QED BY <3>1, <4>1 DEF EndOf
    <3>5. \A q \in 1 .. k + 1 : IsMark(q) =>
            /\ NoneBetween(0, q) => MarkOf(q) = 0
            /\ \A p \in 1 .. k : p < q /\ calls[p].renamed =>
                 /\ EndOf(p) <= MarkOf(q)
                 /\ NoneBetween(p, q) => EndOf(p) = MarkOf(q)
      BY <1>2, <1>6 DEF Saved
    <3>6. ASSUME NEW q \in 1 .. k + 1, IsMark(q)'
          PROVE  /\ NoneBetween(0, q)' => MarkOf(q)' = 0
                 /\ \A p \in 1 .. k : p < q /\ calls'[p].renamed =>
                      /\ EndOf(p)' <= MarkOf(q)'
                      /\ NoneBetween(p, q)' => EndOf(p)' = MarkOf(q)'
      <4>1. CASE q < k
        <5>1. IsMark(q) /\ MarkOf(q)' = MarkOf(q)
          BY <1>3, <1>6, <3>2, <3>6, <4>1 DEF IsMark, MarkOf
        <5>2. ASSUME NEW p \in 0 .. k, NoneBetween(p, q)' PROVE NoneBetween(p, q)
          BY <1>3, <1>6, <3>2, <4>1, <5>2 DEF NoneBetween
        <5>3. \A p \in 1 .. k : p < q => p \in 1 .. k - 1 /\ calls'[p] = calls[p] /\ p \in 0 .. k
          BY <1>3, <3>2, <4>1
        <5> QED BY <1>3, <3>3, <3>5, <5>1, <5>2, <5>3
      <4>2. CASE q = k
        <5>1. k + 1 \in 1 .. k + 1 /\ IsMark(k + 1) /\ MarkOf(k + 1) = Len(save)
          BY <1>3 DEF IsMark, MarkOf
        <5>2. MarkOf(q)' = Len(save)
          BY <1>3, <1>6, <2>2, <4>2 DEF MarkOf
        <5>3. ASSUME NEW p \in 0 .. k, NoneBetween(p, q)' PROVE NoneBetween(p, k + 1)
          BY <1>3, <1>6, <3>2, <4>2, <5>3 DEF NoneBetween
        <5>4. \A p \in 1 .. k : p < q => p \in 1 .. k - 1 /\ calls'[p] = calls[p] /\ p \in 0 .. k /\ p < k + 1
          BY <1>3, <3>2, <4>2
        <5> QED BY <1>3, <3>3, <3>5, <5>1, <5>2, <5>3, <5>4
      <4>3. CASE q = k + 1
        <5>1. MarkOf(q)' = Len(save')
          BY <1>6, <4>3 DEF MarkOf
        <5>2. ASSUME NEW p \in 0 .. k - 1 PROVE ~ NoneBetween(p, q)'
          BY <1>3, <1>6, <3>2, <4>3 DEF NoneBetween
        <5>3. k + 1 \in 1 .. k + 1 /\ IsMark(k + 1) /\ MarkOf(k + 1) = Len(save)
          BY <1>3 DEF IsMark, MarkOf
        <5>4. ASSUME NEW p \in 1 .. k, p # k, calls'[p].renamed
              PROVE  EndOf(p)' <= MarkOf(q)' /\ ~ NoneBetween(p, q)'
          <6>1. p \in 1 .. k - 1 /\ p \in 0 .. k - 1 /\ p < k + 1 /\ calls[p].renamed
            BY <1>3, <3>2, <5>4
          <6>2. EndOf(p) <= Len(save)
            BY <3>5, <5>3, <6>1
          <6>3. EndOf(p) \in Nat
            BY <1>2, <1>6, <6>1, KeyTypedOfCall DEF EndOf
          <6>4. EndOf(p)' = EndOf(p) /\ ~ NoneBetween(p, q)'
            BY <3>3, <5>2, <6>1
          <6> HIDE DEF plain
          <6>5. EndOf(p) <= Len(save')
            BY <3>1, <6>2, <6>3
          <6> QED BY <5>1, <6>4, <6>5
        <5> QED BY <1>3, <3>1, <3>4, <5>1, <5>2, <5>4
      <4> QED BY <1>3, <4>1, <4>2, <4>3
    <3>7. ASSUME NEW p \in 1 .. k, calls'[p].renamed
          PROVE  SubSeq(save', calls'[p].mark + 1, EndOf(p)') = PlainKey[calls'[p].node]
      <4>1. CASE p = k
        <5>1. calls'[k].node = Node /\ calls'[k].mark = Len(save)
          BY <1>3, <1>6, <2>2 DEF Node, Current
        <5>2. EndOf(p)' = Len(save')
          BY <3>4, <4>1
        <5> HIDE DEF plain
        <5>3. SubSeq(save \o plain, Len(save) + 1, Len(save) + Len(plain)) = plain
          BY <1>3, <3>1, SubSeqOfSecond
        <5>4. SubSeq(save', Len(save) + 1, Len(save')) = plain
          BY <3>1, <5>3
        <5> HIDE DEF k
        <5> QED BY <4>1, <5>1, <5>2, <5>4 DEF plain
      <4>2. CASE p # k
        <5>1. p \in 1 .. k - 1 /\ p < k + 1 /\ calls'[p] = calls[p] /\ calls[p].renamed
          BY <1>3, <3>2, <3>7, <4>2
        <5>2. SubSeq(save, calls[p].mark + 1, EndOf(p)) = PlainKey[calls[p].node]
          BY <1>2, <1>6, <5>1 DEF Saved
        <5>3. EndOf(p) <= Len(save)
          <6>1. k + 1 \in 1 .. k + 1 /\ IsMark(k + 1) /\ MarkOf(k + 1) = Len(save)
            BY <1>3 DEF IsMark, MarkOf
          <6> QED BY <3>5, <5>1, <6>1
        <5>4. EndOf(p) \in Nat /\ calls[p].mark + 1 \in Nat /\ calls[p].mark + 1 >= 1
          BY <1>2, <1>6, <5>1, KeyTypedOfCall DEF EndOf
        <5> HIDE DEF plain
        <5>5. save \in Texts /\ plain \in Texts /\ save' = save \o plain
          BY <1>3, <3>1
        <5>6. SubSeq(save \o plain, calls[p].mark + 1, EndOf(p)) = SubSeq(save, calls[p].mark + 1, EndOf(p))
          BY <5>3, <5>4, <5>5, SubSeqOfFirst
        <5>7. EndOf(p)' = EndOf(p)
          BY <3>3, <5>1
        <5> QED BY <5>1, <5>2, <5>5, <5>6, <5>7
      <4> QED BY <4>1, <4>2
    <3> HIDE DEF k
    <3> QED BY <1>6, <3>1, <3>6, <3>7 DEF Saved
  <2> QED BY <2>1, <2>2
<1>9. Positioned'
  <2>1. dst' = Places[Node].key /\ dst' \in Texts
    <3>1. Places[Node].key = IF Places[Node].action.renameTo # NoPath
                             THEN Places[Node].action.renameTo ELSE PlainKey[Node]
      BY <1>2, <1>3, NodeFacts, PlaceOfChild
    <3>2. Places[Node].key \in Texts
      BY <1>2, <1>3, NodeFacts, PlaceTyped
    <3> QED BY <1>1, <1>3, <1>4, <1>5, <3>1, <3>2
  <2>2. Places[Node].seen
    BY <1>1, <1>3, <1>4
  <2>3. Node' = Node /\ Len(calls') = k
    BY <1>3, <1>6 DEF Node, Current
  <2>4. pc' = "handle" /\ src' = src /\ depth' = depth /\ t' = t /\ sec' = sec
    BY <1>1
  <2>5. Places' = Places /\ HasActions' = HasActions /\ PathOf' = PathOf /\ Texts' = Texts
    BY <1>1, SamePlaces DEF Texts
  <2> QED BY <1>3, <2>1, <2>2, <2>3, <2>4, <2>5 DEF Positioned
<1>10. Collected'
  <2>1. err = "none" /\ FoundNodes = BeforeNode /\ Current.last = Node
    BY <1>1, <1>2 DEF Collected
  <2>2. Node' = Node /\ Current'.last = Node
    BY <1>3, <1>6, <2>1 DEF Node, Current
  <2>3. Ones' = Ones /\ Entries' = Entries /\ EntryOf' = EntryOf /\ Failing' = Failing
    BY <1>1, SamePlaces
  <2>4. BeforeNode' = BeforeNode /\ FoundNodes' = FoundNodes
    BY <1>1, <2>2, <2>3 DEF BeforeNode, FoundNodes
  <2>5. pc' = "handle" /\ UNCHANGED <<doc, found, err>>
    BY <1>1
  <2> QED BY <1>2, <2>1, <2>2, <2>3, <2>4, <2>5 DEF Collected
<1> QED BY <1>1, <1>2, <1>7, <1>8, <1>9, <1>10, InWalkStays DEF Active

LEMMA LeaveKeeps ==
  ASSUME Active, Leave
  PROVE  Active' /\ pc' # "idle"
<1> DEFINE k == Len(calls)
<1>1. /\ UNCHANGED <<t, doc, sec, depth, found, err>>
      /\ pc = "leave" /\ pc' = "visit"
      /\ dst' = Restored /\ save' = Kept
      /\ src' = SubSeq(src, 1, Current.ls)
      /\ calls' = SubSeq(calls, 1, k - 1)
  BY DEF Leave, LeaveWith, Front
<1>2. InWalk /\ Saved /\ Positioned /\ Collected /\ Stacked /\ doc \in Docs /\ t \in Configs
      /\ sec \in DOMAIN t.sections
  BY DEF Active, InWalk
<1>3. /\ k > 1 /\ k \in Nat /\ depth = k - 1 /\ DOMAIN calls = 1 .. k
      /\ src \in Texts /\ dst \in Texts /\ save \in Texts /\ Len(save) \in Nat
      /\ (~HasActions => src = t.sections[sec].srcBase)
      /\ HasActions => Len(src) >= Current.ls /\ SubSeq(src, 1, Current.ls) = Places[Parent(Node)].src
      /\ ~Current.renamed =>
           Len(dst) >= Current.ld /\ SubSeq(dst, 1, Current.ld) = Places[Parent(Node)].out
  BY <1>1, <1>2, CallFacts DEF Positioned, Saved, Texts
<1>4. /\ calls' \in Seq(Frames) /\ Len(calls') = k - 1 /\ DOMAIN calls' = 1 .. k - 1
      /\ \A p \in 1 .. k - 1 : calls'[p] = calls[p]
  <2>1. calls \in Seq(Frames)
    BY <1>2 DEF Stacked
  <2>2. k - 1 \in 0 .. Len(calls)
    BY <1>3
  <2>3. calls' \in Seq(Frames) /\ Len(calls') = k - 1
    BY <1>1, <2>1, <2>2, PrefixTyped
  <2>4. \A p \in 1 .. k - 1 : calls'[p] = calls[p]
    BY <1>1, <1>3, <2>1
  <2> QED BY <2>3, <2>4
<1>5. \A p \in 1 .. k - 1 : p \in 1 .. k /\ p < k /\ (p > 1 => p - 1 \in 1 .. k - 1)
  BY <1>3
<1>6. Stacked'
  <2>1. \A p \in 1 .. k - 1 : p > 1 => Linked(p)'
    <3> SUFFICES ASSUME NEW p \in 1 .. k - 1, p > 1 PROVE Linked(p)'
      OBVIOUS
    <3>1. Linked(p) /\ calls'[p] = calls[p] /\ calls'[p - 1] = calls[p - 1]
      BY <1>2, <1>3, <1>4, <1>5 DEF Stacked
    <3>2. doc' = doc /\ t' = t /\ sec' = sec /\ Places' = Places /\ HasActions' = HasActions
      BY <1>1, SamePlaces
    <3> QED BY <1>5, <3>1, <3>2 DEF Linked, Parent
  <2>2. \A p \in 1 .. k - 1 :
           /\ calls'[p].node <= calls'[p].last
           /\ Places[calls'[p].node].level = p
           /\ ~calls'[p].renamed => calls'[p].mark = 0
    BY <1>2, <1>3, <1>4, <1>5 DEF Stacked
  <2>3. calls'[1].node = Root /\ ~calls'[1].renamed /\ calls' # <<>>
    BY <1>2, <1>3, <1>4 DEF Stacked
  <2>4. \A p, q \in 1 .. k - 1 : p < q =>
          /\ calls'[p].node < calls'[q].node
          /\ \A c \in Nodes : Parent(c) = calls'[p].node /\ c > calls'[p].last => c > calls'[q].node
    BY <1>2, <1>3, <1>4, <1>5 DEF Stacked
  <2>5. /\ Places' = Places /\ Root' = Root /\ Frames' = Frames /\ Nodes' = Nodes /\ doc' = doc
    BY <1>1, SamePlaces
  <2>6. DOMAIN calls' = 1 .. k - 1 /\ calls' \in Seq(Frames)
    BY <1>4
  <2> HIDE DEF k
  <2> QED BY <2>1, <2>2, <2>3, <2>4, <2>5, <2>6 DEF Stacked, Parent
<1>7. \A q \in 1 .. k + 1 : IsMark(q) =>
            /\ NoneBetween(0, q) => MarkOf(q) = 0
            /\ \A p \in 1 .. k : p < q /\ calls[p].renamed =>
                 /\ EndOf(p) <= MarkOf(q)
                 /\ NoneBetween(p, q) => EndOf(p) = MarkOf(q)
  BY <1>2, <1>3 DEF Saved
<1>8. calls[k].renamed =>
        /\ calls[k].mark \in 0 .. Len(save) /\ EndOf(k) = Len(save)
        /\ SubSeq(save, calls[k].mark + 1, Len(save)) = PlainKey[Node]
  <2> SUFFICES ASSUME calls[k].renamed
               PROVE  /\ calls[k].mark \in 0 .. Len(save) /\ EndOf(k) = Len(save)
                      /\ SubSeq(save, calls[k].mark + 1, Len(save)) = PlainKey[Node]
    OBVIOUS
  <2>1. k + 1 \in 1 .. k + 1 /\ IsMark(k + 1) /\ MarkOf(k + 1) = Len(save) /\ k \in 1 .. k /\ k < k + 1
        /\ NoneBetween(k, k + 1)
    BY <1>3 DEF IsMark, MarkOf, NoneBetween
  <2>2. EndOf(k) = Len(save)
    BY <1>7, <2>1
  <2>3. calls[k].mark \in Nat /\ Len(PlainKey[calls[k].node]) \in Nat
    BY <1>2, <2>1, KeyTypedOfCall
  <2>4. calls[k].mark \in 0 .. Len(save)
    BY <1>3, <2>2, <2>3 DEF EndOf
  <2>5. SubSeq(save, calls[k].mark + 1, EndOf(k)) = PlainKey[calls[k].node]
    BY <1>2, <1>3, <2>1 DEF Saved
  <2> QED BY <2>2, <2>4, <2>5 DEF Node, Current
<1> DEFINE left == IF calls[k].renamed THEN calls[k].mark ELSE Len(save)
<1>9. left \in 0 .. Len(save) /\ save' = SubSeq(save, 1, left) /\ save' \in Texts /\ Len(save') = left
  <2>1. left \in 0 .. Len(save)
    BY <1>3, <1>8
  <2>2. save' = SubSeq(save, 1, left)
    <3>1. save = SubSeq(save, 1, Len(save))
      BY <1>3, SubSeqFull DEF Texts
    <3> QED BY <1>1, <3>1 DEF Kept, Current
  <2>3. save \in Seq(Tokens)
    BY <1>3 DEF Texts
  <2> HIDE DEF left
  <2> QED BY <2>1, <2>2, <2>3, PrefixTyped DEF Texts
<1> HIDE DEF left
<1>10. Saved'
  <2>1. \A p \in 1 .. k - 1 : EndOf(p)' = EndOf(p)
    BY <1>1, <1>4, SamePlaces DEF EndOf
  <2>2. ASSUME NEW q \in 1 .. k, IsMark(q)'
        PROVE  \E r \in 1 .. k + 1 :
                 /\ IsMark(r) /\ MarkOf(r) = MarkOf(q)' /\ q <= r
                 /\ \A p \in 0 .. k - 1 : NoneBetween(p, q)' => NoneBetween(p, r)
    <3>1. CASE q < k
      <4>1. q \in 1 .. k + 1 /\ q \in 1 .. k - 1 /\ q # k /\ q # k + 1
        BY <1>3, <3>1
      <4>2. calls'[q] = calls[q] /\ Len(calls') + 1 = k
        BY <1>3, <1>4, <4>1
      <4>3. IsMark(q) /\ MarkOf(q) = MarkOf(q)'
        BY <2>2, <4>1, <4>2 DEF IsMark, MarkOf
      <4>4. ASSUME NEW p \in 0 .. k - 1, NoneBetween(p, q)' PROVE NoneBetween(p, q)
        <5>1. \A x \in 1 .. k : p < x /\ x < q => x \in 1 .. k - 1 /\ calls'[x] = calls[x]
          BY <1>3, <1>4, <3>1
        <5> QED BY <1>3, <1>4, <4>4, <5>1 DEF NoneBetween
      <4> QED BY <4>1, <4>3, <4>4
    <3>2. CASE q = k /\ calls[k].renamed
      <4>1. k \in 1 .. k + 1 /\ IsMark(k) /\ MarkOf(k) = calls[k].mark /\ Len(calls') + 1 = k
        BY <1>3, <1>4, <3>2 DEF IsMark, MarkOf
      <4>2. MarkOf(q)' = left
        BY <1>9, <3>2, <4>1 DEF MarkOf
      <4>3. MarkOf(q)' = MarkOf(k)
        BY <3>2, <4>1, <4>2 DEF left
      <4>4. ASSUME NEW p \in 0 .. k - 1, NoneBetween(p, q)' PROVE NoneBetween(p, k)
        <5>1. \A x \in 1 .. k : p < x /\ x < k => x \in 1 .. k - 1 /\ calls'[x] = calls[x]
          BY <1>3, <1>4
        <5> QED BY <1>3, <1>4, <3>2, <4>4, <5>1 DEF NoneBetween
      <4> QED BY <3>2, <4>1, <4>3, <4>4
    <3>3. CASE q = k /\ ~calls[k].renamed
      <4>1. k + 1 \in 1 .. k + 1 /\ IsMark(k + 1) /\ MarkOf(k + 1) = Len(save) /\ Len(calls') + 1 = k /\ k <= k + 1
        BY <1>3, <1>4 DEF IsMark, MarkOf
      <4>2. MarkOf(q)' = left
        BY <1>9, <3>3, <4>1 DEF MarkOf
      <4>3. MarkOf(q)' = MarkOf(k + 1)
        BY <3>3, <4>1, <4>2 DEF left
      <4>4. ASSUME NEW p \in 0 .. k - 1, NoneBetween(p, q)' PROVE NoneBetween(p, k + 1)
        <5>1. \A x \in 1 .. k : p < x /\ x < k => x \in 1 .. k - 1 /\ calls'[x] = calls[x]
          BY <1>3, <1>4
        <5>2. \A x \in 1 .. k : x < k \/ x = k
          BY <1>3
        <5> QED BY <1>3, <1>4, <3>3, <4>4, <5>1, <5>2 DEF NoneBetween
      <4> QED BY <3>3, <4>1, <4>3, <4>4
    <3> QED BY <1>3, <3>1, <3>2, <3>3
  <2>3. ASSUME NEW q \in 1 .. k, IsMark(q)'
        PROVE  /\ NoneBetween(0, q)' => MarkOf(q)' = 0
               /\ \A p \in 1 .. k - 1 : p < q /\ calls'[p].renamed =>
                    /\ EndOf(p)' <= MarkOf(q)'
                    /\ NoneBetween(p, q)' => EndOf(p)' = MarkOf(q)'
    <3>1. PICK r \in 1 .. k + 1 :
                 /\ IsMark(r) /\ MarkOf(r) = MarkOf(q)' /\ q <= r
                 /\ \A p \in 0 .. k - 1 : NoneBetween(p, q)' => NoneBetween(p, r)
      BY <2>2, <2>3
    <3>2. 0 \in 0 .. k - 1
      BY <1>3
    <3>3. ASSUME NEW p \in 1 .. k - 1, p < q, calls'[p].renamed
          PROVE  /\ EndOf(p)' <= MarkOf(q)'
                 /\ NoneBetween(p, q)' => EndOf(p)' = MarkOf(q)'
      <4>1. p \in 1 .. k /\ p \in 0 .. k - 1 /\ p < r /\ calls[p].renamed
        BY <1>3, <1>4, <3>1, <3>3
      <4> QED BY <1>7, <2>1, <3>1, <4>1
    <3> QED BY <1>7, <3>1, <3>2, <3>3
  <2>4. ASSUME NEW p \in 1 .. k - 1, calls'[p].renamed
        PROVE  SubSeq(save', calls'[p].mark + 1, EndOf(p)') = PlainKey[calls'[p].node]
    <3>1. p \in 1 .. k /\ p < k /\ calls'[p] = calls[p] /\ calls[p].renamed /\ EndOf(p)' = EndOf(p)
      BY <1>4, <1>5, <2>1, <2>4
    <3>2. SubSeq(save, calls[p].mark + 1, EndOf(p)) = PlainKey[calls[p].node]
      BY <1>2, <1>3, <3>1 DEF Saved
    <3>3. EndOf(p) \in Nat /\ calls[p].mark + 1 \in Nat /\ calls[p].mark + 1 >= 1
      BY <1>2, <3>1, KeyTypedOfCall DEF EndOf
    <3>4. EndOf(p) <= left
      <4>1. CASE calls[k].renamed
        <5>1. k \in 1 .. k + 1 /\ IsMark(k) /\ MarkOf(k) = calls[k].mark
          BY <1>3, <4>1 DEF IsMark, MarkOf
        <5> QED BY <1>7, <3>1, <4>1, <5>1 DEF left
      <4>2. CASE ~calls[k].renamed
        <5>1. k + 1 \in 1 .. k + 1 /\ IsMark(k + 1) /\ MarkOf(k + 1) = Len(save) /\ p < k + 1
          BY <1>3, <3>1 DEF IsMark, MarkOf
        <5> QED BY <1>7, <3>1, <4>2, <5>1 DEF left
      <4> QED BY <4>1, <4>2
    <3>5. SubSeq(SubSeq(save, 1, left), calls[p].mark + 1, EndOf(p)) = SubSeq(save, calls[p].mark + 1, EndOf(p))
      <4>1. save \in Texts /\ left \in 0 .. Len(save)
        BY <1>3, <1>9
      <4> QED BY <3>3, <3>4, <4>1, SubSeqOfPrefix
    <3> QED BY <1>9, <3>1, <3>2, <3>5
  <2>5. PlainKey' = PlainKey /\ Texts' = Texts
    BY <1>1, SamePlaces DEF Texts
  <2>6. Len(calls') + 1 = k /\ DOMAIN calls' = 1 .. k - 1 /\ save' \in Texts
    BY <1>3, <1>4, <1>9
  <2> HIDE DEF k
  <2> QED BY <2>3, <2>4, <2>5, <2>6 DEF Saved
<1>11. Positioned'
  <2>1. Node' = Parent(Node) /\ Places[Parent(Node)].open
    <3>1. k - 1 \in 1 .. k - 1 /\ Len(calls') = k - 1
      BY <1>3, <1>4
    <3>2. calls'[k - 1] = calls[k - 1]
      BY <1>4, <3>1
    <3>3. Node' = calls[k - 1].node
      BY <3>1, <3>2 DEF Node, Current
    <3> QED BY <1>2, <1>3, <3>3, NodeFacts
  <2>2. /\ Places[Parent(Node)].out \in Texts /\ Places[Parent(Node)].src \in Texts
        /\ Current.ld = Len(Places[Parent(Node)].out)
        /\ SubSeq(PlainKey[Node], 1, Current.ld) = Places[Parent(Node)].out
    BY <1>2, <1>3, PathIsExtended
  <2>3. dst' = Places[Parent(Node)].out
    <3>1. CASE Current.renamed
      <4>1. Restored = SubSeq(SubSeq(save, calls[k].mark + 1, Len(save)), 1, Current.ld)
        BY <3>1 DEF Restored, Current
      <4>2. SubSeq(save, calls[k].mark + 1, Len(save)) = PlainKey[Node]
        BY <1>8, <3>1 DEF Current
      <4> QED BY <1>1, <2>2, <4>1, <4>2
    <3>2. CASE ~Current.renamed
      BY <1>1, <1>3, <3>2 DEF Restored
    <3> QED BY <3>1, <3>2
  <2>4. HasActions => src' = Places[Parent(Node)].src
    BY <1>1, <1>3
  <2>5. ~HasActions => src' = t.sections[sec].srcBase
    <3> SUFFICES ASSUME ~HasActions PROVE src' = t.sections[sec].srcBase
      OBVIOUS
    <3>1. Current.ls = Len(src)
      BY <1>2, <1>3, NodeFacts DEF Linked, Current
    <3>2. SubSeq(src, 1, Len(src)) = src
      BY <1>3, SubSeqFull DEF Texts
    <3> QED BY <1>1, <1>3, <3>1, <3>2
  <2>6. src' \in Texts /\ dst' \in Texts
    <3>1. t.sections[sec].srcBase \in Texts
      BY <1>2, ConfigTexts
    <3> QED BY <2>2, <2>3, <2>4, <2>5, <3>1
  <2>7. pc' = "visit" /\ depth' = Len(calls') /\ t' = t /\ sec' = sec
    BY <1>1, <1>3, <1>4
  <2>8. Places' = Places /\ HasActions' = HasActions /\ Texts' = Texts
    BY <1>1, SamePlaces DEF Texts
  <2> QED BY <2>1, <2>3, <2>4, <2>5, <2>6, <2>7, <2>8 DEF Positioned
<1>12. Collected'
  <2>1. err = "none" => FoundNodes = NotAheadAbove
    BY <1>1, <1>2 DEF Collected
  <2>2. Ones' = Ones /\ Entries' = Entries /\ EntryOf' = EntryOf /\ Failing' = Failing /\ Nodes' = Nodes /\ doc' = doc
    BY <1>1, SamePlaces
  <2>3. NotAhead' = NotAheadAbove
    <3>1. ASSUME NEW n \in Ones PROVE Ahead(Len(calls), n)' <=> Ahead(k - 1, n)
      <4>1. Ahead(Len(calls), n)' <=>
              \E p \in 1 .. k - 1 : \E c \in Nodes :
                Parent(c) = calls'[p].node /\ c > calls'[p].last /\ c <= n
        BY <1>4, <2>2 DEF Ahead, Parent
      <4>2. Ahead(k - 1, n) <=>
              \E p \in 1 .. k - 1 : \E c \in Nodes :
                Parent(c) = calls'[p].node /\ c > calls'[p].last /\ c <= n
        BY <1>4 DEF Ahead
      <4> QED BY <4>1, <4>2
    <3>2. NotAhead' = {n \in Ones : ~Ahead(Len(calls), n)'}
      BY <2>2 DEF NotAhead
    <3> QED BY <3>1, <3>2 DEF NotAheadAbove
  <2>4. FoundNodes' = FoundNodes /\ Reached(Places)' = Reached(Places)
    BY <1>1, SamePlaces DEF FoundNodes
  <2>5. pc' = "visit" /\ UNCHANGED <<doc, found, err>>
    BY <1>1
  <2> QED BY <1>2, <2>1, <2>2, <2>3, <2>4, <2>5 DEF Collected
<1> QED BY <1>1, <1>2, <1>6, <1>10, <1>11, <1>12, InWalkStays DEF Active

(* The child that comes next. *)
LEMMA NextChild ==
  ASSUME InWalk, Positioned, pc = "visit", Remaining # {}
  PROVE  LET n == Min(Remaining)
         IN  /\ n \in Remaining /\ n \in Nodes /\ n \in Nat /\ n # 1 /\ n # Root
             /\ Parent(n) = Node /\ n > Current.last /\ n > Node /\ Places[Node].open
             /\ \A c \in Nodes : Parent(c) = Node /\ c > Current.last => n <= c
<1> DEFINE n == Min(Remaining)
<1>1. Remaining = {c \in Nodes : Parent(c) = Node /\ c > Current.last}
  BY DEF Remaining, Children, Nodes, Parent
<1>2. Remaining \subseteq Nat
  BY <1>1, DocFacts DEF InWalk
<1>3. \E m \in Remaining : \A c \in Remaining : m <= c
  BY <1>2, LeastNumber
<1>4. n \in Remaining /\ \A c \in Remaining : n <= c
  BY <1>3 DEF Min
<1> HIDE DEF n
<1>5. n \in Nodes /\ n \in Nat /\ Parent(n) = Node /\ n > Current.last
  BY <1>1, <1>2, <1>4
<1>6. /\ Len(calls) \in 1 .. Len(calls) /\ Len(calls) \in Nat
      /\ Node \in Nodes /\ Node \in Nat /\ Node <= Current.last /\ Current.last \in Nat
      /\ Root <= Node /\ Root \in Nat
  BY CallFacts, DocFacts DEF InWalk, Node, Current
<1>7. n > Node /\ n # Root /\ n # 1
  BY <1>5, <1>6, DocFacts DEF InWalk
<1>8. Places[Node].open
  <2>1. CASE Len(calls) > 1
    BY <2>1 DEF Positioned
  <2>2. CASE Len(calls) = 1
    <3>1. Node = Root
      BY <2>2 DEF InWalk, Stacked, Node, Current
    <3>2. IsContainer(Node)
      BY <1>5, <1>7, DocFacts DEF InWalk
    <3> QED BY <3>1, <3>2, PlaceOfRoot DEF InWalk
  <2>3. Len(calls) > 1 \/ Len(calls) = 1
    <3>1. \A k \in Nat : k \in 1 .. k => k > 1 \/ k = 1
      OBVIOUS
    <3> QED BY <1>6, <3>1
  <2> QED BY <2>1, <2>2, <2>3
<1>9. \A c \in Nodes : Parent(c) = Node /\ c > Current.last => n <= c
  BY <1>1, <1>4
<1> QED BY <1>4, <1>5, <1>7, <1>8, <1>9 DEF n

LEMMA VisitedFacts ==
  ASSUME InWalk, Positioned, pc = "visit", Remaining # {}
  PROVE  LET k == Len(calls)
         IN  /\ Visited \in Seq(Frames) /\ Len(Visited) = k /\ DOMAIN Visited = 1 .. k
             /\ k \in Nat /\ k >= 1
             /\ \A p \in 1 .. k :
                  /\ p < k => Visited[p] = calls[p]
                  /\ Visited[p].node = calls[p].node /\ Visited[p].ls = calls[p].ls
                  /\ Visited[p].ld = calls[p].ld /\ Visited[p].mark = calls[p].mark
                  /\ Visited[p].renamed = calls[p].renamed
             /\ Visited[k].last = Min(Remaining)
<1> DEFINE k == Len(calls)
           n == Min(Remaining)
           call == [calls[k] EXCEPT !.last = n]
<1>1. calls \in Seq(Frames) /\ k \in Nat /\ k >= 1 /\ k \in 1 .. k /\ DOMAIN calls = 1 .. k
  BY CallFacts DEF InWalk, Stacked
<1>2. calls[k] \in Frames
  BY <1>1
<1>3. n \in Nodes
  BY NextChild
<1> HIDE DEF n
<1>4. call \in Frames
  BY <1>2, <1>3 DEF Frames
<1>5. call.node = calls[k].node /\ call.ls = calls[k].ls /\ call.ld = calls[k].ld
      /\ call.mark = calls[k].mark /\ call.renamed = calls[k].renamed /\ call.last = n
  BY <1>2 DEF Frames
<1>6. Visited = [calls EXCEPT ![k] = call]
  BY DEF Visited, n
<1> HIDE DEF call
<1>7. Visited \in Seq(Frames) /\ Len(Visited) = k /\ DOMAIN Visited = 1 .. k
  <2>1. Visited \in Seq(Frames)
    BY <1>1, <1>4, <1>6
  <2>2. Len(Visited) = k
    BY <1>1, <1>4, <1>6
  <2> QED BY <2>1, <2>2
<1>8. Visited[k] = call /\ \A p \in 1 .. k : p # k => Visited[p] = calls[p]
  <2> HIDE DEF k
  <2>1. DOMAIN calls = 1 .. k /\ k \in DOMAIN calls
    BY <1>1
  <2> QED BY <1>6, <2>1
<1>9. ASSUME NEW p \in 1 .. k
      PROVE  /\ p < k => Visited[p] = calls[p]
             /\ Visited[p].node = calls[p].node /\ Visited[p].ls = calls[p].ls
             /\ Visited[p].ld = calls[p].ld /\ Visited[p].mark = calls[p].mark
             /\ Visited[p].renamed = calls[p].renamed
  <2> HIDE DEF k
  <2>1. CASE p = k
    <3>1. ~(p < k)
      BY <1>1, <2>1
    <3> QED BY <1>5, <1>8, <2>1, <3>1
  <2>2. CASE p # k
    BY <1>8, <2>2
  <2> QED BY <2>1, <2>2
<1> QED BY <1>1, <1>5, <1>7, <1>8, <1>9 DEF n

LEMMA SkipNamelessKeeps ==
  ASSUME Active, SkipNameless
  PROVE  Active' /\ pc' # "idle"
<1> DEFINE k == Len(calls)
           n == Min(Remaining)
<1>1. /\ UNCHANGED <<t, doc, sec, pc, src, dst, save, depth, found, err>>
      /\ pc = "visit" /\ err = "none" /\ Remaining # {} /\ IsNameless(n)
      /\ calls' = Visited
  BY DEF SkipNameless, Visiting
<1>2. InWalk /\ Saved /\ Positioned /\ Collected /\ Stacked /\ doc \in Docs /\ t \in Configs
      /\ sec \in DOMAIN t.sections
  BY DEF Active, InWalk
<1>3. /\ n \in Nodes /\ n \in Nat /\ n # 1 /\ n # Root
      /\ Parent(n) = Node /\ n > Current.last /\ n > Node /\ Places[Node].open
      /\ \A c \in Nodes : Parent(c) = Node /\ c > Current.last => n <= c
  BY <1>1, <1>2, NextChild
<1>4. /\ calls' \in Seq(Frames) /\ Len(calls') = k /\ DOMAIN calls' = 1 .. k
      /\ k \in Nat /\ k >= 1
      /\ \A p \in 1 .. k :
           /\ p < k => calls'[p] = calls[p]
           /\ calls'[p].node = calls[p].node /\ calls'[p].ls = calls[p].ls
           /\ calls'[p].ld = calls[p].ld /\ calls'[p].mark = calls[p].mark
           /\ calls'[p].renamed = calls[p].renamed
      /\ calls'[k].last = n
  BY <1>1, <1>2, VisitedFacts
<1> HIDE DEF n
<1>5. DOMAIN calls = 1 .. k /\ k \in 1 .. k /\ Node = calls[k].node /\ Current = calls[k]
  BY <1>2, CallFacts DEF Node, Current
<1>6. Stacked'
  <2>1. \A p \in 1 .. k : p > 1 => Linked(p)'
    <3> SUFFICES ASSUME NEW p \in 1 .. k, p > 1 PROVE Linked(p)'
      OBVIOUS
    <3>1. Linked(p) /\ p - 1 \in 1 .. k /\ p - 1 < k
      BY <1>2, <1>4, <1>5 DEF Stacked
    <3>2. calls'[p - 1] = calls[p - 1]
      BY <1>4, <3>1
    <3>3. doc' = doc /\ t' = t /\ sec' = sec /\ pc' = pc /\ Places' = Places /\ HasActions' = HasActions
      BY <1>1, SamePlaces
    <3> QED BY <1>4, <3>1, <3>2, <3>3 DEF Linked, Parent
  <2>2. \A p \in 1 .. k :
           /\ calls'[p].node <= calls'[p].last
           /\ Places[calls'[p].node].level = p
           /\ ~calls'[p].renamed => calls'[p].mark = 0
    <3> SUFFICES ASSUME NEW p \in 1 .. k
                 PROVE  /\ calls'[p].node <= calls'[p].last
                        /\ Places[calls'[p].node].level = p
                        /\ ~calls'[p].renamed => calls'[p].mark = 0
      OBVIOUS
    <3>1. /\ calls[p].node <= calls[p].last
          /\ Places[calls[p].node].level = p
          /\ ~calls[p].renamed => calls[p].mark = 0
      BY <1>2, <1>5 DEF Stacked
    <3>2. calls'[p].node <= calls'[p].last
      <4>1. CASE p < k
        BY <1>4, <3>1, <4>1
      <4>2. CASE p = k
        <5>1. calls[k].node \in Nat /\ n > calls[k].node
          BY <1>2, <1>3, <1>5, CallFacts
        <5> QED BY <1>3, <1>4, <1>5, <4>2, <5>1
      <4> QED BY <1>4, <4>1, <4>2
    <3> QED BY <1>4, <3>1, <3>2
  <2>3. calls'[1].node = Root /\ ~calls'[1].renamed /\ calls' # <<>>
    BY <1>2, <1>4 DEF Stacked
  <2>4. ASSUME NEW p \in 1 .. k, NEW q \in 1 .. k, p < q
        PROVE  /\ calls'[p].node < calls'[q].node
               /\ \A c \in Nodes : Parent(c) = calls'[p].node /\ c > calls'[p].last => c > calls'[q].node
    <3>1. p < k
      BY <1>4, <2>4
    <3>2. calls'[p] = calls[p] /\ calls'[q].node = calls[q].node
      BY <1>4, <3>1
    <3> QED BY <1>2, <1>5, <2>4, <3>2 DEF Stacked
  <2>5. /\ Places' = Places /\ Root' = Root /\ Frames' = Frames /\ Nodes' = Nodes /\ doc' = doc
    BY <1>1, SamePlaces
  <2>6. DOMAIN calls' = 1 .. k /\ calls' \in Seq(Frames)
    BY <1>4
  <2> HIDE DEF k
  <2> QED BY <2>1, <2>2, <2>3, <2>4, <2>5, <2>6 DEF Stacked, Parent
<1>7. Saved'
  <2>1. \A p \in 1 .. k : EndOf(p)' = EndOf(p)
    BY <1>1, <1>4, SamePlaces DEF EndOf
  <2>2. \A q \in 1 .. k + 1 : IsMark(q)' = IsMark(q) /\ MarkOf(q)' = MarkOf(q)
    <3> SUFFICES ASSUME NEW q \in 1 .. k + 1 PROVE IsMark(q)' = IsMark(q) /\ MarkOf(q)' = MarkOf(q)
      OBVIOUS
    <3>1. q = k + 1 \/ q \in 1 .. k
      BY <1>4
    <3> QED BY <1>1, <1>4, <3>1 DEF IsMark, MarkOf
  <2>3. \A p, q : NoneBetween(p, q)' = NoneBetween(p, q)
    BY <1>4, <1>5 DEF NoneBetween
  <2>4. PlainKey' = PlainKey /\ Texts' = Texts /\ save' = save
    BY <1>1, SamePlaces DEF Texts
  <2>5. Len(calls') = k /\ DOMAIN calls' = 1 .. k /\ DOMAIN calls = 1 .. k
        /\ \A p \in 1 .. k : calls'[p].node = calls[p].node /\ calls'[p].mark = calls[p].mark
                             /\ calls'[p].renamed = calls[p].renamed
    BY <1>4, <1>5
  <2>6. /\ save \in Texts
        /\ \A q \in 1 .. k + 1 : IsMark(q) =>
             /\ NoneBetween(0, q) => MarkOf(q) = 0
             /\ \A p \in 1 .. k : p < q /\ calls[p].renamed =>
                  /\ EndOf(p) <= MarkOf(q)
                  /\ NoneBetween(p, q) => EndOf(p) = MarkOf(q)
        /\ \A p \in 1 .. k : calls[p].renamed =>
             SubSeq(save, calls[p].mark + 1, EndOf(p)) = PlainKey[calls[p].node]
    BY <1>2, <1>5 DEF Saved
  <2> HIDE DEF k
  <2> QED BY <2>1, <2>2, <2>3, <2>4, <2>5, <2>6 DEF Saved
<1>8. Node' = Node
  BY <1>4, <1>5 DEF Node, Current
<1>9. Positioned'
  <2>1. Places' = Places /\ HasActions' = HasActions /\ Texts' = Texts
    BY <1>1, SamePlaces DEF Texts
  <2>2. UNCHANGED <<t, sec, pc, src, dst, depth>> /\ Len(calls') = k /\ pc = "visit"
    BY <1>1, <1>4
  <2>3. /\ src \in Texts /\ dst \in Texts
        /\ ~HasActions => src = t.sections[sec].srcBase
        /\ dst = Places[Node].out
        /\ HasActions => src = Places[Node].src
        /\ depth = k
    BY <1>1, <1>2 DEF Positioned
  <2> HIDE DEF k
  <2> QED BY <1>3, <1>8, <2>1, <2>2, <2>3 DEF Positioned
<1>10. NotAhead' = NotAhead
  <2>1. ~Places[n].seen /\ ~Places[n].open
    BY <1>1, <1>2, <1>3, PlaceOfChild DEF n
  <2>2. Ones' = Ones /\ Nodes' = Nodes /\ Places' = Places /\ doc' = doc
    BY <1>1, SamePlaces
  <2>3. NoGap'
    <3>1. (InWalk => NoGap)'
      BY GapIsAhead, PTL
    <3> QED BY <1>1, <1>2, <1>6, <3>1, InWalkStays
  <2>4. \A m \in Nodes : m > n /\ Places[m].seen =>
          \E p \in 1 .. k : \E c \in Nodes : Parent(c) = calls'[p].node /\ c > calls'[p].last /\ c <= m
    <3>1. Parent(calls'[k].last) = calls'[k].node /\ calls'[k].last = n
      BY <1>3, <1>4, <1>5
    <3>2. \A j \in 1 .. k :
            Parent(calls'[j].last) = calls'[j].node /\ ~Places[calls'[j].last].open
            => \A m \in Nodes : m > calls'[j].last /\ Places[m].seen => Ahead(j, m)'
      <4> HIDE DEF k
      <4> QED BY <1>4, <2>2, <2>3 DEF NoGap, Parent
    <3>3. \A j \in 1 .. k : \A m \in Nodes : Ahead(j, m)' =>
            \E p \in 1 .. j : \E c \in Nodes : Parent(c) = calls'[p].node /\ c > calls'[p].last /\ c <= m
      BY <2>2 DEF Ahead, Parent
    <3> HIDE DEF k
    <3> QED BY <1>5, <2>1, <3>1, <3>2, <3>3
  <2>5. ASSUME NEW m \in Ones PROVE Ahead(Len(calls), m)' <=> Ahead(Len(calls), m)
    <3>1. m \in Nodes /\ m \in Nat /\ Places[m].seen /\ m # n
      BY <1>2, <2>1, DocFacts DEF Ones, Single, Nodes
    <3>2. ASSUME Ahead(Len(calls), m)' PROVE Ahead(Len(calls), m)
      <4>1. PICK p \in 1 .. k : \E c \in Nodes : Parent(c) = calls'[p].node /\ c > calls'[p].last /\ c <= m
        BY <1>4, <2>2, <3>2 DEF Ahead, Parent
      <4>2. PICK c \in Nodes : Parent(c) = calls'[p].node /\ c > calls'[p].last /\ c <= m
        BY <4>1
      <4>3. c > calls[p].last
        <5>1. CASE p < k
          BY <1>4, <4>2, <5>1
        <5>2. CASE p = k
          <6>1. c \in Nat /\ calls[k].last \in Nat
            BY <1>2, <1>5, DocFacts, CallFacts
          <6> QED BY <1>3, <1>4, <1>5, <4>2, <5>2, <6>1
        <5> QED BY <1>4, <5>1, <5>2
      <4> QED BY <1>4, <4>2, <4>3 DEF Ahead
    <3>3. ASSUME Ahead(Len(calls), m) PROVE Ahead(Len(calls), m)'
      <4>1. PICK p \in 1 .. k : \E c \in Nodes : Parent(c) = calls[p].node /\ c > calls[p].last /\ c <= m
        BY <3>3 DEF Ahead
      <4>2. PICK c \in Nodes : Parent(c) = calls[p].node /\ c > calls[p].last /\ c <= m
        BY <4>1
      <4>3. CASE p < k
        <5>1. calls'[p] = calls[p]
          BY <1>4, <4>3
        <5> QED BY <1>4, <2>2, <4>2, <5>1 DEF Ahead, Parent
      <4>4. CASE p = k
        <5>1. n <= c /\ c \in Nat
          BY <1>2, <1>3, <1>5, <4>2, <4>4, DocFacts
        <5>2. m > n
          <6>1. n <= c /\ c <= m /\ n # m /\ n \in Nat /\ m \in Nat /\ c \in Nat
            BY <1>3, <3>1, <4>2, <5>1
          <6> QED BY <6>1
        <5>3. \E q \in 1 .. k : \E d \in Nodes : Parent(d) = calls'[q].node /\ d > calls'[q].last /\ d <= m
          BY <2>4, <3>1, <5>2
        <5> QED BY <1>4, <2>2, <5>3 DEF Ahead, Parent
      <4>5. p < k \/ p = k
        <5> HIDE DEF k
        <5> QED BY <1>4
      <4> QED BY <4>3, <4>4, <4>5
    <3> QED BY <3>2, <3>3
  <2>6. NotAhead' = {m \in Ones : ~Ahead(Len(calls), m)'}
    BY <2>2 DEF NotAhead
  <2> QED BY <2>5, <2>6 DEF NotAhead
<1>11. Collected'
  <2>1. FoundNodes = NotAhead
    BY <1>1, <1>2 DEF Collected
  <2>2. Ones' = Ones /\ Entries' = Entries /\ EntryOf' = EntryOf /\ Failing' = Failing
    BY <1>1, SamePlaces
  <2>3. UNCHANGED <<doc, found, err>> /\ pc' = "visit" /\ err = "none" /\ FoundNodes' = FoundNodes
    BY <1>1 DEF FoundNodes
  <2> QED BY <1>2, <1>10, <2>1, <2>2, <2>3 DEF Collected
<1> QED BY <1>1, <1>2, <1>6, <1>7, <1>9, <1>11, InWalkStays DEF Active

LEMMA ChildKeeps ==
  ASSUME Active, Child
  PROVE  Active' /\ pc' # "idle"
<1> DEFINE k == Len(calls)
           n == Min(Remaining)
<1>1. /\ UNCHANGED <<t, doc, sec, save, depth, found, err>>
      /\ pc = "visit" /\ err = "none" /\ Remaining # {} /\ ~IsNameless(n)
      /\ calls' = Append(Visited, Call(n))
      /\ src' = IF HasActions THEN src \o Key(n) ELSE src
      /\ dst' = dst \o Segment(n)
      /\ pc' = "node"
  BY DEF Child, Visiting
<1>2. InWalk /\ Saved /\ Positioned /\ Collected /\ Stacked /\ doc \in Docs /\ t \in Configs
      /\ sec \in DOMAIN t.sections
  BY DEF Active, InWalk
<1>3. /\ n \in Remaining /\ n \in Nodes /\ n \in Nat /\ n # 1 /\ n # Root
      /\ Parent(n) = Node /\ n > Current.last /\ n > Node /\ Places[Node].open
      /\ \A c \in Nodes : Parent(c) = Node /\ c > Current.last => n <= c
  BY <1>1, <1>2, NextChild
<1>4. /\ dst = Places[Node].out /\ (HasActions => src = Places[Node].src)
      /\ src \in Texts /\ dst \in Texts /\ (~HasActions => src = t.sections[sec].srcBase)
      /\ depth = k /\ Len(src) \in Nat /\ Len(dst) \in Nat
  BY <1>1, <1>2 DEF Positioned, Texts
<1>5. /\ calls' \in Seq(Frames) /\ Len(calls') = k + 1 /\ DOMAIN calls' = 1 .. k + 1
      /\ k \in Nat /\ k >= 1
      /\ \A p \in 1 .. k :
           /\ p < k => calls'[p] = calls[p]
           /\ calls'[p].node = calls[p].node /\ calls'[p].ls = calls[p].ls
           /\ calls'[p].ld = calls[p].ld /\ calls'[p].mark = calls[p].mark
           /\ calls'[p].renamed = calls[p].renamed
      /\ calls'[k].last = n /\ calls'[k + 1] = Call(n)
  <2>1. /\ Visited \in Seq(Frames) /\ Len(Visited) = k /\ DOMAIN Visited = 1 .. k
        /\ k \in Nat /\ k >= 1
        /\ \A p \in 1 .. k :
             /\ p < k => Visited[p] = calls[p]
             /\ Visited[p].node = calls[p].node /\ Visited[p].ls = calls[p].ls
             /\ Visited[p].ld = calls[p].ld /\ Visited[p].mark = calls[p].mark
             /\ Visited[p].renamed = calls[p].renamed
        /\ Visited[k].last = n
    BY <1>1, <1>2, VisitedFacts
  <2>2. Call(n) \in Frames
    BY <1>3, <1>4 DEF Call, Frames
  <2> DEFINE visited == Visited
             call == Call(n)
  <2>3. visited \in Seq(Frames) /\ Len(visited) = k /\ call \in Frames /\ calls' = Append(visited, call)
    BY <1>1, <2>1, <2>2
  <2> HIDE DEF visited, call
  <2>4. /\ calls' \in Seq(Frames) /\ Len(calls') = k + 1 /\ calls'[k + 1] = call
        /\ \A p \in 1 .. k : calls'[p] = visited[p]
    BY <2>3, AppendProperties
  <2>5. DOMAIN calls' = 1 .. k + 1
    BY <2>4
  <2>6. k \in 1 .. k
    BY <2>1
  <2> USE DEF visited, call
  <2> HIDE DEF k, n
  <2> QED BY <2>1, <2>4, <2>5, <2>6
<1> HIDE DEF n
<1>6. DOMAIN calls = 1 .. k /\ k \in 1 .. k /\ Node = calls[k].node /\ Current = calls[k]
      /\ Node \in Nodes /\ Node \in Nat
  BY <1>2, CallFacts DEF Node, Current
<1>7. /\ calls'[k + 1].node = n /\ calls'[k + 1].last = n /\ calls'[k + 1].mark = 0 /\ ~calls'[k + 1].renamed
      /\ calls'[k + 1].ls = Len(src) /\ calls'[k + 1].ld = Len(dst)
  BY <1>5 DEF Call
<1>8. \A p \in 1 .. k + 1 : p \in 1 .. k \/ p = k + 1
  BY <1>5
<1>9. /\ Places[n].level = k + 1
      /\ Places[n].seen <=> ~Places[n].action.drop
  <2>1. Places[Node].level = k
    BY <1>2, <1>6 DEF Stacked
  <2> QED BY <1>1, <1>2, <1>3, <2>1, PlaceOfChild
<1>10. Stacked'
  <2>1. ASSUME NEW p \in 1 .. k + 1, p > 1 PROVE Linked(p)'
    <3>1. doc' = doc /\ t' = t /\ sec' = sec /\ Places' = Places /\ HasActions' = HasActions
          /\ pc = "visit" /\ pc' = "node"
      BY <1>1, SamePlaces
    <3>2. CASE p \in 1 .. k
      <4>1. Linked(p) /\ p - 1 \in 1 .. k /\ p - 1 < k
        BY <1>2, <1>5, <1>6, <2>1, <3>2 DEF Stacked
      <4>2. calls'[p - 1] = calls[p - 1]
        BY <1>5, <4>1
      <4> HIDE DEF k
      <4> QED BY <1>5, <3>1, <3>2, <4>1, <4>2 DEF Linked, Parent
    <3>3. CASE p = k + 1
      <4>1. p - 1 = k
        BY <1>5, <3>3
      <4>2. calls'[p - 1].node = Node /\ calls'[p - 1].last = n
        BY <1>5, <1>6, <4>1
      <4>3. /\ Len(dst) = Len(Places[Node].out)
            /\ Len(src) = IF HasActions THEN Len(Places[Node].src) ELSE Len(t.sections[sec].srcBase)
        BY <1>4
      <4>4. ~ (p < Len(calls'))
        BY <1>5, <3>3
      <4> HIDE DEF k
      <4> QED BY <1>3, <1>7, <3>1, <3>3, <4>2, <4>3, <4>4 DEF Linked, Parent
    <3> QED BY <1>8, <3>2, <3>3
  <2>2. ASSUME NEW p \in 1 .. k + 1
        PROVE  /\ calls'[p].node <= calls'[p].last
               /\ Places[calls'[p].node].level = p
               /\ ~calls'[p].renamed => calls'[p].mark = 0
    <3>1. CASE p = k + 1
      BY <1>3, <1>7, <1>9, <3>1
    <3>2. CASE p \in 1 .. k
      <4>1. /\ calls[p].node <= calls[p].last
            /\ Places[calls[p].node].level = p
            /\ ~calls[p].renamed => calls[p].mark = 0
        BY <1>2, <1>6, <3>2 DEF Stacked
      <4>2. calls'[p].node <= calls'[p].last
        <5>1. CASE p < k
          BY <1>5, <3>2, <4>1, <5>1
        <5>2. CASE p = k
          BY <1>3, <1>5, <1>6, <5>2
        <5>3. p < k \/ p = k
          BY <1>5, <3>2
        <5> QED BY <5>1, <5>2, <5>3
      <4> QED BY <1>5, <3>2, <4>1, <4>2
    <3> QED BY <1>8, <3>1, <3>2
  <2>3. calls'[1].node = Root /\ ~calls'[1].renamed /\ calls' # <<>>
    <3>1. 1 \in 1 .. k
      BY <1>5
    <3> QED BY <1>2, <1>5, <3>1 DEF Stacked
  <2>4. ASSUME NEW p \in 1 .. k + 1, NEW q \in 1 .. k + 1, p < q
        PROVE  /\ calls'[p].node < calls'[q].node
               /\ \A c \in Nodes : Parent(c) = calls'[p].node /\ c > calls'[p].last => c > calls'[q].node
    <3>1. p \in 1 .. k /\ calls[p].node \in Nat
      BY <1>2, <1>5, <2>4, CallFacts
    <3>2. CASE q \in 1 .. k
      <4>1. p < k
        BY <1>5, <2>4, <3>2
      <4>2. calls'[p] = calls[p] /\ calls'[q].node = calls[q].node
        BY <1>5, <3>1, <3>2, <4>1
      <4> QED BY <1>2, <1>6, <2>4, <3>1, <3>2, <4>2 DEF Stacked
    <3>3. CASE q = k + 1 /\ p = k
      BY <1>3, <1>5, <1>6, <1>7, <3>3
    <3>4. CASE q = k + 1 /\ p < k
      <4>1. calls'[p] = calls[p] /\ p \in 1 .. Len(calls) - 1 /\ calls'[q].node = n
        BY <1>5, <1>7, <3>1, <3>4
      <4>2. calls[p].node < Node
        BY <1>2, <1>6, <3>1, <3>4 DEF Stacked
      <4>3. calls[p].node < n
        BY <1>3, <1>6, <3>1, <4>2
      <4>4. \A c \in Nodes : Parent(c) = calls[p].node /\ c > calls[p].last => c > n
        BY <1>2, <1>3, <4>1, AboveIsLater
      <4> QED BY <4>1, <4>3, <4>4
    <3>5. p < k \/ p = k
      BY <1>5, <3>1
    <3> QED BY <1>8, <3>2, <3>3, <3>4, <3>5
  <2>5. /\ Places' = Places /\ Root' = Root /\ Frames' = Frames /\ Nodes' = Nodes /\ doc' = doc
    BY <1>1, SamePlaces
  <2>6. DOMAIN calls' = 1 .. k + 1 /\ calls' \in Seq(Frames)
    BY <1>5
  <2> HIDE DEF k
  <2> QED BY <2>1, <2>2, <2>3, <2>4, <2>5, <2>6 DEF Stacked, Parent
<1>11. Saved'
  <2>1. \A p \in 1 .. k : EndOf(p)' = EndOf(p)
    BY <1>1, <1>5, SamePlaces DEF EndOf
  <2>2. ASSUME NEW q \in 1 .. k + 2, IsMark(q)'
        PROVE  \E r \in 1 .. k + 1 :
                 /\ IsMark(r) /\ MarkOf(r) = MarkOf(q)'
                 /\ \A p \in 1 .. k : p < q => p < r
                 /\ \A p \in 0 .. k : NoneBetween(p, q)' => NoneBetween(p, r)
    <3>1. CASE q \in 1 .. k
      <4>1. q \in 1 .. k + 1 /\ q # k + 1 /\ q # k + 2
        BY <1>5, <3>1
      <4>2. Len(calls') + 1 = k + 2 /\ Len(calls) + 1 = k + 1
        BY <1>5
      <4>3. IsMark(q) /\ MarkOf(q) = MarkOf(q)'
        BY <1>5, <2>2, <3>1, <4>1, <4>2 DEF IsMark, MarkOf
      <4>4. ASSUME NEW p \in 0 .. k, NoneBetween(p, q)' PROVE NoneBetween(p, q)
        <5>1. \A x \in 1 .. k : x \in 1 .. k + 1 /\ calls'[x].renamed = calls[x].renamed
          BY <1>5
        <5> QED BY <1>5, <1>6, <4>4, <5>1 DEF NoneBetween
      <4> QED BY <4>1, <4>3, <4>4
    <3>2. CASE q = k + 1
      <4>1. ~IsMark(q)'
        BY <1>5, <1>7, <3>2 DEF IsMark
      <4> QED BY <2>2, <4>1
    <3>3. CASE q = k + 2
      <4>1. k + 1 \in 1 .. k + 1 /\ IsMark(k + 1) /\ MarkOf(k + 1) = Len(save)
        BY <1>5 DEF IsMark, MarkOf
      <4>2. Len(calls') + 1 = k + 2
        BY <1>5
      <4>3. MarkOf(q)' = Len(save)
        BY <1>1, <3>3, <4>2 DEF MarkOf
      <4>4. ASSUME NEW p \in 0 .. k, NoneBetween(p, q)' PROVE NoneBetween(p, k + 1)
        <5>1. \A x \in 1 .. k : x \in 1 .. k + 1 /\ calls'[x].renamed = calls[x].renamed /\ x < k + 2
          BY <1>5
        <5> QED BY <1>5, <1>6, <3>3, <4>4, <5>1 DEF NoneBetween
      <4>5. \A p \in 1 .. k : p < k + 1
        BY <1>5
      <4> QED BY <4>1, <4>3, <4>4, <4>5
    <3>4. q \in 1 .. k \/ q = k + 1 \/ q = k + 2
      BY <1>5
    <3> QED BY <3>1, <3>2, <3>3, <3>4
  <2>3. \A q \in 1 .. k + 1 : IsMark(q) =>
            /\ NoneBetween(0, q) => MarkOf(q) = 0
            /\ \A p \in 1 .. k : p < q /\ calls[p].renamed =>
                 /\ EndOf(p) <= MarkOf(q)
                 /\ NoneBetween(p, q) => EndOf(p) = MarkOf(q)
    BY <1>2, <1>6 DEF Saved
  <2>4. \A p \in 1 .. k + 1 : calls'[p].renamed =>
          p \in 1 .. k /\ p \in 0 .. k /\ calls[p].renamed /\ EndOf(p)' = EndOf(p)
    <3> SUFFICES ASSUME NEW p \in 1 .. k + 1, calls'[p].renamed
                 PROVE  p \in 1 .. k /\ p \in 0 .. k /\ calls[p].renamed /\ EndOf(p)' = EndOf(p)
      OBVIOUS
    <3>1. p \in 1 .. k
      BY <1>7, <1>8
    <3>2. p \in 0 .. k
      BY <1>5, <3>1
    <3> QED BY <1>5, <2>1, <3>1, <3>2
  <2>5. ASSUME NEW q \in 1 .. k + 2, IsMark(q)'
        PROVE  /\ NoneBetween(0, q)' => MarkOf(q)' = 0
               /\ \A p \in 1 .. k + 1 : p < q /\ calls'[p].renamed =>
                    /\ EndOf(p)' <= MarkOf(q)'
                    /\ NoneBetween(p, q)' => EndOf(p)' = MarkOf(q)'
    <3>1. PICK r \in 1 .. k + 1 :
                 /\ IsMark(r) /\ MarkOf(r) = MarkOf(q)'
                 /\ \A p \in 1 .. k : p < q => p < r
                 /\ \A p \in 0 .. k : NoneBetween(p, q)' => NoneBetween(p, r)
      BY <2>2, <2>5
    <3>2. 0 \in 0 .. k
      BY <1>5
    <3>3. ASSUME NEW p \in 1 .. k + 1, p < q, calls'[p].renamed
          PROVE  /\ EndOf(p)' <= MarkOf(q)'
                 /\ NoneBetween(p, q)' => EndOf(p)' = MarkOf(q)'
      <4>1. p \in 1 .. k /\ p \in 0 .. k /\ calls[p].renamed /\ EndOf(p)' = EndOf(p)
        BY <2>4, <3>3
      <4>2. p < r
        BY <3>1, <3>3, <4>1
      <4> QED BY <2>3, <3>1, <4>1, <4>2
    <3> QED BY <2>3, <3>1, <3>2, <3>3
  <2>6. ASSUME NEW p \in 1 .. k + 1, calls'[p].renamed
        PROVE  SubSeq(save, calls'[p].mark + 1, EndOf(p)') = PlainKey[calls'[p].node]
    BY <1>2, <1>5, <1>6, <2>4, <2>6 DEF Saved
  <2>7. PlainKey' = PlainKey /\ Texts' = Texts /\ save' = save /\ save \in Texts
    BY <1>1, <1>2, SamePlaces DEF Texts, Saved
  <2>8. Len(calls') + 1 = k + 2 /\ DOMAIN calls' = 1 .. k + 1
    BY <1>5
  <2> HIDE DEF k
  <2> QED BY <2>5, <2>6, <2>7, <2>8 DEF Saved
<1>12. Node' = n /\ Current'.last = n /\ ~Current'.renamed
  BY <1>5, <1>7 DEF Node, Current
<1>13. Positioned'
  <2>1. Places' = Places /\ HasActions' = HasActions /\ Texts' = Texts
        /\ PathOf' = PathOf /\ PlainKey' = PlainKey
    BY <1>1, SamePlaces DEF Texts
  <2>2. t' = t /\ sec' = sec /\ pc' = "node" /\ Len(calls') > 1 /\ depth' = Len(calls') - 1
    BY <1>1, <1>4, <1>5
  <2>3. dst' = PlainKey[n] /\ (HasActions => src' = PathOf[n])
    <3>1. PathOf[n] = Places[Node].src \o Key(n) /\ PlainKey[n] = Places[Node].out \o Segment(n)
      BY <1>3 DEF PathOf, PlainKey
    <3> QED BY <1>1, <1>4, <3>1
  <2>4. PlainKey[n] \in Texts /\ PathOf[n] \in Texts
    BY <1>2, <1>3, KeyTyped
  <2>5. src' \in Texts /\ (~HasActions => src' = t.sections[sec].srcBase)
    BY <1>1, <1>4, <2>3, <2>4
  <2> QED BY <1>9, <1>12, <2>1, <2>2, <2>3, <2>4, <2>5 DEF Positioned
<1>14. Collected'
  <2>1. FoundNodes = NotAhead
    BY <1>1, <1>2 DEF Collected
  <2>2. Ones' = Ones /\ Entries' = Entries /\ EntryOf' = EntryOf /\ Failing' = Failing
    BY <1>1, SamePlaces
  <2>3. ASSUME NEW m \in Ones PROVE ~Ahead(Len(calls), m) <=> m < n
    <3>1. m \in Nodes /\ m \in Nat
      BY <1>2, DocFacts DEF Ones, Single, Nodes
    <3>2. ASSUME Ahead(Len(calls), m) PROVE n <= m
      <4>1. PICK p \in 1 .. k : \E c \in Nodes : Parent(c) = calls[p].node /\ c > calls[p].last /\ c <= m
        BY <3>2 DEF Ahead
      <4>2. PICK c \in Nodes : Parent(c) = calls[p].node /\ c > calls[p].last /\ c <= m
        BY <4>1
      <4>3. c \in Nat
        BY <1>2, DocFacts
      <4>4. CASE p = k
        <5>1. n <= c
          BY <1>3, <1>6, <4>2, <4>4
        <5> QED BY <1>3, <3>1, <4>2, <4>3, <5>1
      <4>5. CASE p # k
        <5>1. p \in 1 .. Len(calls) - 1
          BY <1>5, <4>5
        <5>2. c > n
          BY <1>2, <1>3, <4>2, <5>1, AboveIsLater
        <5> QED BY <1>3, <3>1, <4>2, <4>3, <5>2
      <4> QED BY <4>4, <4>5
    <3>3. ASSUME n <= m PROVE Ahead(Len(calls), m)
      BY <1>3, <1>6, <3>3 DEF Ahead
    <3>4. ~(m < n) <=> n <= m
      BY <1>3, <3>1
    <3> QED BY <3>2, <3>3, <3>4
  <2>4. BeforeNode' = NotAhead
    BY <1>12, <2>2, <2>3 DEF BeforeNode, NotAhead
  <2>5. UNCHANGED <<doc, found, err>> /\ pc' = "node" /\ err = "none" /\ FoundNodes' = FoundNodes
    BY <1>1 DEF FoundNodes
  <2> QED BY <1>2, <1>12, <2>1, <2>2, <2>4, <2>5 DEF Collected
<1> QED BY <1>1, <1>2, <1>10, <1>11, <1>13, <1>14, InWalkStays DEF Active

(* The first state of a section. *)
Started ==
  /\ doc \in Docs /\ t \in Configs /\ sec \in DOMAIN t.sections /\ Root \in Nodes
  /\ pc = "visit" /\ err = "none" /\ found = <<>> /\ save = <<>> /\ depth = 1
  /\ src = t.sections[sec].srcBase /\ dst = t.sections[sec].dstBase
  /\ \E call \in Frames :
       /\ calls = <<call>>
       /\ call.node = Root /\ call.last = Root /\ call.mark = 0 /\ ~call.renamed

LEMMA StartedIsActive == Started => Active
<1> SUFFICES ASSUME Started PROVE Active
  OBVIOUS
<1>1. /\ doc \in Docs /\ t \in Configs /\ sec \in DOMAIN t.sections /\ Root \in Nodes
      /\ pc = "visit" /\ err = "none" /\ found = <<>> /\ save = <<>> /\ depth = 1
      /\ src = t.sections[sec].srcBase /\ dst = t.sections[sec].dstBase
  BY DEF Started
<1>2. PICK call \in Frames :
        calls = <<call>> /\ call.node = Root /\ call.last = Root /\ call.mark = 0 /\ ~call.renamed
  BY DEF Started
<1>3. calls \in Seq(Frames) /\ Len(calls) = 1 /\ DOMAIN calls = {1} /\ calls[1] = call
  BY <1>2
<1>4. /\ Places[Root].level = 1 /\ Places[Root].src = t.sections[sec].srcBase
      /\ Places[Root].out = t.sections[sec].dstBase /\ ~Places[Root].seen
  BY <1>1, PlaceOfRoot
<1>5. Stacked
  BY <1>1, <1>2, <1>3, <1>4, DocFacts DEF Stacked
<1>6. InWalk
  BY <1>1, <1>5 DEF InWalk
<1>7. Saved
  <2>1. save \in Texts /\ Len(save) = 0
    BY <1>1 DEF Texts
  <2>2. \A q \in 1 .. Len(calls) + 1 : IsMark(q) => MarkOf(q) = 0
    BY <1>2, <1>3, <2>1 DEF IsMark, MarkOf
  <2> QED BY <1>2, <1>3, <2>1, <2>2 DEF Saved
<1>8. Positioned
  BY <1>1, <1>2, <1>3, <1>4, ConfigTexts DEF Positioned, Node, Current
<1>9. Collected
  <2>1. ASSUME NEW n \in Ones PROVE Ahead(1, n)
    <3>1. n \in Nodes /\ Places[n].seen
      BY DEF Ones, Single, Nodes
    <3>2. Root <= n /\ n # Root /\ n \in Nat /\ Root \in Nat
      BY <1>1, <1>4, <3>1, PlaceAfterRoot, DocFacts
    <3>3. NoGap
      BY <1>6, GapIsAhead
    <3> QED BY <1>2, <1>3, <3>1, <3>2, <3>3 DEF NoGap
  <2>2. NotAhead = {}
    BY <1>3, <2>1 DEF NotAhead
  <2>3. FoundNodes = {} /\ found \in Seq(Entries) /\ DOMAIN found = {}
    BY <1>1 DEF FoundNodes
  <2> QED BY <1>1, <2>2, <2>3 DEF Collected
<1> QED BY <1>6, <1>7, <1>8, <1>9 DEF Active

LEMMA SectionRoot == \A x : t.sections[sec] = x => Root = RootOf(x)
BY DEF Root

LEMMA StartSectionKeeps ==
  ASSUME Typed, Idle, NEW s \in DOMAIN t.sections, StartSection(s)
  PROVE  Active' /\ pc' # "idle"
<1>1. /\ pc = "idle" /\ err = "none" /\ doc \in Docs /\ t \in Configs
      /\ RootOf(t.sections[s]) # 0 /\ sec' = s
      /\ src' = t.sections[s].srcBase /\ dst' = t.sections[s].dstBase
      /\ save' = <<>> /\ depth' = 1 /\ found' = <<>> /\ pc' = "visit"
      /\ calls' = <<Call(RootOf(t.sections[s]))>>
      /\ UNCHANGED <<t, doc, err>>
      /\ src \in Texts /\ dst \in Texts
  BY DEF StartSection, Typed, Idle
<1>2. RootOf(t.sections[s]) \in Nodes
  BY <1>1, RootIsNode
<1>3. Root' = RootOf(t.sections[s])
  <2>1. (\A x : t.sections[sec] = x => Root = RootOf(x))'
    BY SectionRoot, PTL
  <2>2. ASSUME NEW x PROVE RootOf(x)' = RootOf(x)
    <3>1. doc' = doc
      BY <1>1
    <3> QED BY <3>1, SMT DEF RootOf, Key, Children
  <2>3. t'.sections[sec'] = t.sections[s]
    BY <1>1
  <2> QED BY <2>1, <2>2, <2>3
<1>4. Nodes' = Nodes /\ Frames' = Frames
  BY <1>1 DEF Nodes, Frames
<1>5. Call(Root') \in Frames
  BY <1>1, <1>2, <1>3 DEF Call, Frames, Texts
<1>6. Started'
  BY <1>1, <1>2, <1>3, <1>4, <1>5 DEF Started, Call
<1>7. (Started => Active)'
  BY StartedIsActive, PTL
<1> QED BY <1>1, <1>6, <1>7

-----------------------------------------------------------------------------
(* The invariant.                                                           *)

LEMMA StepIsTyped ==
  ASSUME Typed, Next
  PROVE  Typed'
<1>1. CASE Build
  BY <1>1, SectionsAreNumbered DEF Build, Typed
<1>2. ASSUME NEW s \in DOMAIN t.sections, StartSection(s) PROVE Typed'
  <2>1. s \in 0 .. Len(t.sections)
    BY SectionsAreNumbered DEF Typed
  <2> QED BY <1>2, <2>1 DEF StartSection, Typed
<1>3. CASE SkipNameless \/ Child \/ Drop \/ Rename \/ Descend \/ Leave
  BY <1>3 DEF SkipNameless, Child, Drop, Rename, Descend, Leave, LeaveWith, Visiting, Typed
<1>4. CASE Write \/ EndVisit
  BY <1>4 DEF Write, EndVisit, EndVisitAt, Typed
<1> QED BY <1>1, <1>2, <1>3, <1>4 DEF Next, Step

LEMMA ActiveIsWalking ==
  ASSUME IInv, pc # "idle"
  PROVE  Active
BY DEF IInv, Typed, Walking, Active, InWalk

(* The steps of a section, together. *)
LEMMA WalkKeeps ==
  ASSUME IInv, Step
  PROVE  /\ pc' # "idle" => Active'
         /\ pc' = "idle" => Idle'
<1>1. pc # "idle"
  BY DEF Step, SkipNameless, Child, Drop, Rename, Descend, Write, EndVisit, EndVisitAt, Leave,
         LeaveWith, Visiting
<1>2. Active
  BY <1>1, ActiveIsWalking
<1>3. CASE SkipNameless
  BY <1>2, <1>3, SkipNamelessKeeps
<1>4. CASE Child
  BY <1>2, <1>4, ChildKeeps
<1>5. CASE Drop
  BY <1>2, <1>5, DropKeeps
<1>6. CASE Rename
  BY <1>2, <1>6, RenameKeeps
<1>7. CASE Descend
  BY <1>2, <1>7, DescendKeeps
<1>8. CASE Write
  BY <1>2, <1>8, WriteKeeps
<1>9. CASE EndVisit
  BY <1>2, <1>9, EndVisitKeeps
<1>10. CASE Leave
  BY <1>2, <1>10, LeaveKeeps
<1> QED BY <1>3, <1>4, <1>5, <1>6, <1>7, <1>8, <1>9, <1>10 DEF Step

(* A step that changes nothing. *)
LEMMA StutterKeeps ==
  ASSUME IInv, UNCHANGED vars
  PROVE  /\ Typed'
         /\ pc' # "idle" => Active'
         /\ pc' = "idle" => Idle'
<1>1. UNCHANGED <<t, doc, sec, pc, src, dst, save, depth, calls, found, err>>
  BY DEF vars
<1>2. Typed'
  BY <1>1 DEF IInv, Typed
<1>3. FoundNodes' = FoundNodes /\ Reached(Places)' = Reached(Places)
  BY <1>1, SamePlaces DEF FoundNodes
<1>4. ASSUME pc # "idle" PROVE Active'
  <2>1. Active
    BY <1>4, ActiveIsWalking
  <2>2. InWalk' /\ Saved'
    BY <1>1, <2>1, StackedStays, SavedStays, InWalkStays DEF Active, InWalk
  <2>3. Positioned'
    BY <1>1, <2>1, SamePlaces, NodeStays DEF Active, Positioned
  <2>4. Collected'
    BY <1>1, <1>3, <2>1, SamePlaces, NodeStays, AheadStays DEF Active, Collected
  <2> QED BY <2>2, <2>3, <2>4 DEF Active
<1>5. ASSUME pc = "idle" PROVE Idle'
  <2>1. NodesAsSpecified => NodesAsSpecified'
    <3>1. \A n : EntryAt(Places, n)' = EntryAt(Places, n)
      BY <1>1, SamePlaces DEF EntryAt, Entry, IsContainer
    <3> QED BY <1>1, <1>3, <3>1, SamePlaces DEF NodesAsSpecified
  <2> QED BY <1>1, <1>5, <2>1 DEF IInv, Idle, Texts
<1> QED BY <1>1, <1>2, <1>4, <1>5

LEMMA InitHolds == Init => IInv
BY DEF Init, IInv, Typed, Walking, Idle, Texts

LEMMA StepKeeps == IInv /\ [Next]_vars => IInv'
<1> SUFFICES ASSUME IInv, [Next]_vars PROVE IInv'
  OBVIOUS
<1>1. /\ Typed'
      /\ pc' # "idle" => Active'
      /\ pc' = "idle" => Idle'
  <2>1. CASE Build
    <3>1. Typed'
      BY <2>1, StepIsTyped DEF Next, IInv
    <3>2. pc' = "idle" /\ sec' = 0 /\ found' = <<>> /\ UNCHANGED <<src, dst, save, calls>>
      BY <2>1 DEF Build
    <3> QED BY <2>1, <3>1, <3>2 DEF Build, IInv, Idle, Texts
  <2>2. ASSUME NEW s \in DOMAIN t.sections, StartSection(s)
        PROVE  Typed' /\ Active' /\ pc' # "idle"
    BY <2>2, StepIsTyped, StartSectionKeeps DEF Next, IInv
  <2>3. CASE Step
    BY <2>3, StepIsTyped, WalkKeeps DEF Next, IInv
  <2>4. CASE UNCHANGED vars
    BY <2>4, StutterKeeps
  <2> QED BY <2>1, <2>2, <2>3, <2>4 DEF Next
<1>2. Walking'
  BY <1>1 DEF Walking, Active, InWalk
<1>3. Idle'
  BY <1>1 DEF Idle
<1> QED BY <1>1, <1>2, <1>3 DEF IInv

LEMMA Invariance == Spec => []IInv
BY InitHolds, StepKeeps, PTL DEF Spec

(* What is written has a key. *)
LEMMA EntryTyped ==
  ASSUME doc \in Docs, t \in Configs, sec \in DOMAIN t.sections,
         NEW n \in DOMAIN doc.parent, NEW entry, entry = EntryAt(Places, n)
  PROVE  entry.key \in Texts
<1>1. Places[n].key \in Texts
  BY PlaceTyped DEF Nodes
<1> QED BY <1>1 DEF EntryAt, Entry

(* A mark is a place in save. *)
LEMMA MarksInSave ==
  ASSUME Active, NEW p \in 1 .. Len(calls)
  PROVE  calls[p].mark <= Len(save)
<1>1. Len(save) \in Nat /\ Len(calls) \in Nat /\ DOMAIN calls = 1 .. Len(calls)
  BY CallFacts DEF Active, Saved, Texts
<1>2. CASE ~calls[p].renamed
  BY <1>1, <1>2 DEF Active, InWalk, Stacked
<1>3. CASE calls[p].renamed
  <2>1. /\ Len(PlainKey[calls[p].node]) \in Nat /\ calls[p].mark \in Nat
    BY <1>3, KeyTypedOfCall DEF Active
  <2>2. Len(calls) + 1 \in 1 .. Len(calls) + 1 /\ p < Len(calls) + 1
    BY <1>1
  <2>3. EndOf(p) <= Len(save)
    BY <1>1, <1>3, <2>2 DEF Active, Saved, IsMark, MarkOf
  <2> QED BY <1>1, <2>1, <2>3 DEF EndOf
<1> QED BY <1>2, <1>3

(* The walk's variables have their types: the path buffers and the stack of *)
(* saved keys hold text, each call and each thing found is at a node, each  *)
(* mark is a place in the stack of saved keys, and the level is never       *)
(* deeper than the calls of child (section, child, node, handle).           *)
THEOREM WalkTypeCorrect == Spec => []TypeOK
<1>1. IInv => TypeOK
  <2> SUFFICES ASSUME IInv PROVE TypeOK
    OBVIOUS
  <2>1. Typed /\ (doc # NoDoc => DOMAIN doc = {"parent", "key", "type", "bad"})
    BY DocsAssumption DEF IInv, Typed
  <2>2. CASE pc = "idle"
    <3>1. calls = <<>> /\ src \in Texts /\ dst \in Texts /\ save \in Texts
      BY <2>2 DEF IInv, Idle, Texts
    <3>2. \A p \in DOMAIN found : found[p].node \in DOMAIN doc.parent /\ found[p].key \in Texts
      <4> SUFFICES ASSUME NEW p \in DOMAIN found
                   PROVE  found[p].node \in DOMAIN doc.parent /\ found[p].key \in Texts
        OBVIOUS
      <4>1. /\ sec # 0 /\ doc \in Docs /\ sec \in DOMAIN t.sections /\ NodesAsSpecified
            /\ t \in Configs
        BY <2>2 DEF IInv, Idle, Typed
      <4>2. found[p].node \in Reached(Places) /\ found[p] = EntryAt(Places, found[p].node)
        BY <2>2, <4>1 DEF NodesAsSpecified
      <4> QED BY <4>1, <4>2, EntryTyped DEF Reached, Single, Nodes
    <3> QED BY <2>1, <2>2, <3>1, <3>2 DEF TypeOK, Typed
  <2>3. CASE pc # "idle"
    <3>1. Active
      BY <2>3, ActiveIsWalking
    <3>2. /\ Len(calls) \in Nat /\ Len(calls) >= 1 /\ DOMAIN calls = 1 .. Len(calls)
          /\ \A p \in 1 .. Len(calls) : calls[p].node \in Nodes
      BY <3>1, CallFacts DEF Active
    <3>3. \A p \in DOMAIN calls : calls[p].node \in DOMAIN doc.parent /\ calls[p].mark <= Len(save)
      BY <3>1, <3>2, MarksInSave DEF Nodes
    <3>4. depth \in 1 .. Len(calls)
      <4>1. IF pc = "visit" THEN depth = Len(calls)
            ELSE Len(calls) > 1 /\ depth = Len(calls) - 1
        BY <3>1 DEF Active, Positioned
      <4>2. \A k \in Nat : k >= 1 => k \in 1 .. k /\ (k > 1 => k - 1 \in 1 .. k)
        OBVIOUS
      <4> QED BY <3>2, <4>1, <4>2
    <3>5. calls # <<>> /\ src \in Texts /\ dst \in Texts /\ save \in Texts
      BY <3>1 DEF Active, InWalk, Stacked, Positioned, Saved
    <3>6. \A p \in DOMAIN found : found[p].node \in DOMAIN doc.parent /\ found[p].key \in Texts
      <4> SUFFICES ASSUME NEW p \in DOMAIN found
                   PROVE  found[p].node \in DOMAIN doc.parent /\ found[p].key \in Texts
        OBVIOUS
      <4>1. found[p].node \in Ones /\ found[p] = EntryOf[found[p].node]
        BY <3>1 DEF Active, Collected, FoundNodes
      <4>2. found[p].node \in Nodes
        BY <4>1 DEF Ones, Single, Nodes
      <4>3. found[p] = EntryAt(Places, found[p].node)
        BY <4>1, <4>2 DEF EntryOf
      <4> QED BY <3>1, <4>2, <4>3, EntryTyped DEF Active, InWalk, Nodes
    <3> QED BY <2>1, <2>3, <3>3, <3>4, <3>5, <3>6 DEF TypeOK, Typed
  <2> QED BY <2>2, <2>3
<1> QED BY <1>1, Invariance, PTL

(* Whatever the walk of a section gives, for any record, config and section:*)
(* the nodes that are written as one value, up to the first that fails, in  *)
(* order, each under the key that its place says (section, handle).         *)
THEOREM NodesHold == Spec => []NodesAsSpecified
<1>1. IInv => NodesAsSpecified
  <2>1. IInv /\ pc = "idle" /\ sec # 0 => NodesAsSpecified
    BY DEF IInv, Idle
  <2>2. ~(pc = "idle" /\ sec # 0) => NodesAsSpecified
    BY DEF NodesAsSpecified
  <2> QED BY <2>1, <2>2
<1> QED BY <1>1, Invariance, PTL

(* The buffers are taken back on the way up: before each child, both paths  *)
(* are those of the container, and save ends with the key that the innermost*)
(* rename above replaced; between two sections nothing is left in them but  *)
(* the bases of the last one, after a walk that failed too (child: "takes   *)
(* both back"; node: "keep a copy and restore it").                         *)
THEOREM PositionHolds == Spec => []PositionKept
<1>1. IInv => PositionKept
  <2> SUFFICES ASSUME IInv, pc = "visit" PROVE PositionKept
    BY DEF PositionKept, IInv, Idle
  <2>1. Active
    BY ActiveIsWalking
  <2>2. /\ Len(calls) \in Nat /\ Len(calls) >= 1 /\ DOMAIN calls = 1 .. Len(calls)
        /\ save \in Texts /\ Len(save) \in Nat
    BY <2>1, CallFacts DEF Active, Saved, Texts
  <2> DEFINE renamed == {p \in DOMAIN calls : calls[p].renamed}
             end == Len(calls) + 1
  <2>3. end \in 1 .. end /\ end \in 1 .. Len(calls) + 1 /\ IsMark(end) /\ MarkOf(end) = Len(save)
    BY <2>2 DEF IsMark, MarkOf
  <2>4. renamed = {} => save = <<>>
    <3> SUFFICES ASSUME renamed = {} PROVE save = <<>>
      OBVIOUS
    <3>1. NoneBetween(0, end)
      BY DEF NoneBetween
    <3>2. Len(save) = 0
      BY <2>1, <2>3, <3>1 DEF Active, Saved
    <3> QED BY <2>2, <3>2 DEF Texts
  <2>5. ASSUME NEW p \in renamed, \A q \in renamed : q <= p
        PROVE  save = SubSeq(save, 1, calls[p].mark) \o PlainKey[calls[p].node]
    <3>1. p \in 1 .. Len(calls) /\ calls[p].renamed /\ p \in Nat /\ p < end
      BY <2>2
    <3>2. NoneBetween(p, end)
      <4>1. ASSUME NEW x \in DOMAIN calls, p < x, calls[x].renamed PROVE FALSE
        <5>1. x <= p /\ x \in Nat
          BY <2>2, <2>5, <4>1
        <5> QED BY <3>1, <4>1, <5>1
      <4> QED BY <4>1 DEF NoneBetween
    <3>3. EndOf(p) = Len(save)
      <4> HIDE DEF end, renamed
      <4> QED BY <2>1, <2>2, <2>3, <3>1, <3>2 DEF Active, Saved
    <3>4. SubSeq(save, calls[p].mark + 1, Len(save)) = PlainKey[calls[p].node]
      BY <2>1, <2>2, <3>1, <3>3 DEF Active, Saved
    <3>5. calls[p].mark \in 0 .. Len(save)
      BY <2>1, <2>2, <3>1, MarksInSave, KeyTypedOfCall DEF Active
    <3> DEFINE mark == calls[p].mark
    <3> HIDE DEF mark
    <3>6. save \in Seq(Tokens) /\ 1 \in 1 .. Len(save) + 1 /\ mark \in 1 - 1 .. Len(save)
          /\ Len(save) \in mark .. Len(save)
      BY <2>2, <3>5 DEF mark, Texts
    <3>7. SubSeq(save, 1, mark) \o SubSeq(save, mark + 1, Len(save)) = SubSeq(save, 1, Len(save))
      BY <3>6, ConcatAdjacentSubSeq
    <3>8. SubSeq(save, 1, Len(save)) = save
      BY <3>6, SubSeqFull
    <3> QED BY <3>4, <3>7, <3>8, Zenon DEF mark
  <2>6. ASSUME NEW p \in renamed
        PROVE  PlainKey[calls[p].node] = Places[doc.parent[calls[p].node]].out \o Segment(calls[p].node)
    <3>1. p > 1 /\ p - 1 \in 1 .. Len(calls) /\ calls[p].node \in Nodes /\ doc \in Docs
      BY <2>1, <2>2, KeyTypedOfCall, CallFacts DEF Active, InWalk
    <3>2. calls[p].node # 1
      <4>1. calls[p - 1].node < calls[p].node /\ calls[p - 1].node \in Nodes
        BY <2>1, <2>2, <3>1, CallFacts DEF Active, InWalk, Stacked
      <4>2. \A n \in Nodes : n \in Nat /\ n >= 1
        BY <3>1, DocFacts
      <4> QED BY <3>1, <4>1, <4>2
    <3> QED BY <3>1, <3>2 DEF PlainKey, Parent
  <2>7. /\ dst = Places[Node].out /\ (HasActions => src = Places[Node].src)
        /\ depth = Len(calls)
    BY <2>1 DEF Active, Positioned
  <2>8. Places[Node].level = Len(calls)
    <3>1. Len(calls) \in DOMAIN calls
      BY <2>2
    <3> QED BY <2>1, <3>1 DEF Active, InWalk, Stacked, Node, Current
  <2> QED BY <2>4, <2>5, <2>6, <2>7, <2>8 DEF PositionKept
<1> QED BY <1>1, Invariance, PTL

=============================================================================
