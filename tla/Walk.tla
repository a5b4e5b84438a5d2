-------------------------------- MODULE Walk --------------------------------
(***************************************************************************)
(* The walk of a section (section, visit, elements, child, node, handle    *)
(* and descend of transform.go): a recursion over the parsed document that *)
(* keeps the path of the current node in two buffers, src and dst, by      *)
(* appending on the way down and truncating on the way up.  A rename       *)
(* overwrites dst, parent's part included; a third buffer, save, is the    *)
(* stack of what was overwritten.                                          *)
(*                                                                         *)
(* The buffers are sequences of tokens: a key is a short sequence of them, *)
(* and a key with a dot in it is not told from two keys, as in the code.   *)
(* What the walk finds is what RowBuilder starts from: nodes that are      *)
(* written as one value, with their output key and what merges make of     *)
(* them.  Writing one may fail, which ends the walk; which keys RowBuilder *)
(* drops or has already is not asked here, so that a bad node is one that  *)
(* fails whenever it comes to be written.                                  *)
(*                                                                         *)
(* A document: parent, key, type and bad, functions on the numbers of its  *)
(* nodes, which count them in the order of the text; node 1 is the record. *)
(* A config: actions (source path -> drop, renameTo, slots, consume),      *)
(* snakeCase, snake and alias (tables of segments), sep, maxDepth,         *)
(* indexArrays and sections (from, srcBase, dstBase).                      *)
(***************************************************************************)
EXTENDS Integers, Sequences, SequencesExt, FiniteSets, FiniteSetsExt, Functions

CONSTANTS
  Configs,     (* the compiled configs                              *)
  Docs,        (* the records                                       *)
  NoDoc,       (* no record                                         *)
  NoPath,      (* renameTo of an action that renames nothing        *)
  Tokens,      (* what keys and paths are made of, "." among them   *)
  IndexText    (* the text of the positions 0, 1, ... in an array   *)

(* What node says of a path without an action. *)
NoAction == [drop |-> FALSE, renameTo |-> NoPath, slots |-> {}, consume |-> FALSE]

(* The nodes are numbered in the order of the text: node 1 is the record,   *)
(* parents come before their children, and a container's nodes come one     *)
(* after the other.                                                         *)
ASSUME DocsAssumption ==
  \A d \in Docs :
    /\ d # NoDoc
    /\ DOMAIN d = {"parent", "key", "type", "bad"}
    /\ d.parent \in Seq(Nat) /\ d.parent # <<>>
    /\ \A n \in DOMAIN d.parent :
         /\ d.parent[n] < n
         /\ IF n = 1 THEN d.parent[n] = 0
            ELSE d.parent[n] > 0 /\ d.type[d.parent[n]] \in {"object", "array"}
         /\ d.bad[n] \in BOOLEAN
         /\ \A m \in DOMAIN d.parent :
              d.parent[n] < m /\ m < n => d.parent[n] <= d.parent[m]

(* What the compiler guarantees of the rules (addRename, addDrop, addMerge). *)
ASSUME ActionsAssumption ==
  \A c \in Configs : \A path \in DOMAIN c.actions :
    LET a == c.actions[path]
    IN  path # <<>> /\ a.renameTo # <<>> /\ ~(a.drop /\ a.renameTo # NoPath)

(* Every key and every path is a string.                                    *)
Texts == Seq(Tokens)

ASSUME TextsAssumption ==
  /\ "." \in Tokens
  /\ NoPath \notin Texts
  /\ IndexText \in Seq(Tokens)
  /\ \A d \in Docs : \A n \in DOMAIN d.parent :
       /\ d.key[n] \in Texts
       /\ Cardinality({c \in DOMAIN d.parent : d.parent[c] = n}) <= Len(IndexText)
  /\ \A c \in Configs :
       /\ c.sep \in Texts
       /\ c.sections \in Seq(Range(c.sections))
       /\ \A section \in Range(c.sections) :
            /\ section.from \in Seq(Range(section.from))
            /\ section.srcBase \in Texts /\ section.dstBase \in Texts
       /\ \A key \in DOMAIN c.snake : c.snake[key] \in Texts
       /\ \A seg \in DOMAIN c.alias : c.alias[seg] \in Texts
       /\ \A path \in DOMAIN c.actions : c.actions[path].renameTo \in Texts \cup {NoPath}

VARIABLES
  t,           (* the config, fixed                                 *)
  doc,         (* the record                                        *)
  sec,         (* the section that is or was walked                 *)
  pc,          (* "idle", "visit", "node", "handle" or "leave"      *)
  src, dst,    (* source path and output key of the current node    *)
  save,        (* the output keys that renames replaced             *)
  depth,       (* container level of the nodes being visited        *)
  calls,       (* the calls of child in progress, the section first *)
  found,       (* the nodes written so far                          *)
  err

vars == <<t, doc, sec, pc, src, dst, save, depth, calls, found, err>>

-----------------------------------------------------------------------------
(* The document.                                                            *)

Children(n) == {c \in DOMAIN doc.parent : doc.parent[c] = n}
IsContainer(n) == doc.type[n] \in {"object", "array"}

(* The key of a node: that of the member, or the position of the element. *)
Key(n) ==
  LET p == doc.parent[n]
  IN  IF doc.type[p] = "array"
      THEN <<IndexText[Cardinality({c \in Children(p) : c <= n})]>>
      ELSE doc.key[n]

(* rec.Get: the first member of each name on the way, 0 if there is none. *)
RootOf(section) ==
  LET at[k \in 0 .. Len(section.from)] ==
        IF k = 0 THEN 1
        ELSE IF at[k - 1] = 0 THEN 0
        ELSE LET named == {c \in Children(at[k - 1]) : Key(c) = section.from[k]}
             IN  IF named = {} THEN 0 ELSE Min(named)
  IN  at[Len(section.from)]

(* visit: the part of the output key that a node adds. Elements of arrays   *)
(* have no name to be changed.                                              *)
Snaked(key) == IF t.snakeCase /\ key \in DOMAIN t.snake THEN t.snake[key] ELSE key
Segment(n) ==
  IF doc.type[doc.parent[n]] = "array" THEN Key(n)
  ELSE LET seg == Snaked(Key(n)) IN IF seg \in DOMAIN t.alias THEN t.alias[seg] ELSE seg

(* A member of whose key snake leaves nothing. Without snake an empty key   *)
(* is a key like any other.                                                 *)
IsNameless(n) ==
  doc.type[doc.parent[n]] = "object" /\ t.snakeCase /\ Snaked(Key(n)) = <<>>

HasActions == DOMAIN t.actions # {}
Action(path) == IF path \in DOMAIN t.actions THEN t.actions[path] ELSE NoAction

(* handle: the containers that are entered. *)
Enters(n, level) ==
  /\ Children(n) # {}
  /\ t.maxDepth = 0 \/ level < t.maxDepth
  /\ doc.type[n] = "object" \/ (doc.type[n] = "array" /\ t.indexArrays)

-----------------------------------------------------------------------------

Init ==
  /\ t \in Configs
  /\ doc = NoDoc
  /\ sec = 0
  /\ pc = "idle"
  /\ src = <<>> /\ dst = <<>> /\ save = <<>>
  /\ depth = 0
  /\ calls = <<>>
  /\ found = <<>>
  /\ err = "none"

(* build: another record, after all that was asked of the last one. *)
Build ==
  /\ pc = "idle"
  /\ IF doc = NoDoc THEN doc' \in Docs ELSE doc' = NoDoc
  /\ sec' = 0
  /\ found' = <<>>
  /\ err' = "none"
  /\ UNCHANGED <<t, pc, src, dst, save, depth, calls>>

Call(n) == [node |-> n, ls |-> Len(src), ld |-> Len(dst), mark |-> 0,
            renamed |-> FALSE, last |-> n]

Current == calls[Len(calls)]
Node == Current.node

(* section: its root is entered whatever flatten.arrays says. *)
StartSection(s) ==
  /\ pc = "idle" /\ err = "none" /\ doc # NoDoc
  /\ RootOf(t.sections[s]) # 0
  /\ sec' = s
  /\ src' = t.sections[s].srcBase
  /\ dst' = t.sections[s].dstBase
  /\ save' = <<>>
  /\ depth' = 1
  /\ calls' = <<Call(RootOf(t.sections[s]))>>
  /\ found' = <<>>
  /\ pc' = "visit"
  /\ UNCHANGED <<t, doc, err>>

(* The children of the current node that are still to be visited. *)
Remaining == {c \in Children(Node) : c > Current.last}

Visiting == pc = "visit" /\ err = "none" /\ Remaining # {}
Visited == [calls EXCEPT ![Len(calls)].last = Min(Remaining)]

(* visit, for a key of which nothing is left. *)
SkipNameless ==
  /\ Visiting
  /\ IsNameless(Min(Remaining))
  /\ calls' = Visited
  /\ UNCHANGED <<t, doc, sec, pc, src, dst, save, depth, found, err>>

(* visit and elements, and child on the way down: both paths grow. Source   *)
(* paths are kept only if the config asks for any.                          *)
Child ==
  /\ Visiting
  /\ LET n == Min(Remaining)
     IN  /\ ~IsNameless(n)
         /\ calls' = Append(Visited, Call(n))
         /\ src' = IF HasActions THEN src \o Key(n) ELSE src
         /\ dst' = dst \o Segment(n)
  /\ pc' = "node"
  /\ UNCHANGED <<t, doc, sec, save, depth, found, err>>

(* node: the action at the source path. *)
Drop ==
  /\ pc = "node"
  /\ Action(src).drop
  /\ pc' = "leave"
  /\ UNCHANGED <<t, doc, sec, src, dst, save, depth, calls, found, err>>

Rename ==
  /\ pc = "node"
  /\ ~Action(src).drop
  /\ IF Action(src).renameTo = NoPath THEN UNCHANGED <<save, dst, calls>>
     ELSE /\ calls' = [calls EXCEPT ![Len(calls)].renamed = TRUE,
                                    ![Len(calls)].mark = Len(save)]
          /\ save' = save \o dst
          /\ dst' = Action(src).renameTo
  /\ pc' = "handle"
  /\ UNCHANGED <<t, doc, sec, src, depth, found, err>>

(* handle and descend. The separator belongs to the container. *)
Descend ==
  /\ pc = "handle"
  /\ Enters(Node, depth)
  /\ depth' = depth + 1
  /\ src' = IF HasActions THEN Append(src, ".") ELSE src
  /\ dst' = dst \o t.sep
  /\ pc' = "visit"
  /\ UNCHANGED <<t, doc, sec, save, calls, found, err>>

(* handle, for a node that is one value; what follows is RowBuilder's. Only *)
(* scalars are captured for merges, and only what is captured is consumed.  *)
Entry(n, key, action) ==
  LET captured == IF IsContainer(n) THEN {} ELSE action.slots
  IN  [node |-> n, key |-> key, slots |-> captured,
       consume |-> action.consume /\ captured # {}]

(* What is consumed is not written, and cannot fail.                        *)
Fails(entry) == doc.bad[entry.node] /\ ~entry.consume

Write ==
  /\ pc = "handle"
  /\ ~Enters(Node, depth)
  /\ LET entry == Entry(Node, dst, Action(src))
     IN  /\ found' = Append(found, entry)
         /\ err' = IF Fails(entry) THEN "failed" ELSE err
  /\ pc' = "leave"
  /\ UNCHANGED <<t, doc, sec, src, dst, save, depth, calls>>

(* The members or elements of a container are done, or one of them failed.  *)
(* The root of a section is left without a look at the paths.               *)
EndVisitAt(level) ==
  /\ pc = "visit"
  /\ err # "none" \/ Remaining = {}
  /\ IF Len(calls) = 1
     THEN /\ pc' = "idle"
          /\ calls' = <<>>
          /\ UNCHANGED depth
     ELSE /\ pc' = "leave"
          /\ depth' = level
          /\ UNCHANGED calls
  /\ UNCHANGED <<t, doc, sec, src, dst, save, found, err>>

\* A slip of handle: the level is not taken back.
EndVisitDeeper == EndVisitAt(depth)

EndVisit == EndVisitAt(depth - 1)

(* The end of node and of child: the key a rename replaced comes back, both *)
(* paths are cut to what they were.                                         *)
LeaveWith(key, kept) ==
  /\ pc = "leave"
  /\ dst' = key
  /\ save' = kept
  /\ src' = SubSeq(src, 1, Current.ls)
  /\ calls' = Front(calls)
  /\ pc' = "visit"
  /\ UNCHANGED <<t, doc, sec, depth, found, err>>

Restored ==
  LET key == IF Current.renamed THEN SubSeq(save, Current.mark + 1, Len(save)) ELSE dst
  IN  SubSeq(key, 1, Current.ld)
Kept == IF Current.renamed THEN SubSeq(save, 1, Current.mark) ELSE save

\* Slips of node: the key is only truncated; the stack of keys is not cut.
LeaveTruncated == LeaveWith(SubSeq(dst, 1, Min({Current.ld, Len(dst)})), Kept)
LeaveUnsaved == LeaveWith(Restored, save)

Leave == LeaveWith(Restored, Kept)

Step == SkipNameless \/ Child \/ Drop \/ Rename \/ Descend \/ Write \/ EndVisit \/ Leave

Next == Build \/ (\E s \in DOMAIN t.sections : StartSection(s)) \/ Step

Spec == Init /\ [][Next]_vars

-----------------------------------------------------------------------------
(* The reference: the place of each node of a section, from its parent's.   *)
(* open: the node is reached and entered; src, out and level are then those *)
(* its children start from.                                                 *)

Nowhere == [seen |-> FALSE, open |-> FALSE, key |-> <<>>, src |-> <<>>,
            out |-> <<>>, level |-> 0, action |-> NoAction]

PlaceBelow(above, n) ==
  LET path == above.src \o Key(n)
      action == Action(path)
      key == IF action.renameTo # NoPath THEN action.renameTo ELSE above.out \o Segment(n)
      seen == ~IsNameless(n) /\ ~action.drop
  IN  [seen |-> seen, open |-> seen /\ Enters(n, above.level), key |-> key,
       src |-> path \o <<".">>, out |-> key \o t.sep, level |-> above.level + 1,
       action |-> action]

Places ==
  LET section == t.sections[sec]
      place[n \in DOMAIN doc.parent] ==
        IF n = RootOf(section)
        THEN [Nowhere EXCEPT !.open = IsContainer(n), !.src = section.srcBase,
                             !.out = section.dstBase, !.level = 1]
        ELSE IF n = 1 THEN Nowhere
        ELSE IF place[doc.parent[n]].open THEN PlaceBelow(place[doc.parent[n]], n)
        ELSE Nowhere
  IN  place

(* The nodes that are written as one value, up to the first that fails. *)
Single(places) == {n \in DOMAIN doc.parent : places[n].seen /\ ~places[n].open}
EntryAt(places, n) == Entry(n, places[n].key, places[n].action)
Reached(places) ==
  {n \in Single(places) : \A m \in Single(places) : m < n => ~Fails(EntryAt(places, m))}

-----------------------------------------------------------------------------

(* The type of the walk's variables: the buffers hold text and each mark is *)
(* a place in save; the calls of child, and what is found, are at nodes of  *)
(* the record; the level is never deeper than the calls.                    *)
TypeOK ==
  /\ t \in Configs
  /\ doc # NoDoc => DOMAIN doc = {"parent", "key", "type", "bad"}
  /\ sec \in 0 .. Len(t.sections)
  /\ pc \in {"idle", "visit", "node", "handle", "leave"}
  /\ src \in Texts /\ dst \in Texts /\ save \in Texts
  /\ pc = "idle" <=> calls = <<>>
  /\ \A p \in DOMAIN calls :
       /\ calls[p].node \in DOMAIN doc.parent
       /\ calls[p].mark <= Len(save)
  /\ pc # "idle" => depth \in 1 .. Len(calls)
  /\ \A p \in DOMAIN found :
       found[p].node \in DOMAIN doc.parent /\ found[p].key \in Texts
  /\ err \in {"none", "failed"}

(* A section gives every node below its root that is written as one value,  *)
(* in order, under the key that its place in the document says, whatever    *)
(* was renamed, dropped or skipped on the way, and whatever an earlier walk *)
(* that failed left in the buffers (section, child, node, handle).          *)
NodesAsSpecified ==
  pc = "idle" /\ sec # 0 =>
    LET places == Places
    IN  /\ \A p, q \in DOMAIN found : p < q => found[p].node < found[q].node
        /\ {found[p].node : p \in DOMAIN found} = Reached(places)
        /\ \A p \in DOMAIN found : found[p] = EntryAt(places, found[p].node)

(* Whenever a container is about to go on with its next child, after any    *)
(* number of renames below it, the buffers are what they were when it was   *)
(* entered, and save ends with the key that the innermost rename above it   *)
(* replaced, with nothing after that; and between two sections, a walk that *)
(* failed included, nothing but the bases of the last one is left in them   *)
(* (child: "takes both back"; node: "keep a copy and restore it").          *)
PositionKept ==
  /\ pc = "visit" =>
       LET places == Places
           renamed == {p \in DOMAIN calls : calls[p].renamed}
           Replaced(n) == places[doc.parent[n]].out \o Segment(n)
       IN  /\ dst = places[Node].out
           /\ HasActions => src = places[Node].src
           /\ depth = places[Node].level
           /\ renamed = {} => save = <<>>
           /\ \A p \in renamed : (\A q \in renamed : q <= p) =>
                save = SubSeq(save, 1, calls[p].mark) \o Replaced(calls[p].node)
  /\ pc = "idle" /\ sec # 0 =>
       /\ dst = t.sections[sec].dstBase
       /\ src = t.sections[sec].srcBase
       /\ save = <<>>
       /\ depth = 1

=============================================================================
