----------------------------- MODULE RowBuilder -----------------------------
(***************************************************************************)
(* build of transform.go: the rows of one record after another, made by    *)
(* one state with all that it keeps: the condition cache, reservations,    *)
(* the key set, merge slots, and the previous row, which the next may      *)
(* start from.  Nothing but the assignments of the code empties any of     *)
(* them, so what a record, or a row, leaves behind is there for the next.  *)
(*                                                                         *)
(* One step handles one derived value, group, section, column, node, merge *)
(* or default; k counts them.  The key set is that of NameSet, which       *)
(* KeySet implements.                                                      *)
(***************************************************************************)
EXTENDS Rows

CONSTANTS
  Configs,       (* the compiled configs                                 *)
  Records(_)     (* the records it may be given under a config           *)

(* The tables of a config hold what their readers take them to hold, and a  *)
(* condition that is named is there.                                        *)
IsWhen(t, when) == when \in {0} \cup DOMAIN t.conds

HasValues(src) ==
  /\ src.kind = "map" =>
       IsValue(src.else) /\ \A text \in DOMAIN src.values : IsValue(src.values[text])
  /\ src.kind = "lower" => \A text \in DOMAIN src.lower : IsValue(src.lower[text])

HasTables(t) ==
  /\ IsASeq(t.groups) /\ \A g \in DOMAIN t.groups : IsWhen(t, t.groups[g].when)
  /\ IsASeq(t.sections)
  /\ \A s \in DOMAIN t.sections : t.sections[s].quiet \in BOOLEAN /\ IsWhen(t, t.sections[s].when)
  /\ IsASeq(t.outputs)
  /\ \A o \in DOMAIN t.outputs :
       t.outputs[o].member \subseteq DOMAIN t.sections /\ IsWhen(t, t.outputs[o].when)
  /\ IsASeq(t.merges) /\ IsASeq(t.defaults)
  /\ \A d \in DOMAIN t.derived :
       /\ AreSourcesOf(t, t.derived[d].srcs) /\ IsWhen(t, t.derived[d].when)
       /\ \A s \in DOMAIN t.derived[d].srcs : HasValues(t.derived[d].srcs[s])
       /\ \A text \in DOMAIN t.derived[d].norm : t.derived[d].norm[text] \in STRING

(* A record answers every source a derived value reads, and has the nodes of *)
(* every section.                                                            *)
HasPath(r, p) == p.name \in DOMAIN r.src /\ (p.inherit => p.name \in DOMAIN r.env)

Answers(r, src) ==
  /\ src.kind = "path" => HasPath(r, src)
  /\ src.kind = "var" => src.name \in DOMAIN r.vars
  /\ src.kind = "skew" => HasPath(r, src.sent) /\ HasPath(r, src.original)

IsRecordOf(t, r) ==
  /\ \A name \in DOMAIN r.src : IsValue(r.src[name])
  /\ \A name \in DOMAIN r.env : IsValue(r.env[name])
  /\ \A name \in DOMAIN r.vars : IsValue(r.vars[name])
  /\ r.now \in STRING /\ r.skewed \in STRING
  /\ \A d \in DOMAIN t.derived : \A s \in DOMAIN t.derived[d].srcs :
       Answers(r, Origin(t.derived[d].srcs[s]))
  /\ IsASeq(r.nodes) /\ Len(r.nodes) = Len(t.sections)
  /\ \A s \in DOMAIN r.nodes :
       IsASeq(r.nodes[s]) /\ \A p \in DOMAIN r.nodes[s] : IsValue(r.nodes[s][p].val)

ASSUME ConfigsAssumption ==
  \A t \in Configs :
    /\ WellFormed(t) /\ HasTables(t)
    /\ \A r \in Records(t) : r.container => IsRecordOf(t, r)

VARIABLES
  t,             (* the compiled config, fixed                           *)
  rec,           (* the record                                           *)
  pc, k,         (* the loop that runs and its counter                   *)
  derivedVals,   (* per derived value; "" is empty                       *)
  condCache,     (* per condition: "unknown", "true" or "false"          *)
  groupOn,       (* per alias group                                      *)
  secOn,         (* per section                                          *)
  reserved,      (* per column name: "free", "reserved" or "quiet"       *)
  out, sec,      (* the output and the section that are worked on        *)
  colWritten,    (* per column name                                      *)
  keys,          (* the names in the key set                             *)
  slots,         (* per merge slot: the value captured                   *)
  seen,          (* per default: its key was written                     *)
  quiet,         (* the current section is quiet                         *)
  rest,          (* the keys that keep removed from this row             *)
  body,          (* the row: <<name, value>> pairs                       *)
  dropped,       (* the keys left out of it                              *)
  rows,          (* the finished rows of the record                      *)
  err            (* the error of the record                              *)

perRecord == <<derivedVals, condCache, groupOn, secOn, reserved>>
perRow == <<colWritten, keys, slots, seen, quiet, rest, body, dropped>>
vars == <<t, rec, pc, k, perRecord, out, sec, perRow, rows, err>>

-----------------------------------------------------------------------------

Slots == UNION {{t.merges[m].slots[p] : p \in DOMAIN t.merges[m].slots} : m \in DOMAIN t.merges}
AllFree == [name \in ColumnNames(t) |-> "free"]

NoRecord == [container |-> FALSE]

Init ==
  /\ t \in Configs
  /\ rec = NoRecord
  /\ pc = "new" /\ k = 1
  /\ derivedVals = [d \in DOMAIN t.derived |-> ""]
  /\ condCache = [c \in DOMAIN t.conds |-> "unknown"]
  /\ groupOn = [g \in DOMAIN t.groups |-> FALSE]
  /\ secOn = [s \in DOMAIN t.sections |-> FALSE]
  /\ reserved = AllFree
  /\ out = 1 /\ sec = 1
  /\ colWritten = [name \in ColumnNames(t) |-> FALSE]
  /\ keys = {}
  /\ slots = [s \in Slots |-> Missing]
  /\ seen = [d \in DOMAIN t.defaults |-> FALSE]
  /\ quiet = FALSE
  /\ rest = <<>>
  /\ body = <<>>
  /\ dropped = 0
  /\ rows = <<>>
  /\ err = "ErrNoOutput"

Goto(where) == pc' = where /\ k' = 1

(* The next round of the loop, or the end of the record if it failed. *)
Continue == IF err' = "none" THEN pc' = pc /\ k' = k + 1 ELSE Goto("done")

(* condOK: a condition is evaluated when it is first asked for. *)
CondOK(when) ==
  IF when = 0 THEN TRUE
  ELSE IF condCache[when] = "unknown" THEN EvalCond(t.conds[when], rec, derivedVals)
  ELSE condCache[when] = "true"

CacheWith(when) ==
  IF when = 0 THEN condCache
  ELSE [condCache EXCEPT ![when] = IF CondOK(when) THEN "true" ELSE "false"]

Ask(when) == condCache' = CacheWith(when)

-----------------------------------------------------------------------------
(* What precedes the rows.                                                  *)

(* build begins: the rows and the error of the former record are gone, and  *)
(* no condition is known.                                                   *)
Build(r) ==
  /\ pc \in {"new", "done"}
  /\ rec' = r
  /\ rows' = <<>>
  /\ condCache' = IF r.container THEN [c \in DOMAIN condCache |-> "unknown"] ELSE condCache
  /\ IF r.container THEN err' = "none" /\ Goto("derive")
                    ELSE err' = "ErrRootNotContainer" /\ Goto("done")
  /\ UNCHANGED <<t, derivedVals, groupOn, secOn, reserved, out, sec, perRow>>

(* computeDerived, for the value n: one that is off stays empty and is not  *)
(* required.                                                                *)
ComputeDerivedWith(n, Store(_)) ==
  /\ pc = "derive"
  /\ k \in DOMAIN t.derived
  /\ LET d == t.derived[n]
         text == IF CondOK(d.when) THEN DerivedText(d, rec, derivedVals) ELSE ""
     IN  /\ Ask(d.when)
         /\ derivedVals' = Store(text)
         /\ err' = IF CondOK(d.when) /\ d.required /\ text = "" THEN "ErrRequired" ELSE err
  /\ Continue
  /\ UNCHANGED <<t, rec, groupOn, secOn, reserved, out, sec, perRow, rows>>

\* Slips of computeDerived: the value is added to those of the last record; the
\* values are computed in another order than that of their names.
ComputeDerivedAdded == ComputeDerivedWith(k, LAMBDA text : Append(derivedVals, text))
ComputeDerivedBackwards ==
  LET n == Len(t.derived) - k + 1
  IN  ComputeDerivedWith(n, LAMBDA text : [derivedVals EXCEPT ![n] = text])

ComputeDerived == ComputeDerivedWith(k, LAMBDA text : [derivedVals EXCEPT ![k] = text])

(* The end of a loop of build leads to the next; the reservations of the    *)
(* former record are cleared before the columns are looked at.              *)
Prepare ==
  /\ \/ pc = "derive" /\ k \notin DOMAIN t.derived /\ Goto("groups") /\ UNCHANGED <<reserved, out>>
     \/ pc = "groups" /\ k \notin DOMAIN t.groups /\ Goto("sections") /\ UNCHANGED <<reserved, out>>
     \/ pc = "sections" /\ k \notin DOMAIN t.sections /\ Goto("reserve")
          /\ reserved' = AllFree /\ UNCHANGED out
     \/ pc = "reserve" /\ k \notin DOMAIN t.columns /\ Goto("outputs")
          /\ out' = 1 /\ UNCHANGED reserved
  /\ UNCHANGED <<t, rec, derivedVals, condCache, groupOn, secOn, sec, perRow, rows, err>>

SwitchGroup ==
  /\ pc = "groups"
  /\ k \in DOMAIN t.groups
  /\ groupOn' = [groupOn EXCEPT ![k] = CondOK(t.groups[k].when)]
  /\ Ask(t.groups[k].when)
  /\ k' = k + 1
  /\ UNCHANGED <<t, rec, pc, derivedVals, secOn, reserved, out, sec, perRow, rows, err>>

(* The condition of a dead section is not asked. *)
SwitchSection ==
  /\ pc = "sections"
  /\ k \in DOMAIN t.sections
  /\ LET section == t.sections[k]
     IN  /\ secOn' = [secOn EXCEPT ![k] = ~section.dead /\ CondOK(section.when)]
         /\ IF section.dead THEN UNCHANGED condCache ELSE Ask(section.when)
  /\ k' = k + 1
  /\ UNCHANGED <<t, rec, pc, derivedVals, groupOn, reserved, out, sec, perRow, rows, err>>

(* The first active column of a name reserves it. *)
Reserve ==
  /\ pc = "reserve"
  /\ k \in DOMAIN t.columns
  /\ LET c == t.columns[k]
     IN  IF reserved[c.name] # "free"
         THEN UNCHANGED <<condCache, reserved>>
         ELSE /\ Ask(c.when)
              /\ reserved' = IF ~CondOK(c.when) THEN reserved
                             ELSE [reserved EXCEPT ![c.name] =
                                    IF c.quiet THEN "quiet" ELSE "reserved"]
  /\ k' = k + 1
  /\ UNCHANGED <<t, rec, pc, derivedVals, groupOn, secOn, out, sec, perRow, rows, err>>

-----------------------------------------------------------------------------
(* Rows.                                                                    *)

ActiveIn(o) == {s \in t.outputs[o].member : secOn[s]}

\* A slip of extends: any row whose sections are among those of the new one
\* is copied, in whatever order they come.
ExtendsSubset(a, b) == ActiveIn(a) \subseteq ActiveIn(b)

(* extends: the active sections of a come first among those of b. *)
Extends(a, b) ==
  /\ ActiveIn(a) \subseteq ActiveIn(b)
  /\ \A s \in ActiveIn(a), x \in ActiveIn(b) \ ActiveIn(a) : s < x

(* The first section that only b has, or one past the last. *)
FirstOwn(a, b) ==
  LET own == ActiveIn(b) \ ActiveIn(a)
  IN  IF own = {} THEN Len(t.sections) + 1
      ELSE CHOOSE s \in own : \A x \in own : s <= x

Previous == rows[Len(rows)]

CanExtend(o) == Extend(t) /\ rows # <<>> /\ Extends(Previous.output, o)

(* An output whose name is a derived value that is empty matches nothing. *)
IsNamed(o) == IF o.nameFrom = 0 THEN TRUE ELSE derivedVals[o.nameFrom] # ""

(* An output without a name, or whose condition fails, is passed over. *)
SkipOutput ==
  /\ pc = "outputs"
  /\ out \in DOMAIN t.outputs
  /\ LET o == t.outputs[out]
     IN  /\ ~(CondOK(o.when) /\ IsNamed(o))
         /\ Ask(o.when)
  /\ out' = out + 1
  /\ UNCHANGED <<t, rec, pc, k, derivedVals, groupOn, secOn, reserved, sec, perRow, rows, err>>

StartRow ==
  /\ pc = "outputs"
  /\ out \in DOMAIN t.outputs
  /\ LET o == t.outputs[out]
     IN  /\ CondOK(o.when)
         /\ IsNamed(o)
         /\ Ask(o.when)
  /\ UNCHANGED <<t, rec, derivedVals, groupOn, secOn, reserved, out, rows, err>>

(* openRow: the row starts as a copy of the previous one, and goes on with  *)
(* its key set and its count of dropped keys.                               *)
ExtendRow ==
  /\ StartRow
  /\ CanExtend(out)
  /\ body' = Previous.body
  /\ sec' = FirstOwn(Previous.output, out)
  /\ Goto("walk")
  /\ UNCHANGED <<colWritten, keys, slots, seen, quiet, rest, dropped>>

(* openRow: a row that starts anew, with the slots and the key set given. *)
StartAnew(emptySlots, emptyKeys) ==
  /\ StartRow
  /\ ~CanExtend(out)
  /\ dropped' = 0
  /\ slots' = emptySlots
  /\ keys' = IF t.collision = "keep" THEN keys ELSE emptyKeys
  /\ seen' = [d \in DOMAIN seen |-> FALSE]
  /\ colWritten' = [name \in DOMAIN colWritten |-> FALSE]
  /\ rest' = <<>>
  /\ body' = <<>>
  /\ sec' = 1
  /\ Goto("columns")
  /\ UNCHANGED quiet

ClearSlots == [s \in DOMAIN slots |-> Missing]

\* Slips of openRow: the slots of the former row are kept; the key set is.
FreshRowOldSlots == StartAnew(slots, {})
FreshRowOldKeys == StartAnew(ClearSlots, keys)

FreshRow == StartAnew(ClearSlots, {})

(* writeKey and the value: every entry of a row is written like this. *)
Write(name, value, bad) ==
  /\ body' = Append(body, <<name, value>>)
  /\ seen' = [d \in DOMAIN seen |-> seen[d] \/ t.defaults[d].key = name]
  /\ err' = IF bad THEN "ErrInvalidNumber" ELSE err

Owner(name) == IF name \in DOMAIN reserved THEN reserved[name] ELSE "free"

(* claim, and the write it allows: a name of an active column, or one that  *)
(* is taken already, is left out. A collision nobody is to hear of is not   *)
(* counted and no error.                                                    *)
ClaimIn(name, value, bad, silent, remember) ==
  IF Owner(name) # "free"
  THEN /\ dropped' = IF Owner(name) = "reserved" /\ ~quiet THEN dropped + 1 ELSE dropped
       /\ UNCHANGED <<body, seen, keys, err>>
  ELSE IF t.collision # "keep" /\ name \in keys
  THEN /\ dropped' = IF silent \/ t.collision = "error" THEN dropped ELSE dropped + 1
       /\ err' = IF ~silent /\ t.collision = "error" THEN "ErrCollision" ELSE err
       /\ UNCHANGED <<body, seen, keys>>
  ELSE /\ keys' = IF t.collision = "keep" THEN keys ELSE remember
       /\ UNCHANGED dropped
       /\ Write(name, value, bad)

\* Slips of claim: the set remembers no key; a quiet section fails on collisions.
ClaimUnremembered(name, value, bad) == ClaimIn(name, value, bad, quiet, keys)
ClaimLoudly(name, value, bad) == ClaimIn(name, value, bad, FALSE, keys \cup {name})

Claim(name, value, bad) == ClaimIn(name, value, bad, quiet, keys \cup {name})

(* writeColumns: the first column of a name that has a value wins. *)
WriteColumn ==
  /\ pc = "columns"
  /\ k \in DOMAIN t.columns
  /\ LET c == t.columns[k]
         v == ColumnValue(c, rec, derivedVals)
     IN  IF colWritten[c.name]
         THEN UNCHANGED <<condCache, body, seen, err, colWritten>>
         ELSE /\ Ask(c.when)
              /\ IF CondOK(c.when) /\ ColumnSource(c, rec, derivedVals) # 0
                 THEN /\ Write(c.name, <<v.id>>, v.bad)
                      /\ colWritten' = [colWritten EXCEPT ![c.name] = TRUE]
                 ELSE UNCHANGED <<body, seen, err, colWritten>>
  /\ Continue
  /\ UNCHANGED <<t, rec, derivedVals, groupOn, secOn, reserved, out, sec,
                 keys, slots, quiet, rest, dropped, rows>>

EndColumns ==
  /\ pc = "columns"
  /\ k \notin DOMAIN t.columns
  /\ Goto("walk")
  /\ UNCHANGED <<t, rec, perRecord, out, sec, perRow, rows, err>>

-----------------------------------------------------------------------------
(* The walk of the sections.                                                *)

(* A section the output does not have, or that is off, is not walked. *)
NextSection ==
  /\ pc = "walk"
  /\ sec \in DOMAIN t.sections
  /\ IF sec \in ActiveIn(out)
     THEN Goto("nodes") /\ quiet' = t.sections[sec].quiet /\ UNCHANGED sec
     ELSE sec' = sec + 1 /\ UNCHANGED <<pc, k, quiet>>
  /\ UNCHANGED <<t, rec, perRecord, out, colWritten, keys, slots, seen, rest,
                 body, dropped, rows, err>>

(* collect: what keep removes goes to the rest column, unless a column has  *)
(* it already.                                                              *)
Collect(key, v) ==
  /\ IF t.rest # NoName /\ Owner(key) = "free"
     THEN /\ rest' = Append(rest, <<key, v.id>>)
          /\ err' = IF v.bad THEN "ErrInvalidNumber" ELSE err
     ELSE UNCHANGED <<rest, err>>
  /\ UNCHANGED <<body, seen, keys, dropped>>

(* handle, for a node that is written as one value: merges capture it       *)
(* first, whatever becomes of it.                                           *)
HandleNode ==
  /\ pc = "nodes"
  /\ k \in DOMAIN rec.nodes[sec]
  /\ LET node == rec.nodes[sec][k]
         key == FixedKey(t, groupOn, node.key)
     IN  /\ slots' = IF Capturable(node.val)
                     THEN [s \in DOMAIN slots |-> IF s \in node.slots THEN node.val ELSE slots[s]]
                     ELSE slots
         /\ IF ~Survives(t, node) \/ Verdict(t, key) = "dropped"
            THEN UNCHANGED <<rest, body, seen, keys, dropped, err>>
            ELSE IF Verdict(t, key) = "notKept"
            THEN Collect(key, node.val)
            ELSE Claim(key, <<node.val.id>>, node.val.bad) /\ UNCHANGED rest
  /\ Continue
  /\ quiet' = (quiet /\ err' = "none")
  /\ UNCHANGED <<t, rec, perRecord, out, sec, colWritten, rows>>

(* The end of a section, which sets quiet back. *)
LeaveSection(still) ==
  /\ pc = "nodes"
  /\ k \notin DOMAIN rec.nodes[sec]
  /\ quiet' = still
  /\ sec' = sec + 1
  /\ Goto("walk")
  /\ UNCHANGED <<t, rec, perRecord, out, colWritten, keys, slots, seen, rest,
                 body, dropped, rows, err>>

\* A slip of section: quiet outlives the section.
EndSectionQuiet == LeaveSection(quiet)

EndSection == LeaveSection(FALSE)

EndSections ==
  /\ pc = "walk"
  /\ sec \notin DOMAIN t.sections
  /\ Goto("merges")
  /\ UNCHANGED <<t, rec, perRecord, out, sec, perRow, rows, err>>

-----------------------------------------------------------------------------
(* What follows the sections.                                               *)

(* writeMerges: a result is made, and may fail, before its name is claimed. *)
WriteMerge ==
  /\ pc = "merges"
  /\ k \in DOMAIN t.merges
  /\ LET m == t.merges[k]
         result == Merged(m.mode, [p \in DOMAIN m.slots |-> slots[m.slots[p]]])
     IN  IF result.empty \/ result.bad
         THEN /\ err' = IF result.bad THEN "ErrInvalidNumber" ELSE err
              /\ UNCHANGED <<body, seen, keys, dropped>>
         ELSE Claim(m.to, result.value, FALSE)
  /\ Continue
  /\ UNCHANGED <<t, rec, perRecord, out, sec, colWritten, slots, quiet, rest, rows>>

EndMerges ==
  /\ pc = "merges"
  /\ k \notin DOMAIN t.merges
  /\ Goto("defaults")
  /\ UNCHANGED <<t, rec, perRecord, out, sec, perRow, rows, err>>

WriteDefault ==
  /\ pc = "defaults"
  /\ k \in DOMAIN t.defaults
  /\ IF seen[k] THEN UNCHANGED <<body, seen, keys, dropped, err>>
     ELSE Claim(t.defaults[k].key, <<t.defaults[k].value>>, FALSE)
  /\ Continue
  /\ UNCHANGED <<t, rec, perRecord, out, sec, colWritten, slots, quiet, rest, rows>>

(* writeRest ends what is written. *)
WriteRest ==
  /\ pc = "defaults"
  /\ k \notin DOMAIN t.defaults
  /\ IF rest = <<>> THEN UNCHANGED <<body, seen, keys, dropped, err>>
     ELSE Claim(t.rest, rest, FALSE)
  /\ Goto(IF err' = "none" THEN "close" ELSE "done")
  /\ UNCHANGED <<t, rec, perRecord, out, sec, colWritten, slots, quiet, rest, rows>>

(* The end of row: it is listed, and the next output follows. *)
CloseRow ==
  /\ pc = "close"
  /\ rows' = Append(rows, [output |-> out, body |-> body, dropped |-> dropped])
  /\ out' = out + 1
  /\ Goto("outputs")
  /\ UNCHANGED <<t, rec, perRecord, sec, perRow, err>>

(* A record without rows is an error of its own. *)
EndBuild ==
  /\ pc = "outputs"
  /\ out \notin DOMAIN t.outputs
  /\ err' = IF rows = <<>> THEN "ErrNoOutput" ELSE err
  /\ Goto("done")
  /\ UNCHANGED <<t, rec, perRecord, out, sec, perRow, rows>>

Step ==
  \/ ComputeDerived \/ Prepare \/ SwitchGroup \/ SwitchSection \/ Reserve
  \/ SkipOutput \/ ExtendRow \/ FreshRow \/ WriteColumn \/ EndColumns
  \/ NextSection \/ HandleNode \/ EndSection \/ EndSections
  \/ WriteMerge \/ EndMerges \/ WriteDefault \/ WriteRest \/ CloseRow \/ EndBuild

Next == Step \/ \E r \in Records(t) : Build(r)

Spec == Init /\ [][Next]_vars

-----------------------------------------------------------------------------

(* The type of the builder's variables. *)
TypeOK ==
  /\ t \in Configs
  /\ pc \in {"new", "done", "derive", "groups", "sections", "reserve", "outputs", "columns",
             "walk", "nodes", "merges", "defaults", "close"}
  /\ k \in Nat /\ out \in Nat /\ sec \in Nat /\ dropped \in Nat
  /\ derivedVals \in [DOMAIN t.derived -> {""} \cup STRING]   (* "" is empty *)
  /\ condCache \in [DOMAIN t.conds -> {"unknown", "true", "false"}]
  /\ groupOn \in [DOMAIN t.groups -> BOOLEAN]
  /\ secOn \in [DOMAIN t.sections -> BOOLEAN]
  /\ reserved \in [ColumnNames(t) -> {"free", "reserved", "quiet"}]
  /\ colWritten \in [ColumnNames(t) -> BOOLEAN]
  /\ DOMAIN slots = Slots
  /\ \A s \in Slots : IsValue(slots[s])
  /\ seen \in [DOMAIN t.defaults -> BOOLEAN]
  /\ quiet \in BOOLEAN
  /\ err \in {"none", "ErrRootNotContainer", "ErrRequired", "ErrCollision",
              "ErrInvalidNumber", "ErrNoOutput"}

Finished == pc = "done"

(* The rows of a record, with their counts of dropped keys, are those of    *)
(* Rows: a row that extends another is what a fresh build gives, and no     *)
(* record or row shows in a later one (build, row, openRow, claim).         *)
RowsAsSpecified == Finished /\ err = "none" => AreRowsOf(t, rec, rows)

(* A record fails exactly if one of its rows, or a required derived value,  *)
(* does: quiet sections and reserved names never make it fail (fail, claim, *)
(* computeDerived).                                                         *)
FailsAsSpecified ==
  Finished => IF Errors(t, rec) = {} THEN err = "none" ELSE err \in Errors(t, rec)

(* Unless on_collision is keep, no name is in a row twice, nor ever is while *)
(* the row grows; columns are among the names (claim, writeColumns, openRow). *)
NamesOnce ==
  t.collision # "keep" =>
    \A p, q \in DOMAIN body : body[p][1] = body[q][1] => p = q

(* The key set holds the names of the row that are no columns, also in a row *)
(* that started as a copy (openRow: "the key set and the dropped count carry *)
(* on from there").                                                          *)
KeysOfBody ==
  t.collision # "keep" /\ pc \notin {"new", "done", "derive", "groups", "sections", "reserve", "outputs"} =>
    keys = {body[p][1] : p \in DOMAIN body} \ {name \in DOMAIN colWritten : colWritten[name]}

(* A cached condition is what its evaluation would give at any later moment *)
(* of the record, the derived values it reads included (condOK, when).      *)
CacheIsTruth ==
  pc \notin {"new", "done"} => \A c \in DOMAIN condCache :
    condCache[c] # "unknown" =>
      (condCache[c] = "true" <=> EvalCond(t.conds[c], rec, derivedVals))

=============================================================================
