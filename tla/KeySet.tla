------------------------------- MODULE KeySet -------------------------------
(***************************************************************************)
(* The key set of names.go: an open-addressing table with linear probing,  *)
(* emptied between rows by a generation counter instead of a clear.        *)
(*                                                                         *)
(* The loops of add and grow are stepped one iteration at a time, so that  *)
(* what they rely on (a free slot on every probe path, no slot of an older *)
(* row taken for one of this row) is part of the reachable states and not  *)
(* of a definition.  A state with an empty table is a set that was never   *)
(* reset; the engine resets before the first add (openRow).                *)
(***************************************************************************)
EXTENDS Integers, FiniteSets

CONSTANTS
  Hashes,    (* the 64-bit hashes of the names that may be added       *)
  GenMod,    (* the generation counter counts modulo GenMod: 2^32      *)
  InitLen,   (* the number of slots of a new table: 256                *)
  MaxLen,    (* bound: a table of this length is not filled past half  *)
  NoHash     (* the absence of a pending call                          *)

ASSUME HashesAssumption == Hashes \subseteq Nat /\ NoHash \notin Hashes
ASSUME GenModAssumption == GenMod \in Nat /\ GenMod > 1

VARIABLES
  slots,     (* the table: a function on 0 .. length-1                 *)
  gen,       (* the generation of the current row                      *)
  n,         (* how many keys the current row added                    *)
  pc,        (* "idle", or the loop that runs: "probe", "move", "seek" *)
  h,         (* the hash add was called with                           *)
  i,         (* the slot the probing loop looks at                     *)
  old, j,    (* grow: the former table, and the next of its slots      *)
  answer     (* what the last add found out                             *)

vars == <<slots, gen, n, pc, h, i, old, j, answer>>

-----------------------------------------------------------------------------
(* A table of a given length. A slot of generation 0 was never used.       *)

Slot == [hash : Nat, gen : Nat]
EmptySlot == [hash |-> 0, gen |-> 0]
EmptyTable(len) == [p \in 0 .. len - 1 |-> EmptySlot]

Length(table) == Cardinality(DOMAIN table)
IsTable(table) ==
  Length(table) \in Nat /\ table \in [0 .. Length(table) - 1 -> Slot]

(* A length no odd number but 1 divides: what makes len-1 a mask. *)
PowerOfTwo(len) ==
  len > 0 /\ \A d, q \in 1 .. len : len = d * q /\ d % 2 = 1 => d = 1

(* x & mask and (p+1) & mask, for a length that is a power of two. *)
Home(x, len) == x % len

\* A slip of the loops of add and grow: the next slot is not masked.
FollowingUnmasked(p, len) == p + 1

Following(p, len) == IF p + 1 = len THEN 0 ELSE p + 1

ASSUME LenAssumption == /\ InitLen \in Nat /\ InitLen % 2 = 0 /\ PowerOfTwo(InitLen)
                        /\ MaxLen \in Nat

Used(table) == {p \in DOMAIN table : table[p].gen = gen}

-----------------------------------------------------------------------------

Init ==
  /\ slots = EmptyTable(0)
  /\ gen = 0
  /\ n = 0
  /\ pc = "idle"
  /\ h = NoHash
  /\ i = 0
  /\ old = EmptyTable(0)
  /\ j = 0
  /\ answer = "none"

\* Slips of reset: a wrapped generation finds the marks of the first rows;
\* the count is kept.
ResetUncleared ==
  /\ pc = "idle"
  /\ slots' = IF DOMAIN slots = {} THEN EmptyTable(InitLen) ELSE slots
  /\ gen' = IF (gen + 1) % GenMod = 0 THEN 1 ELSE gen + 1
  /\ n' = 0
  /\ UNCHANGED <<pc, h, i, old, j, answer>>

(* The first call of reset makes the table; a generation counter that       *)
(* wrapped to 0 clears every slot, because generation 1 was used before.    *)
NewGeneration ==
  /\ pc = "idle"
  /\ LET table   == IF DOMAIN slots = {} THEN EmptyTable(InitLen) ELSE slots
         wrapped == (gen + 1) % GenMod = 0
     IN  /\ slots' = IF wrapped THEN EmptyTable(Length(table)) ELSE table
         /\ gen' = IF wrapped THEN 1 ELSE (gen + 1) % GenMod
  /\ UNCHANGED <<pc, h, i, old, j, answer>>

ResetUncounted == NewGeneration /\ UNCHANGED n

(* reset *)
Reset == NewGeneration /\ n' = 0

(* The head of grow: a table of twice the length, and the slots of the old *)
(* one still to be moved.                                                  *)
StartGrow ==
  /\ old' = slots
  /\ j' = 0
  /\ slots' = EmptyTable(2 * Length(slots))
  /\ pc' = "move"
  /\ UNCHANGED i

(* add looks for its key, in a larger table if this one is too full. *)
AddTo(x, tooFull) ==
  /\ pc = "idle"
  /\ DOMAIN slots # {}
  /\ n * 2 < MaxLen
  /\ h' = x
  /\ IF tooFull
     THEN StartGrow
     ELSE /\ pc' = "probe"
          /\ i' = Home(x, Length(slots))
          /\ UNCHANGED <<slots, old, j>>
  /\ UNCHANGED <<gen, n, answer>>

\* A slip of add: the table grows only when there is no slot left.
CallAddFull(x) == AddTo(x, n > Length(slots))

(* add: a table that is half full grows before the key is looked for. *)
CallAdd(x) == AddTo(x, n * 2 >= Length(slots))

(* The loop of grow skips the slots that older rows left behind. *)
SkipStale ==
  /\ pc = "move"
  /\ j \in DOMAIN old
  /\ old[j].gen # gen
  /\ j' = j + 1
  /\ UNCHANGED <<slots, gen, n, pc, h, i, old, answer>>

StartMove ==
  /\ pc = "move"
  /\ j \in DOMAIN old
  /\ old[j].gen = gen
  /\ i' = Home(old[j].hash, Length(slots))
  /\ pc' = "seek"
  /\ UNCHANGED <<slots, gen, n, h, old, j, answer>>

(* The inner loop of grow: the first slot the new table has free. *)
Seek ==
  /\ pc = "seek"
  /\ slots[i].gen = gen
  /\ i' = Following(i, Length(slots))
  /\ UNCHANGED <<slots, gen, n, pc, h, old, j, answer>>

Place ==
  /\ pc = "seek"
  /\ slots[i].gen # gen
  /\ slots' = [slots EXCEPT ![i] = old[j]]
  /\ j' = j + 1
  /\ pc' = "move"
  /\ UNCHANGED <<gen, n, h, i, old, answer>>

(* grow returns to add, which starts to probe. *)
BackToAdd(len) ==
  /\ pc = "move"
  /\ j \notin DOMAIN old
  /\ old' = EmptyTable(0)
  /\ j' = 0
  /\ i' = Home(h, len)
  /\ pc' = "probe"
  /\ UNCHANGED <<slots, gen, n, h, answer>>

\* A slip of add: the mask of the old table is used after grow.
EndGrowOldMask == BackToAdd(Length(old))

EndGrow == BackToAdd(Length(slots))

(* The loop of add: a slot of this row with another hash is passed over. *)
Probe ==
  /\ pc = "probe"
  /\ slots[i].gen = gen
  /\ slots[i].hash # h
  /\ i' = Following(i, Length(slots))
  /\ UNCHANGED <<slots, gen, n, pc, h, old, j, answer>>

Return(result) ==
  /\ answer' = result
  /\ pc' = "idle"
  /\ h' = NoHash
  /\ i' = 0
  /\ UNCHANGED <<gen, old, j>>

(* A slot that this row has not used ends the search: the key is new. *)
Insert ==
  /\ pc = "probe"
  /\ slots[i].gen # gen
  /\ slots' = [slots EXCEPT ![i] = [hash |-> h, gen |-> gen]]
  /\ n' = n + 1
  /\ Return("new")

Found ==
  /\ pc = "probe"
  /\ slots[i].gen = gen
  /\ slots[i].hash = h
  /\ UNCHANGED <<slots, n>>
  /\ Return("taken")

GrowStep == SkipStale \/ StartMove \/ Seek \/ Place \/ EndGrow
ProbeStep == Probe \/ Insert \/ Found

Next ==
  \/ Reset
  \/ \E x \in Hashes : CallAdd(x)
  \/ GrowStep
  \/ ProbeStep

Spec == Init /\ [][Next]_vars

(* add runs on its caller's goroutine and waits for nothing: once called it *)
(* keeps taking steps.                                                      *)
FairSpec == Spec /\ WF_vars(GrowStep \/ ProbeStep)

-----------------------------------------------------------------------------
(* The invariants.                                                         *)

(* The type of every variable. The table's length is a power of two from    *)
(* its first growth to its last, which is what h & mask in add and grow     *)
(* takes for granted, and i and j lie in the tables whenever a loop reads a *)
(* slot with them (k.slots[i] in add and grow, old[j] in grow).             *)
TypeOK ==
  /\ IsTable(slots)
  /\ IsTable(old)
  /\ gen \in 0 .. GenMod - 1
  /\ n \in Nat
  /\ pc \in {"idle", "probe", "move", "seek"}
  /\ h \in Hashes \cup {NoHash}
  /\ i \in Nat
  /\ j \in 0 .. Length(old)
  /\ answer \in {"none", "new", "taken"}
  /\ DOMAIN slots # {} => PowerOfTwo(Length(slots))
  /\ pc \in {"probe", "seek"} => i \in DOMAIN slots
  /\ pc = "seek" => j \in DOMAIN old

(* No slot carries a generation that a later reset could make current: the  *)
(* table never shows a key of an earlier row (the wrap clear of reset).     *)
NoFutureGeneration ==
  /\ \A p \in DOMAIN slots : slots[p].gen <= gen
  /\ \A p \in DOMAIN old : old[p].gen <= gen

(* One hash is stored once, so add cannot both find and miss a key, and     *)
(* grow never moves a key it has moved already (add, grow).                 *)
StoredOnce ==
  \A p, q \in Used(slots) : slots[p].hash = slots[q].hash => p = q

(* p lies on the way from a to b, b left out, along the cyclic table. *)
OnPath(a, p, b) == IF a <= b THEN a <= p /\ p < b ELSE p >= a \/ p < b

(* Every stored key is reachable from its home slot over slots in use, also *)
(* while grow rebuilds the table: the search of add ends at the key.        *)
Reachable ==
  \A p \in Used(slots), q \in DOMAIN slots :
    OnPath(Home(slots[p].hash, Length(slots)), q, p) => q \in Used(slots)

(* The keys of the current row still waiting in the old table. *)
Waiting == {p \in Used(old) : p >= j}

(* n counts the keys of the row, wherever they are stored (add, grow). *)
Counted == n = Cardinality(Used(slots)) + Cardinality(Waiting)

(* The loops of add and grow have no exit of their own besides a slot the   *)
(* current row does not use: there always is one (the load limit of add).   *)
FreeSlot ==
  pc \in {"probe", "seek"} => \E p \in DOMAIN slots : slots[p].gen # gen

-----------------------------------------------------------------------------
(* The inductive invariant: what the invariants above need to hold again    *)
(* after every step.                                                        *)

(* What each value of pc says of the other variables. The table is at most  *)
(* half full between two adds and less than half full inside one.           *)
Phase ==
  /\ DOMAIN slots = {} => gen = 0 /\ n = 0 /\ pc = "idle"
  /\ DOMAIN slots # {} => gen > 0 /\ Length(slots) % 2 = 0
  /\ pc = "idle" <=> h = NoHash
  /\ pc \in {"idle", "probe"} => DOMAIN old = {}
  /\ pc = "seek" => old[j].gen = gen
  /\ IF pc = "idle" THEN 2 * n <= Length(slots) ELSE 2 * n < Length(slots)

(* A key is in one place: it is not moved and waiting at once. *)
WaitingOnce ==
  /\ \A p, q \in Waiting : old[p].hash = old[q].hash => p = q
  /\ \A p \in Waiting, q \in Used(slots) : old[p].hash # slots[q].hash

(* What a search has passed: slots in use, none of which holds its key. *)
Passed ==
  /\ pc = "probe" => \A q \in DOMAIN slots :
       OnPath(Home(h, Length(slots)), q, i) => slots[q].gen = gen /\ slots[q].hash # h
  /\ pc = "seek" => \A q \in DOMAIN slots :
       OnPath(Home(old[j].hash, Length(slots)), q, i) => slots[q].gen = gen

(* The whole invariant, of which every step of the code preserves each part *)
(* with the help of the others (reset, add, grow).                          *)
IInv ==
  /\ TypeOK
  /\ Phase
  /\ NoFutureGeneration
  /\ StoredOnce
  /\ WaitingOnce
  /\ Reachable
  /\ Passed
  /\ Counted

-----------------------------------------------------------------------------
(* What the set promises: the table, with the part that grow still has to   *)
(* move, is a set of keys, and add is atomic on it.                         *)

Members == {slots[p].hash : p \in Used(slots)} \cup {old[p].hash : p \in Waiting}

Abstract == INSTANCE NameSet WITH
  Keys <- Hashes, NoKey <- NoHash,
  members <- Members, pending <- h, answer <- answer

(* Every behaviour of the table is one of the set NameSet describes: keys   *)
(* survive the growth of the table and a reset forgets all of them.         *)
ImplementsNameSet == Abstract!Spec

(* Every add returns (the loops of add and grow end). *)
AddReturns == pc # "idle" ~> pc = "idle"

=============================================================================
