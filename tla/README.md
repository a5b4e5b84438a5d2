# jsonflat: a TLA+ model, its checks and its proofs

jsonflat is a Go library that turns JSON documents into flat rows, one JSON
object per row, as a config says. A config is compiled once into a
`Transformer`; `Append` and `Each` then run it on documents from any number of
goroutines, without allocating once their buffers have grown. What makes the
code hard is that reuse: almost every bug it could have is something that one
call, record, row or section leaves behind and a later one finds.

## 1. The system

| Component | Source | State it keeps | Operations | What makes it correct |
|---|---|---|---|---|
| Pooled calls and callbacks | `transform.go:140-400` | the pool; per state the buffers, the parsed document, options, `$now`, peak and count of small inputs | `Append`, `Each`, `begin`, `parse`, `each`, `deliver`, `release`, `worthPooling` | a call behaves as if it were alone; a failed record delivers no row; nothing of a document or a caller outlives the call; a state is given up just when it has outgrown its inputs |
| Record engine | `transform.go:404-660, 835-920, 1023-1323` | condition cache, reservations, key set, merge slots, rest column, finished rows | `build`, `computeDerived`, `row`, `openRow`, `extends`, `writeColumns`, `handle`, `claim`, `collect`, `writeMerges`, `writeDefaults`, `writeRest`, `condOK` | the rows are those the config means, whatever was built before |
| Walk | `transform.go:653-813` | source path, output path, stack of renamed paths, depth | `section`, `visit`, `elements`, `child`, `node`, `handle`, `descend` | every leaf gets the path of its position; both paths are restored after each node |
| Values and formatting | `transform.go:505-525, 936-1020, 1122-1280`, `escape.go`, `internal/jsonenc` | scratch buffers | `text`, `mapValue`, `skew`, `AppendQuoted`, `ValidNumber`, `appendScalar`, `appendRaw` | what is written is one JSON value that reads back as what it was made from |
| Key set | `names.go:62-127` | table of hashes with generations | `reset`, `add`, `grow` | a set of the names of one row; every probe ends |
| Names | `names.go:1-60`, `config.go` (`normKey`) | the buffer that is appended to | `appendSnake`, `normKey` | words begin where a capital, an acronym or another character says so; an alias gets the key the walk makes |
| Config compiler | `config.go` | the Transformer under construction, the numbers of shared conditions, one action per source path | `Compile`, `New` and one method per part of the config | exactly the right configs are accepted; what is made of them is `WellFormed` (in `Compiled`) and does what the entries say |
| Length-masked maps | `strmap.go` | a map and a mask of key lengths | `set`, `get`, `lookup` | the mask turns away no key that is held |
| Example command | `example/main.go` | the output file, statistics, buffered writer | `run`, `flatten` | success means every row is in the output; the counts are true |
| Presets | `presets/` | none (an embedded config) | - | - |
| Repository tooling | `internal/doccheck`, `scripts/` | none | - | - |

How they interact. `Each` takes a state from a `sync.Pool`, `begin`s it, parses
the document into the state's parser, and for each source record calls `build`,
which fills `s.out` and `s.rows`, and `deliver`, which calls the callback once
per row with a `Record` whose slices are views of the state's buffers. The
callback is foreign code: it may call the Transformer again, take long, write
over what it is shown, fail or panic. At the end the state goes back to the
pool or is dropped. Inside `build`, `row` starts each row anew or as a copy of
the row before, walks the sections the output has, and passes every name
through `claim`, which asks the key set. The example command is a client of
`Each` whose callback shares its counts and its writer with the loop around it.
Before all of that `New` fixes what the engine takes for granted: conditions are
shared by content and numbered, a derived value reads only those before it, the
rules that name one source path meet in one action, and `fixKeys` and `extend`
say what rows need not do.

The hard behaviours, each listed with its line under `hazards` in
`PROJECT.json`: calls that interleave on one pool; callbacks between two rows;
records that fail in the middle of a row; state that must be reset at exactly
the right level (call, record, row, section); rows that extend one another;
conditions cached before all they depend on is known; a generation counter that
wraps; a table that must grow before it is full; entries of different sections
of a config that meet, in an order a range over a map chooses; output still
buffered when an error ends the command.

## 2. Modules

| Module | Models | Of the code |
|---|---|---|
| `NameSet` | what a key set promises: an atomic set of names | contract of `names.go:62-111` |
| `KeySet` | the table, one loop iteration per step | `names.go:62-127` |
| `KeySetProofs` | the theorems about `KeySet` | |
| `Documents` | documents, records, options and what is in a row, as far as calls can tell | `transform.go:404-551` seen from `each` |
| `EachCalls` | what calls promise: each is alone | the comments of `Append`, `Each`, `Record` |
| `Pooling` | when a state is given up: the two counters of `worthPooling`, and the same said without counters | `transform.go:249-275` |
| `Transformer` | states, pool, buffers, calls, callbacks | `transform.go:140-400` |
| `TransformerProofs` | the theorems about `Transformer`, its refinement of `EachCalls` among them | |
| `Compiled` | a compiled config and the pure questions asked of it | `transform.go:505-525, 835-880, 1122-1323`, `config.go` types and guarantees |
| `Rows` | the rows of a record, said at once and without an engine | the comments of `build`, `claim`, `openRow`, `Record.Dropped` |
| `RowBuilder` | the engine that makes them, one loop iteration per step | `transform.go:404-660, 766-920, 1023-1120, 1281-1295` |
| `RowBuilderProofs` | the theorems about `RowBuilder` | |
| `Compile` | `Compile` and `New`, one entry of one section per step, and what a right config is, said section by section | `config.go:279-1269` |
| `CompileProofs` | the theorems about `Compile` | |
| `Names` | `appendSnake` and `normKey`, byte by byte, and the words of a name | `names.go:1-60`, `config.go` |
| `Jsonenc` | the escaper and the number grammar, byte by byte, and a reader of what they make | `internal/jsonenc/jsonenc.go` |
| `Skew` | `clock_skew`, with the width of a duration | `transform.go:1242-1280` |
| `StrMap` | the map with its mask of key lengths | `strmap.go` |
| `TextProofs` | the theorems about `Names`, `Jsonenc`, `StrMap` and `Pooling` | |
| `Walk` | the walk of a section with its path buffers, and the place each node has by definition | `transform.go:653-830` |
| `WalkProofs` | the theorems about `Walk` | |
| `NdjsonFlatten` | the example command | `example/main.go:79-247` |
| `NdjsonFlattenProofs` | the theorems about `NdjsonFlatten` | |
| `Induction` | the least and the greatest number of a set, which the proofs use where induction would be | |
| `MC*` | the instances that are model-checked; `MCText` is that of `Names`, `Jsonenc`, `StrMap`, `Skew` and `Pooling` | |

`KeySet` implements `NameSet` (refinement mapping `Members`: the live slots and
the slots of the old table still to be moved). `Transformer` implements
`EachCalls` (`Phase` from `pc`, `NowText` from the state held, `Owned`, the part
of memory the caller owns). `RowBuilder` uses a set of names where the code uses the
key set, which is what the first refinement allows, and is compared with `Rows`
at the end of each record. It assumes `WellFormed` of its configs, and `Compile`
is proved to return nothing else (`ResultsWellFormed`): `Compiled` holds the
vocabulary the two share. The same theorem gives what `Walk` assumes of actions.

State and code:

* `Transformer.st[s]` is the struct `state`; `out` and `buf` are names of buffers
  in `mem`, so that sharing a buffer is visible. `rec` stands for the parser's
  document and the pointer into it; `slots` and `record` for the document that the merge
  slots point into and that the `Record` shown to the callback was made from. `Release`
  is the end of a call in one step: what `Append` takes out of `s.out`, and what `release`
  then clears, keeps and puts. `Begun`, `Parse`, `Built`, `Deliver`,
  `Return`, `ReturnError`, `Panic`, `Release` are the steps of `Append` and
  `Each`; another goroutine may run between any two. `Collect` is the garbage collector
  emptying `sync.Pool`; `Scribble` a callback that writes to `JSON`, `Fields` or
  `Name`, or appends to `JSON`, whose capacity reaches into the rows that follow.
* `Rows` gives everything that may be in a row a place (`ColumnAt`, `NodeAt`, `MergeAt`,
  `DefaultAt`, `RestAt`) and what stands there (`CandidateAt`). `Early` are the places of
  columns, nodes and merges that want to be in the row, `Late` those of the defaults and the
  rest, which depend on them; `Winners` are those that get their name. A row is the winners
  listed in the order of their places (`Listed`), `AreRowsOf` all rows of a record. Nothing in it
  has an order of steps, a cache or a row before.
* `RowBuilder`'s variables have the names of the fields of `state`. `k` is the
  counter of the loop `pc` names. `Goto` is the end of a loop, `Continue` the
  check of `s.err`.
* `Walk.calls` is the Go stack of `child` frames, with the locals `ls`, `ld` and
  `mark` of `child` and `node`; `src`, `dst`, `save` and `depth` are the fields of
  `state`. `Places` is the reference: what a node's path is, from its parent's
  alone, without buffers.
* `KeySet.pc` is the loop that runs: `probe` in `add`, `move` and `seek` in `grow`.
* `Compile.pc` is the step of `New` (the list `Steps`), `k` the entry it works on;
  `condIdx` is the map from a condition to its number, `t` the Transformer so far,
  `plain` the group of aliases without a condition, `todo` what a range over the
  map of segment aliases has not yielded yet. `Fail` is a return with an error.
  The operators whose names end in `Right` are the reference: what each section
  must be, without the order in which entries are compiled.
* `NdjsonFlatten.pc` names the statement of `run` or `flatten`; `buffered` is the
  content of the `bufio.Writer`, `written` that of the file.
* A definition whose comment starts with "A slip" is what a plausible bug would
  make of the definition next to it. Slips are in no specification; they are
  substituted to see that a property can fail.

Abstractions. Bytes are values: a row is what it was computed from, a JSON value
is its identity, its type, what its text looks like and whether a bad number is
in it. A hash is a number, and two names with one hash are one name: that is the
code's own documented bet. `RowBuilder` starts from the nodes a section writes as one value, `Walk` ends
with them; each is checked by itself. The two are not composed, because they share
nothing but that list: `handle` passes a node's key and value on and what becomes
of it (written, dropped, a collision) is not seen by the walk, except for an
error, which `Walk` takes as any node that may fail: a node that is bad fails as soon as it is written, and
`Walk` does not ask whether `keep` or `drop` would have left it out, which is the same as a record in
which it is not bad. In `Walk` a
path is a sequence of tokens, so that lengths, truncation and a key with a dot in
it mean what they mean in the code; a node that is one value succeeds,
fails, or is consumed by a merge before it could fail. In the engine and the walk, snake case, digit prefixes, normalisation and
lower case are tables of the instance; snake case itself is in `Names`. A source is looked at by
its kind, as in the code: a path, a derived value, a variable, the moment, `skew`, or a `map` or
`lower` over a path, a derived value or a variable. The text that `skew` gives is part of the record; how it comes
about is in `Skew`. In `Compile` a config is a value that
`encoding/json` has read, so that two conditions are equal exactly when their
`json.Marshal` is; a filter is the set of those of `Keys` it matches; and an error
is the step that found it. `when` checks the limit on derived values each time a
condition is used, also when it is not new: the model does the same.

## 3. Runs

| Run | Asks | Bounds, and why they are enough |
|---|---|---|
| `keyset` | Is the table a set through every order of `reset`, `add`, `grow`? | 5 hashes that crowd on one home slot and wrap around the end, tables of 2, 4 and 8 slots (two growths), generations modulo 3, so the counter wraps after two rows and old generations are met again |
| `transformer_each` | Do two callers on one pool behave as if alone, and does nothing of a call outlive it? | 2 callers, 2 states, a batch with two rows and a failing record, a record that fails after a row; the clock moves once; every callback may scribble, fail or panic. What begins, is built, shown and released is seen at every step of both callers |
| `transformer_solo` | Does anything of one call show in the next, and does every call return? | one state reused for all six shapes of documents, among them one too large for the pool and one far below the peak; `ShrinkAfter` 2, so the state is dropped within the bound |
| `transformer_append` | Does the pool ever hold a caller's buffer? | 2 callers, both operations, a caller's buffer of up to 2 rows |
| `rows` | Are copied rows right? Do slots, defaults and rest stay in their row? Is a cached condition what it would be if asked again? | a family of configs with three sections and three outputs in two arrangements (prefixes and non-prefixes), two columns of one name, a quiet and a dead section, each collision policy; a family with merges of each mode, keep with and without rest, alias groups that compete, a record that fails in a merge, in a node, in the rest; two derived values in both, the second with a condition that asks a map of the first, so that a condition is cached while a derived value is still to come; sources that are paths, derived values, a variable, a `map` (to a null, too) and a `lower`; `$now` and `skew` are in no config here, as they are values like any other to the engine; record after record, because nothing but a former record can be left over |
| `walk_section` | Does every node get the key of its place, and are the paths restored? | every tree of up to 5 nodes with objects and arrays, keys that are renamed, dropped, aliased, empty or hold a dot, at most one node that fails when it comes to be written (one that a merge consumes does not); two sections in any order; renames two deep with new keys longer and shorter than the old, a depth limit of 2, arrays entered and not |
| `ndjson_flatten` | Is a success complete, are the counts true? | all streams of up to 3 lines of 7 kinds, limits 0, 1, 2, a buffer of 2 rows, so it is full within one stream; the config, the input, the output, every write, the flush and the close may fail, and so may the reading of the stream, before or after the line at which the limit is met |
| `compile` | Are exactly the right configs accepted, and does what is made of them do what they say? | six families of configs: conditions that are shared between derived values, columns, aliases, sections and outputs; sources of every kind, right and wrong; keep, drop, rest and aliases that meet, with a digit prefix and without; aliases and segment aliases, in every order of the range; three rules out of twelve on two nested paths with sections below them; one wrong entry alone |
| `text` | Do the pure functions agree with their definitions, does the mask turn away no key, and is a state given up in time? | every name of up to 5 bytes, every number of up to 6, every text of up to 4, over the bytes the code tells apart (the bytes of an escape, both ends of the control characters, a byte of a multi-byte character); maps over keys on both sides of the highest bit of the mask, in every order; every sequence of up to 6 inputs of five sizes, one of them too large for the pool, `ShrinkAfter` 2 and `ShrinkRatio` 2, so a state is given up for each reason, made anew and given up again |
| `compile_filters` | Is an entry in both keep and drop rejected? (no) | as `compile` |
| `clock_skew` | Is the corrected time `now - (sent - original)`? (no) | as `text`; durations of 4 bits and moments from 0 to 20, so that a difference leaves the range on both sides |
| `ndjson_lost` | Are counted rows written? (no) | as `ndjson_flatten` |

`MaxLen` (of `KeySet` and of `MCText`), `Alphabet`, `MaxClock`, `MaxDst`, `MaxLines`, `Size`,
`Keys` and the number of `States` are bounds of the models; everything else named in the configs is a parameter of the program.
The constants of the code are large (256 slots, 2^32 generations, 64 small
inputs, a ratio of 8, 64 bits of lengths and of durations); the models take small ones, for which the same
comparisons decide. Symmetry is used for callers and states in the two runs
without liveness.

What they show. All properties of the nine passing runs hold. Three runs find
a disagreement between the code and what is written about it:

* `ndjson_lost`: the field `rows` of `stats` is documented as "rows written"
  (`example/main.go:151`), but when the scanner stops with an error (a line longer
  than the limit, a gzip stream that breaks off) `flatten` returns at line 244
  without flushing the writer, so up to 1 MB of rows that were counted, and are
  reported as written, never reach the output.
* `compile_filters`: `docs/config-reference.md:406` rejects "the same entry in both
  `keep` and `drop`", but `keyFilters` (`config.go:1006`) looks entries of `keep` up
  among the exact entries of `drop` only, so `"a*"` in both is accepted, and then
  keeps nothing.
* `clock_skew`: `docs/config-reference.md:420` promises `now - (sent - original)`, but
  the difference is a `time.Duration` (`transform.go:1268`), which `Sub` keeps within
  292 years and whose least value is its own negative, so that an original 293
  years after sent moves the result to before now instead of after it.

Four more differences have no run of their own. The models do what the code does, and the
properties are worded so as not to claim the contrary:

* `names.go:17-19` and `docs/config-reference.md:254-255` treat bytes from 0x80 on as lower-case
  letters, but the look-ahead that ends an acronym (`names.go:46`) takes a to z only: of the
  bytes `ZZ` and 0xC3 the code makes `zz` and 0xC3, where the rule for `HTTPServer` would put an
  underscore before the second `Z`. `SnakeByWords` follows the comment; `SnakeAsWords` leaves out the names in
  which such a byte follows two capitals (`HighAfterCapitals`), and only these.
* `docs/config-reference.md:421` and `:430-431` say that a mapped `""` and `null` count as missing
  for `exists`, but `present` (`transform.go:1234-1236`) asks only whether the map has an
  entry or an `else`. `Present` is that of the code; the third condition of the run `rows` is such a map.
* `alias` (`config.go:968-975`) rejects an alias whose key the filters would remove, but asks them for
  the key as it is before the digit prefix, where `fixKey` (`transform.go:848-857`) asks after it. With
  `digit_prefix` "_", `keep` ["1"] and an alias to "1" the config is accepted and "_1" is never
  written. `ResultIsWellFormed` says what the code ensures; the family of filters in the run `compile` has
  such configs.
* With `-limit`, a read error that the scanner has met in the lines it has buffered ends the command as
  an input error (`example/main.go:243`), although no line that counts is affected; whether it has
  depends on how much it has read ahead (`MayHaveFailed`), and the rows are lost as in `ndjson_lost`.

Fairness. `KeySet`: an `add` that was called keeps taking steps, since nothing in
it waits. `Transformer`: each step of a caller's goroutine comes in time,
callbacks included, which is the assumption that callbacks return; starting a
call, the collector and the clock are never obliged to act. Only the runs that
check liveness use it. Deadlock is checked everywhere but in the command, which
exits, in the compiler, which returns, and in `MCText`, whose words end at `MaxLen`.

## 4. Proofs

`KeySetProofs` proves, for every set of hashes, every modulus above one and every
initial length that is a power of two above one:

* `Invariance`: `IInv` is an invariant. It is needed because neither `StoredOnce`
  nor `FreeSlot` is inductive. `StoredOnce` needs to know that the search so far
  has passed every slot where the key could be (`Passed`), which rests on
  `Reachable`: between a key's home and the key all slots are in use, also in a
  half-built table. `FreeSlot` needs `Counted` (n is the number of live slots and
  of slots waiting to be moved) and the load bound of `Phase`; that no stale slot is live
  again needs `NoFutureGeneration`. The proof has a lemma per action.
* `TypeCorrect`, `StoredOnceHolds`, `FreeSlotHolds`: the invariants of the run. The length of both tables
  is a power of two (`IsTable`, `TwicePowerOfTwo`), as the mask of `add` needs it to be.
* `KeySetImplementsNameSet`: the refinement. Growing is a stutter, because a key
  is either moved or waiting (`WaitingOnce`); `Insert` is `ReturnAdd` of a new
  key because a search that reached a free slot has seen all places of its key.

`TransformerProofs` proves, for any number of callers, states and documents:

* `OwnershipHolds`, the invariant `ExclusiveOwnership`. With the shapes of the
  variables it reads (`Shaped`, a part of `TypeOK`) it is inductive: a state that
  leaves the pool is held by nobody, because no caller holds a pooled state; it
  starts an `Each` with its own buffer, because it never keeps another; it goes
  back with its own buffer, because `out` is that of the call it serves. One lemma
  per group of actions; `KeepOwns` covers the steps that leave ownership alone.
* `NothingOutlivesHolds`, the invariant `NothingOutlivesItsCall`: the record, the envelope, the
  merge slots and the `Record` of a state come from the document of the call that holds it, and
  a state that no call holds refers to no document, no Options and no output buffer. It is
  inductive beside ownership: `begin` resets the envelope and the Options and relies on `release` for
  the rest (`ReleaseMakes`), `parse`, `build` and `deliver` only put the call's own document in,
  and ownership says that no other call writes to the state meanwhile.
* `StableHolds`, the invariant `StableDuringCallback`: `Leaves` collects, for each action of
  another caller, that it writes to no buffer and no state but its own; that the
  two differ is ownership again.

`RowBuilderProofs` proves, for every set of configs that is `WellFormed` and every
record:

* `CacheIsTruthHolds`. `CacheIsTruth` alone is not inductive while derived values are being
  computed: a condition that is cached could have read one that is still to come.
  `CacheInv` adds that it has not (`DerivedBefore`), which is what `WellFormed` says of
  the condition of a derived value; `EvalSame` says that a condition gives the same when
  its sources stand for the same, `DerivedIsNew` that a new derived value changes
  none of them.
* `NamesOnceHolds` and `KeysOfBodyHolds`, from `NameInv`. The key set holds the names of the
  row but for the columns' (`KeysKnown`), so a name that is not in it is new unless
  it is a column's; and the names of columns that are written are all reserved, so
  that `claim` refuses them. That in turn rests on the condition cache: a column whose
  name is not reserved has its condition cached as false (`ColumnSettled`), and what
  is cached is not asked again (`SettledStays`). Between two rows the last one
  listed is the one whose names the key set holds, which is what a row that starts
  as its copy needs.

* `RowBuilderTypeCorrect`, from `TypeInv` beside `NameInv`. `TypeOK` does not say that the
  record in hand is one the config has, from which every text and every value is read;
  `PlaceTypes` does. `DerivedIsText` and `SourceIsValue` follow a derived value to the
  source it comes from.
* `RowsAreAsSpecified` and `FailuresAreAsSpecified`: the engine makes the rows `Rows` says, and
  fails as `Rows` says. The invariant is `KnownInv`, all of the above and two parts more:
  * `FactInv`: what has been decided for the record so far is what `Facts` decides (`DerivedKnown`,
    `GroupsKnown`, `SectionsKnown`, `ReservedKnown`), each as far as its loop has come. A
    derived value is a recursive function of those before it; `DerivedUnfold` shows that
    it has a solution, by the least number that has none. A cached answer is the final one
    (`AskIs`), which is `CacheInv` again.
  * `RowsInv`: the row at hand is made of the places before the one the loop stands at
    (`Reached`): the body lists the winners among them, `dropped` counts the losers, the
    rest and the slots are what the nodes among them left, and none of them is an error
    (`RowState`). Each step adds exactly one place (`IsNext`), after all that are in, so a listing
    grows by one at its end (`ListingMore`) and nothing that has won loses again. The last
    node that names a slot is the one it holds (`LastIsCaptured`); what is recorded as
    seen when defaults begin are the names of the winners of `Early` (`TakenIs`).
  * A row that starts as a copy has no such steps. `PreviousKnown` says that what the row before
    left is its whole row; `SameCands` and `SameWins` say that, if `extends` allows the copy, the
    places before the first node the two do not share (`FirstOwn`) are the same, hold the same and
    are won by the same, and that the row before has nothing after them.
  * A record fails with an error that `Rows` finds: `FailedIsKnown` turns the step that fails into
    the place that is the reason.
  The places, the laws of listing and the sets of a row are said in lemmas of their own
  (`PrecedesOrders`, `PlacesInside`, `ListingMore`, `SetsAre`, `NextIsNew`); there is one lemma per
  action for each of the two parts.

`WalkProofs` proves, for every tree, every table of actions and aliases, every depth
limit and every way a node may fail:

* `NodesHold`, `PositionHolds` and `WalkTypeCorrect`, from `IInv`. The reference, `Places`, is a
  recursive function over the nodes; `PlacesUnfold` shows that it has a solution, by the
  least node that has none, and no more of it is used than what a node's place says of a
  child's. The invariant says what each buffer is at each step in terms of places
  (`Positioned`), that the calls on the stack lead from the root of the section to the current
  node (`Linked`), that `save` is the keys of the renamed among them one after the
  other, each from its own mark (`Saved`), and that the nodes found are exactly those of the
  section that no call still has ahead (`Collected`). `RenameKeeps` and `LeaveKeeps` are the
  two that matter: the key a rename overwrites is what `save` ends with, and what is cut back
  is what the parent had.

`CompileProofs` proves, for every set of configs and of keys:

* `ResultsWellFormed`, `SkipIsSafeHolds` and `CompileTypeCorrect`, from `IInv`, which has one
  part per table of the Transformer. Derived values come in the order of their names, so
  the index of a name is its rank (`RankGrows`, `EveryRank`), and a source that is right
  has a lower one (`SourceReads`). Equal conditions share one number, also when the first use
  had a higher limit: the limit is checked again at each use, which is why `CondAdded`
  needs no more than that the condition is right where it is used. The keys an alias leads to
  are not filtered, as they stand before the digit prefix (`Leads`), as filters are compiled before aliases. Each step leaves most
  of `t` alone; `Untouched` and the lemmas `...Same` say so once for each part.
* `CondsAreAsWritten`, from a second invariant, `UsesKept`: every condition of an entry that has been
  compiled has its number. The steps only add entries, so a step that compiles some keeps what is said
  of the others, and one lemma says so for any table (`Places`).
* `AliasesAreAsWritten`, from a third, `GroupsFollow`: the groups know exactly the keys listed under
  their condition, each with the name listed for it; the plain group comes last; the digits
  table has the keys that begin with one. What a key becomes then follows by the first group
  that knows it, which for the property is the first listed.
* `RulesAreAsWritten`, from a fourth, `RulesFollow`: for each path, what the rules compiled so far
  ask of it is what its action says, and the slots handed out are as many as the merges so far
  have sources (`MergesKept`), so those of the next begin where these end. A rename is
  the only rule that could overwrite what an earlier one asked for; that `addRename` turns down a
  path that has a new name already is what the proof needs there.
* `RightAreAccepted`, from a fifth, `RightKept`: the entries read so far are right, alone and beside
  each other (`UpTo`), and the tables of column names, of segments, of aliases and of defaults
  say what these entries say (`TablesNamed`). Each check of a step accepts an entry just when it is
  right beside those before it (`Joins`; one lemma `...Checked` per section). A condition that
  has a number already is not compiled again, and need not be: an entry that is right
  uses it (`CondsAreRight`). That a config is turned down only with reason goes by `UpToLess`: what is
  wrong with the entries up to one is wrong with all of them (`FailWrong`).

`NdjsonFlattenProofs` proves, for every stream, limit and capacity:

* `SuccessCompletes`, `CountsHold` and `NdjsonTypeCorrect`, from `IInv`: as long as nothing has
  failed (`Fine`), what is written and what is buffered are together the rows of the
  records handled, in their order (`Records`), and every counter is the size of the set it counts
  (`Tally`, `Lines`). `NoneAfterLimit` is what makes a limit that is reached the end of the lines.

`TransformerProofs` uses ownership for two more results:

* `TransformerImplementsEachCalls`, the refinement: for any number of callers each call does
  what it would do alone. `FollowInv` says of each call that its state and its buffer are a
  function of its own job, its position and what its callbacks wrote over (`Follows`). Ownership
  gives that a step of another call leaves it so (`UntouchedFollows`); one lemma per action
  shows that its own steps do, and which step of `EachCalls` each is. `Parse`, `Collect` and a
  `Build` that does not read `$now` are stutters.
* `TransformerTypeCorrect`.

`TextProofs` proves what the run `text` checks, for words of any length over any bytes, each first as
a lemma about every sequence of bytes (`ValidIsNumber`, `QuotedReads`, `SnakeIsByWords`,
`KeyIsSnake`):

* `NumbersAreOfGrammar`. The scanner takes as many digits as there are (`AfterDigitsIs`), the grammar
  asks for some way to cut a number in three. The parts of the grammar are said by the places of
  the whole (`IntegerIs`, `FractionIs`, `ExponentIs`), and no cut but the scanner's has them.
* `EscapesReadBack`. The state of `AppendEscaped` is its output and the start of the run it has not
  copied yet; the two together are the codes of the bytes so far (`EscapesNext`). What is
  written stays (`EscapedStays`), so the reader meets the code of each byte where it was
  put, and takes it for that byte (`CodeReads`).
* `SnakesAreWords`. When `i` bytes are read, the output is what the buffer held and the pieces of the
  letters among them, and `prev` and `sep` are the class of the last letter and whether
  something else came behind it (`SoFar`, `SnakedNext`): so the loop breaks words just where
  `SnakeByWords` does, by letters that are neighbours. The two look ahead at different letters (a to z; any
  lower-case letter), which makes a difference only in the names that `HighAfterCapitals` leaves out.
* `AliasesMeetKeys`. The loop over the whole key and the loop over one segment of it go side by side
  (`Matches`, `MatchesNext`): the first is behind the words of the segments before, with one
  underscore between. At the end of a segment the look-ahead of the one sees the separator and that of the
  other sees nothing, and neither is a lower-case letter; the separator itself only sets `sep`
  (`NextStarts`). A segment of which nothing is left adds nothing in either (`SegmentEnds`).
* `GivenUpInTime`, for inputs of any number and size and any limits. `Outgrown` says without counters
  when a state should go: each of its last `ShrinkAfter` inputs was far below one that the same
  state had served before. The counters are followed from the input at which the state was
  made: `peak` is the largest of what it has served and `small` the length of the streak at its end.
* `MaskTurnsNoneAway`, for every set of keys and every width of the mask: every key has its bit
  and every bit is that of a key (`BitsOfKeys`), long keys included, which share the highest.

The loops are recursive functions; the lemmas `...Unfold` show that each has a value at every
place, by the least place up to which there is none. Segments and letters are listed by
their ranks (`Names!InOrder`), as the prover knows nothing of a sort.

Where a proof would go by induction over a sequence, a stack or the natural numbers, it
takes the least number for which the claim fails (`Induction!LeastNumber`).

Assumptions, named `...Assumption` in the module that declares the constant; the runs
evaluate them:

* `KeySet`, `StrMap`: sizes and moduli, and hashes that are numbers. `MCText`: bytes that are numbers;
  the alphabets and the lengths of its words are otherwise free.
* `Pooling`: limits that are numbers, with a ratio and a streak above zero.
* `Transformer`: the names of callers, states and of nothing differ, and the sizes are
  numbers. `Documents`: the shapes of documents and options; and a config without batches and
  outputs, the only kind `Append` works with (`Simple`), has one record per document and gives it
  at most one row, without a name.
* `RowBuilder`: configs are `WellFormed`, which `ResultsWellFormed` proves of what `New` returns;
  their tables are slices, the sections of an output are there, and so is every condition
  that is named (`HasTables`), which their Go types and `when` see to; and a
  record has the sources the config names, with what the derived values read, also through a map, being values, and
  the nodes of each of its sections (`IsRecordOf`).
* `Walk`: a document is a tree in the order of its text; keys and paths are texts, with indices long
  enough for the widest array; actions are as `ResultsWellFormed` proves.
* `Compile`: a config is what `encoding/json` reads (`IsConfig`): its lists and paths are sequences, the
  key an alias leads to is a key, what a function reads is a path or the name of a variable, the
  name of an output is text or absent, and the constants that stand for an absent
  path or name are neither a path nor a key. `NdjsonFlatten`: a stream is a
  sequence of lines, and the writer's buffer is not empty.

Only model-checked:

* liveness (`AddReturns`, `CallsReturn`), which the prover does not reach under fairness.

Every invariant and every refinement that a passing run checks is the subject of a theorem.

## 5. Not modelled, and why

* The raw writer (`appendRaw`, `appendValue` of `transform.go`, `escape.go`): it copies
  the parser's tree out as JSON, without state and without a choice; what it relies
  on, the escaper and the number grammar, is in `Jsonenc`. The layout of times.
* `strings.ToLower`, `unicode` and the fold of other alphabets in `appendLower`: external.
* Presets: an embedded config, data for the compiler.
* `internal/doccheck`, `scripts/`, the `Makefile`: not part of the program. `doc.go`: comments.
* `fastjson`, `encoding/json`, `sync.Pool`, `bufio` and the operating system are external
  and appear as what the code may meet from them: a parse error, an unknown field, an
  empty pool, a failed write.
* Of the example command: flags, gzip, indentation (of rows that are valid JSON, so
  it does not fail), what `checkRow` looks at in a row, the counts of bytes and columns,
  samples and printing. With `-limit` the command reads one non-blank line
  more than it uses (`example/main.go:222-230`); the model does too, and an unreadable one
  there, or one that the reader has met behind it, ends it with an error, as in the code.
* `Walk` and `RowBuilder` composed: see Abstractions.

## 6. Plan

Every invariant and refinement that is checked is proved as well; liveness stays with TLC. What
would be next is breadth: the raw writer and the layout of times, if a property of their
output is ever needed.
