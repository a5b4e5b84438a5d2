---------------------------- MODULE KeySetProofs ----------------------------
(***************************************************************************)
(* Proofs about KeySet, for every set of hashes, every width of the        *)
(* generation counter and every length of the first table.                 *)
(***************************************************************************)
EXTENDS KeySet, FiniteSetTheorems, TLAPS

(* The cell a key starts at lies in the table (h & mask in add and grow). *)
LEMMA HomeInTable ==
  ASSUME NEW x \in Nat, NEW len \in Nat, len > 0
  PROVE  Home(x, len) \in 0 .. len - 1
BY DEF Home

(* Twice a power of two is one: grow never leaves the powers of two.        *)
LEMMA TwicePowerOfTwo ==
  ASSUME NEW len \in Nat, PowerOfTwo(len)
  PROVE  PowerOfTwo(2 * len)
<1>1. len > 0 /\ \A d, q \in 1 .. len : len = d * q /\ d % 2 = 1 => d = 1
  BY DEF PowerOfTwo
<1>2. ASSUME NEW d \in 1 .. 2 * len, NEW q \in 1 .. 2 * len,
             2 * len = d * q, d % 2 = 1
      PROVE  d = 1
  <2> DEFINE a == d \div 2
             b == len - a * q
  <2>1. a \in Int /\ d = 2 * a + 1 /\ a >= 0
    BY <1>2
  <2>2. a * q \in Int
    BY <2>1
  <2>3. d * q = 2 * (a * q) + q
    <3> HIDE DEF a
    <3> QED BY <2>1
  <2>4. b \in Int /\ q = 2 * b
    <3> HIDE DEF a
    <3> QED BY <1>2, <2>2, <2>3
  <2> HIDE DEF b
  <2>5. b \in 1 .. 2 * len
    BY <2>4
  <2>6. len = d * b
    BY <1>2, <2>4, <2>5
  <2>7. d <= len /\ b <= len
    BY <2>5, <2>6
  <2> QED BY <1>1, <1>2, <2>5, <2>6, <2>7
<1> QED BY <1>1, <1>2 DEF PowerOfTwo

(* A table made for len slots has len slots (make in reset and grow). *)
LEMMA TableOfLength ==
  ASSUME NEW len \in Nat, NEW t, DOMAIN t = 0 .. len - 1
  PROVE  Length(t) = len /\ IsFiniteSet(DOMAIN t)
<1>1. IsFiniteSet(0 .. len - 1) /\ Cardinality(0 .. len - 1) = len
  BY FS_Interval
<1> QED BY <1>1 DEF Length

(* An empty table is a table, and no slot of it was ever used. *)
LEMMA EmptyTableFacts ==
  ASSUME NEW len \in Nat
  PROVE  /\ IsTable(EmptyTable(len))
         /\ Length(EmptyTable(len)) = len
         /\ DOMAIN EmptyTable(len) = 0 .. len - 1
         /\ \A p \in 0 .. len - 1 : EmptyTable(len)[p] = EmptySlot
<1>1. /\ DOMAIN EmptyTable(len) = 0 .. len - 1
      /\ \A p \in 0 .. len - 1 : EmptyTable(len)[p] = EmptySlot
  BY DEF EmptyTable
<1>2. Length(EmptyTable(len)) = len
  BY <1>1, TableOfLength
<1>3. EmptySlot \in Slot
  BY DEF EmptySlot, Slot
<1> QED BY <1>1, <1>2, <1>3 DEF IsTable, EmptyTable

(* What a table is made of, in the terms the proofs below use. *)
LEMMA TableFacts ==
  ASSUME NEW t, IsTable(t)
  PROVE  /\ Length(t) \in Nat
         /\ DOMAIN t = 0 .. Length(t) - 1
         /\ IsFiniteSet(DOMAIN t)
         /\ \A p \in DOMAIN t : t[p].hash \in Nat /\ t[p].gen \in Nat
<1>1. DOMAIN t = 0 .. Length(t) - 1 /\ Length(t) \in Nat
  BY DEF IsTable
<1>2. \A p \in DOMAIN t : t[p] \in Slot
  BY DEF IsTable
<1> QED BY <1>1, <1>2, TableOfLength DEF Slot

-----------------------------------------------------------------------------

LEMMA InitIInv == Init => IInv
<1> SUFFICES ASSUME Init PROVE IInv
  OBVIOUS
<1>1. slots = EmptyTable(0) /\ old = EmptyTable(0)
  BY DEF Init
<1>2. /\ IsTable(slots) /\ Length(slots) = 0 /\ DOMAIN slots = {}
      /\ IsTable(old) /\ Length(old) = 0 /\ DOMAIN old = {}
  BY <1>1, EmptyTableFacts
<1>3. Used(slots) = {} /\ Waiting = {}
  BY <1>2 DEF Used, Waiting
<1>4. TypeOK
  BY <1>2, GenModAssumption DEF Init, TypeOK
<1>5. Phase
  BY <1>2 DEF Init, Phase
<1>6. Counted
  BY <1>3, FS_EmptySet DEF Init, Counted
<1>7. Passed
  BY DEF Init, Passed
<1> QED
  BY <1>2, <1>3, <1>4, <1>5, <1>6, <1>7
  DEF IInv, NoFutureGeneration, StoredOnce, WaitingOnce, Reachable

-----------------------------------------------------------------------------
(* The generation counter steps by one or wraps to 0 (k.gen++ in reset). *)
LEMMA NextGeneration ==
  ASSUME NEW g \in 0 .. GenMod - 1
  PROVE  (g + 1) % GenMod = IF g + 1 = GenMod THEN 0 ELSE g + 1
BY GenModAssumption

(* After reset no slot of the table belongs to the new row. *)
LEMMA ResetStep ==
  ASSUME IInv, Reset
  PROVE  IInv'
<1> DEFINE table == IF DOMAIN slots = {} THEN EmptyTable(InitLen) ELSE slots
           wrapped == (gen + 1) % GenMod = 0
<1>1. /\ pc = "idle" /\ n' = 0 /\ DOMAIN old = {}
      /\ UNCHANGED <<pc, h, i, old, j, answer>>
      /\ slots' = IF wrapped THEN EmptyTable(Length(table)) ELSE table
      /\ gen' = IF wrapped THEN 1 ELSE (gen + 1) % GenMod
  BY DEF Reset, NewGeneration, IInv, Phase
<1>2. /\ IsTable(table) /\ DOMAIN table = 0 .. Length(table) - 1
      /\ Length(table) \in Nat /\ Length(table) > 0 /\ Length(table) % 2 = 0
      /\ PowerOfTwo(Length(table))
      /\ \A p \in DOMAIN table : table[p].gen \in Nat /\ table[p].gen <= gen
  <2>1. CASE DOMAIN slots = {}
    <3>1. /\ InitLen \in Nat /\ InitLen > 0 /\ InitLen % 2 = 0
          /\ PowerOfTwo(InitLen) /\ gen \in Nat
      BY LenAssumption, GenModAssumption DEF IInv, TypeOK, PowerOfTwo
    <3>2. table = EmptyTable(InitLen)
      BY <2>1
    <3> HIDE DEF table
    <3> QED BY <3>1, <3>2, EmptyTableFacts DEF EmptySlot
  <2>2. CASE DOMAIN slots # {}
    <3>1. table = slots /\ IsTable(slots)
      BY <2>2 DEF IInv, TypeOK
    <3>2. /\ Length(slots) \in Nat /\ DOMAIN slots = 0 .. Length(slots) - 1
          /\ \A p \in DOMAIN slots : slots[p].gen \in Nat
      BY <3>1, TableFacts
    <3>3. \A p \in DOMAIN slots : slots[p].gen <= gen
      BY DEF IInv, NoFutureGeneration
    <3>4. Length(slots) > 0
      BY <2>2, <3>2
    <3>5. Length(slots) % 2 = 0 /\ PowerOfTwo(Length(slots))
      BY <2>2 DEF IInv, Phase, TypeOK
    <3> HIDE DEF table
    <3> QED BY <3>1, <3>2, <3>3, <3>4, <3>5
  <2> QED BY <2>1, <2>2
<1>3. /\ IsTable(slots') /\ DOMAIN slots' = 0 .. Length(slots') - 1
      /\ Length(slots') = Length(table)
      /\ gen' \in 0 .. GenMod - 1 /\ gen' > 0
      /\ \A p \in DOMAIN slots' : slots'[p].gen < gen'
  <2>1. gen \in 0 .. GenMod - 1 /\ GenMod \in Nat /\ GenMod > 1
    BY GenModAssumption DEF IInv, TypeOK
  <2>2. (gen + 1) % GenMod = IF gen + 1 = GenMod THEN 0 ELSE gen + 1
    BY <2>1, NextGeneration
  <2> HIDE DEF table
  <2>3. CASE wrapped
    <3>1. slots' = EmptyTable(Length(table)) /\ gen' = 1
      BY <1>1, <2>3
    <3>2. \A p \in DOMAIN slots' : slots'[p].gen = 0
      BY <1>2, <3>1, EmptyTableFacts DEF EmptySlot
    <3> QED BY <1>2, <2>1, <3>1, <3>2, EmptyTableFacts
  <2>4. CASE ~wrapped
    <3>1. slots' = table /\ gen' = gen + 1 /\ gen + 1 # GenMod
      BY <1>1, <2>2, <2>4
    <3> QED BY <1>2, <2>1, <3>1
  <2> QED BY <2>3, <2>4
<1>4. Used(slots)' = {} /\ Waiting' = {}
  BY <1>1, <1>3, TableFacts DEF Used, Waiting
<1>5. TypeOK'
  <2> HIDE DEF table
  <2>1. PowerOfTwo(Length(slots'))
    BY <1>2, <1>3
  <2> QED BY <1>1, <1>3, <2>1 DEF IInv, TypeOK
<1>6. Phase'
  <2> HIDE DEF table
  <2>1. /\ 0 \in DOMAIN slots' /\ Length(slots') \in Nat
        /\ Length(slots') % 2 = 0 /\ gen' > 0
    BY <1>2, <1>3
  <2>2. pc = "idle" /\ h = NoHash /\ DOMAIN old = {}
    BY <1>1 DEF IInv, Phase
  <2> QED BY <1>1, <2>1, <2>2 DEF Phase
<1>7. NoFutureGeneration'
  BY <1>1, <1>3, TableFacts DEF NoFutureGeneration, TypeOK
<1>8. Counted'
  BY <1>1, <1>4, FS_EmptySet DEF Counted
<1>9. Passed'
  BY <1>1 DEF Passed
<1> QED
  BY <1>4, <1>5, <1>6, <1>7, <1>8, <1>9
  DEF IInv, StoredOnce, WaitingOnce, Reachable

-----------------------------------------------------------------------------
(* Facts about a reachable table that every step below starts from. *)
LEMMA StateFacts ==
  ASSUME IInv
  PROVE  /\ Length(slots) \in Nat /\ DOMAIN slots = 0 .. Length(slots) - 1
         /\ Length(old) \in Nat /\ DOMAIN old = 0 .. Length(old) - 1
         /\ \A p \in DOMAIN slots : slots[p].hash \in Nat /\ slots[p].gen \in Nat
         /\ \A p \in DOMAIN old : old[p].hash \in Nat /\ old[p].gen \in Nat
         /\ gen \in Nat /\ n \in Nat /\ i \in Nat /\ j \in 0 .. Length(old)
         /\ pc \in {"probe", "seek"} => i \in DOMAIN slots
         /\ pc = "seek" => j \in DOMAIN old
         /\ IsFiniteSet(Used(slots)) /\ IsFiniteSet(Waiting)
         /\ Cardinality(Used(slots)) \in Nat /\ Cardinality(Waiting) \in Nat
<1>1. /\ IsTable(slots) /\ IsTable(old) /\ n \in Nat /\ i \in Nat
      /\ j \in 0 .. Length(old)
      /\ pc \in {"probe", "seek"} => i \in DOMAIN slots
      /\ pc = "seek" => j \in DOMAIN old
  BY DEF IInv, TypeOK
<1>2. gen \in Nat
  BY GenModAssumption DEF IInv, TypeOK
<1>3. IsFiniteSet(DOMAIN slots) /\ IsFiniteSet(DOMAIN old)
  BY <1>1, TableFacts
<1>4. Used(slots) \in SUBSET DOMAIN slots /\ Waiting \in SUBSET DOMAIN old
  BY DEF Used, Waiting
<1>5. IsFiniteSet(Used(slots)) /\ IsFiniteSet(Waiting)
  BY <1>3, <1>4, FS_Subset
<1>6. Cardinality(Used(slots)) \in Nat /\ Cardinality(Waiting) \in Nat
  BY <1>5, FS_CardinalityType
<1> QED BY <1>1, <1>2, <1>5, <1>6, TableFacts

(* add starts: on the table as it is, or with a table to be rebuilt. *)
LEMMA CallAddStep ==
  ASSUME IInv, NEW x \in Hashes, CallAdd(x)
  PROVE  IInv'
<1>1. /\ pc = "idle" /\ DOMAIN slots # {} /\ DOMAIN old = {}
      /\ h' = x /\ x \in Nat /\ x # NoHash
      /\ gen > 0 /\ 2 * n <= Length(slots) /\ Length(slots) % 2 = 0
      /\ UNCHANGED <<gen, n, answer>>
  BY HashesAssumption DEF CallAdd, AddTo, IInv, Phase
<1>2. Waiting = {}
  BY <1>1 DEF Waiting, Used
<1>3. Length(slots) > 0
  BY <1>1, StateFacts
<1>4. CASE ~(n * 2 >= Length(slots))
  <2>1. /\ pc' = "probe" /\ i' = Home(x, Length(slots))
        /\ UNCHANGED <<slots, old, j>>
    BY <1>4 DEF CallAdd, AddTo
  <2>2. i' \in 0 .. Length(slots) - 1
    BY <1>1, <1>3, <2>1, StateFacts, HomeInTable
  <2>3. TypeOK'
    BY <1>1, <2>1, <2>2, StateFacts DEF IInv, TypeOK
  <2>4. Phase'
    BY <1>1, <1>3, <1>4, <2>1, <2>2, StateFacts DEF Phase
  <2>5. NoFutureGeneration' /\ StoredOnce' /\ WaitingOnce' /\ Reachable' /\ Counted'
    BY <1>1, <2>1 DEF IInv, NoFutureGeneration, StoredOnce, WaitingOnce,
                      Reachable, Counted, Waiting, Used
  <2>6. Passed'
    BY <1>1, <2>1, <2>2, StateFacts DEF Passed, OnPath
  <2> QED BY <2>3, <2>4, <2>5, <2>6 DEF IInv
<1>5. CASE n * 2 >= Length(slots)
  <2>1. /\ old' = slots /\ j' = 0 /\ pc' = "move" /\ i' = i
        /\ slots' = EmptyTable(2 * Length(slots))
    BY <1>5 DEF CallAdd, AddTo, StartGrow
  <2>2. 2 * Length(slots) \in Nat
    BY StateFacts
  <2>3. /\ IsTable(slots') /\ Length(slots') = 2 * Length(slots)
        /\ DOMAIN slots' = 0 .. Length(slots') - 1
        /\ \A p \in DOMAIN slots' : slots'[p].gen = 0
    BY <2>1, <2>2, EmptyTableFacts DEF EmptySlot
  <2>4. Used(slots)' = {}
    BY <1>1, <2>3, StateFacts DEF Used
  <2>5. Waiting' = Used(slots)
    BY <1>1, <2>1, StateFacts DEF Waiting, Used
  <2>6. TypeOK'
    <3>1. PowerOfTwo(Length(slots'))
      BY <1>1, <2>3, StateFacts, TwicePowerOfTwo DEF IInv, TypeOK
    <3> QED BY <1>1, <2>1, <2>3, <3>1, StateFacts DEF IInv, TypeOK
  <2>7. Phase'
    BY <1>1, <1>3, <2>1, <2>3, StateFacts DEF Phase
  <2>8. NoFutureGeneration'
    BY <1>1, <2>1, <2>3, StateFacts DEF IInv, NoFutureGeneration
  <2>9. WaitingOnce'
    BY <2>1, <2>4, <2>5 DEF IInv, StoredOnce, WaitingOnce
  <2>10. Counted'
    BY <1>1, <1>2, <2>4, <2>5, StateFacts, FS_EmptySet DEF IInv, Counted
  <2>11. Passed'
    BY <2>1 DEF Passed
  <2> QED
    BY <2>4, <2>6, <2>7, <2>8, <2>9, <2>10, <2>11
    DEF IInv, StoredOnce, Reachable
<1> QED BY <1>4, <1>5

(* grow passes over a slot of an older row. *)
LEMMA SkipStaleStep ==
  ASSUME IInv, SkipStale
  PROVE  IInv'
<1>1. /\ pc = "move" /\ j \in DOMAIN old /\ old[j].gen # gen /\ j' = j + 1
      /\ UNCHANGED <<slots, gen, n, pc, h, i, old, answer>>
  BY DEF SkipStale
<1>2. Waiting' = Waiting /\ Used(slots)' = Used(slots)
  BY <1>1, StateFacts DEF Waiting, Used
<1>3. TypeOK' /\ Phase' /\ NoFutureGeneration' /\ Passed'
  BY <1>1, StateFacts DEF IInv, TypeOK, Phase, NoFutureGeneration, Passed
<1> QED
  BY <1>1, <1>2, <1>3
  DEF IInv, StoredOnce, WaitingOnce, Reachable, Counted

(* grow turns to a slot of the current row. *)
LEMMA StartMoveStep ==
  ASSUME IInv, StartMove
  PROVE  IInv'
<1>1. /\ pc = "move" /\ j \in DOMAIN old /\ old[j].gen = gen
      /\ i' = Home(old[j].hash, Length(slots)) /\ pc' = "seek"
      /\ UNCHANGED <<slots, gen, n, h, old, j, answer>>
  BY DEF StartMove
<1>2. Length(slots) \in Nat /\ Length(slots) > 0 /\ old[j].hash \in Nat
  BY <1>1, StateFacts DEF IInv, Phase
<1>3. i' \in 0 .. Length(slots) - 1
  BY <1>1, <1>2, HomeInTable
<1>4. Waiting' = Waiting /\ Used(slots)' = Used(slots)
  BY <1>1 DEF Waiting, Used
<1>5. TypeOK'
  BY <1>1, <1>3, StateFacts DEF IInv, TypeOK
<1>6. Phase'
  BY <1>1, <1>3, StateFacts DEF IInv, Phase
<1>7. Passed'
  BY <1>1, <1>3, StateFacts DEF Passed, OnPath
<1> QED
  BY <1>1, <1>4, <1>5, <1>6, <1>7
  DEF IInv, NoFutureGeneration, StoredOnce, WaitingOnce, Reachable, Counted

(* The next slot lies in the table, and one step lengthens a path by the    *)
(* slot it leaves: (p+1) & mask in the loops of add and grow.               *)
LEMMA FollowingFacts ==
  ASSUME NEW len \in Nat, NEW p \in 0 .. len - 1, NEW a \in 0 .. len - 1,
         NEW q \in 0 .. len - 1, OnPath(a, q, Following(p, len))
  PROVE  Following(p, len) \in 0 .. len - 1 /\ (OnPath(a, q, p) \/ q = p)
BY DEF OnPath, Following

(* The loop of grow looks one slot further. *)
LEMMA SeekStep ==
  ASSUME IInv, Seek
  PROVE  IInv'
<1>1. /\ pc = "seek" /\ slots[i].gen = gen
      /\ i' = Following(i, Length(slots))
      /\ UNCHANGED <<slots, gen, n, pc, h, old, j, answer>>
  BY DEF Seek
<1>2. /\ i \in 0 .. Length(slots) - 1 /\ Length(slots) \in Nat
      /\ Length(slots) > 0 /\ j \in DOMAIN old /\ old[j].hash \in Nat
  BY <1>1, StateFacts DEF IInv, Phase, TypeOK
<1>3. i' \in 0 .. Length(slots) - 1
  BY <1>1, <1>2 DEF Following
<1>4. Passed'
  <2> DEFINE a == Home(old[j].hash, Length(slots))
  <2>1. a \in 0 .. Length(slots) - 1
    BY <1>2, HomeInTable
  <2>2. ASSUME NEW q \in DOMAIN slots, OnPath(a, q, i')
        PROVE  slots[q].gen = gen
    <3> HIDE DEF a
    <3>1. OnPath(a, q, i) \/ q = i
      BY <1>1, <1>2, <2>1, <2>2, StateFacts, FollowingFacts
    <3> QED BY <1>1, <3>1 DEF IInv, Passed, a
  <2> QED BY <1>1, <2>2 DEF Passed
<1>5. TypeOK' /\ Phase'
  BY <1>1, <1>3, StateFacts DEF IInv, TypeOK, Phase
<1>6. Waiting' = Waiting /\ Used(slots)' = Used(slots)
  BY <1>1 DEF Waiting, Used
<1> QED
  BY <1>1, <1>4, <1>5, <1>6
  DEF IInv, NoFutureGeneration, StoredOnce, WaitingOnce, Reachable, Counted

(* A slot that comes into use at the end of a fully used path from its home *)
(* leaves every key reachable (Place in grow, Insert in add).               *)
LEMMA PutStep ==
  ASSUME IInv, NEW entry \in Slot, entry.gen = gen,
         i \in DOMAIN slots, slots[i].gen # gen,
         slots' = [slots EXCEPT ![i] = entry], gen' = gen,
         \A q \in DOMAIN slots :
           OnPath(Home(entry.hash, Length(slots)), q, i) => slots[q].gen = gen,
         \A q \in Used(slots) : slots[q].hash # entry.hash
  PROVE  /\ IsTable(slots') /\ Length(slots') = Length(slots)
         /\ DOMAIN slots' = DOMAIN slots
         /\ Used(slots)' = Used(slots) \cup {i}
         /\ Cardinality(Used(slots)') = Cardinality(Used(slots)) + 1
         /\ slots'[i] = entry
         /\ \A p \in DOMAIN slots : p # i => slots'[p] = slots[p]
         /\ StoredOnce' /\ Reachable'
         /\ \A p \in DOMAIN slots' : slots'[p].gen <= gen
<1>1. DOMAIN slots' = DOMAIN slots
  OBVIOUS
<1>2. IsTable(slots) /\ Length(slots') = Length(slots)
  BY <1>1 DEF IInv, TypeOK, Length
<1>3. IsTable(slots')
  BY <1>2 DEF IsTable
<1>4. slots'[i] = entry /\ \A p \in DOMAIN slots : p # i => slots'[p] = slots[p]
  BY <1>2 DEF IsTable
<1>5. Used(slots)' = Used(slots) \cup {i} /\ i \notin Used(slots)
  BY <1>1, <1>4 DEF Used
<1>6. Cardinality(Used(slots)') = Cardinality(Used(slots)) + 1
  BY <1>5, StateFacts, FS_AddElement
<1>7. StoredOnce'
  <2> SUFFICES ASSUME NEW p \in Used(slots)', NEW q \in Used(slots)',
                      slots'[p].hash = slots'[q].hash
               PROVE  p = q
    BY DEF StoredOnce
  <2>1. CASE p \in Used(slots) /\ q \in Used(slots)
    BY <1>4, <1>5, <2>1 DEF IInv, StoredOnce, Used
  <2>2. CASE p = i \/ q = i
    BY <1>4, <1>5, <2>2 DEF Used
  <2> QED BY <1>5, <2>1, <2>2
<1>8. Reachable'
  <2> SUFFICES ASSUME NEW p \in Used(slots)', NEW q \in DOMAIN slots,
                      OnPath(Home(slots'[p].hash, Length(slots)), q, p)
               PROVE  q \in Used(slots)'
    BY <1>1, <1>2 DEF Reachable
  <2>1. CASE p = i
    BY <1>4, <1>5, <2>1 DEF Used
  <2>2. CASE p # i
    BY <1>4, <1>5, <2>2 DEF IInv, Reachable, Used
  <2> QED BY <2>1, <2>2
<1>9. \A p \in DOMAIN slots' : slots'[p].gen <= gen
  BY <1>1, <1>4, StateFacts DEF IInv, NoFutureGeneration
<1> QED BY <1>1, <1>2, <1>3, <1>4, <1>5, <1>6, <1>7, <1>8, <1>9

(* grow moves one key of the current row to the first free slot. *)
LEMMA PlaceStep ==
  ASSUME IInv, Place
  PROVE  IInv'
<1>1. /\ pc = "seek" /\ slots[i].gen # gen
      /\ slots' = [slots EXCEPT ![i] = old[j]] /\ j' = j + 1 /\ pc' = "move"
      /\ UNCHANGED <<gen, n, h, i, old, answer>>
  BY DEF Place
<1>2. /\ i \in DOMAIN slots /\ j \in DOMAIN old /\ old[j].gen = gen
      /\ old[j] \in Slot
  BY <1>1 DEF IInv, Phase, TypeOK, IsTable
<1>3. j \in Waiting
  BY <1>2, StateFacts DEF Waiting, Used
<1>4. /\ \A q \in DOMAIN slots :
           OnPath(Home(old[j].hash, Length(slots)), q, i) => slots[q].gen = gen
      /\ \A q \in Used(slots) : slots[q].hash # old[j].hash
  BY <1>1, <1>3 DEF IInv, Passed, WaitingOnce
<1>5. /\ IsTable(slots') /\ Length(slots') = Length(slots)
      /\ DOMAIN slots' = DOMAIN slots
      /\ Used(slots)' = Used(slots) \cup {i}
      /\ Cardinality(Used(slots)') = Cardinality(Used(slots)) + 1
      /\ slots'[i] = old[j]
      /\ \A p \in DOMAIN slots : p # i => slots'[p] = slots[p]
      /\ StoredOnce' /\ Reachable'
      /\ \A p \in DOMAIN slots' : slots'[p].gen <= gen
  BY <1>1, <1>2, <1>4, PutStep
<1>6. Waiting' = Waiting \ {j}
  BY <1>1, StateFacts DEF Waiting, Used
<1>7. Counted'
  <2>1. IsFiniteSet(Waiting)
    BY StateFacts
  <2>2. Cardinality(Waiting \ {j}) = Cardinality(Waiting) - 1
    BY <1>3, <2>1, FS_RemoveElement
  <2>3. n = Cardinality(Used(slots)) + Cardinality(Waiting)
    BY DEF IInv, Counted
  <2> QED BY <1>1, <1>5, <1>6, <2>2, <2>3, StateFacts DEF Counted
<1>8. WaitingOnce'
  <2>1. \A p, q \in Waiting' : old[p].hash = old[q].hash => p = q
    BY <1>6 DEF IInv, WaitingOnce
  <2>2. ASSUME NEW p \in Waiting', NEW q \in Used(slots)'
        PROVE  old[p].hash # slots'[q].hash
    <3>1. p \in Waiting /\ p # j
      BY <1>6
    <3>2. CASE q = i
      BY <1>3, <1>5, <3>1, <3>2 DEF IInv, WaitingOnce
    <3>3. CASE q # i
      BY <1>5, <3>1, <3>3 DEF IInv, WaitingOnce, Used
    <3> QED BY <3>2, <3>3
  <2> QED BY <1>1, <2>1, <2>2 DEF WaitingOnce
<1>9. TypeOK' /\ Phase'
  <2>1. j + 1 \in 0 .. Length(old)
    BY <1>2, StateFacts
  <2>2. PowerOfTwo(Length(slots'))
    BY <1>2, <1>5 DEF IInv, TypeOK
  <2> QED BY <1>1, <1>5, <2>1, <2>2, StateFacts DEF IInv, TypeOK, Phase
<1>10. NoFutureGeneration' /\ Passed'
  BY <1>1, <1>5 DEF IInv, NoFutureGeneration, Passed
<1> QED
  BY <1>5, <1>7, <1>8, <1>9, <1>10 DEF IInv

(* grow is done and the old table is dropped: nothing in it was waiting. *)
LEMMA EndGrowStep ==
  ASSUME IInv, EndGrow
  PROVE  IInv'
<1>1. /\ pc = "move" /\ j \notin DOMAIN old /\ old' = EmptyTable(0) /\ j' = 0
      /\ i' = Home(h, Length(slots)) /\ pc' = "probe"
      /\ UNCHANGED <<slots, gen, n, h, answer>>
  BY DEF EndGrow, BackToAdd
<1>2. Waiting = {}
  BY <1>1, StateFacts DEF Waiting, Used
<1>3. IsTable(old') /\ DOMAIN old' = {} /\ Length(old') = 0
  BY <1>1, EmptyTableFacts
<1>4. Waiting' = {} /\ Used(slots)' = Used(slots)
  BY <1>1, <1>3 DEF Waiting, Used
<1>5. h \in Nat /\ Length(slots) \in Nat /\ Length(slots) > 0
  BY <1>1, StateFacts, HashesAssumption DEF IInv, Phase, TypeOK
<1>6. i' \in 0 .. Length(slots) - 1
  BY <1>1, <1>5, HomeInTable
<1>7. TypeOK' /\ Phase'
  BY <1>1, <1>3, <1>6, StateFacts DEF IInv, TypeOK, Phase
<1>8. Passed'
  BY <1>1, <1>6, StateFacts DEF Passed, OnPath
<1>9. NoFutureGeneration' /\ StoredOnce' /\ WaitingOnce' /\ Reachable' /\ Counted'
  BY <1>1, <1>2, <1>3, <1>4
  DEF IInv, NoFutureGeneration, StoredOnce, WaitingOnce, Reachable, Counted
<1> QED BY <1>7, <1>8, <1>9 DEF IInv

(* The loop of add looks one slot further. *)
LEMMA ProbeStepInv ==
  ASSUME IInv, Probe
  PROVE  IInv'
<1>1. /\ pc = "probe" /\ slots[i].gen = gen /\ slots[i].hash # h
      /\ i' = Following(i, Length(slots))
      /\ UNCHANGED <<slots, gen, n, pc, h, old, j, answer>>
  BY DEF Probe
<1>2. /\ i \in 0 .. Length(slots) - 1 /\ Length(slots) \in Nat
      /\ Length(slots) > 0 /\ h \in Nat
  BY <1>1, StateFacts, HashesAssumption DEF IInv, Phase, TypeOK
<1>3. i' \in 0 .. Length(slots) - 1
  BY <1>1, <1>2 DEF Following
<1>4. Passed'
  <2> DEFINE a == Home(h, Length(slots))
  <2>1. a \in 0 .. Length(slots) - 1
    BY <1>2, HomeInTable
  <2>2. ASSUME NEW q \in DOMAIN slots, OnPath(a, q, i')
        PROVE  slots[q].gen = gen /\ slots[q].hash # h
    <3> HIDE DEF a
    <3>1. OnPath(a, q, i) \/ q = i
      BY <1>1, <1>2, <2>1, <2>2, StateFacts, FollowingFacts
    <3> QED BY <1>1, <3>1 DEF IInv, Passed, a
  <2> QED BY <1>1, <2>2 DEF Passed
<1>5. TypeOK' /\ Phase'
  BY <1>1, <1>3, StateFacts DEF IInv, TypeOK, Phase
<1>6. Waiting' = Waiting /\ Used(slots)' = Used(slots)
  BY <1>1 DEF Waiting, Used
<1> QED
  BY <1>1, <1>4, <1>5, <1>6
  DEF IInv, NoFutureGeneration, StoredOnce, WaitingOnce, Reachable, Counted

(* A search that ended at a free slot met no slot with its key: the key    *)
(* would be reachable, so it would have been passed (the loop of add).      *)
LEMMA SearchIsComplete ==
  ASSUME IInv, pc = "probe", slots[i].gen # gen
  PROVE  \A q \in Used(slots) : slots[q].hash # h
<1> SUFFICES ASSUME NEW q \in Used(slots), slots[q].hash = h
             PROVE  FALSE
  OBVIOUS
<1> DEFINE a == Home(h, Length(slots))
<1>1. i \in DOMAIN slots /\ h \in Nat
  BY HashesAssumption DEF IInv, Phase, TypeOK
<1>2. /\ Length(slots) \in Nat /\ Length(slots) > 0
      /\ i \in 0 .. Length(slots) - 1 /\ q \in 0 .. Length(slots) - 1
  BY <1>1, StateFacts DEF Used
<1>3. a \in 0 .. Length(slots) - 1
  BY <1>1, <1>2, HomeInTable
<1>4. ~OnPath(a, q, i)
  BY DEF IInv, Passed, Used
<1>5. ~OnPath(a, i, q)
  BY <1>1 DEF IInv, Reachable, Used
<1>6. q # i
  BY DEF Used
<1> HIDE DEF a
<1> QED BY <1>2, <1>3, <1>4, <1>5, <1>6 DEF OnPath

(* A number of even length that is below half can grow by one: what makes  *)
(* the load check before the insertion of add enough (n*2 >= len).          *)
LEMMA EvenLimit ==
  ASSUME NEW len \in Nat, NEW m \in Nat, len % 2 = 0, 2 * m < len
  PROVE  2 * (m + 1) <= len
<1>1. len = (2 * (len \div 2)) + (len % 2) /\ len \div 2 \in Int
  OBVIOUS
<1> QED BY <1>1

(* add stores a new key in the free slot its search ended at. *)
LEMMA InsertStep ==
  ASSUME IInv, Insert
  PROVE  IInv'
<1>1. /\ pc = "probe" /\ slots[i].gen # gen
      /\ slots' = [slots EXCEPT ![i] = [hash |-> h, gen |-> gen]]
      /\ n' = n + 1 /\ pc' = "idle" /\ h' = NoHash /\ i' = 0 /\ answer' = "new"
      /\ UNCHANGED <<gen, old, j>>
  BY DEF Insert, Return
<1> DEFINE entry == [hash |-> h, gen |-> gen]
<1>2. h \in Nat /\ gen \in Nat /\ i \in DOMAIN slots /\ DOMAIN old = {}
  BY <1>1, HashesAssumption, StateFacts DEF IInv, Phase, TypeOK
<1>3. entry \in Slot /\ entry.gen = gen /\ entry.hash = h
  BY <1>2 DEF Slot
<1>4. slots' = [slots EXCEPT ![i] = entry]
  BY <1>1
<1> HIDE DEF entry
<1>5. /\ \A q \in DOMAIN slots :
           OnPath(Home(entry.hash, Length(slots)), q, i) => slots[q].gen = gen
      /\ \A q \in Used(slots) : slots[q].hash # entry.hash
  BY <1>1, <1>3, SearchIsComplete DEF IInv, Passed
<1>6. /\ IsTable(slots') /\ Length(slots') = Length(slots)
      /\ DOMAIN slots' = DOMAIN slots
      /\ Cardinality(Used(slots)') = Cardinality(Used(slots)) + 1
      /\ StoredOnce' /\ Reachable'
      /\ \A p \in DOMAIN slots' : slots'[p].gen <= gen
  BY <1>1, <1>2, <1>3, <1>4, <1>5, PutStep
<1>7. Waiting = {} /\ Waiting' = {}
  BY <1>1, <1>2 DEF Waiting, Used
<1>8. Counted'
  BY <1>1, <1>6, <1>7, StateFacts DEF IInv, Counted
<1>9. TypeOK'
  BY <1>1, <1>6, StateFacts DEF IInv, TypeOK
<1>10. Phase'
  <2>1. /\ DOMAIN slots # {} /\ gen > 0
        /\ Length(slots) % 2 = 0 /\ 2 * n < Length(slots)
    BY <1>1, <1>2 DEF IInv, Phase
  <2>2. Length(slots) \in Nat /\ n \in Nat
    BY StateFacts
  <2>3. 2 * (n + 1) <= Length(slots)
    BY <2>1, <2>2, EvenLimit
  <2> QED BY <1>1, <1>2, <1>6, <2>1, <2>3 DEF Phase
<1>11. NoFutureGeneration' /\ Passed' /\ WaitingOnce'
  BY <1>1, <1>6, <1>7 DEF IInv, NoFutureGeneration, Passed, WaitingOnce
<1> QED BY <1>6, <1>8, <1>9, <1>10, <1>11 DEF IInv

(* add finds its key and leaves the table alone. *)
LEMMA FoundStep ==
  ASSUME IInv, Found
  PROVE  IInv'
<1>1. /\ pc = "probe" /\ pc' = "idle" /\ h' = NoHash /\ i' = 0 /\ answer' = "taken"
      /\ UNCHANGED <<slots, n, gen, old, j>>
  BY DEF Found, Return
<1>2. TypeOK' /\ Phase' /\ Passed'
  BY <1>1, StateFacts DEF IInv, TypeOK, Phase, Passed
<1>3. Waiting' = Waiting /\ Used(slots)' = Used(slots)
  BY <1>1 DEF Waiting, Used
<1> QED
  BY <1>1, <1>2, <1>3
  DEF IInv, NoFutureGeneration, StoredOnce, WaitingOnce, Reachable, Counted

LEMMA NextIInv == IInv /\ [Next]_vars => IInv'
<1> SUFFICES ASSUME IInv, [Next]_vars PROVE IInv'
  OBVIOUS
<1>1. CASE Reset
  BY <1>1, ResetStep
<1>2. CASE \E x \in Hashes : CallAdd(x)
  BY <1>2, CallAddStep
<1>3. CASE GrowStep
  BY <1>3, SkipStaleStep, StartMoveStep, SeekStep, PlaceStep, EndGrowStep
  DEF GrowStep
<1>4. CASE ProbeStep
  BY <1>4, ProbeStepInv, InsertStep, FoundStep DEF ProbeStep
<1>5. CASE UNCHANGED vars
  <2> USE <1>5 DEF vars
  <2>1. Waiting' = Waiting /\ Used(slots)' = Used(slots)
    BY DEF Waiting, Used
  <2> QED BY <2>1
    DEF IInv, TypeOK, Phase, NoFutureGeneration, StoredOnce, WaitingOnce,
        Reachable, Passed, Counted
<1> QED BY <1>1, <1>2, <1>3, <1>4, <1>5 DEF Next

(* The invariant of the table holds in every reachable state. *)
THEOREM Invariance == Spec => []IInv
BY InitIInv, NextIInv, PTL DEF Spec

(* Every variable keeps its type through growth and generation wrap: the    *)
(* length of the table stays a power of two, and the loops of add and grow  *)
(* read no slot beside the tables (reset, add, grow).                       *)
THEOREM TypeCorrect == Spec => []TypeOK
<1>1. IInv => TypeOK
  BY DEF IInv
<1> QED BY <1>1, Invariance, PTL

(* Whatever the hashes and the widths, one hash is stored once per row. *)
THEOREM StoredOnceHolds == Spec => []StoredOnce
<1>1. IInv => StoredOnce
  BY DEF IInv
<1> QED BY <1>1, Invariance, PTL

(* The loops of add and grow always have a slot to stop at: the load limit  *)
(* of add keeps one free for every length the table may have.               *)
THEOREM FreeSlotHolds == Spec => []FreeSlot
<1>1. IInv => FreeSlot
  <2> SUFFICES ASSUME IInv, pc \in {"probe", "seek"},
                      \A p \in DOMAIN slots : slots[p].gen = gen
               PROVE  FALSE
    BY DEF FreeSlot
  <2>1. Used(slots) = DOMAIN slots
    BY DEF Used
  <2>2. n >= Length(slots)
    BY <2>1, StateFacts DEF IInv, Counted, Length
  <2>3. 2 * n < Length(slots)
    BY DEF IInv, Phase
  <2> QED BY <2>2, <2>3, StateFacts
<1> QED BY <1>1, Invariance, PTL

-----------------------------------------------------------------------------
(* The table implements NameSet: one lemma for the steps that keep the set, *)
(* one for each step that changes it.                                       *)

LEMMA SameMembers ==
  ASSUME Used(slots)' = Used(slots), Waiting' = Waiting,
         \A p \in Used(slots) : slots'[p] = slots[p],
         \A p \in Waiting : old'[p] = old[p]
  PROVE  Members' = Members
BY DEF Members

(* A step of grow moves a key from one table to the other. *)
LEMMA GrowKeepsMembers ==
  ASSUME IInv, GrowStep
  PROVE  Members' = Members /\ h' = h /\ answer' = answer
<1>1. CASE SkipStale
  <2>1. Used(slots)' = Used(slots) /\ Waiting' = Waiting
    BY <1>1, StateFacts DEF SkipStale, Used, Waiting
  <2> QED BY <1>1, <2>1, SameMembers DEF SkipStale
<1>2. CASE StartMove
  BY <1>2 DEF StartMove, Members, Used, Waiting
<1>3. CASE Seek
  BY <1>3 DEF Seek, Members, Used, Waiting
<1>4. CASE Place
  <2>1. /\ slots[i].gen # gen /\ slots' = [slots EXCEPT ![i] = old[j]]
        /\ j' = j + 1 /\ gen' = gen /\ old' = old /\ pc = "seek"
        /\ h' = h /\ answer' = answer
    BY <1>4 DEF Place
  <2>2. /\ i \in DOMAIN slots /\ j \in DOMAIN old /\ old[j].gen = gen
    BY <2>1 DEF IInv, Phase, TypeOK
  <2>3. /\ DOMAIN slots' = DOMAIN slots /\ slots'[i] = old[j]
        /\ \A p \in DOMAIN slots : p # i => slots'[p] = slots[p]
    BY <2>1, <2>2 DEF IInv, TypeOK, IsTable
  <2>4. Used(slots)' = Used(slots) \cup {i}
    BY <2>1, <2>2, <2>3 DEF Used
  <2>5. Waiting' = Waiting \ {j} /\ j \in Waiting
    BY <2>1, <2>2, StateFacts DEF Waiting, Used
  <2>6. i \notin Used(slots)
    BY <2>1 DEF Used
  <2>7. /\ Used(slots) \subseteq DOMAIN slots
        /\ \A p \in Used(slots) : slots'[p] = slots[p]
    BY <2>3, <2>6 DEF Used
  <2>8. {slots'[p].hash : p \in Used(slots)'} = {slots[p].hash : p \in Used(slots)} \cup {old[j].hash}
    BY <2>3, <2>4, <2>7
  <2>9. {old[p].hash : p \in Waiting} = {old[p].hash : p \in Waiting'} \cup {old[j].hash}
    BY <2>5
  <2>10. Members' = {slots'[p].hash : p \in Used(slots)'} \cup {old[p].hash : p \in Waiting'}
    BY <2>1 DEF Members
  <2> QED BY <2>1, <2>8, <2>9, <2>10 DEF Members
<1>5. CASE EndGrow
  <2>1. /\ j \notin DOMAIN old /\ old' = EmptyTable(0)
        /\ UNCHANGED <<slots, gen, h, answer>>
    BY <1>5 DEF EndGrow, BackToAdd
  <2>2. Waiting = {} /\ Waiting' = {} /\ Used(slots)' = Used(slots)
    BY <2>1, StateFacts, EmptyTableFacts DEF Waiting, Used
  <2> QED BY <2>1, <2>2, SameMembers
<1> QED BY <1>1, <1>2, <1>3, <1>4, <1>5 DEF GrowStep

(* A reset empties the set: the generation of no stored slot is the new one. *)
LEMMA ResetEmpties ==
  ASSUME IInv, Reset
  PROVE  Members' = {} /\ h = NoHash /\ h' = h /\ answer' = answer
<1>1. IInv'
  BY ResetStep
<1>2. n' = 0 /\ pc' = "idle" /\ pc = "idle" /\ h' = h /\ answer' = answer
  BY DEF Reset, NewGeneration
<1>3. /\ IsFiniteSet(Used(slots)') /\ IsFiniteSet(Waiting')
      /\ Cardinality(Used(slots)') \in Nat /\ Cardinality(Waiting') \in Nat
  <2>1. /\ IsTable(slots') /\ IsTable(old')
    BY <1>1 DEF IInv, TypeOK
  <2>2. IsFiniteSet(DOMAIN slots') /\ IsFiniteSet(DOMAIN old')
    BY <2>1, TableFacts
  <2>3. Used(slots)' \in SUBSET DOMAIN slots' /\ Waiting' \in SUBSET DOMAIN old'
    BY DEF Used, Waiting
  <2>4. IsFiniteSet(Used(slots)') /\ IsFiniteSet(Waiting')
    BY <2>2, <2>3, FS_Subset
  <2> QED BY <2>4, FS_CardinalityType
<1>4. Cardinality(Used(slots)') + Cardinality(Waiting') = 0
  BY <1>1, <1>2 DEF IInv, Counted
<1>5. Cardinality(Used(slots)') = 0 /\ Cardinality(Waiting') = 0
  BY <1>3, <1>4
<1>6. Used(slots)' = {} /\ Waiting' = {}
  BY <1>3, <1>5, FS_EmptySet
<1> QED BY <1>2, <1>6 DEF Members, IInv, Phase

(* Calling add changes no key, even when the table is about to be rebuilt. *)
LEMMA CallAddKeepsMembers ==
  ASSUME IInv, NEW x \in Hashes, CallAdd(x)
  PROVE  Members' = Members /\ h = NoHash /\ h' = x /\ answer' = answer
<1>1. /\ pc = "idle" /\ DOMAIN slots # {} /\ DOMAIN old = {} /\ gen > 0
      /\ h = NoHash /\ h' = x /\ gen' = gen /\ answer' = answer
  BY DEF CallAdd, AddTo, IInv, Phase
<1>2. Waiting = {}
  BY <1>1 DEF Waiting, Used
<1>3. CASE ~(n * 2 >= Length(slots))
  BY <1>1, <1>3 DEF CallAdd, AddTo, Members, Used, Waiting
<1>4. CASE n * 2 >= Length(slots)
  <2>1. old' = slots /\ j' = 0 /\ slots' = EmptyTable(2 * Length(slots))
    BY <1>4 DEF CallAdd, AddTo, StartGrow
  <2>2. /\ DOMAIN slots' = 0 .. 2 * Length(slots) - 1
        /\ \A p \in DOMAIN slots' : slots'[p].gen = 0
    <3>1. 2 * Length(slots) \in Nat
      BY StateFacts
    <3> QED BY <2>1, <3>1, EmptyTableFacts DEF EmptySlot
  <2>3. Used(slots)' = {} /\ Waiting' = Used(slots)
    BY <1>1, <2>1, <2>2, StateFacts DEF Used, Waiting
  <2> QED BY <1>1, <1>2, <2>1, <2>3 DEF Members
<1> QED BY <1>1, <1>3, <1>4

(* The step that ends an add answers by the set and adds the key to it. *)
LEMMA AddAnswers ==
  ASSUME IInv, Insert \/ Found
  PROVE  /\ h # NoHash /\ h' = NoHash
         /\ answer' = IF h \in Members THEN "taken" ELSE "new"
         /\ Members' = Members \cup {h}
<1>1. /\ pc = "probe" /\ h' = NoHash /\ gen' = gen /\ old' = old /\ j' = j
  BY DEF Insert, Found, Return
<1>2. /\ h # NoHash /\ DOMAIN old = {} /\ i \in DOMAIN slots
  BY <1>1 DEF IInv, Phase, TypeOK
<1>3. Waiting = {} /\ Waiting' = {}
  BY <1>1, <1>2 DEF Waiting, Used
<1>4. CASE Found
  <2>1. /\ slots' = slots /\ slots[i].gen = gen /\ slots[i].hash = h
        /\ answer' = "taken"
    BY <1>4 DEF Found, Return
  <2>2. h \in Members
    BY <1>2, <2>1 DEF Members, Used
  <2>3. Members' = Members
    BY <1>1, <2>1 DEF Members, Used, Waiting
  <2> QED BY <1>1, <1>2, <2>1, <2>2, <2>3
<1>5. CASE Insert
  <2>1. /\ slots' = [slots EXCEPT ![i] = [hash |-> h, gen |-> gen]]
        /\ slots[i].gen # gen /\ answer' = "new"
    BY <1>5 DEF Insert, Return
  <2>2. h \notin Members
    BY <1>1, <1>3, <2>1, SearchIsComplete DEF Members
  <2>3. /\ DOMAIN slots' = DOMAIN slots /\ slots'[i] = [hash |-> h, gen |-> gen]
        /\ \A p \in DOMAIN slots : p # i => slots'[p] = slots[p]
    BY <1>2, <2>1 DEF IInv, TypeOK, IsTable
  <2>4. Used(slots)' = Used(slots) \cup {i}
    BY <1>1, <1>2, <2>3 DEF Used
  <2>5. \A p \in Used(slots) : slots'[p] = slots[p]
    BY <2>1, <2>3 DEF Used
  <2>6. {slots'[p].hash : p \in Used(slots)'} = {slots[p].hash : p \in Used(slots)} \cup {h}
    BY <2>3, <2>4, <2>5
  <2> QED BY <1>1, <1>2, <1>3, <2>1, <2>2, <2>6 DEF Members
<1> QED BY <1>4, <1>5

(* Every behaviour of the open-addressing table, with its growth and its    *)
(* generations, is a behaviour of a plain set with an atomic add (names.go: *)
(* "add reports whether name was not in the set yet").                      *)
THEOREM KeySetImplementsNameSet == Spec => ImplementsNameSet
<1>1. Init => Abstract!Init
  <2> SUFFICES ASSUME Init PROVE Abstract!Init
    OBVIOUS
  <2>1. DOMAIN slots = {} /\ DOMAIN old = {}
    BY EmptyTableFacts DEF Init
  <2>2. Members = {}
    BY <2>1 DEF Members, Used, Waiting
  <2> QED BY <2>2 DEF Init, Abstract!Init
<1>2. IInv /\ [Next]_vars => [Abstract!Next]_(Abstract!vars)
  <2> SUFFICES ASSUME IInv, [Next]_vars
               PROVE  [Abstract!Next]_(Abstract!vars)
    OBVIOUS
  <2> USE DEF Abstract!vars, Abstract!Next
  <2>1. CASE Reset
    BY <2>1, ResetEmpties DEF Abstract!Reset
  <2>2. ASSUME NEW x \in Hashes, CallAdd(x)
        PROVE  Abstract!Next
    BY <2>2, CallAddKeepsMembers DEF Abstract!CallAdd
  <2>3. CASE GrowStep
    BY <2>3, GrowKeepsMembers
  <2>4. CASE Probe
    <3>1. UNCHANGED <<slots, gen, old, j, h, answer>>
      BY <2>4 DEF Probe
    <3>2. Members' = Members
      BY <3>1 DEF Members, Used, Waiting
    <3> QED BY <3>1, <3>2
  <2>5. CASE Insert \/ Found
    BY <2>5, AddAnswers DEF Abstract!ReturnAdd
  <2>6. CASE UNCHANGED vars
    <3>1. UNCHANGED <<slots, gen, old, j, h, answer>>
      BY <2>6 DEF vars
    <3>2. Members' = Members
      BY <3>1 DEF Members, Used, Waiting
    <3> QED BY <3>1, <3>2
  <2> QED BY <2>1, <2>2, <2>3, <2>4, <2>5, <2>6 DEF Next, ProbeStep
<1> QED BY <1>1, <1>2, Invariance, PTL DEF Spec, ImplementsNameSet, Abstract!Spec

=============================================================================
