------------------------------- MODULE StrMap -------------------------------
(***************************************************************************)
(* strmap.go: a map that also keeps a mask of the lengths of its keys, so  *)
(* that most misses cost no hashing. All keys of Top bytes and more share  *)
(* the highest bit of the mask.                                            *)
(***************************************************************************)
EXTENDS Integers, Sequences, FiniteSets

CONSTANTS
  Strings,     (* the keys, sequences of bytes         *)
  Values,
  Top,         (* the highest bit of the mask, 63      *)
  Zero         (* the value of a miss                  *)

ASSUME StrMapAssumption ==
  /\ Top \in Nat
  /\ \A key \in Strings : Len(key) \in Nat
  /\ Zero \notin Values

VARIABLES
  m,           (* the Go map                           *)
  lens         (* the bits of the mask that are set    *)

strMapVars == <<m, lens>>

\* A slip of lenBit: a shift by more than Top gives no bit at all.
LenBitShifted(n) == IF n > Top THEN {} ELSE {n}

LenBit(n) == {IF n < Top THEN n ELSE Top}

Init == m = [key \in {} |-> Zero] /\ lens = {}

Set(key, value) ==
  /\ m' = [x \in DOMAIN m \cup {key} |-> IF x = key THEN value ELSE m[x]]
  /\ lens' = lens \cup LenBit(Len(key))

Lookup(key) == IF key \in DOMAIN m THEN m[key] ELSE Zero

Get(key) == IF lens \cap LenBit(Len(key)) = {} THEN Zero ELSE Lookup(key)

Next == \E key \in Strings, value \in Values : Set(key, value)

Spec == Init /\ [][Next]_strMapVars

-----------------------------------------------------------------------------

(* The mask turns away no key that is held, the longest included, and is    *)
(* empty only with the map: the walk, which asks get, and New, which asks   *)
(* lens, see what the compiler put in by set (strmap.go; New: fixKeys).     *)
MaskIsSound ==
  /\ \A key \in Strings : Get(key) = Lookup(key)
  /\ lens = {} <=> DOMAIN m = {}

=============================================================================
