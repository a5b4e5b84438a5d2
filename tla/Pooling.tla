------------------------------ MODULE Pooling ------------------------------
(***************************************************************************)
(* worthPooling of transform.go: when a state is too large for the inputs  *)
(* that come.  A state counts how many inputs in a row were far below the  *)
(* largest it has seen, and is given up after ShrinkAfter of them; an      *)
(* input above MaxPooled gives it up at once.                              *)
(***************************************************************************)
EXTENDS Integers, Sequences

CONSTANTS
  MaxPooled,    (* t.maxPooled: Config.MaxPooledInput                    *)
  ShrinkRatio,  (* shrinkRatio: 8                                        *)
  ShrinkAfter   (* shrinkAfter: 64                                       *)

ASSUME PoolingAssumption ==
  /\ MaxPooled \in Nat
  /\ ShrinkRatio \in Nat \ {0}
  /\ ShrinkAfter \in Nat \ {0}

(* worthPooling: the counters after an input of length n. grown is the      *)
(* count after an input above the peak, rest after an ordinary one.         *)
WeighedTo(grown, rest, f, n) ==
  IF n > f.peak THEN [f EXCEPT !.peak = n, !.small = grown]
  ELSE IF n * ShrinkRatio < f.peak THEN [f EXCEPT !.small = @ + 1]
  ELSE [f EXCEPT !.small = rest]

\* Slips of worthPooling: an ordinary input takes one back from the streak; an
\* input above the peak leaves it as it is.
WeighedDown(f, n) == WeighedTo(0, f.small - 1, f, n)
WeighedOnGrowth(f, n) == WeighedTo(f.small, 0, f, n)

Weighed(f, n) == WeighedTo(0, 0, f, n)

(* Whether release gives up a state, f being the state weighed by n.        *)
GivesUp(f, n) == n > MaxPooled \/ f.small >= ShrinkAfter

-----------------------------------------------------------------------------
(* One state that serves inputs of the sizes of a word, one after another,  *)
(* and is made anew whenever it was given up.                               *)

Unused == [peak |-> 0, small |-> 0]

Served(sizes) ==
  LET after[n \in 0 .. Len(sizes)] ==
        IF n = 0 THEN Unused
        ELSE LET f == Weighed(after[n - 1], sizes[n])
             IN  IF GivesUp(f, sizes[n]) THEN Unused ELSE f
  IN  after

(* The inputs at which it is given up. *)
GivenUp(sizes) ==
  {n \in 1 .. Len(sizes) :
     GivesUp(Weighed(Served(sizes)[n - 1], sizes[n]), sizes[n])}

(* Input n is the first one, or the last one before it at which the state   *)
(* was given up is made: what came up to it was served by another state.    *)
MadeAfter(sizes, n, made) ==
  /\ made = 0 \/ made \in GivenUp(sizes)
  /\ made < n
  /\ \A k \in GivenUp(sizes) : k <= made \/ k >= n

(* Told without counters: each of the last ShrinkAfter inputs of the state  *)
(* was far below one that it had served before.                             *)
Outgrown(sizes, n) ==
  \E made \in 0 .. n - ShrinkAfter :
    /\ MadeAfter(sizes, n, made)
    /\ \E p \in made + 1 .. n - ShrinkAfter :
         \A k \in n - ShrinkAfter + 1 .. n : sizes[k] * ShrinkRatio < sizes[p]

=============================================================================
