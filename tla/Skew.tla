-------------------------------- MODULE Skew --------------------------------
(***************************************************************************)
(* The clock_skew function (skew of transform.go): times are numbers, a    *)
(* duration is a number of Width bits, as in package time, where Sub keeps *)
(* to the longest duration and a negation wraps.                           *)
(***************************************************************************)
EXTENDS Integers

CONSTANT Width      (* the bits of a time.Duration, 64 *)

ASSUME WidthAssumption == Width \in Nat \ {0}

MaxDuration == 2 ^ (Width - 1) - 1
MinDuration == -(2 ^ (Width - 1))

(* time.Time.Sub and the negation of a duration. *)
TimeSub(t, u) ==
  IF t - u > MaxDuration THEN MaxDuration
  ELSE IF t - u < MinDuration THEN MinDuration ELSE t - u

Negated(d) == IF d = MinDuration THEN MinDuration ELSE -d

(* skew *)
SkewedTime(now, sent, original) == now + Negated(TimeSub(sent, original))

=============================================================================
