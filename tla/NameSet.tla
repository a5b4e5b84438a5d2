------------------------------ MODULE NameSet ------------------------------
(***************************************************************************)
(* What the key set of a row promises its caller (the comments of keySet,  *)
(* reset and add in names.go): a set of keys that one reset empties and in *)
(* which "add reports whether name was not in the set yet".  How the set   *)
(* is stored is left to the module that implements it.                     *)
(*                                                                         *)
(* A key stands for the 64-bit hash of a column name.  Two names with one  *)
(* hash are one key, as the comment of keySet says.                        *)
(***************************************************************************)

CONSTANTS
  Keys,     (* the keys that may be added                  *)
  NoKey     (* the absence of a pending call: not a key    *)

VARIABLES
  members,  (* the keys added since the last reset           *)
  pending,  (* the argument of the add in progress           *)
  answer    (* what the last finished add said, true: "new"  *)

vars == <<members, pending, answer>>

TypeOK ==
  /\ members \subseteq Keys
  /\ pending \in Keys \cup {NoKey}
  /\ answer \in {"none", "new", "taken"}

Init ==
  /\ members = {}
  /\ pending = NoKey
  /\ answer = "none"

(* A new row starts: every key is new again. *)
Reset ==
  /\ pending = NoKey
  /\ members' = {}
  /\ UNCHANGED <<pending, answer>>

CallAdd(k) ==
  /\ pending = NoKey
  /\ pending' = k
  /\ UNCHANGED <<members, answer>>

(* add takes effect and answers at one point of its execution. *)
ReturnAdd ==
  /\ pending # NoKey
  /\ answer' = IF pending \in members THEN "taken" ELSE "new"
  /\ members' = members \cup {pending}
  /\ pending' = NoKey

Next ==
  \/ Reset
  \/ \E k \in Keys : CallAdd(k)
  \/ ReturnAdd

Spec == Init /\ [][Next]_vars

=============================================================================
