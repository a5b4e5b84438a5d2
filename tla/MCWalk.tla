------------------------------- MODULE MCWalk -------------------------------
(* Small instances of Walk: every tree of up to Size nodes, with keys that   *)
(* are renamed, dropped, aliased, emptied or hold a dot.                     *)
EXTENDS Walk

CONSTANT Size     (* bound: the nodes of a record, itself included *)

MCIndexText == <<"0", "1", "2", "3">>

MCTokens == {"a", "b", "ab", "c", "x", "y", "z", "p", "_", ".", "0", "1", "2", "3"}

A == <<"a">>
B == <<"b">>
AB == <<"a", ".", "b">>

(* The parents of n nodes in the order of a text: a node is below the one   *)
(* before it, or below one that is above that.                              *)
LOCAL Parents(n) ==
  LET Above(p) ==
        LET up[k \in 0 .. n] == IF k = 0 THEN {} ELSE {p[k]} \cup up[p[k]] IN up
      IsOrder(p) == \A k \in 2 .. n : p[k] \in ({k - 1} \cup Above(p)[k - 1]) \ {0}
  IN  {p \in {[k \in 1 .. n |-> IF k = 1 THEN 0 ELSE f[k]] : f \in [2 .. n -> 1 .. n - 1]} :
        (\A k \in 2 .. n : p[k] < k) /\ IsOrder(p)}

LOCAL Keys(n) ==
  {[k \in 1 .. n |-> IF k = 1 THEN <<>> ELSE f[k]] : f \in [2 .. n -> {A, B}]}
  \cup {[k \in 1 .. n |-> IF k % 2 = 0 THEN AB ELSE B], [k \in 1 .. n |-> IF k = 2 THEN <<>> ELSE B]}

LOCAL Kinds(n, p, arrays) ==
  [k \in 1 .. n |->
    IF \E c \in 2 .. n : p[c] = k THEN IF k \in arrays THEN "array" ELSE "object"
    ELSE IF k = n /\ k \in arrays THEN "object" ELSE "scalar"]

MCDocs ==
  UNION {UNION {{[parent |-> p, key |-> key, type |-> Kinds(n, p, arrays),
                  bad |-> [k \in 1 .. n |-> k = failing]] :
                   key \in Keys(n), arrays \in {{}, {2, 5}, {1, 3}}, failing \in {0, 3, 4}} :
                p \in Parents(n)} : n \in 1 .. Size}

LOCAL Act(drop, renameTo, fills, consume) ==
  [drop |-> drop, renameTo |-> renameTo, slots |-> fills, consume |-> consume]
LOCAL NoTable == [x \in {} |-> x]

LOCAL Base ==
  [actions |-> NoTable, snakeCase |-> FALSE, snake |-> NoTable, alias |-> NoTable, sep |-> <<"_">>,
   maxDepth |-> 0, indexArrays |-> TRUE,
   sections |-> <<[from |-> <<>>, srcBase |-> <<>>, dstBase |-> <<>>],
                  [from |-> <<A>>, srcBase |-> <<"a", ".">>, dstBase |-> <<"p", "_">>],
                  [from |-> <<B, A>>, srcBase |-> <<"b", ".", "a", ".">>, dstBase |-> <<>>]>>]

LOCAL Nested ==
  [path \in {A, AB, AB \o <<".", "b">>} |->
    CASE path = A -> Act(FALSE, <<"x">>, {}, FALSE)
      [] path = AB -> Act(FALSE, <<"y", "y", "y", "y">>, {}, FALSE)
      [] OTHER -> Act(FALSE, NoPath, {1}, TRUE)]

LOCAL Mixed ==
  [path \in {B, AB, <<"a", ".", "0">>} |->
    CASE path = B -> Act(TRUE, NoPath, {}, FALSE)
      [] path = AB -> Act(FALSE, <<"z">>, {2}, FALSE)
      [] OTHER -> Act(FALSE, NoPath, {1}, TRUE)]

MCConfigs ==
  {[Base EXCEPT !.actions = Nested],
   [Base EXCEPT !.actions = Mixed, !.indexArrays = FALSE],
   [Base EXCEPT !.actions = Mixed, !.maxDepth = 2],
   [Base EXCEPT !.snakeCase = TRUE, !.snake = [x \in {A, AB} |-> IF x = A THEN <<>> ELSE <<"ab">>],
                !.alias = [x \in {B, <<"ab">>} |-> <<"c">>], !.sep = <<>>]}

=============================================================================
