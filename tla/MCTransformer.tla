--------------------------- MODULE MCTransformer ---------------------------
(* Small instances of Transformer. The documents cover every way a record  *)
(* and a call can end; their sizes make one far below the peak of another, *)
(* and one too large for the pool.                                         *)
EXTENDS Transformer, TLC

CONSTANTS
  batch,       (* an array: two rows, then a record that is no object   *)
  mixed,       (* an array: records that fail in every other way        *)
  empty,       (* an empty array                                        *)
  other,       (* the batch is not an array                             *)
  broken,      (* not JSON                                              *)
  large,       (* one record, too large for the pool                    *)
  small,       (* one record                                            *)
  failing,     (* one record that fails after a row                     *)
  tenant       (* an Options.Vars                                       *)

LOCAL Rec(e, n, reads) == [err |-> e, rows |-> n, readsNow |-> reads]
LOCAL Doc(size, kind, records) ==
  [size |-> size, valid |-> TRUE, batch |-> kind, records |-> records]

ok1  == Rec("none", 1, TRUE)
ok2  == Rec("none", 2, TRUE)
root == Rec("ErrRootNotContainer", 0, FALSE)

MCShape == [d \in Docs |->
  CASE d = batch  -> Doc(6, "array", <<ok2, root>>)
    [] d = mixed  -> Doc(6, "array", <<Rec("ErrRequired", 0, TRUE), ok1, Rec("none", 0, FALSE), root>>)
    [] d = empty  -> Doc(1, "array", <<>>)
    [] d = other  -> Doc(3, "other", <<>>)
    [] d = broken -> [size |-> 2, valid |-> FALSE, batch |-> "absent", records |-> <<ok1>>]
    [] d = large  -> Doc(9, "absent", <<ok1>>)
    [] d = small  -> Doc(1, "absent", <<ok1>>)
    [] d = failing -> Doc(1, "absent", <<Rec("ErrRow", 1, FALSE)>>)]

MCNoOptions == {NoOptions}
MCOptions == {NoOptions, [now |-> 1, vars |-> tenant]}

Symmetry == Permutations(Callers) \cup Permutations(States)

============================================================================
