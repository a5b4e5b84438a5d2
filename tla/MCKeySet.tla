----------------------------- MODULE MCKeySet -----------------------------
(* Small instances of KeySet. The hashes crowd on one home slot of the     *)
(* first table and wrap around its end; the generation counter wraps after *)
(* three rows.                                                             *)
EXTENDS KeySet

MCHashes == {1, 3, 5, 7, 11}

============================================================================
