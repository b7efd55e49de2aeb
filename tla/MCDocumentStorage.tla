------------------------- MODULE MCDocumentStorage -------------------------
(* Small instances of DocumentStorage.  Requests are told apart only by      *)
(* equality.                                                                 *)
EXTENDS DocumentStorage, TLC

Symmetry == Permutations(Request)
=============================================================================
