------------------------- MODULE MCDocumentPipeline -------------------------
(* Small instances of DocumentPipeline.  The ids and contents are model     *)
(* values told apart only by equality, so every permutation is a symmetry.  *)
EXTENDS DocumentPipeline, TLC

Symmetry == Permutations(Doc) \cup Permutations(Text) \cup Permutations(Job)
=============================================================================
