--------------------------- MODULE MCPasswordReset --------------------------
(* Small instances of PasswordReset.  Requests, with the tokens and          *)
(* passwords named after them, are told apart only by equality.              *)
EXTENDS PasswordReset, TLC

Symmetry == Permutations(Request)
=============================================================================
