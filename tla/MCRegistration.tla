--------------------------- MODULE MCRegistration ---------------------------
(* Small instances of Registration.  Requests, with the users and tokens    *)
(* named after them, and addresses are told apart only by equality.         *)
EXTENDS Registration, TLC

Symmetry == Permutations(Request) \cup Permutations(Email)
=============================================================================
