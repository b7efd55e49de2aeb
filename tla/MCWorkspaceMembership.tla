----------------------- MODULE MCWorkspaceMembership -----------------------
(* Small instances of WorkspaceMembership.  Workspaces, users and requests  *)
(* are told apart only by equality.                                         *)
EXTENDS WorkspaceMembership, TLC

Symmetry == Permutations(Workspace) \cup Permutations(User) \cup Permutations(Request)
=============================================================================
