--------------------------- MODULE MCPublicAccess ---------------------------
(* A small instance of PublicAccess: a workspace with all the documents    *)
(* and links, and another one whose member must not see them.  "T" is a    *)
(* spelling that is stored as "t".                                         *)
EXTENDS PublicAccess, TLC

CONSTANTS u1, u2, w1, w2

MCCreator == (w1 :> u1) @@ (w2 :> u2)
MCHome == [x \in Doc \cup Link |-> w1]
MCRoster == (w1 :> {u1, u2}) @@ (w2 :> {u2})
MCNormal == ("T" :> "t") @@ ("t" :> "t")
MCTagSets == {{}, {"T"}, {"t"}}
=============================================================================
