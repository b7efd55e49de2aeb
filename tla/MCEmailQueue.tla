---------------------------- MODULE MCEmailQueue ----------------------------
(* Small instances of EmailQueue.  No symmetry: liveness is checked too.    *)
EXTENDS EmailQueue
=============================================================================
