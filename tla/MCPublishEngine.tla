--------------------------- MODULE MCPublishEngine ---------------------------
(* PublishEngine on small instances: who may be swapped for whom.            *)
EXTENDS PublishEngine, TLC

Symmetric == Permutations(Publishers) \cup Permutations(Admins)
=============================================================================
