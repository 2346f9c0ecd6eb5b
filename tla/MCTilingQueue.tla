---------------------------- MODULE MCTilingQueue ----------------------------
(* Constants that a .cfg cannot write, and sizes TLC explores completely. *)
EXTENDS TilingQueue

CONSTANTS older, photos, imagery

Numbers == [v \in {older, photos} |-> IF v = photos THEN 2 ELSE 1]
NoNumbers == [v \in {} |-> 0]
TwoJobs == 1..2

=============================================================================
