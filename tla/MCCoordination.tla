--------------------------- MODULE MCCoordination ---------------------------
\* Two versions of one model, a failed report of the pair, two requests to
\* compare them again and two to check the newer, which may be deleted.
EXTENDS Coordination, TLC

CONSTANTS older, newer

Alike == Permutations(Reports \ Earlier) \cup Permutations(Checks)

OnePair == {<<older, newer>>}

=============================================================================
