--------------------------- MODULE MCSharedRedis ---------------------------
(* Small instances of SharedRedis for TLC.                                 *)
EXTENDS SharedRedis, TLC

CONSTANTS k1, k2

MCChild   == {k1, k2}
Symmetric == Permutations(MCChild)

=============================================================================
