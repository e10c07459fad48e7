--------------------------- MODULE MCFollowLines ----------------------------
(* FollowLines for TLC: the bytes of a line are interchangeable.           *)
EXTENDS FollowLines, TLC

Symmetry == Permutations(Bytes)
=============================================================================
