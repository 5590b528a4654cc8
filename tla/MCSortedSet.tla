------------------------------ MODULE MCSortedSet ------------------------------
(***************************************************************************)
(* SortedSet for TLC: two ordinary scores, and places in the middle of the  *)
(* grid, with every bit of the longitude set, and in two of its corners.    *)
(***************************************************************************)
EXTENDS SortedSet

MCScores == {{0}, {1, 2}}

MCPlaces == {<<0..25, {0, 7, 16, 25}>>, <<{26}, {0, 1}>>, <<{}, {26}>>}
=============================================================================
