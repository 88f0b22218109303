----------------------------- MODULE MCLogFiles -----------------------------
(* LogFiles with two levels, two files of one line each per level, files packed *)
(* after one day and removed after two.                                         *)
EXTENDS LogFiles

CONSTANTS error, debug

MCLevels == {error, debug}
MCSymmetry == Permutations(MCLevels)
=============================================================================
