---------------------------- MODULE MCShmChannel ----------------------------
(***************************************************************************)
(* ShmChannel with a ring of four usable bytes: two empty blocks, or one   *)
(* long one.  Length 5 is refused by the length check.                     *)
(***************************************************************************)
EXTENDS ShmChannel

MCLens == {0, 2, 5}
ASSUME NoGap
=============================================================================
