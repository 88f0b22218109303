----------------------------- MODULE MCShmRing -----------------------------
(***************************************************************************)
(* ShmRing on a ring of a few bytes.  The head has two bytes, so that head *)
(* and payload each wrap around the end of the ring in every way; the      *)
(* longest payload does not fit into the buffer allocated for it.          *)
(***************************************************************************)
EXTENDS ShmRing

MCLens == {0, 1, 2}
=============================================================================
