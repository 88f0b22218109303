------------------------------- MODULE MCTcp --------------------------------
(***************************************************************************)
(* Tcp with buffers of two bytes to send and of three to receive, and with *)
(* links on two descriptors.                                               *)
(***************************************************************************)
EXTENDS Tcp

MCLens == {1, 3}
MCLensRecv == {0, 2, 3, 5, 6}
=============================================================================
