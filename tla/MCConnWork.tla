----------------------------- MODULE MCConnWork -----------------------------
(***************************************************************************)
(* ConnWork with one descriptor that is used again and again, and queues   *)
(* of one block, so that almost every notification is held back.           *)
(***************************************************************************)
EXTENDS ConnWork
=============================================================================
