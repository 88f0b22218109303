---------------------------- MODULE MCSupervisor ----------------------------
(***************************************************************************)
(* Supervisor with two workers and CONN, and three faults anywhere, so     *)
(* that all three processes may also fail to start, one after the other.   *)
(***************************************************************************)
EXTENDS Supervisor
=============================================================================
