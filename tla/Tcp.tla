-------------------------------- MODULE Tcp ---------------------------------
(***************************************************************************)
(* The two ends of a process's TCP connections: TcpSocket, CONN's          *)
(* connection to a client, and Linkers, a worker's links to other servers. *)
(* They share the reactor's code and nothing else, so that one of them is  *)
(* looked at in each behaviour, and the other has nothing to do.           *)
(***************************************************************************)
EXTENDS TcpSocket

CONSTANTS Fds, MaxList, MaxLinks, MaxLinkPkgs, MaxFaults \* of Linkers

VARIABLES world, batch, links_at, \* w, batch and at of Linkers
          end                     \* the end that is looked at

links_vars == <<world, batch, links_at>>

L == INSTANCE Linkers WITH MaxPkgs <- MaxLinkPkgs, at <- links_at, w <- world

TcpInit == SocketInit /\ L!Init /\ end \in {"client", "servers"}

TcpNext ==
  \/ end = "client" /\ SocketNext /\ UNCHANGED <<links_vars, end>>
  \/ end = "servers" /\ L!Next /\ UNCHANGED <<socket_vars, end>>

TcpSpec ==
  /\ TcpInit /\ [][TcpNext]_<<socket_vars, links_vars, end>>
  /\ SocketFairness /\ L!Fairness

-----------------------------------------------------------------------------
(* The properties of Linkers, stated there. *)

NoEmptySlot == L!NoEmptySlot
CallbacksOrdered == L!CallbacksOrdered
Released == L!Released
=============================================================================
