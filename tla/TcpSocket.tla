----------------------------- MODULE TcpSocket ------------------------------
(***************************************************************************)
(* c_tcp_socket as a whole: TcpRecv and TcpSend on one descriptor.  CONN   *)
(* has one thread, so that nothing is sent while handle_input runs and     *)
(* nothing received while handle_output or send_pkg does; m_is_closed,     *)
(* which a shut with something left to send leaves behind, makes           *)
(* handle_input throw away what it receives and handle_output end the      *)
(* connection, and an end met by either is the end of both.                *)
(***************************************************************************)
EXTENDS TcpSend

CONSTANTS HeadLen, BufSize, MaxPkgLen, \* as in TcpRecv
          LensRecv,                    \* its Lens and MaxPkgs
          MaxRecv,
          MaxBoth \* bound: packages sent by the client and packages sent to it

VARIABLES sent, net, buf, m_recv_buf_size, pos, got, \* as in TcpRecv
          in_at                                      \* its at

recv_vars == <<sent, net, buf, m_recv_buf_size, pos, got, in_at>>
socket_vars == <<vars, recv_vars>>

R == INSTANCE TcpRecv WITH Lens <- LensRecv, MaxPkgs <- MaxRecv, at <- in_at

ASSUME TcpRecvAssumption == R!TcpRecvAssumption

SocketInit == Init /\ R!Init

Within == Len(sent) + tried < MaxBoth

\* The client sends.
ClientSends == Within /\ \E len \in LensRecv : R!Send(len) /\ UNCHANGED vars

\* A turn of handle_input's loop, which may end the connection.
EndsSending == IF in_at' = "gone" THEN Gone /\ UNCHANGED tried ELSE UNCHANGED vars

Receive == at = "epoll" /\ R!HandleInput /\ EndsSending
ReceiveEnds == at = "epoll" /\ (R!RecvClosed \/ R!GrowNoMemory) /\ EndsSending

\* No handle_input is under way.  (What its loop makes of garbled bytes is not followed.)
Between == in_at \in {"epoll", "garbled"}

\* send_pkg, shut, or a turn of handle_output's loop, and what it makes of the rest.
EndsReceiving ==
  /\ in_at' = IF at' = "gone" /\ in_at = "epoll" THEN "gone" ELSE in_at
  /\ UNCHANGED <<sent, net, buf, m_recv_buf_size, pos, got>>

HandleOutput == Between /\ Writable /\ EndsReceiving
OutputSome == Between /\ (\E n \in 1 .. BufLen : Output(n)) /\ EndsReceiving
OutputNone == Between /\ OutputAgain /\ EndsReceiving
OutputEnds == Between /\ OutputDone /\ EndsReceiving

SendPkg ==
  /\ Between /\ Within
  /\ \/ \E len \in Lens :
          \/ SendFull(len) \/ SendQueued(len)
          \/ \E n \in 0 .. len : SendNow(len, n) \/ SendCutOff(len, n)
     \/ SendFails
  /\ EndsReceiving

Closes ==
  /\ Between
  /\ Shut \/ ClientGone
  /\ EndsReceiving

SocketNext ==
  \/ ClientSends \/ Receive \/ ReceiveEnds
  \/ HandleOutput \/ OutputSome \/ OutputNone \/ OutputEnds
  \/ SendPkg \/ Closes

SocketSpec == SocketInit /\ [][SocketNext]_socket_vars

\* epoll reports both that the descriptor is readable and that it is writable in every
\* turn of the main loop, as long as it is; and the client goes on reading.
SocketFairness ==
  /\ SF_socket_vars(Receive)
  /\ SF_socket_vars(HandleOutput)
  /\ SF_socket_vars(OutputSome)
  /\ SF_socket_vars(OutputEnds)

SocketFairSpec == SocketSpec /\ SocketFairness
-----------------------------------------------------------------------------
(* The properties of TcpRecv, of the socket as a whole. *)

PackagesIntact == R!TypeOK /\ R!PackagesIntact
RoomToRecv == R!RoomToRecv
EveryPackageHandedOn == R!EveryPackageHandedOn
=============================================================================
