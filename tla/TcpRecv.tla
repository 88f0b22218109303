------------------------------ MODULE TcpRecv ------------------------------
(***************************************************************************)
(* How CONN cuts the bytes of one client into packages:                    *)
(* c_tcp_socket::handle_input and the part of shut and handle_error that   *)
(* concerns the receive buffer.  TCP delivers any number of bytes at a     *)
(* time; every package begins with its own length.  One action is one turn *)
(* of the code's READ loop.  c_tcp_linker and c_tcp_async_linker have the  *)
(* same loop for the bytes of a server.                                    *)
(***************************************************************************)
EXTENDS Integers, Sequences, SequencesExt

CONSTANTS HeadLen,     \* bytes get_pkg_len_cli needs, sizeof(uint32_t)
          BufSize,     \* bytes malloc'ed by start, 4096
          MaxPkgLen,   \* g_max_pkg_len
          Lens,        \* lengths a client writes at the head of a package
          MaxPkgs      \* bound: packages the client sends

\* What is assumed of the constants.
TcpRecvAssumption ==
  /\ HeadLen \in Nat \ {0}
  /\ BufSize \in Nat
  /\ MaxPkgLen \in Nat
  /\ HeadLen <= BufSize /\ BufSize <= MaxPkgLen
  /\ Lens \subseteq {0} \cup {l \in Nat : l >= HeadLen}
  /\ MaxPkgs \in Nat

VARIABLES
  sent,            \* client: the lengths of the packages it sent
  net,             \* bytes sent and not yet received
  buf,             \* the first m_recv_pos bytes of m_recv_buf
  m_recv_buf_size,
  m_is_closed,     \* shut was called while something was left to send
  at,              \* "epoll", or the label the loop is at, or "gone", or
                   \* "garbled" when the bytes left are no longer the client's
  pos,             \* bytes of buf handled in this handle_input
  got              \* history: what was handed to recv_push

vars == <<sent, net, buf, m_recv_buf_size, m_is_closed, at, pos, got>>

\* A byte is known by its package and its place there.  Of a package whose
\* length is no length the head is all there is.
PkgBytes(i, len) == [k \in 1 .. (IF len \in HeadLen .. MaxPkgLen THEN len ELSE HeadLen) |-> <<i, k>>]

Init ==
  /\ sent = <<>>
  /\ net = <<>>
  /\ buf = <<>>
  /\ m_recv_buf_size = BufSize
  /\ m_is_closed = FALSE
  /\ at = "epoll"
  /\ pos = 0
  /\ got = <<>>

Send(len) ==
  /\ Len(sent) < MaxPkgs
  /\ sent' = Append(sent, len)
  /\ net' = net \o PkgBytes(Len(sent) + 1, len)
  /\ UNCHANGED <<buf, m_recv_buf_size, m_is_closed, at, pos, got>>

Room == m_recv_buf_size - Len(buf)

\* recv returns n > 0.
Recv(n) ==
  /\ at = "epoll"
  /\ n <= Room
  /\ n <= Len(net)
  /\ net' = SubSeq(net, n + 1, Len(net))
  /\ IF m_is_closed
     THEN buf' = <<>> /\ at' = "epoll"
     ELSE buf' = buf \o SubSeq(net, 1, n) /\ at' = "READ"
  /\ pos' = 0
  /\ UNCHANGED <<sent, m_recv_buf_size, m_is_closed, got>>

\* handle_input answers false, or the client closes: handle_error.
Gone ==
  /\ at' = "gone"
  /\ UNCHANGED <<sent, net, buf, m_recv_buf_size, m_is_closed, pos, got>>

RecvClosed ==
  /\ at = "epoll"
  /\ net = <<>> \/ Room = 0
  /\ Gone

\* get_pkg_len_cli
PkgLen == IF Len(buf) - pos < HeadLen THEN 0 ELSE sent[buf[pos + 1][1]]

LenError == at = "READ" /\ PkgLen > MaxPkgLen /\ Gone

\* "unsupported big protocol head"
BigHead ==
  /\ at = "READ"
  /\ PkgLen = 0
  /\ pos = 0
  /\ Len(buf) = m_recv_buf_size
  /\ Gone

GotoMOVE ==
  /\ at' = "MOVE"
  /\ UNCHANGED <<sent, net, buf, m_recv_buf_size, m_is_closed, pos, got>>

NeedHead ==
  /\ at = "READ"
  /\ PkgLen = 0
  /\ pos # 0 \/ Len(buf) < m_recv_buf_size
  /\ GotoMOVE

GrowForgotten ==  \* mutant: the buffer grows, m_recv_buf_size does not
  /\ at = "READ"
  /\ PkgLen <= MaxPkgLen
  /\ pos = 0
  /\ PkgLen > m_recv_buf_size
  /\ GotoMOVE

Grow ==
  /\ at = "READ"
  /\ PkgLen <= MaxPkgLen
  /\ pos = 0
  /\ PkgLen > m_recv_buf_size
  /\ m_recv_buf_size' = PkgLen
  /\ at' = "MOVE"
  /\ UNCHANGED <<sent, net, buf, m_is_closed, pos, got>>

GrowNoMemory == at = "READ" /\ pos = 0 /\ PkgLen > m_recv_buf_size /\ Gone

CompleteHeadOnly == PkgLen # 0  \* mutant: the payload is not waited for
Complete == PkgLen # 0 /\ PkgLen + pos <= Len(buf)

\* mutant: the loop is left after the first package
PackageOnce ==
  /\ at = "READ"
  /\ PkgLen <= MaxPkgLen
  /\ ~(pos = 0 /\ PkgLen > m_recv_buf_size)
  /\ Complete
  /\ got' = Append(got, SubSeq(buf, pos + 1, pos + PkgLen))
  /\ pos' = pos + PkgLen
  /\ at' = "MOVE"
  /\ UNCHANGED <<sent, net, buf, m_recv_buf_size, m_is_closed>>

\* recv_push, and shmq_pushed, which ends the connection when it answers -1.  (The
\* Proxy's never does.)
Package ==
  /\ at = "READ"
  /\ PkgLen <= MaxPkgLen
  /\ ~(pos = 0 /\ PkgLen > m_recv_buf_size)
  /\ Complete
  /\ got' = Append(got, SubSeq(buf, pos + 1, pos + PkgLen))
  /\ pos' = pos + PkgLen
  /\ at' \in {IF pos + PkgLen < Len(buf) THEN "READ" ELSE "MOVE", "gone"}
  /\ UNCHANGED <<sent, net, buf, m_recv_buf_size, m_is_closed>>

Incomplete ==
  /\ at = "READ"
  /\ PkgLen # 0
  /\ PkgLen <= MaxPkgLen
  /\ ~(pos = 0 /\ PkgLen > m_recv_buf_size)
  /\ ~Complete
  /\ GotoMOVE

\* What a memcpy that begins at the last byte makes of overlapping bytes.
CopiedDown(rest) ==
  [k \in 1 .. rest |-> buf[k + pos * (((rest - k) \div pos) + 1)]]

MoveNothing == buf' = buf /\ at' = "epoll"  \* mutant: what is left stays where it is

\* memcpy may begin at either end; what the loop makes of garbled bytes is
\* not followed.
MoveRest ==
  LET rest == Len(buf) - pos
  IN \/ buf' = SubSeq(buf, pos + 1, Len(buf)) /\ at' = "epoll"
     \/ pos # 0 /\ rest > pos /\ buf' = CopiedDown(rest) /\ at' = "garbled"

Move ==
  /\ at = "MOVE"
  /\ MoveRest
  /\ pos' = 0
  /\ UNCHANGED <<sent, net, m_recv_buf_size, m_is_closed, got>>

\* A worker closes the connection: at once, or when all is sent.
Shut ==
  /\ at = "epoll"
  /\ \/ ~m_is_closed /\ m_is_closed' = TRUE /\ UNCHANGED at
     \/ at' = "gone" /\ UNCHANGED m_is_closed
  /\ UNCHANGED <<sent, net, buf, m_recv_buf_size, pos, got>>

HandleInput ==
  \/ \E n \in 1 .. MaxPkgLen : Recv(n)
  \/ LenError \/ BigHead \/ NeedHead \/ Grow \/ Package \/ Incomplete \/ Move

Next ==
  \/ \E len \in Lens : Send(len)
  \/ HandleInput
  \/ RecvClosed
  \/ GrowNoMemory
  \/ Shut

Spec == Init /\ [][Next]_vars

\* epoll reports the descriptor readable as long as bytes are left.
FairSpec == Spec /\ WF_vars(HandleInput)
-----------------------------------------------------------------------------
(***************************************************************************)
(* Properties.                                                             *)
(***************************************************************************)
Bytes == (1 .. MaxPkgs) \X (1 .. MaxPkgLen)

\* Every variable keeps to its range: the loop never passes the bytes received
\* and the bytes received never pass the buffer.
TypeOK ==
  /\ sent \in Seq(Lens)
  /\ net \in Seq(Bytes)
  /\ buf \in Seq(Bytes)
  /\ m_recv_buf_size \in BufSize .. MaxPkgLen
  /\ Len(buf) <= m_recv_buf_size
  /\ m_is_closed \in BOOLEAN
  /\ at \in {"epoll", "READ", "MOVE", "gone", "garbled"}
  /\ pos \in 0 .. Len(buf)
  /\ got \in Seq(Seq(Bytes))

\* What is handed on is what the client sent: whole packages, each once, in
\* order, however TCP cut them; nothing is lost between the packages handed
\* on, the buffer and the network, unless the memcpy garbled it.
PackagesIntact ==
  /\ Len(got) <= Len(sent)
  /\ \A i \in 1 .. Len(got) : got[i] = PkgBytes(i, sent[i])
  /\ ~m_is_closed /\ at # "garbled" =>
       FlattenSeq(got) \o SubSeq(buf, pos + 1, Len(buf)) \o net
         = FlattenSeq([i \in 1 .. Len(sent) |-> PkgBytes(i, sent[i])])

\* When the loop is left there is room in the buffer: a recv of no bytes would
\* answer 0 and be taken for the client's closing.
RoomToRecv == at = "epoll" => Len(buf) < m_recv_buf_size

\* The first packages that have a length each, after which the connection ends.
Whole == {i \in 1 .. Len(sent) : \A j \in 1 .. i : sent[j] \in HeadLen .. MaxPkgLen}

\* Every package is handed on once it has arrived, however it was cut, unless the
\* connection ends, an earlier length was none or the memcpy garbled it.  (With a bound
\* on the packages this says it of each of them.)
EveryPackageHandedOn ==
  Len(got) < Cardinality(Whole)
    ~> Len(got) = Cardinality(Whole) \/ m_is_closed \/ at \in {"gone", "garbled"}
=============================================================================
