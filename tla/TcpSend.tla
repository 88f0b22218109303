------------------------------ MODULE TcpSend ------------------------------
(***************************************************************************)
(* How CONN sends packages to one client: c_tcp_socket::send_pkg,          *)
(* handle_output and shut with the list of buffers for what the kernel     *)
(* does not take at once.  One turn of handle_output's loop is one action. *)
(* c_tcp_linker sends to a server the same way, without the limit.         *)
(***************************************************************************)
EXTENDS Integers, Sequences, SequencesExt

CONSTANTS BufLen,   \* BUF_LEN, bytes of a buffer_t
          Limit,    \* MAX_SEND_LIST_SIZE, 1024
          Lens,     \* lengths of the packages sent
          MaxLen,   \* the longest of them
          MaxPkgs   \* bound: packages sent

ASSUME TcpSendAssumption ==
  /\ BufLen \in Nat \ {0}
  /\ Limit \in Nat \ {0}
  /\ MaxLen \in Nat
  /\ Lens \subseteq 1 .. MaxLen
  /\ MaxPkgs \in Nat

VARIABLES
  m_send_list,      \* the buffers, each the bytes it holds
  m_send_list_size,
  m_send_pos,       \* bytes of the first buffer that are sent
  interest,         \* EPOLLOUT is asked for
  m_is_closed,      \* shut was called with bytes left to send
  at,               \* "epoll", "output", or "gone"
  accepted,         \* history: the packages send_pkg took, if only in part
  tried,            \* history: calls of send_pkg
  wire              \* history: the bytes the kernel took

vars == <<m_send_list, m_send_list_size, m_send_pos, interest, m_is_closed, at,
          accepted, tried, wire>>

Init ==
  /\ m_send_list = <<>>
  /\ m_send_list_size = 0
  /\ m_send_pos = 0
  /\ interest = FALSE
  /\ m_is_closed = FALSE
  /\ at = "epoll"
  /\ accepted = <<>>
  /\ tried = 0
  /\ wire = <<>>

PkgBytes(i, len) == [k \in 1 .. len |-> <<i, k>>]

\* The buffers that n bytes take.
Buffers(n) == (n + BufLen - 1) \div BufLen

\* s cut into buffers, all but the last one full.
Chunks(s) ==
  [i \in 1 .. Buffers(Len(s)) |->
     SubSeq(s, (i - 1) * BufLen + 1, IF i * BufLen < Len(s) THEN i * BufLen ELSE Len(s))]

\* mutant: the last buffer is left as it is and dat_len starts again
AppendedOver(s) == Front(m_send_list) \o Chunks(s)

\* s behind what is in the list: the last buffer is filled first.
Appended(s) ==
  LET last == Last(m_send_list)
      room == BufLen - Len(last)
      n == IF room < Len(s) THEN room ELSE Len(s)
  IN Front(m_send_list) \o <<last \o SubSeq(s, 1, n)>> \o Chunks(SubSeq(s, n + 1, Len(s)))

FullByOne == m_send_list_size > Limit  \* mutant: off by one
Full == m_send_list_size >= Limit

Call ==
  /\ at = "epoll"
  /\ tried < MaxPkgs
  /\ tried' = tried + 1

\* "client send buffer is full"
SendFull(len) ==
  /\ Call
  /\ m_send_list # <<>>
  /\ Full
  /\ UNCHANGED <<m_send_list, m_send_list_size, m_send_pos, interest, m_is_closed,
                 at, accepted, wire>>

SendQueued(len) ==
  /\ Call
  /\ m_send_list # <<>>
  /\ ~Full
  /\ m_send_list' = Appended(PkgBytes(tried + 1, len))
  /\ m_send_list_size' =
       m_send_list_size + Buffers(len + Len(Last(m_send_list))) - 1
  /\ accepted' = Append(accepted, PkgBytes(tried + 1, len))
  /\ UNCHANGED <<m_send_pos, interest, m_is_closed, at, wire>>

\* Nothing waits: the kernel takes n bytes (0 when it answers EAGAIN) and the
\* rest is put into buffers.
SendNow(len, n) ==
  LET pkg == PkgBytes(tried + 1, len)
  IN /\ Call
     /\ m_send_list = <<>>
     /\ wire' = wire \o SubSeq(pkg, 1, n)
     /\ m_send_list' = Chunks(SubSeq(pkg, n + 1, len))
     /\ m_send_list_size' = m_send_list_size + Buffers(len - n)
     /\ interest' = (n < len \/ interest)
     /\ accepted' = Append(accepted, pkg)
     /\ UNCHANGED <<m_send_pos, m_is_closed, at>>

\* The kernel takes n bytes and there is no buffer for the rest: handle_error.
SendCutOff(len, n) ==
  LET pkg == PkgBytes(tried + 1, len)
  IN /\ Call
     /\ m_send_list = <<>>
     /\ n \in 1 .. len - 1
     /\ wire' = wire \o SubSeq(pkg, 1, n)
     /\ accepted' = Append(accepted, pkg)
     /\ at' = "gone"
     /\ UNCHANGED <<m_send_list, m_send_list_size, m_send_pos, interest, m_is_closed>>

\* handle_error and handle_fini: the buffers are given back.
Gone ==
  /\ m_send_list' = <<>>
  /\ m_send_list_size' = 0
  /\ at' = "gone"
  /\ UNCHANGED <<m_send_pos, interest, m_is_closed, accepted, wire>>

\* send fails, or get_buffer with nothing sent; or the client goes.
SendFails == (m_send_list = <<>> \/ ~Full) /\ \E len \in Lens : Call /\ Gone
ClientGone == at = "epoll" /\ Gone /\ UNCHANGED tried

Writable ==
  /\ at = "epoll"
  /\ interest
  /\ at' = "output"
  /\ UNCHANGED <<m_send_list, m_send_list_size, m_send_pos, interest, m_is_closed,
                 accepted, tried, wire>>

ToSend == Len(Head(m_send_list)) - m_send_pos

Output(n) ==
  /\ at = "output"
  /\ m_send_list # <<>>
  /\ n <= ToSend
  /\ wire' = wire \o SubSeq(Head(m_send_list), m_send_pos + 1, m_send_pos + n)
  /\ IF n = ToSend
     THEN /\ m_send_list' = Tail(m_send_list)
          /\ m_send_list_size' = m_send_list_size - 1
          /\ m_send_pos' = 0
     ELSE /\ m_send_pos' = m_send_pos + n
          /\ UNCHANGED <<m_send_list, m_send_list_size>>
  /\ UNCHANGED <<interest, m_is_closed, at, accepted, tried>>

\* mutant: EPOLLOUT is given up after a short write
OutputAgainForgets ==
  /\ at = "output"
  /\ m_send_list # <<>>
  /\ at' = "epoll"
  /\ interest' = FALSE
  /\ UNCHANGED <<m_send_list, m_send_list_size, m_send_pos, m_is_closed,
                 accepted, tried, wire>>

\* EAGAIN
OutputAgain ==
  /\ at = "output"
  /\ m_send_list # <<>>
  /\ at' = "epoll"
  /\ UNCHANGED <<m_send_list, m_send_list_size, m_send_pos, interest, m_is_closed,
                 accepted, tried, wire>>

\* Everything is sent; a connection that was shut ends.
OutputDone ==
  /\ at = "output"
  /\ m_send_list = <<>>
  /\ IF m_is_closed THEN Gone
     ELSE /\ interest' = FALSE
          /\ at' = "epoll"
          /\ UNCHANGED <<m_send_list, m_send_list_size, m_send_pos, m_is_closed,
                         accepted, wire>>
  /\ UNCHANGED tried

Shut ==
  /\ at = "epoll"
  /\ IF m_send_list # <<>>
     THEN /\ m_is_closed' = TRUE
          /\ UNCHANGED <<m_send_list, m_send_list_size, m_send_pos, interest, at,
                         accepted, wire>>
     ELSE Gone
  /\ UNCHANGED tried

Next ==
  \/ \E len \in Lens :
       \/ SendFull(len) \/ SendQueued(len)
       \/ \E n \in 0 .. len : SendNow(len, n) \/ SendCutOff(len, n)
  \/ SendFails
  \/ ClientGone
  \/ Writable
  \/ \E n \in 1 .. BufLen : Output(n)
  \/ OutputAgain
  \/ OutputDone
  \/ Shut

Spec == Init /\ [][Next]_vars

\* epoll reports a writable descriptor, and the client goes on reading.
FairSpec ==
  /\ Spec
  /\ WF_vars(Writable)
  /\ SF_vars(\E n \in 1 .. BufLen : Output(n))
  /\ WF_vars(OutputDone)
-----------------------------------------------------------------------------
(***************************************************************************)
(* Properties.                                                             *)
(***************************************************************************)
Bytes == (1 .. MaxPkgs) \X (1 .. MaxLen)

\* Every variable keeps to its range; no buffer holds more than fits into it
\* or nothing, and m_send_pos is inside the first one.
TypeOK ==
  /\ m_send_list \in Seq(Seq(Bytes))
  /\ \A i \in 1 .. Len(m_send_list) : Len(m_send_list[i]) \in 1 .. BufLen
  /\ m_send_pos \in Nat
  /\ m_send_list # <<>> => m_send_pos < Len(Head(m_send_list))
  /\ interest \in BOOLEAN
  /\ m_is_closed \in BOOLEAN
  /\ at \in {"epoll", "output", "gone"}
  /\ accepted \in Seq(Seq(Bytes))
  /\ tried \in 0 .. MaxPkgs
  /\ wire \in Seq(Bytes)

\* The client gets the packages whole, each once, in the order in which they
\* were accepted, however much the kernel takes at a time: a package that
\* finds the list full is left out as a whole.
Unsent ==
  IF m_send_list = <<>> THEN <<>>
  ELSE LET all == FlattenSeq(m_send_list) IN SubSeq(all, m_send_pos + 1, Len(all))
StreamIntact ==
  IF at = "gone" THEN IsPrefix(wire, FlattenSeq(accepted))
  ELSE wire \o Unsent = FlattenSeq(accepted)

\* m_send_list_size is the number of buffers, and what is held for a client
\* that does not read is bounded.
ListBounded ==
  /\ m_send_list_size = Len(m_send_list)
  /\ m_send_list_size <= Limit - 1 + Buffers(MaxLen)

\* While something waits to be sent EPOLLOUT is asked for, and so it is sent in the
\* end, and after a shut the connection ends then, unless it ends otherwise.
AllSent ==
  m_send_list # <<>> \/ m_is_closed ~> (m_send_list = <<>> /\ ~m_is_closed) \/ at = "gone"
=============================================================================
