------------------------------ MODULE ConnWork ------------------------------
(***************************************************************************)
(* CONN and the WORK processes around their channels: the connections CONN *)
(* accepts, what it tells every worker about them, the requests it hands   *)
(* out in turn, and the replies it carries back (tcp_accept.cpp,           *)
(* tcp_socket.cpp, shm_revent.cpp, shm_sevent.cpp, net.cpp).               *)
(*                                                                         *)
(* A channel is what ShmChannel shows it to be: an order-preserving queue  *)
(* of bounded size and a list of blocks the writer holds back.  Pushing,   *)
(* with the pruge in front of it, and pulling are single steps here.  The  *)
(* loop that pushes one block to every channel is not: the workers run in  *)
(* between, and CONN may be killed in the middle of it.                    *)
(***************************************************************************)
EXTENDS Integers, Sequences, FiniteSets

CONSTANTS Fds,         \* descriptors CONN gets from accept
          WorkNum,     \* get_work_num(); the last channel is the Control's
          RingCap,     \* blocks that fit into a shared-memory queue
          IntMax,      \* the largest int
          MaxConns,    \* bound: connections accepted
          MaxReqs,     \* bound: requests read
          MaxCloses,   \* bound: calls of net_close_cli by the plugin
          MaxChanges,  \* bound: MASTER_CHANGE requests that succeed
          MaxConnKills, MaxWorkKills, \* bounds: processes killed
          MaxEvents,   \* bound: all of these together
          NoHandler,   \* m_handlers[fd] is NULL
          NoBlock,     \* the worker is not handling a block
          NoNote       \* CONN is not in the loop over the channels

ASSUME ConnWorkAssumption ==
  /\ WorkNum \in Nat \ {0, 1}
  /\ RingCap \in Nat \ {0}
  /\ IntMax \in Nat \ {0}
  /\ {MaxConns, MaxReqs, MaxCloses, MaxChanges, MaxConnKills, MaxWorkKills, MaxEvents} \subseteq Nat

Channels == 0 .. WorkNum - 1

VARIABLES
  handlers,      \* CONN: m_handlers[fd] of the clients' descriptors
  m_id,          \* CONN: g_reactor.m_id
  serialize_num, \* CONN: the counter of select_channel
  note,          \* CONN: the block it is pushing to every channel
  recv_queue,    \* blocks in shared memory from CONN to each worker ...
  recv_list,     \* ... and those CONN holds back (push_list)
  send_queue,    \* blocks in shared memory from each worker to CONN ...
  send_list,     \* ... and those the worker holds back (push_list)
  g_link_flags,  \* each worker: id of the connection on a descriptor, or 0
  hand,          \* each worker: the block pulled and not yet handled
  ups,           \* history: link_up_cli less link_down_cli calls
  accepted,      \* history: number of connections accepted
  asked,         \* history: the connection each request came from
  delivered,     \* history: requests answered, to which connection, in order
  changes,       \* history: requests that were a MASTER_CHANGE which succeeded
  closes, conn_kills, work_kills \* history: how often each happened

conn == <<handlers, m_id, serialize_num, note>>
recvs == <<recv_queue, recv_list>>
sends == <<send_queue, send_list>>
worker == <<g_link_flags, hand, ups>>
history == <<accepted, asked, delivered, changes>>
upsets == <<closes, conn_kills, work_kills>>
vars == <<conn, recvs, sends, worker, history, upsets>>

Block(type, fd, id, req) == [type |-> type, fd |-> fd, id |-> id, req |-> req]
NoReq == 0

Init ==
  /\ handlers = [fd \in Fds |-> NoHandler]
  /\ m_id = 0
  /\ serialize_num = 0
  /\ note = NoNote
  /\ recv_queue = [c \in Channels |-> <<>>]
  /\ recv_list = [c \in Channels |-> <<>>]
  /\ send_queue = [c \in Channels |-> <<>>]
  /\ send_list = [c \in Channels |-> <<>>]
  /\ g_link_flags = [c \in Channels |-> [fd \in Fds |-> 0]]
  /\ hand = [c \in Channels |-> NoBlock]
  /\ ups = [c \in Channels |-> [fd \in Fds |-> 0]]
  /\ accepted = 0
  /\ asked = <<>>
  /\ delivered = <<>>
  /\ changes = {}
  /\ closes = 0
  /\ conn_kills = 0
  /\ work_kills = 0

\* n more events are within the bounds; one that upsets things counts for two.
Within(n) ==
  accepted + Len(asked) + 2 * (closes + Cardinality(changes) + conn_kills + work_kills) + n
    <= MaxEvents

-----------------------------------------------------------------------------
(* Pushing to a channel whose queue is q and whose held-back list is l.    *)

\* pruge_recv, pruge_send
Pruged(q, l) ==
  LET room == RingCap - Len(q)
      n == IF Len(l) <= room THEN Len(l) ELSE room
  IN [q |-> q \o SubSeq(l, 1, n), l |-> SubSeq(l, n + 1, Len(l))]

\* recv_push, send_push
Pushed(q, l, b, safe) ==
  LET p == Pruged(q, l)
  IN IF p.l = <<>> /\ Len(p.q) < RingCap THEN [q |-> Append(p.q, b), l |-> <<>>]
     ELSE IF safe THEN [q |-> p.q, l |-> Append(p.l, b)]
     ELSE p

RecvPush(c, b, safe) ==
  LET p == Pushed(recv_queue[c], recv_list[c], b, safe)
  IN /\ recv_queue' = [recv_queue EXCEPT ![c] = p.q]
     /\ recv_list' = [recv_list EXCEPT ![c] = p.l]

SendPush(c, b) ==
  LET p == Pushed(send_queue[c], send_list[c], b, TRUE)
  IN /\ send_queue' = [send_queue EXCEPT ![c] = p.q]
     /\ send_list' = [send_list EXCEPT ![c] = p.l]

-----------------------------------------------------------------------------
(* CONN.  It handles one event at a time.                                  *)

Ready == note = NoNote

\* make_id: the int wraps around, and every id that is not positive is 1.
NextId == IF m_id = IntMax THEN -IntMax - 1 ELSE m_id + 1
LinkId(id) == IF id > 0 THEN id ELSE 1

\* Starts the loop that notifies all channels; what follows it is "open"
\* (nothing), "fini" (the handler goes) or "drain" (it goes once it has sent).
Notify(type, fd, id, then) ==
  note' = [block |-> Block(type, fd, id, NoReq), next |-> 0, then |-> then]

\* c_tcp_accept::handle_input, c_tcp_socket::start
Accept(fd) ==
  /\ Ready
  /\ handlers[fd] = NoHandler
  /\ accepted < MaxConns /\ Within(1)
  /\ m_id' = NextId
  /\ accepted' = accepted + 1
  /\ handlers' = [handlers EXCEPT ![fd] =
                    [id |-> LinkId(NextId), link |-> accepted + 1,
                     sending |-> FALSE, m_is_closed |-> FALSE]]
  /\ Notify("LOGIN", fd, LinkId(NextId), "open")
  /\ UNCHANGED <<serialize_num, recvs, sends, worker, asked, delivered, changes, upsets>>

\* ... or start gives up before it tells anybody: no memory, or check_open_cli.
AcceptFails(fd) ==
  /\ Ready
  /\ handlers[fd] = NoHandler
  /\ accepted < MaxConns /\ Within(1)
  /\ m_id' = NextId
  /\ accepted' = accepted + 1
  /\ UNCHANGED <<handlers, note, serialize_num, recvs, sends, worker, asked,
                 delivered, changes, upsets>>

NotifyOneUnsafe ==  \* mutant: a notification is pushed like a request
  RecvPush(note.next, note.block, FALSE)
NotifyOne == RecvPush(note.next, note.block, TRUE)

\* One turn of "notify all"; after the last one the handler is dealt with.
NotifyNext ==
  /\ ~Ready
  /\ NotifyOne
  /\ IF note.next + 1 < WorkNum
     THEN /\ note' = [note EXCEPT !.next = @ + 1]
          /\ UNCHANGED handlers
     ELSE /\ note' = NoNote
          /\ handlers' =
               CASE note.then = "open" -> handlers
                 [] note.then = "fini" -> [handlers EXCEPT ![note.block.fd] = NoHandler]
                 [] note.then = "drain" ->
                      [handlers EXCEPT ![note.block.fd].m_is_closed = TRUE]
  /\ UNCHANGED <<m_id, serialize_num, sends, worker, history, upsets>>

\* select_channel: the workers in turn, all but the last one.
SelectChannel == serialize_num % (WorkNum - 1)

\* handle_input reads a complete request; the channel may have no room.
Request(fd) ==
  /\ Ready
  /\ handlers[fd] # NoHandler
  /\ ~handlers[fd].m_is_closed
  /\ Len(asked) < MaxReqs /\ Within(1)
  /\ asked' = Append(asked, handlers[fd].link)
  /\ serialize_num' = serialize_num + 1
  /\ RecvPush(SelectChannel, Block("PROTO", fd, handlers[fd].id, Len(asked) + 1), FALSE)
  /\ UNCHANGED <<handlers, m_id, note, sends, worker, accepted, delivered, changes, upsets>>

\* handle_error.  A connection that was shut has told the workers already.
HandleError(fd) ==
  IF handlers[fd].m_is_closed
  THEN /\ handlers' = [handlers EXCEPT ![fd] = NoHandler]
       /\ UNCHANGED note
  ELSE /\ Notify("CLOSE", fd, handlers[fd].id, "fini")
       /\ UNCHANGED handlers

\* The client closes, or an error ends the connection.
ClientGone(fd) ==
  /\ Ready
  /\ handlers[fd] # NoHandler
  /\ HandleError(fd)
  /\ UNCHANGED <<m_id, serialize_num, recvs, sends, worker, history, upsets>>

\* handle_output has sent everything; a connection that was shut ends now.
Flush(fd) ==
  /\ Ready
  /\ handlers[fd] # NoHandler
  /\ handlers[fd].sending
  /\ IF handlers[fd].m_is_closed
     THEN HandleError(fd)
     ELSE /\ handlers' = [handlers EXCEPT ![fd].sending = FALSE]
          /\ UNCHANGED note
  /\ UNCHANGED <<m_id, serialize_num, recvs, sends, worker, history, upsets>>

AddressedByFd(b) == handlers[b.fd] # NoHandler  \* mutant: the id is not compared
Addressed(b) == handlers[b.fd] # NoHandler /\ handlers[b.fd].id = b.id

PullSend(c) ==
  /\ Ready
  /\ send_queue[c] # <<>>
  /\ send_queue' = [send_queue EXCEPT ![c] = Tail(@)]

\* c_sevent::handle_input, one turn: no such connection.
Discard(c) ==
  /\ PullSend(c)
  /\ ~Addressed(Head(send_queue[c]))
  /\ UNCHANGED <<conn, recvs, send_list, worker, history, upsets>>

\* ... send_pkg: sent, or queued behind what could not be sent.
Deliver(c) ==
  LET b == Head(send_queue[c])
  IN /\ PullSend(c)
     /\ Addressed(b)
     /\ b.type = "PROTO"
     /\ delivered' = Append(delivered, [req |-> b.req, to |-> handlers[b.fd].link])
     /\ \E sending \in {TRUE, handlers[b.fd].sending} :
          handlers' = [handlers EXCEPT ![b.fd].sending = sending]
     /\ UNCHANGED <<m_id, serialize_num, note, recvs, send_list, worker,
                    accepted, asked, changes, upsets>>

\* ... send_pkg fails.
DeliverFails(c) ==
  LET b == Head(send_queue[c])
  IN /\ PullSend(c)
     /\ Addressed(b)
     /\ b.type = "PROTO"
     /\ ~handlers[b.fd].sending
     /\ HandleError(b.fd)
     /\ UNCHANGED <<m_id, serialize_num, recvs, send_list, worker, history, upsets>>

\* ... shut: the worker closes the connection.
Shut(c) ==
  LET b == Head(send_queue[c])
  IN /\ PullSend(c)
     /\ Addressed(b)
     /\ b.type = "CLOSE"
     /\ Notify("CLOSE", b.fd, b.id, IF handlers[b.fd].sending THEN "drain" ELSE "fini")
     /\ UNCHANGED <<handlers, m_id, serialize_num, recvs, send_list, worker,
                    history, upsets>>

\* The main loop's pruge_recv of every channel.
ConnTick ==
  /\ Ready
  /\ recv_queue' = [c \in Channels |-> Pruged(recv_queue[c], recv_list[c]).q]
  /\ recv_list' = [c \in Channels |-> Pruged(recv_queue[c], recv_list[c]).l]
  /\ UNCHANGED <<conn, sends, worker, history, upsets>>

\* CONN is killed and forked again: the kernel closes every connection, the
\* new process counts ids from 1, and the queues are as they were.
ConnRestart ==
  /\ conn_kills < MaxConnKills /\ Within(2)
  /\ conn_kills' = conn_kills + 1
  /\ handlers' = [fd \in Fds |-> NoHandler]
  /\ m_id' = 0
  /\ serialize_num' = 0
  /\ note' = NoNote
  /\ recv_list' = [c \in Channels |-> <<>>]
  /\ UNCHANGED <<recv_queue, sends, worker, history, closes, work_kills>>

-----------------------------------------------------------------------------
(* A worker.  c_revent::handle_input pulls a block and handles it.         *)

WorkPull(c) ==
  /\ hand[c] = NoBlock
  /\ recv_queue[c] # <<>>
  /\ hand' = [hand EXCEPT ![c] = Head(recv_queue[c])]
  /\ recv_queue' = [recv_queue EXCEPT ![c] = Tail(@)]
  /\ UNCHANGED <<conn, recv_list, sends, g_link_flags, ups, history, upsets>>

Holds(c, type) == hand[c] # NoBlock /\ hand[c].type = type

Release(c) == hand' = [hand EXCEPT ![c] = NoBlock]

WorkLogin(c) ==
  /\ Holds(c, "LOGIN")
  /\ g_link_flags' = [g_link_flags EXCEPT ![c][hand[c].fd] = hand[c].id]
  /\ ups' = [ups EXCEPT ![c][hand[c].fd] = @ + 1]
  /\ Release(c)
  /\ UNCHANGED <<conn, recvs, sends, history, upsets>>

\* mutant: r_pos moves after the answer, so that a worker killed in between
\* leaves the block to the next one
WorkProtoTwice(c) ==
  /\ Holds(c, "PROTO")
  /\ g_link_flags' = [g_link_flags EXCEPT ![c][hand[c].fd] = hand[c].id]
  /\ SendPush(c, Block("PROTO", hand[c].fd, hand[c].id, hand[c].req))
  /\ hand' \in {hand, [hand EXCEPT ![c] = NoBlock]}
  /\ UNCHANGED <<conn, recvs, ups, history, upsets>>

\* The flag is set whether or not the connection is known, then proc_pkg_cli
\* answers through net_send_cli, which reads the flag.
WorkProto(c) ==
  /\ Holds(c, "PROTO")
  /\ g_link_flags' = [g_link_flags EXCEPT ![c][hand[c].fd] = hand[c].id]
  /\ SendPush(c, Block("PROTO", hand[c].fd, hand[c].id, hand[c].req))
  /\ Release(c)
  /\ UNCHANGED <<conn, recvs, ups, history, upsets>>

\* ... or the plugin closes the connection instead: net_close_cli.
WorkProtoClose(c) ==
  /\ closes < MaxCloses /\ Within(2)
  /\ closes' = closes + 1
  /\ Holds(c, "PROTO")
  /\ g_link_flags' = [g_link_flags EXCEPT ![c][hand[c].fd] = 0]
  /\ SendPush(c, Block("CLOSE", hand[c].fd, hand[c].id, NoReq))
  /\ Release(c)
  /\ UNCHANGED <<conn, recvs, ups, history, conn_kills, work_kills>>

\* ... or the request was a MASTER_CHANGE and the worker has connected to the new master:
\* pkg_len is still 0, net_send_cli refuses a reply of that length, and there is none.
WorkProtoSilent(c) ==
  /\ Cardinality(changes) < MaxChanges /\ Within(2)
  /\ Holds(c, "PROTO")
  /\ g_link_flags' = [g_link_flags EXCEPT ![c][hand[c].fd] = hand[c].id]
  /\ changes' = changes \cup {hand[c].req}
  /\ Release(c)
  /\ UNCHANGED <<conn, recvs, sends, ups, accepted, asked, delivered, upsets>>

WorkCloseKeepsFlag(c) ==  \* mutant: the flag is not cleared
  /\ Holds(c, "CLOSE")
  /\ IF g_link_flags[c][hand[c].fd] # 0
     THEN ups' = [ups EXCEPT ![c][hand[c].fd] = @ - 1]
     ELSE UNCHANGED ups
  /\ Release(c)
  /\ UNCHANGED <<conn, recvs, sends, g_link_flags, history, upsets>>

WorkClose(c) ==
  /\ Holds(c, "CLOSE")
  /\ IF g_link_flags[c][hand[c].fd] # 0
     THEN /\ g_link_flags' = [g_link_flags EXCEPT ![c][hand[c].fd] = 0]
          /\ ups' = [ups EXCEPT ![c][hand[c].fd] = @ - 1]
     ELSE UNCHANGED <<g_link_flags, ups>>
  /\ Release(c)
  /\ UNCHANGED <<conn, recvs, sends, history, upsets>>

\* mutant: the main loop does not call pruge_send
WorkTickForgotten(c) == hand[c] = NoBlock /\ UNCHANGED vars

\* The main loop's pruge_send.
WorkTick(c) ==
  LET p == Pruged(send_queue[c], send_list[c])
  IN /\ hand[c] = NoBlock
     /\ send_queue' = [send_queue EXCEPT ![c] = p.q]
     /\ send_list' = [send_list EXCEPT ![c] = p.l]
     /\ UNCHANGED <<conn, recvs, worker, history, upsets>>

\* A worker is killed and forked again: it knows no connection.
WorkRestart(c) ==
  /\ work_kills < MaxWorkKills /\ Within(2)
  /\ work_kills' = work_kills + 1
  /\ g_link_flags' = [g_link_flags EXCEPT ![c] = [fd \in Fds |-> 0]]
  /\ ups' = [ups EXCEPT ![c] = [fd \in Fds |-> 0]]
  /\ Release(c)
  /\ send_list' = [send_list EXCEPT ![c] = <<>>]
  /\ UNCHANGED <<conn, recvs, send_queue, history, closes, conn_kills>>

WorkHandle(c) ==
  WorkLogin(c) \/ WorkProto(c) \/ WorkProtoClose(c) \/ WorkProtoSilent(c) \/ WorkClose(c)
SendEvent(c) == Discard(c) \/ Deliver(c) \/ DeliverFails(c) \/ Shut(c)

Next ==
  \/ \E fd \in Fds :
       Accept(fd) \/ AcceptFails(fd) \/ Request(fd) \/ ClientGone(fd) \/ Flush(fd)
  \/ NotifyNext
  \/ ConnTick
  \/ ConnRestart
  \/ \E c \in Channels :
       SendEvent(c) \/ WorkPull(c) \/ WorkHandle(c) \/ WorkTick(c) \/ WorkRestart(c)

Spec == Init /\ [][Next]_vars

\* Both main loops turn for ever (epoll_wait times out after a second), epoll
\* reports an event until it is handled, and each turn ends with a pruge.
FairSpec ==
  /\ Spec
  /\ WF_vars(NotifyNext)
  /\ SF_vars(ConnTick)
  /\ \A c \in Channels :
       /\ SF_vars(SendEvent(c))
       /\ WF_vars(WorkPull(c))
       /\ WF_vars(WorkHandle(c))
       /\ SF_vars(WorkTick(c))
-----------------------------------------------------------------------------
(***************************************************************************)
(* Properties.                                                             *)
(***************************************************************************)
Types == {"LOGIN", "PROTO", "CLOSE"}
Links == 1 .. MaxConns
BlockType == [type : Types, fd : Fds, id : 1 .. IntMax, req : 0 .. MaxReqs]
HandlerType == [id : 1 .. IntMax, link : Links, sending : BOOLEAN, m_is_closed : BOOLEAN]
NoteType == [block : BlockType, next : Channels, then : {"open", "fini", "drain"}]

ASSUME NothingAssumption ==
  NoHandler \notin HandlerType /\ NoBlock \notin BlockType /\ NoNote \notin NoteType

\* Every variable keeps to its range.
TypeOK ==
  /\ handlers \in [Fds -> {NoHandler} \cup HandlerType]
  /\ m_id \in -IntMax - 1 .. IntMax
  /\ serialize_num \in Nat
  /\ note \in {NoNote} \cup NoteType
  /\ {recv_queue, recv_list, send_queue, send_list} \subseteq [Channels -> Seq(BlockType)]
  /\ \A c \in Channels : Len(recv_queue[c]) <= RingCap /\ Len(send_queue[c]) <= RingCap
  /\ g_link_flags \in [Channels -> [Fds -> 0 .. IntMax]]
  /\ hand \in [Channels -> BlockType \cup {NoBlock}]
  /\ ups \in [Channels -> [Fds -> Int]]
  /\ accepted \in 0 .. MaxConns
  /\ asked \in Seq(Links)
  /\ delivered \in Seq([req : 1 .. MaxReqs, to : Links])
  /\ changes \subseteq 0 .. MaxReqs
  /\ closes \in 0 .. MaxCloses
  /\ conn_kills \in 0 .. MaxConnKills
  /\ work_kills \in 0 .. MaxWorkKills

\* A reply goes to the connection its request came from, or to nobody: not to
\* a later connection with the same descriptor, whatever is still on its way
\* in the queues when the descriptor is used again.
RepliesToAsker ==
  \A i \in 1 .. Len(delivered) : delivered[i].to = asked[delivered[i].req]

\* ... and that holds whichever workers are killed and whatever the plugin closes, as
\* long as CONN is not killed (the other variables keep to their ranges).
RepliesToAskerUnlessRestarted == TypeOK /\ (conn_kills = 0 => RepliesToAsker)

\* No request is answered twice, also when a worker is killed between pulling
\* it and answering it and another one goes on with the queue.
AnsweredOnce ==
  \A i, j \in 1 .. Len(delivered) : delivered[i].req = delivered[j].req => i = j

\* What worker c will have in g_link_flags[fd] when it has handled everything
\* that is on its way to it.
ToHandle(c) ==
  (IF hand[c] = NoBlock THEN <<>> ELSE <<hand[c]>>) \o recv_queue[c] \o recv_list[c]

FlagToBe(c, fd) ==
  LET blocks == ToHandle(c)
      about == {i \in 1 .. Len(blocks) : blocks[i].fd = fd}
  IN IF about = {} THEN g_link_flags[c][fd]
     ELSE LET last == blocks[CHOOSE i \in about : \A j \in about : j <= i]
          IN IF last.type = "CLOSE" THEN 0 ELSE last.id

\* What CONN has told worker c about fd so far.
Told(c, fd) ==
  IF note # NoNote /\ note.block.fd = fd
  THEN IF (note.block.type = "CLOSE") = (note.next <= c) THEN note.block.id ELSE 0
  ELSE IF handlers[fd] = NoHandler \/ handlers[fd].m_is_closed THEN 0
  ELSE handlers[fd].id

\* Every worker ends up with CONN's view of every descriptor, whatever was
\* held back, dropped, closed and accepted again meanwhile (as long as nobody
\* is killed and the plugin closes no connection itself).
FlagsFollow ==
  upsets = <<0, 0, 0>> => \A c \in Channels, fd \in Fds : FlagToBe(c, fd) = Told(c, fd)

\* In each worker link_up_cli and link_down_cli alternate on a descriptor, and
\* the flag tells which came last (same provisos).
LinksPaired ==
  upsets = <<0, 0, 0>> =>
    \A c \in Channels, fd \in Fds :
      ups[c][fd] = IF g_link_flags[c][fd] = 0 THEN 0 ELSE 1

InQueue(r) == \E c \in Channels : \E i \in 1 .. Len(recv_queue[c]) : recv_queue[c][i].req = r
Answered(r) == \E i \in 1 .. Len(delivered) : delivered[i].req = r
Alive(r) ==
  /\ r <= Len(asked)
  /\ \E fd \in Fds :
       handlers[fd] # NoHandler /\ handlers[fd].link = asked[r] /\ ~handlers[fd].m_is_closed

\* A request that got into a queue is answered, or its connection ends (the plugin
\* may have closed it), or it was a MASTER_CHANGE that succeeded, the one request which
\* proc_pkg_cli does not answer; only a process that is killed takes requests with it.
RequestsAnswered ==
  \A r \in 1 .. MaxReqs :
    InQueue(r) ~> Answered(r) \/ r \in changes \/ ~Alive(r) \/ conn_kills + work_kills > 0
=============================================================================
