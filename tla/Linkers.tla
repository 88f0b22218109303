------------------------------ MODULE Linkers -------------------------------
(***************************************************************************)
(* The reactor of one process and its links to other servers: c_tcp_linker *)
(* (connected before it is handed out) and c_tcp_async_linker (connected   *)
(* later, which shows as a descriptor that can be written to).             *)
(*                                                                         *)
(* handle_event goes through a batch of events and calls the handler that  *)
(* is in the slot of each descriptor; handlers call the plugin, and the    *)
(* plugin may send on or close links from there, as many and as often as   *)
(* it likes.  A link that ends deletes itself and empties its slot at      *)
(* once, in the middle of a batch, of a handler or of its own callback.    *)
(* New links are made between two batches only, as the services of         *)
(* src/common do from TimeEvent.                                           *)
(***************************************************************************)
EXTENDS Integers, Sequences, FiniteSets, SequencesExt

CONSTANTS Fds,      \* descriptors, the indices of m_handlers
          MaxList,  \* bound: buffers in a send list
          MaxLinks, \* bound: links made
          MaxPkgs,  \* bound: calls of net_send_ser, packages the other servers send
          MaxFaults \* bound: ends of connections, calls that fail

VARIABLES
  w,     \* the world a handler works on: [slot, sock, full, inq, seen, pkgs,
         \* faults, nomem], see Init
  batch, \* events of epoll_wait not looked at yet
  at     \* where handle_event is: [pc, fd, e, pkgs]

vars == <<w, batch, at>>

\* An empty slot.
NoLink == [id |-> 0]
Open == {fd \in Fds : w.slot[fd] # NoLink}
Ids == 1 .. Len(w.seen)
Quiet == [pc |-> "wait", fd |-> 0, e |-> {}, pkgs |-> 0]

Init ==
  /\ w = [slot |-> [fd \in Fds |-> NoLink],      \* m_handlers
          sock |-> [fd \in Fds |-> "none"],      \* the socket, in the kernel
          full |-> [fd \in Fds |-> FALSE],       \* its send buffer is
          inq |-> [fd \in Fds |-> 0],            \* packages to be received
          seen |-> <<>>,                         \* what the plugin knows of each link
          pkgs |-> 0, faults |-> 0,
          nomem |-> FALSE]                       \* a call for memory or epoll has failed
  /\ batch = <<>>
  /\ at = Quiet

-----------------------------------------------------------------------------
(* The handlers, as operators on the world. *)

Fails(s) == IF s.faults < MaxFaults THEN {[s EXCEPT !.faults = @ + 1]} ELSE {}
NoMemory(s) == {[t EXCEPT !.nomem = TRUE] : t \in Fails(s)}

\* handle_fini: the slot is emptied, the descriptor closed, the object deleted.
HandleFini(s, fd) ==
  [s EXCEPT !.slot[fd] = NoLink, !.sock[fd] = "none", !.full[fd] = FALSE, !.inq[fd] = 0]

\* handle_error: link_down_ser, unless the plugin has closed the link.  What the plugin
\* does there it does to other links, so that it may as well come after handle_fini, as
\* the next of what it does in the callback: see Down and PluginDoes.
HandleError(s, fd) ==
  LET l == s.slot[fd]
  IN HandleFini(IF l.closed THEN s ELSE [s EXCEPT !.seen[l.id] = "down"], fd)

\* Mutant: a link is gone once it is closed, whatever is still to be sent.
ShutAtOnce(s, fd) == HandleFini([s EXCEPT !.seen[s.slot[fd].id] = "shut"], fd)

\* net_close_ser: shut waits for the send list.
Shut(s, fd) ==
  LET told == [s EXCEPT !.seen[s.slot[fd].id] = "shut"]
  IN IF s.slot[fd].list > 0 THEN [told EXCEPT !.slot[fd].closed = TRUE]
     ELSE HandleFini(told, fd)

\* net_send_ser, the outcomes of send_pkg: more in the list; all sent; a part of it; the
\* connection is gone; no buffer.
SendPkg(s, fd) ==
  LET t == [s EXCEPT !.pkgs = @ + 1]
      waiting == s.slot[fd].list
  IN {HandleError(u, fd) : u \in NoMemory(t)} \cup
     IF waiting > 0
     THEN {[t EXCEPT !.slot[fd].list = n] : n \in waiting .. MaxList}
     ELSE IF s.sock[fd] = "failed" THEN {HandleError(t, fd)}
     ELSE (IF s.full[fd] THEN {} ELSE {t}) \cup
          {[t EXCEPT !.slot[fd].list = n, !.slot[fd].events = {"in", "out"},
                     !.full[fd] = TRUE] : n \in 1 .. MaxList}

\* One thing the plugin may do when it is called: send on a link that is up, or close
\* one.  It does not use a link after it has closed it or been told of its end.
Plugin(s) ==
  LET known == {fd \in Fds : s.slot[fd] # NoLink /\ s.seen[s.slot[fd].id] \in {"opened", "up"}}
      up == {fd \in known : s.seen[s.slot[fd].id] = "up"}
  IN {Shut(s, fd) : fd \in known} \cup
     IF s.pkgs < MaxPkgs THEN UNION {SendPkg(s, fd) : fd \in up} ELSE {}

Linker(async, id) ==
  [id |-> id, async |-> async, connected |-> ~async, closed |-> FALSE, list |-> 0,
   events |-> IF async THEN {"out"} ELSE {"in"}]

\* start: the object gets the slot of its descriptor, and one that is connected is
\* shown to the plugin.
Started(s, fd, async, how) ==
  [s EXCEPT !.slot[fd] = Linker(async, Len(s.seen) + 1), !.sock[fd] = how,
            !.seen = Append(@, IF async THEN "opened" ELSE "up")]

\* socket() gives the lowest free descriptor, which must have a slot.
FreeFd(s) == {fd \in Fds : s.slot[fd] = NoLink /\ \A k \in Fds : k < fd => s.slot[k] # NoLink}

\* async_net_connect_ser: connected at once or on the way; what fails leaves nothing.
AsyncConnects(s) ==
  Fails(s) \cup
  UNION {{Started(s, fd, TRUE, how) : how \in {"connecting", "open"}} : fd \in FreeFd(s)}

\* net_connect_ser: connect waits for its outcome.  (link_up_ser comes before it returns;
\* what the plugin does there are the next things it does between two batches.)
SyncConnects(s) == Fails(s) \cup {Started(s, fd, FALSE, "open") : fd \in FreeFd(s)}

-----------------------------------------------------------------------------
(* The reactor. *)

\* Between two batches the plugin has its timer, in which it does any number of these.
TimeEvent ==
  /\ at.pc = "wait"
  /\ w' \in Plugin(w) \cup IF Len(w.seen) < MaxLinks
                           THEN AsyncConnects(w) \cup SyncConnects(w) ELSE {}
  /\ UNCHANGED <<batch, at>>

\* c_tcp_linker::start fails after it has deleted the object, which net_connect_ser
\* deletes again.
StartFails ==
  /\ at.pc = "wait" /\ FreeFd(w) # {} /\ Len(w.seen) < MaxLinks
  /\ w' \in NoMemory(w)
  /\ at' = [at EXCEPT !.pc = "dead"]
  /\ UNCHANGED batch

Ready(fd) ==
  LET events == w.slot[fd].events
      sock == w.sock[fd]
  IN (IF sock = "failed" THEN {"err"} ELSE {}) \cup
     (IF "in" \in events /\ (w.inq[fd] > 0 \/ sock \in {"fin", "failed"}) THEN {"in"} ELSE {}) \cup
     (IF "out" \in events /\ sock # "connecting" /\ ~w.full[fd] THEN {"out"} ELSE {})

EpollWait ==
  /\ at.pc = "wait"
  /\ LET ready == {fd \in Open : Ready(fd) # {}}
     IN /\ ready # {}
        /\ \E order \in SetToSeqs(ready) :
             batch' = [k \in DOMAIN order |-> [fd |-> order[k], e |-> Ready(order[k])]]
  /\ at' = [at EXCEPT !.pc = "event"]
  /\ UNCHANGED w

\* The next event, or the end of the batch.
Return == at' = IF batch' = <<>> THEN Quiet ELSE [Quiet EXCEPT !.pc = "event"]

\* The handler ends with a call of the plugin: link_up_ser or link_down_ser.
Calls == at' = [Quiet EXCEPT !.pc = "told"]

\* The reactor ends a link.
Down(s, fd) ==
  /\ w' = HandleError(s, fd)
  /\ IF s.slot[fd].closed THEN Return ELSE Calls

\* Inside a callback; and the return from one.
PluginDoes ==
  /\ at.pc \in {"pkg", "told"}
  /\ w' \in Plugin(w)
  /\ UNCHANGED <<batch, at>>

CallReturns ==
  /\ at.pc = "told"
  /\ UNCHANGED <<w, batch>>
  /\ Return

\* An event of a slot that is empty by now is skipped; EPOLLERR goes before the others.
HandleEvent ==
  /\ at.pc = "event"
  /\ batch' = Tail(batch)
  /\ LET fd == Head(batch).fd
         e == Head(batch).e
         Next(pc) == at' = [pc |-> pc, fd |-> fd, e |-> e, pkgs |-> 0]
     IN CASE w.slot[fd] = NoLink -> Return /\ UNCHANGED w
          [] w.slot[fd] # NoLink /\ "err" \in e -> Down(w, fd)
          [] w.slot[fd] # NoLink /\ "err" \notin e /\ "in" \in e -> Next("input") /\ UNCHANGED w
          [] OTHER -> Next("output") /\ UNCHANGED w

\* handle_event looks at EPOLLOUT after handle_input, whatever is in the slot then.
InputDone ==
  IF "out" \in at.e THEN at' = [at EXCEPT !.pc = "output"] ELSE Return

\* proc_pkg_ser is called for a package, with which n are left; a package with a length
\* that is none, or no memory for it, ends the link.
NextPkg(s, n) ==
  \/ w' = s /\ at' = [at EXCEPT !.pc = "pkg", !.pkgs = n]
  \/ \E t \in Fails(s) : Down(t, at.fd)

\* handle_input up to the first package: recv fails or meets the end, or what came is
\* for a link the plugin has closed.
HandleInput ==
  /\ at.pc = "input"
  /\ UNCHANGED batch
  /\ LET fd == at.fd
         l == w.slot[fd]
         taken == [w EXCEPT !.inq[fd] = 0]
     IN \/ (~l.connected \/ w.inq[fd] = 0) /\ Down(w, fd)
        \/ l.connected /\ w.inq[fd] > 0 /\ l.closed /\ w' = taken /\ InputDone
        \/ l.connected /\ w.inq[fd] > 0 /\ ~l.closed /\ NextPkg(taken, w.inq[fd])

\* Mutant: the packages that came with one recv are handed on to the last.
ProcPkgSerAll ==
  /\ at.pc = "pkg"
  /\ UNCHANGED batch
  /\ IF at.pkgs = 1 THEN InputDone /\ UNCHANGED w ELSE NextPkg(w, at.pkgs - 1)

\* proc_pkg_ser returns; then whether the link is still there and not closed.
\* (The object may have deleted itself: m_fd in the memory it leaves, -1 or what free
\* puts there, is taken to be the index of no slot.)
ProcPkgSer ==
  /\ at.pc = "pkg"
  /\ UNCHANGED batch
  /\ IF w.slot[at.fd] = NoLink \/ w.slot[at.fd].closed \/ at.pkgs = 1
     THEN InputDone /\ UNCHANGED w
     ELSE NextPkg(w, at.pkgs - 1)

\* handle_output of a link that connects: link_up_ser, and connected from then on.  (If
\* the plugin closes the link there, m_is_connected is set in the memory it leaves, which
\* is taken to be nobody else's.)
LinkUp(fd) ==
  \/ /\ w' = [w EXCEPT !.slot[fd].connected = TRUE, !.slot[fd].events = {"in"},
                       !.seen[w.slot[fd].id] = "up"]
     /\ Calls
  \/ \E s \in NoMemory(w) : Down(s, fd)

\* Some buffers of the list are sent, and the rest waits; the connection is gone.
FlushSome(fd) ==
  \/ /\ \E n \in 1 .. w.slot[fd].list - 1 : w' = [w EXCEPT !.slot[fd].list = n, !.full[fd] = TRUE]
     /\ Return
  \/ w.sock[fd] = "failed" /\ Down(w, fd)

\* Mutant: a link with an empty list waits for EPOLLIN alone, closed or not.
FlushOpen(fd) ==
  \/ w' = [w EXCEPT !.slot[fd].list = 0, !.slot[fd].events = {"in"}] /\ Return
  \/ FlushSome(fd)

\* handle_output of one that is connected: the list goes out whole, after which a
\* closed link ends; in part, at least a buffer of it; or the connection is gone.
Flush(fd) ==
  \/ w.slot[fd].closed /\ Down(w, fd)
  \/ /\ ~w.slot[fd].closed
     /\ w' = [w EXCEPT !.slot[fd].list = 0, !.slot[fd].events = {"in"}]
     /\ Return
  \/ FlushSome(fd)

HandleOutput ==
  /\ at.pc = "output"
  /\ UNCHANGED batch
  /\ IF w.slot[at.fd] = NoLink THEN at' = [at EXCEPT !.pc = "dead"] /\ UNCHANGED w
     ELSE IF w.slot[at.fd].connected THEN Flush(at.fd) ELSE LinkUp(at.fd)

-----------------------------------------------------------------------------
(* The other servers. *)

PeerAnswers(fd) ==
  /\ w.sock[fd] = "connecting"
  /\ w' \in {[w EXCEPT !.sock[fd] = "open"]} \cup {[s EXCEPT !.sock[fd] = "failed"] : s \in Fails(w)}
  /\ UNCHANGED <<batch, at>>

PeerSends(fd) ==
  /\ w.sock[fd] = "open" /\ w.pkgs < MaxPkgs
  /\ w' = [w EXCEPT !.inq[fd] = @ + 1, !.pkgs = @ + 1]
  /\ UNCHANGED <<batch, at>>

PeerReads(fd) ==
  /\ w.full[fd]
  /\ w' = [w EXCEPT !.full[fd] = FALSE]
  /\ UNCHANGED <<batch, at>>

PeerEnds(fd) ==
  /\ w.sock[fd] \in {"open", "fin"}
  /\ \E how \in {"fin", "failed"} : w' \in {[s EXCEPT !.sock[fd] = how] : s \in Fails(w)}
  /\ UNCHANGED <<batch, at>>

Loop == EpollWait \/ HandleEvent \/ HandleInput \/ ProcPkgSer \/ HandleOutput \/ CallReturns

Next ==
  \/ Loop \/ PluginDoes \/ TimeEvent \/ StartFails
  \/ \E fd \in Fds : PeerAnswers(fd) \/ PeerSends(fd) \/ PeerReads(fd) \/ PeerEnds(fd)

\* The loop runs, a connection is answered, and the other side reads in the end.
Fairness ==
  /\ WF_vars(Loop)
  /\ \A fd \in Fds : WF_vars(PeerAnswers(fd)) /\ WF_vars(PeerReads(fd))

Spec == Init /\ [][Next]_vars
FairSpec == Spec /\ Fairness

-----------------------------------------------------------------------------
(* Properties. *)

TypeOK ==
  /\ at.pc \in {"wait", "event", "input", "pkg", "told", "output", "dead"}
  /\ \A fd \in Open : w.slot[fd].id \in Ids /\ w.slot[fd].list \in Nat
  /\ \A fd \in Fds : w.slot[fd] = NoLink <=> w.sock[fd] = "none"

\* handle_event does not look at the slot again between handle_input and
\* handle_output.  It need not: a link that waits for EPOLLOUT has something in its
\* list, and such a link does not go when it is closed, whoever closes it.  Only when
\* there is no memory for a buffer does a call through an empty slot end the process.
NoEmptySlot == TypeOK /\ (at.pc = "dead" => w.nomem)

\* The plugin hears of a link in order, whatever it does in its callbacks: up at most
\* once and not after the end, down at most once, and nothing of a link it has closed,
\* not even the packages that came in the same recv.
CallbacksOrdered ==
  [][/\ \A i \in Ids : <<w.seen[i], w'.seen[i]>> \in
          {<<"opened", "up">>, <<"opened", "down">>, <<"opened", "shut">>,
           <<"up", "down">>, <<"up", "shut">>} \cup {<<x, x>> : x \in {"opened", "up", "down", "shut"}}
     /\ at'.pc = "pkg" /\ at' # at =>
          w'.slot[at'.fd] # NoLink /\ w'.seen[w'.slot[at'.fd].id] = "up"]_vars

Ended ==
  {fd \in Open : w.slot[fd].closed \/ w.sock[fd] \in {"fin", "failed"}}

\* A link that was closed, or whose connection ended, gives its descriptor back: after
\* what it had to send is sent, in the one case, and after link_down in the other.
\* (With a bound on the links this says it of each of them.)
Released == Ended # {} ~> Ended = {} \/ at.pc = "dead"
=============================================================================
