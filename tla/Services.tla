------------------------------ MODULE Services ------------------------------
(***************************************************************************)
(* The connection pool of src/common: a Service (service.cpp) is one host, *)
(* reached by a blocking socket (SyncService over TcpClient) or through    *)
(* the reactor (AsyncService over c_tcp_async_linker); services are the    *)
(* children of a ServiceReplicas and those of a ServiceGroup, a tree in    *)
(* which an element is enabled while one of its children is               *)
(* (strategy.cpp), and a Strategy picks the child a request goes to.       *)
(* A service that lost its host waits in the static reinit_set until a     *)
(* timer of the plugin calls ProcessReInit.                                *)
(*                                                                         *)
(* The process has one thread, so a call runs to its end before the next   *)
(* event; "call" holds the two calls that visit many services, and an      *)
(* action is one visit of theirs or one whole handler.                     *)
(***************************************************************************)
EXTENDS Integers, FiniteSets, SequencesExt

CONSTANTS
    Services,       \* numbers, in the order of the addresses of the objects
    SyncServices,   \* the services whose group is a sync one
    Forbidden,      \* the services whose HostInfo says forbidden
    Replicas,       \* the ServiceReplicas
    Groups,         \* the ServiceGroups
    Children,       \* the children of a replicas or group, in order
    Strategy,       \* the strategy of a replicas or group
    Successor,      \* the group ReloadServiceGroup makes in the place of one
    Fds,            \* the descriptors the process may use
    Seeds,          \* the seeds a request is sent with
    MaxFaults       \* bound on the failures of hosts and connections

None == 0     \* no service, no group
Null == -1    \* the NULL entry fd_service_map[fd] makes for a missing fd

Parents  == Replicas \cup Groups
Elements == Services \cup Parents
AsyncServices == Services \ SyncServices
Parent   == [e \in Elements \ Groups |->
                CHOOSE p \in Parents : e \in Range(Children[p])]

\* CreateStrategy of a group; a replicas only knows the first two.
GroupStrategies == {"FIXED", "ROLL", "INT_REGION", "STRING_REGION"}

\* A region of 100 \div n has an index below n for every seed only if n
\* divides 100.
ASSUME StrategyAssumption ==
    /\ \A r \in Replicas : Strategy[r] \in {"FIXED", "ROLL"}
    /\ \A g \in Groups : Strategy[g] \in GroupStrategies
    /\ \A g \in Groups :
          Strategy[g] = "INT_REGION" => 100 % Len(Children[g]) = 0
    /\ \A g \in DOMAIN Successor : {Strategy[g], Strategy[Successor[g]]} \in
            (SUBSET {"FIXED", "ROLL"}) \cup {{"INT_REGION"}, {"STRING_REGION"}}

ASSUME TreeAssumption ==
    /\ Services \subseteq Nat \ {None} /\ Fds \subseteq Nat /\ Seeds \subseteq Nat
    /\ SyncServices \subseteq Services /\ MaxFaults \in Nat /\ IsFiniteSet(Groups)
    /\ Groups \cap Services = {} /\ None \notin Elements
    /\ Replicas \cap (Services \cup Groups) = {}
    /\ Successor \in [DOMAIN Successor -> Groups] /\ DOMAIN Successor \subseteq Groups
    /\ \A p \in Parents : IsInjective(Children[p])
    /\ \A p \in Parents :
          Children[p] \in Seq(IF p \in Groups THEN Replicas ELSE Services)
    /\ \A e \in Elements \ Groups : \E p \in Parents : \A q \in Parents :
          e \in Range(Children[q]) <=> q = p

VARIABLES
    enable,         \* Element::m_enable
    m_current,      \* RollStrategy::m_current, of which only the remainder counts
    reinit_set,     \* ReInitable::reinit_set
    m_fd,           \* AsyncService::m_fd
    m_connecting,   \* AsyncService::m_connecting
    fd_service_map, \* AsyncService::fd_service_map
    links,          \* the c_tcp_async_linker of a descriptor
    open,           \* TcpClient::m_fd >= 0
    late,           \* an answer nobody waits for can still come on the socket
    missed,         \* choices that passed over an enabled child, since it was
                    \* last chosen or disabled
    faults,         \* the failures so far
    live,           \* the groups that exist
    call            \* the call in progress

pool == <<enable, m_current, reinit_set, m_fd, m_connecting, fd_service_map,
          links, open, late, missed, faults>>
vars == <<pool, live, call>>

\* The state the library's functions work on, as a record.
Now ==
    [enable |-> enable, m_current |-> m_current, reinit_set |-> reinit_set,
     m_fd |-> m_fd, m_connecting |-> m_connecting,
     fd_service_map |-> fd_service_map, links |-> links, open |-> open,
     late |-> late, missed |-> missed, faults |-> faults]

Becomes(st) ==
    /\ enable' = st.enable /\ m_current' = st.m_current
    /\ reinit_set' = st.reinit_set /\ m_fd' = st.m_fd
    /\ m_connecting' = st.m_connecting
    /\ fd_service_map' = st.fd_service_map /\ links' = st.links
    /\ open' = st.open /\ late' = st.late
    /\ missed' = [e \in Elements |-> IF st.enable[e] THEN st.missed[e] ELSE 0]
    /\ faults' = st.faults

\* Where one more failure leads, if it may still happen.
Faulty(st) ==
    IF st.faults < MaxFaults THEN {[st EXCEPT !.faults = @ + 1]} ELSE {}

ServicesOf(g) ==
    FlattenSeq([i \in DOMAIN Children[g] |-> Children[Children[g][i]]])
LiveServices == UNION {Range(ServicesOf(g)) : g \in live}

-----------------------------------------------------------------------------
(* Element: enabling climbs to the first ancestor that was enabled, and     *)
(* disabling to the first one that keeps an enabled child.                  *)
Raised(en, s) ==
    LET r == Parent[s] IN
    IF en[s] THEN en
    ELSE [e \in Elements |-> \/ en[e] \/ e \in {s, r}
                             \/ e = Parent[r] /\ ~en[r]]

LoweredToReplicas(en, s) ==  \* mutant: the walk up stops at the replicas
    LET r == Parent[s] IN
    [en EXCEPT ![s] = FALSE,
               ![r] = @ /\ \E c \in Range(Children[r]) \ {s} : en[c]]
Lowered(en, s) ==
    LET r    == Parent[s]
        g    == Parent[r]
        rOff == \A c \in Range(Children[r]) \ {s} : ~en[c]
        gOff == rOff /\ \A c \in Range(Children[g]) \ {r} : ~en[c]
    IN  IF ~en[s] THEN en
        ELSE [en EXCEPT ![s] = FALSE, ![r] = @ /\ ~rOff, ![g] = @ /\ ~gOff]

Enable(st, s)  == [st EXCEPT !.enable = Raised(@, s)]
Disable(st, s) == [st EXCEPT !.enable = Lowered(@, s)]

SetToReInit(st, s)      == [st EXCEPT !.reinit_set = @ \cup {s}]
CancelFromReInit(st, s) == [st EXCEPT !.reinit_set = @ \ {s}]

-----------------------------------------------------------------------------
(* AsyncService and its link.                                               *)

\* c_tcp_async_linker::shut: what is still to be sent keeps the link.
NetClose(link) ==
    IF link \in {"sending", "draining"} THEN "draining" ELSE "none"

Erase(st, fd) == [st EXCEPT !.fd_service_map[fd] = None]

ShutAsyncNoErase(st, s) ==  \* mutant: the entry of the map stays
    LET fd == st.m_fd[s]
        closed == IF fd = -1 THEN st ELSE [st EXCEPT !.links[fd] = NetClose(@)]
    IN  CancelFromReInit([Disable(closed, s) EXCEPT !.m_connecting[s] = FALSE,
                                                    !.m_fd[s] = -1], s)

ShutAsync(st, s) ==
    LET fd == st.m_fd[s]
        closed == IF fd = -1 THEN st
                  ELSE Erase([st EXCEPT !.links[fd] = NetClose(@)], fd)
    IN  CancelFromReInit([Disable(closed, s) EXCEPT !.m_connecting[s] = FALSE,
                                                    !.m_fd[s] = -1], s)

LinkUp(st, s) ==
    CancelFromReInit(Enable([st EXCEPT !.m_connecting[s] = FALSE], s), s)

LinkDownForgotten(st, s) ==  \* mutant: nobody tries again
    [Disable(IF st.m_fd[s] = -1 THEN st ELSE Erase(st, st.m_fd[s]), s) EXCEPT
        !.m_connecting[s] = FALSE, !.m_fd[s] = -1]

LinkDown(st, s) ==
    SetToReInit([Disable(IF st.m_fd[s] = -1 THEN st ELSE Erase(st, st.m_fd[s]), s)
                    EXCEPT !.m_connecting[s] = FALSE, !.m_fd[s] = -1], s)

\* link_up_ser and link_down_ser of a plugin that uses the library: a lookup by
\* operator[] leaves a NULL entry behind for a descriptor that has none.
SetServiceConnected(st, fd) ==
    LET s == st.fd_service_map[fd] IN
    IF s \in Services THEN LinkUp(st, s) ELSE [st EXCEPT !.fd_service_map[fd] = Null]
SetServiceDisconnected(st, fd) ==
    LET s == st.fd_service_map[fd] IN
    IF s \in Services THEN LinkDown(st, s) ELSE [st EXCEPT !.fd_service_map[fd] = Null]

\* c_tcp_async_linker::handle_error and handle_fini.
HandleError(st, fd) ==
    [(IF st.links[fd] = "draining" THEN st ELSE SetServiceDisconnected(st, fd))
        EXCEPT !.links[fd] = "none"]

RefusedForgotten(st, s) ==  \* mutant: no further attempt is made
    [st EXCEPT !.m_fd[s] = -1, !.m_connecting[s] = FALSE]

\* AsyncService::Init after a connect that failed, and after one in progress.
Refused(st, s) ==
    SetToReInit([st EXCEPT !.m_fd[s] = -1, !.m_connecting[s] = FALSE], s)

Connecting(st, s, fd) ==
    SetToReInit([st EXCEPT !.m_fd[s] = fd, !.m_connecting[s] = TRUE,
                           !.links[fd] = "connecting",
                           !.fd_service_map[fd] = IF @ = None THEN s ELSE @], s)

\* async_net_connect_ser: socket() gives the lowest free descriptor, or none.
Connects(st, s) ==
    LET free == {fd \in Fds : st.links[fd] = "none"} IN
    IF free = {} THEN {Refused(st, s)}
    ELSE {Connecting(st, s, Min(free))} \cup {Refused(f, s) : f \in Faulty(st)}

-----------------------------------------------------------------------------
(* SyncService over TcpClient.                                              *)

\* mutant: the socket stays open
ShutSyncKeepsSocket(st, s) == CancelFromReInit(Disable(st, s), s)

ShutSync(st, s) ==
    CancelFromReInit([Disable(st, s) EXCEPT !.open[s] = FALSE,
                                            !.late[s] = FALSE], s)

Shut(st, s) == IF s \in SyncServices THEN ShutSync(st, s) ELSE ShutAsync(st, s)

Opened(st, s) == [st EXCEPT !.open[s] = TRUE]

\* Send or Recv of TcpClient: a timeout leaves the socket open and the answer
\* on its way, an error closes the socket.
Unfinished(st, s) ==
    {[st EXCEPT !.late[s] = TRUE], [st EXCEPT !.open[s] = FALSE, !.late[s] = FALSE]}

\* SendAndRecv succeeds only if all is sent and all is received.
SendAndRecv(st, s) ==
    {st} \cup {SetToReInit(Shut(u, s), s) :
                  u \in UNION {Unfinished(f, s) : f \in Faulty(st)}}

-----------------------------------------------------------------------------
(* Init and ReInit of a service: the set of states they can leave. A host   *)
(* that does not answer is a fault, and so is a connection that times out.  *)

InitSync(st, s) ==
    {CancelFromReInit(Enable(Opened(st, s), s), s)}
        \cup {SetToReInit(Shut(f, s), s) : f \in Faulty(st)}

InitAsync(st, s) ==
    IF st.m_connecting[s]
    THEN {st} \cup UNION {Connects(shut, s) :
                             shut \in {Shut(f, s) : f \in Faulty(st)}}
    ELSE Connects(st, s)

InitService(st, s) ==
    CASE s \in Forbidden                 -> {Shut(st, s)}
      [] s \in SyncServices \ Forbidden  -> InitSync(st, s)
      [] s \in AsyncServices \ Forbidden -> InitAsync(st, s)

\* What ReInit does before it calls Init.
ReInit(st, s) ==
    IF s \in AsyncServices /\ st.m_connecting[s] THEN Disable(st, s)
    ELSE Shut(Disable(st, s), s)

-----------------------------------------------------------------------------
(* Strategies. FirstEnabled is the first enabled child from a place on.     *)
FirstEnabled(st, kids, from) ==
    LET n  == Len(kids)
        on == {k \in 0 .. n - 1 : st.enable[kids[((from + k) % n) + 1]]}
    IN  IF on = {} THEN None ELSE kids[((from + Min(on)) % n) + 1]

Region(st, kids, i) == IF st.enable[kids[i + 1]] THEN kids[i + 1] ELSE None

\* What the strategy of p chooses; the sum a string hashes to is the seed.
Chosen(st, p, seed) ==
    LET kids == Children[p]
        n    == Len(kids)
    IN  CASE n = 0 -> None
          [] n > 0 /\ Strategy[p] = "FIXED" -> FirstEnabled(st, kids, 0)
          [] n > 0 /\ Strategy[p] = "ROLL"  -> FirstEnabled(st, kids, st.m_current[p])
          [] n > 0 /\ Strategy[p] = "INT_REGION" ->
                Region(st, kids, (seed % 100) \div (100 \div n))
          [] n > 0 /\ Strategy[p] = "STRING_REGION" -> Region(st, kids, seed % n)

\* p passed over those of its enabled children that are not c.
Passed(st, p, c) ==
    LET others == {e \in Range(Children[p]) \ {c} : st.enable[e]} IN
    [st EXCEPT !.missed = [e \in Elements |->
        IF e = c THEN 0 ELSE IF e \in others THEN @[e] + 1 ELSE @[e]]]

\* The state after p has chosen its child c.
ChooseSticks(st, p, c) ==  \* mutant: the counter stays where it is
    IF c = None \/ Strategy[p] # "ROLL" THEN st ELSE Passed(st, p, c)
Choose(st, p, c) ==
    IF c = None \/ Strategy[p] # "ROLL" THEN st
    ELSE [Passed(st, p, c) EXCEPT !.m_current[p] = (@ + 1) % Len(Children[p])]

Pick(st, p, seed) ==
    LET c == Chosen(st, p, seed) IN [to |-> c, st |-> Choose(st, p, c)]

\* The group picks a replicas and that one a service.
Route(st, g, seed) ==
    LET r == Pick(st, g, seed) IN
    IF r.to = None THEN r ELSE Pick(r.st, r.to, seed)

\* c_tcp_async_linker::send_pkg: what cannot be sent at once is kept, and an
\* error ends the link.
SendPkg(st, fd) ==
    {st, [st EXCEPT !.links[fd] = IF @ = "up" THEN "sending" ELSE @]}
        \cup {HandleError(f, fd) : f \in Faulty(st)}

\* AsyncService::Send: net_send_ser answers len even if the link has ended.
Send(st, s) ==
    LET fd == st.m_fd[s] IN
    IF fd \in Fds /\ st.links[fd] # "none" THEN SendPkg(st, fd)
    ELSE {SetToReInit(Shut(st, s), s)}

-----------------------------------------------------------------------------
Idle             == [kind |-> "none"]
Creating(ss, g)  == [kind |-> "create", todo |-> ss, old |-> g]
Walking(s, lost) == [kind |-> "reinit", at |-> s, lost |-> lost]

InitialGroups == Groups \ {Successor[g] : g \in DOMAIN Successor}

Init ==
    /\ enable = [e \in Elements |-> FALSE]
    /\ m_current = [p \in Parents |-> 0]
    /\ reinit_set = {}
    /\ m_fd = [s \in AsyncServices |-> -1]
    /\ m_connecting = [s \in AsyncServices |-> FALSE]
    /\ fd_service_map = [fd \in Fds |-> None]
    /\ links = [fd \in Fds |-> "none"]
    /\ open = [s \in SyncServices |-> FALSE]
    /\ late = [s \in SyncServices |-> FALSE]
    /\ missed = [e \in Elements |-> 0]
    /\ faults = 0
    /\ live = InitialGroups
    /\ call = Creating(FlattenSeq([i \in 1 .. Cardinality(InitialGroups) |->
                            ServicesOf(SetToSeq(InitialGroups)[i])]), None)

\* _Init of a group and Init of its replicas: each service in turn. One that
\* cannot connect is no failure.
CreateService ==
    /\ call.kind = "create" /\ call.todo # <<>>
    /\ \E st \in InitService(Now, Head(call.todo)) : Becomes(st)
    /\ call' = [call EXCEPT !.todo = Tail(@)]
    /\ UNCHANGED live

\* ReloadServiceGroup: the new group is complete before the old one is deleted.
DeleteOld ==
    /\ call.kind = "create" /\ call.todo = <<>>
    /\ \E st \in {FoldLeft(Shut, Now,
                        IF call.old = None THEN <<>> ELSE ServicesOf(call.old))} :
          Becomes(st)
    /\ live' = live \ {call.old}
    /\ call' = Idle

ReloadServiceGroup(g) ==
    /\ call = Idle /\ g \in live /\ Successor[g] \notin live
    /\ live' = live \cup {Successor[g]}
    /\ call' = Creating(ServicesOf(Successor[g]), g)
    /\ UNCHANGED pool

\* ProcessReInit, called by a timer of the plugin.
ProcessReInit ==
    /\ call = Idle /\ reinit_set # {}
    /\ call' = Walking(None, FALSE)
    /\ UNCHANGED <<pool, live>>

\* The iterator is left on an erased node when ReInit took the service out of
\* the set, and the increment then finds any node after it or the end.
Unvisited == {s \in reinit_set : s > call.at}

Visit ==
    /\ call.kind = "reinit"
    /\ \E s \in Unvisited :
          /\ call.lost \/ s = Min(Unvisited)
          /\ \E ready \in {ReInit(Now, s)} : \E st \in InitService(ready, s) :
                /\ Becomes(st)
                /\ call' = Walking(s, st # Now \/ s \in SyncServices \/ ~m_connecting[s])
    /\ UNCHANGED live

WalkEnds ==
    /\ call.kind = "reinit"
    /\ Unvisited = {} \/ call.lost
    /\ call' = Idle
    /\ UNCHANGED <<pool, live>>

\* c_tcp_async_linker::handle_output while not connected.
Connected(fd) ==
    /\ call = Idle /\ links[fd] = "connecting"
    /\ \E st \in {SetServiceConnected(Now, fd)} :
          Becomes([st EXCEPT !.links[fd] = "up"])
    /\ UNCHANGED <<live, call>>

\* handle_output once all is sent.
Sent(fd) ==
    /\ call = Idle /\ links[fd] \in {"sending", "draining"}
    /\ \E st \in {IF links[fd] = "draining" THEN HandleError(Now, fd)
                  ELSE [Now EXCEPT !.links[fd] = "up"]} : Becomes(st)
    /\ UNCHANGED <<live, call>>

\* The host closes, or does not accept: handle_error.
Lost(fd) ==
    /\ call = Idle /\ links[fd] # "none"
    /\ \E st \in {HandleError(f, fd) : f \in Faulty(Now)} : Becomes(st)
    /\ UNCHANGED <<live, call>>

\* Send, SendByInt and SendByString.
SendRequest(g, seed) ==
    /\ call = Idle /\ g \in live
    /\ \E r \in {Route(Now, g, seed)} :
          /\ r.to \notin SyncServices
          /\ \E st \in IF r.to = None THEN {r.st} ELSE Send(r.st, r.to) : Becomes(st)
    /\ UNCHANGED <<live, call>>

\* SendAndRecvByNothing, SendAndRecvByInt and SendAndRecvByString.
Exchange(g, seed) ==
    /\ call = Idle /\ g \in live
    /\ \E r \in {Route(Now, g, seed)} :
          /\ r.to \in SyncServices
          /\ \E st \in SendAndRecv(r.st, r.to) : Becomes(st)
    /\ UNCHANGED <<live, call>>

Next ==
    \/ CreateService
    \/ DeleteOld
    \/ \E g \in DOMAIN Successor : ReloadServiceGroup(g)
    \/ ProcessReInit
    \/ Visit
    \/ WalkEnds
    \/ \E fd \in Fds : Connected(fd) \/ Sent(fd) \/ Lost(fd)
    \/ \E g \in Groups, seed \in Seeds :
          SendRequest(g, seed) \/ Exchange(g, seed)

Spec == Init /\ [][Next]_vars

\* Calls end, the timer fires again and again, and one turn of the event loop
\* serves every descriptor that is ready. Hosts accept and read: that they do
\* not is a fault.
FairSpec ==
    /\ Spec
    /\ WF_vars(CreateService) /\ WF_vars(DeleteOld)
    /\ WF_vars(ProcessReInit) /\ WF_vars(Visit \/ WalkEnds)
    /\ \A fd \in Fds : SF_vars(Connected(fd)) /\ SF_vars(Sent(fd))

-----------------------------------------------------------------------------
(* Properties.                                                              *)

Pending == IF call.kind = "create" THEN Range(call.todo) ELSE {}
Wanted  == LiveServices \ Forbidden

\* Every variable keeps to its range.
TypeOK ==
    /\ enable \in [Elements -> BOOLEAN]
    /\ \A p \in Parents : m_current[p] \in 0 .. Len(Children[p])
    /\ reinit_set \subseteq Services
    /\ m_fd \in [AsyncServices -> Fds \cup {-1}]
    /\ m_connecting \in [AsyncServices -> BOOLEAN]
    /\ fd_service_map \in [Fds -> AsyncServices \cup {None}]
    /\ links \in [Fds -> {"none", "connecting", "up", "sending", "draining"}]
    /\ open \in [SyncServices -> BOOLEAN] /\ late \in [SyncServices -> BOOLEAN]
    /\ missed \in [Elements -> Nat]
    /\ faults \in 0 .. MaxFaults
    /\ live \subseteq Groups

\* strategy.h: an element is enabled exactly while one of its children is. A
\* request finds a service whenever one is connected, and finds none that is
\* not.
EnabledByChild ==
    \A p \in Parents : enable[p] <=> \E c \in Range(Children[p]) : enable[c]

\* A service that is enabled has a connection, one that is not and should be
\* waits for the timer, and no other does: nobody is forgotten, and nothing
\* that was deleted is called by the timer.  (And every variable keeps to its range.)
EnabledOrRetried ==
    /\ TypeOK
    /\ reinit_set = {s \in Wanted \ Pending : ~enable[s]}
    /\ \A s \in AsyncServices :
          enable[s] <=> m_fd[s] # -1 /\ ~m_connecting[s]
    /\ \A s \in SyncServices : enable[s] <=> open[s]

\* A link belongs to one service of a group that exists, which knows its
\* descriptor and is found by it, unless it only sends what is left: no link
\* is leaked, and no event of a descriptor used again reaches the service that
\* had it before.
LinksOwned ==
    /\ \A fd \in Fds :
          LET s == fd_service_map[fd] IN
          IF links[fd] \in {"connecting", "up", "sending"}
          THEN /\ s \in LiveServices
               /\ m_fd[s] = fd
               /\ m_connecting[s] <=> links[fd] = "connecting"
          ELSE s = None
    /\ \A s \in AsyncServices : m_fd[s] # -1 => fd_service_map[m_fd[s]] = s

\* Round robin: no child that stays enabled is passed over more often than the
\* others are there, whatever becomes enabled or disabled meanwhile.
RollFair ==
    \A p \in Parents : Strategy[p] = "ROLL" =>
        \A c \in Range(Children[p]) : missed[c] < Len(Children[p])

\* The answer to a request given up after a timeout is never taken for that of
\* a later one.
NoLateAnswer == \A s \in SyncServices : enable[s] => ~late[s]

\* Once the faults are over every service that is not forbidden is connected
\* again and stays so.
AllBack == <>[](\A s \in Wanted : enable[s])
=============================================================================
