----------------------------- MODULE FeedStore -----------------------------
(***************************************************************************)
(* What the Proxy workers keep in Redis: whom a user attends to, in which  *)
(* group, and who attends to a user (Proxy::ProcPkgCli, BufProcessor).     *)
(*                                                                         *)
(* Every worker has a connection of its own.  Redis executes one command   *)
(* at a time and the commands of one connection in order, but a request is *)
(* several commands, and those of other workers come in between.  When the *)
(* answer to one of them is late or the connection breaks the request ends *)
(* with an error, whether or not Redis gets and executes the others later. *)
(***************************************************************************)
EXTENDS Integers, Sequences, FiniteSets

CONSTANTS Users, Groups,
          Times,     \* times of a user's latest article
          Workers,   \* the Proxy processes
          Scripts,   \* what the clients may send: sequences of requests
          NoGroup,   \* no such hash; or no group has the name read
          NoUser,    \* a number that is no user's
          Idle,      \* the worker has no request
          MaxFaults  \* bound: commands refused, answers lost

Pair(op) == [op : {op}, u : Users, m : Users]
RequestType ==
  [op : {"add"}, u : Users, m : Users, g : Groups]
    \cup Pair("drop") \cup Pair("relation")
    \cup [op : {"addgroup", "dropgroup", "bygroup"}, u : Users, g : Groups]
    \cup [op : {"update"}, u : Users, t : Times]
    \cup [op : {"groups", "list", "fans"}, u : Users]
    \cup [op : {"latest"}, begin : Times, end : Times]

ASSUME FeedStoreAssumption ==
  /\ Scripts \subseteq Seq(RequestType)
  /\ MaxFaults \in Nat
  /\ NoGroup \notin Groups
  /\ NoUser \notin Users
  /\ Users \cap Groups = {} \* users are numbers, groups have names

VARIABLES
  flist,   \* Redis: the users u attends to in group g
  glist,   \* Redis: the group in which u attends to m
  list,    \* Redis: the users u attends to
  fans,    \* Redis: the users who attend to u
  ginfo,   \* Redis: the groups of u
  active,  \* Redis: the time of u's latest article, 0 when there is none
  reqs,    \* the requests, each with what has become of it
  doing,   \* each worker: the request it is working on
  err,     \* each worker: m_ctx->err
  disturbed, \* history: keys on which two requests met
  faults

store == <<flist, glist, list, fans, ginfo, active>>
vars == <<store, reqs, doing, err, disturbed, faults>>

Init ==
  /\ flist = [u \in Users |-> [g \in Groups |-> {}]]
  /\ glist = [u \in Users |-> [m \in Users |-> NoGroup]]
  /\ list = [u \in Users |-> {}]
  /\ fans = [u \in Users |-> {}]
  /\ ginfo = [u \in Users |-> {}]
  /\ active = [u \in Users |-> 0]
  /\ reqs = <<>>
  /\ doing = [w \in Workers |-> Idle]
  /\ err = [w \in Workers |-> FALSE]
  /\ disturbed = {}
  /\ faults = 0

-----------------------------------------------------------------------------
(* Requests. *)

\* The Redis commands a request consists of.
Commands(op) == CASE op = "add" -> 4 [] op = "drop" -> 5 [] op = "relation" -> 2 [] OTHER -> 1

\* What two requests can meet on.
Keys(r) ==
  CASE r.op \in {"add", "drop"} -> {<<r.u, r.m>>}
    [] r.op = "relation" -> {<<r.u, r.m>>, <<r.m, r.u>>}
    [] r.op \in {"addgroup", "dropgroup"} -> {<<r.u, r.g>>}
    [] r.op = "fans" -> Users \X {r.u}
    [] r.op \in {"list", "bygroup"} -> {r.u} \X Users
    [] r.op = "groups" -> {r.u} \X Groups
    [] r.op = "update" -> {<<r.u>>}
    [] r.op = "latest" -> {<<u>> : u \in Users}

\* Redis has commands of request i still to execute.
Pending(i) == ~reqs[i].lost /\ reqs[i].next <= Commands(reqs[i].what.op)

Meeting(r) ==
  {k \in Keys(r) : \E i \in 1 .. Len(reqs) :
     (Pending(i) \/ reqs[i].status = "waiting") /\ k \in Keys(reqs[i].what)}

\* The clients may send r next.
CanFollow(r) ==
  \E s \in Scripts :
    /\ Len(reqs) < Len(s)
    /\ \A i \in 1 .. Len(reqs) : reqs[i].what = s[i]
    /\ r = s[Len(reqs) + 1]

Requests == UNION {{s[i] : i \in 1 .. Len(s)} : s \in Scripts}

\* ProcPkgCli.  A connection with an error refuses every command at once.
ProcPkgCli(w, r) ==
  /\ doing[w] = Idle
  /\ CanFollow(r)
  /\ reqs' = Append(reqs, [what |-> r, next |-> 1, gname |-> NoGroup, extra |-> FALSE,
                           refused |-> {}, answer |-> {}, lost |-> err[w],
                           status |-> IF err[w] THEN "error" ELSE "waiting"])
  /\ IF err[w] THEN UNCHANGED doing ELSE doing' = [doing EXCEPT ![w] = Len(reqs) + 1]
  /\ disturbed' = disturbed \cup Meeting(r)
  /\ UNCHANGED <<store, err, faults>>

\* Redis executes command k of request i, a request for op.
At(i, op, k) == Pending(i) /\ reqs[i].what.op = op /\ reqs[i].next = k
Executed(i) == reqs' = [reqs EXCEPT ![i].next = @ + 1]
ExecutedRead(i, answer) == reqs' = [reqs EXCEPT ![i].next = @ + 1, ![i].answer = answer]

\* AddAttention, in the order of the pipeline.
AddAttention1(i) ==
  LET r == reqs[i].what
  IN /\ At(i, "add", 1)
     /\ Executed(i)
     /\ flist' = [flist EXCEPT ![r.u][r.g] = @ \cup {r.m}]
     /\ UNCHANGED <<glist, list, fans, ginfo, active, doing, err, disturbed, faults>>

AddAttention2(i) ==
  LET r == reqs[i].what
  IN /\ At(i, "add", 2)
     /\ Executed(i)
     /\ glist' = [glist EXCEPT ![r.u][r.m] = r.g]
     /\ UNCHANGED <<flist, list, fans, ginfo, active, doing, err, disturbed, faults>>

AddAttention3(i) ==
  LET r == reqs[i].what
  IN /\ At(i, "add", 3)
     /\ Executed(i)
     /\ list' = [list EXCEPT ![r.u] = @ \cup {r.m}]
     /\ UNCHANGED <<flist, glist, fans, ginfo, active, doing, err, disturbed, faults>>

AddAttention4(i) ==
  LET r == reqs[i].what
  IN /\ At(i, "add", 4)
     /\ Executed(i)
     /\ fans' = [fans EXCEPT ![r.m] = @ \cup {r.u}]
     /\ UNCHANGED <<flist, glist, list, ginfo, active, doing, err, disturbed, faults>>

\* DropAttention.  Without a group gname is never written: it may have any
\* name in it, also the one of an earlier request.
Unread == Groups \cup {NoGroup}

DropAttention1(i) ==
  LET r == reqs[i].what
  IN /\ At(i, "drop", 1)
     /\ \E g \in IF glist[r.u][r.m] = NoGroup THEN Unread ELSE {glist[r.u][r.m]} :
          reqs' = [reqs EXCEPT ![i].next = 2, ![i].gname = g]
     /\ UNCHANGED <<store, doing, err, disturbed, faults>>

DropAttention2(i) ==
  LET r == reqs[i].what
  IN /\ At(i, "drop", 2)
     /\ Executed(i)
     /\ flist' = [flist EXCEPT ![r.u] =
                    [g \in Groups |-> IF g = reqs[i].gname THEN @[g] \ {r.m} ELSE @[g]]]
     /\ UNCHANGED <<glist, list, fans, ginfo, active, doing, err, disturbed, faults>>

DropAttention3(i) ==
  LET r == reqs[i].what
  IN /\ At(i, "drop", 3)
     /\ Executed(i)
     /\ glist' = [glist EXCEPT ![r.u][r.m] = NoGroup]
     /\ UNCHANGED <<flist, list, fans, ginfo, active, doing, err, disturbed, faults>>

\* The format of the last two commands asks for one number more than there
\* are arguments: x is whatever stands in its place.  A ZREM that removes two
\* members answers 2, which CheckZSETReply takes for an error.
DropAttention4(i, x) ==
  LET r == reqs[i].what
  IN /\ At(i, "drop", 4)
     /\ list' = [list EXCEPT ![r.u] = @ \ {r.m, x}]
     /\ reqs' = [reqs EXCEPT ![i].next = 5,
                   ![i].extra = @ \/ Cardinality({r.m, x} \cap list[r.u]) = 2]
     /\ disturbed' = disturbed \cup ({<<r.u, y>> : y \in {x} \ {r.m, NoUser}})
     /\ UNCHANGED <<flist, glist, fans, ginfo, active, doing, err, faults>>

DropAttention5(i, x) ==
  LET r == reqs[i].what
  IN /\ At(i, "drop", 5)
     /\ fans' = [fans EXCEPT ![r.m] = @ \ {r.u, x}]
     /\ reqs' = [reqs EXCEPT ![i].next = 6,
                   ![i].extra = @ \/ Cardinality({r.u, x} \cap fans[r.m]) = 2]
     /\ disturbed' = disturbed \cup ({<<y, r.m>> : y \in {x} \ {r.u, NoUser}})
     /\ UNCHANGED <<flist, glist, list, ginfo, active, doing, err, faults>>

AddGroup(i) ==
  LET r == reqs[i].what
  IN /\ At(i, "addgroup", 1)
     /\ Executed(i)
     /\ ginfo' = [ginfo EXCEPT ![r.u] = @ \cup {r.g}]
     /\ UNCHANGED <<flist, glist, list, fans, active, doing, err, disturbed, faults>>

\* The users in the group stay where they are.
DropGroup(i) ==
  LET r == reqs[i].what
  IN /\ At(i, "dropgroup", 1)
     /\ Executed(i)
     /\ ginfo' = [ginfo EXCEPT ![r.u] = @ \ {r.g}]
     /\ UNCHANGED <<flist, glist, list, fans, active, doing, err, disturbed, faults>>

UpdateFeedMimiID(i) ==
  LET r == reqs[i].what
  IN /\ At(i, "update", 1)
     /\ Executed(i)
     /\ active' = [active EXCEPT ![r.u] = r.t]
     /\ UNCHANGED <<flist, glist, list, fans, ginfo, doing, err, disturbed, faults>>

\* QueryRelation: 1 for "u attends to m", 2 for "m attends to u".
QueryRelation1(i) ==
  LET r == reqs[i].what
  IN /\ At(i, "relation", 1)
     /\ ExecutedRead(i, IF r.m \in list[r.u] THEN {1} ELSE {})
     /\ UNCHANGED <<store, doing, err, disturbed, faults>>

\* mutant: looks for u among those who attend to m
QueryRelation2Swapped(i) ==
  LET r == reqs[i].what
  IN /\ At(i, "relation", 2)
     /\ ExecutedRead(i, reqs[i].answer \cup (IF r.u \in fans[r.m] THEN {2} ELSE {}))
     /\ UNCHANGED <<store, doing, err, disturbed, faults>>

QueryRelation2(i) ==
  LET r == reqs[i].what
  IN /\ At(i, "relation", 2)
     /\ ExecutedRead(i, reqs[i].answer \cup (IF r.m \in fans[r.u] THEN {2} ELSE {}))
     /\ UNCHANGED <<store, doing, err, disturbed, faults>>

\* The other queries are one command each.
Query(i, op, answer) ==
  /\ At(i, op, 1)
  /\ ExecutedRead(i, answer)
  /\ UNCHANGED <<store, doing, err, disturbed, faults>>

QueryGroup(i) == Query(i, "groups", ginfo[reqs[i].what.u])
QueryList(i) == Query(i, "list", list[reqs[i].what.u])
QueryListByGroup(i) == Query(i, "bygroup", flist[reqs[i].what.u][reqs[i].what.g])
QueryFansList(i) == Query(i, "fans", fans[reqs[i].what.u])
QueryFeedMimiID(i) ==
  LET r == reqs[i].what
  IN Query(i, "latest", {u \in Users : active[u] # 0 /\ active[u] \in r.begin .. r.end})

\* Redis answers a command with an error.  After the HGET of a drop the worker goes on
\* as if there were no group.
Refuse(i) ==
  /\ Pending(i)
  /\ faults < MaxFaults
  /\ faults' = faults + 1
  /\ \E g \in IF At(i, "drop", 1) THEN Unread ELSE {reqs[i].gname} :
       reqs' = [reqs EXCEPT ![i].next = @ + 1, ![i].refused = @ \cup {reqs[i].next},
                            ![i].gname = g]
  /\ UNCHANGED <<store, doing, err, disturbed>>

\* mutant: HDEL before the ZREM of the group
ExecuteHdelFirst(i) ==
  LET r == reqs[i].what
  IN \/ AddAttention1(i) \/ AddAttention2(i) \/ AddAttention3(i) \/ AddAttention4(i)
     \/ DropAttention1(i)
     \/ /\ At(i, "drop", 2)
        /\ Executed(i)
        /\ glist' = [glist EXCEPT ![r.u][r.m] = NoGroup]
        /\ UNCHANGED <<flist, list, fans, ginfo, active, doing, err, disturbed, faults>>
     \/ /\ At(i, "drop", 3)
        /\ Executed(i)
        /\ flist' = [flist EXCEPT ![r.u] =
                       [g \in Groups |-> IF g = reqs[i].gname THEN @[g] \ {r.m} ELSE @[g]]]
        /\ UNCHANGED <<glist, list, fans, ginfo, active, doing, err, disturbed, faults>>
     \/ \E x \in Users \cup {NoUser} : DropAttention4(i, x) \/ DropAttention5(i, x)

Execute(i) ==
  \/ AddAttention1(i) \/ AddAttention2(i) \/ AddAttention3(i) \/ AddAttention4(i)
  \/ DropAttention1(i) \/ DropAttention2(i) \/ DropAttention3(i)
  \/ \E x \in Users \cup {NoUser} : DropAttention4(i, x) \/ DropAttention5(i, x)
  \/ AddGroup(i) \/ DropGroup(i) \/ UpdateFeedMimiID(i)
  \/ QueryRelation1(i) \/ QueryRelation2(i)
  \/ QueryGroup(i) \/ QueryList(i) \/ QueryListByGroup(i) \/ QueryFansList(i)
  \/ QueryFeedMimiID(i)

\* The commands whose answers the worker looks at.
CheckedFewer(op) ==  \* mutant: the answers of the last two commands of a drop are not read
  CASE op = "add" -> 1 .. 4 [] op = "drop" -> 2 .. 3 [] op = "latest" -> {1} [] OTHER -> {}

Checked(op) ==
  CASE op = "add" -> 1 .. 4 [] op = "drop" -> 2 .. 5 [] op = "latest" -> {1} [] OTHER -> {}

\* The worker has read all answers and answers the client.
Answer(w) ==
  LET i == doing[w]
      r == reqs[i]
  IN /\ doing[w] # Idle
     /\ r.next > Commands(r.what.op)
     /\ reqs' = [reqs EXCEPT ![i].status =
                   IF r.extra \/ r.refused \cap Checked(r.what.op) # {} THEN "error" ELSE "ok"]
     /\ doing' = [doing EXCEPT ![w] = Idle]
     /\ UNCHANGED <<store, err, disturbed, faults>>

\* The connection breaks or an answer takes too long.  Commands that were sent
\* are executed later or never.  HGET is sent alone, before the others.
Broken(w, status) ==
  /\ doing[w] # Idle
  /\ faults < MaxFaults
  /\ faults' = faults + 1
  /\ \E lost \in IF reqs[doing[w]].what.op = "drop" /\ reqs[doing[w]].next = 1
               THEN {TRUE} ELSE BOOLEAN :
       reqs' = [reqs EXCEPT ![doing[w]].status = status, ![doing[w]].lost = lost]
  /\ doing' = [doing EXCEPT ![w] = Idle]
  /\ UNCHANGED <<store, disturbed>>

AnswerLost(w) == Broken(w, "error") /\ err' = [err EXCEPT ![w] = TRUE]
WorkerKilled(w) == Broken(w, "none") /\ UNCHANGED err

\* The worker connects again, at the next second.
TimeEvent(w) ==
  /\ doing[w] = Idle
  /\ err[w]
  /\ err' = [err EXCEPT ![w] = FALSE]
  /\ UNCHANGED <<store, reqs, doing, disturbed, faults>>

Next ==
  \/ \E w \in Workers, r \in Requests : ProcPkgCli(w, r)
  \/ \E i \in 1 .. Len(reqs) : Execute(i) \/ Refuse(i)
  \/ \E w \in Workers : Answer(w) \/ AnswerLost(w) \/ WorkerKilled(w) \/ TimeEvent(w)

Spec == Init /\ [][Next]_vars

-----------------------------------------------------------------------------
(***************************************************************************)
(* Properties.                                                             *)
(***************************************************************************)
Tracked ==
  [what : RequestType, next : 1 .. 6, gname : Groups \cup {NoGroup}, extra : BOOLEAN,
   refused : SUBSET (1 .. 5), answer : SUBSET (Users \cup Groups \cup {1, 2}),
   lost : BOOLEAN, status : {"waiting", "ok", "error", "none"}]

\* Every variable keeps to its range, and a worker works on a request that has
\* no answer yet, no two on the same one.
TypeOK ==
  /\ flist \in [Users -> [Groups -> SUBSET Users]]
  /\ glist \in [Users -> [Users -> Groups \cup {NoGroup}]]
  /\ list \in [Users -> SUBSET Users]
  /\ fans \in [Users -> SUBSET Users]
  /\ ginfo \in [Users -> SUBSET Groups]
  /\ active \in [Users -> Times \cup {0}]
  /\ \A i \in 1 .. Len(reqs) : reqs[i] \in Tracked
  /\ doing \in [Workers -> (1 .. Len(reqs)) \cup {Idle}]
  /\ \A w, v \in Workers : doing[w] # Idle =>
       /\ reqs[doing[w]].status = "waiting"
       /\ doing[w] = doing[v] => w = v
  /\ err \in [Workers -> BOOLEAN]
  /\ faults \in 0 .. MaxFaults

Op(i) == reqs[i].what.op
Writes == {"add", "drop", "addgroup", "dropgroup", "update"}

\* Request i was answered with success, and since then nobody has asked for a
\* change of what it is about; no other request met it, or one before it.
Stands(i) ==
  /\ reqs[i].status = "ok"
  /\ Keys(reqs[i].what) \cap disturbed = {}
  /\ \A j \in i + 1 .. Len(reqs) :
       Op(j) \in Writes => Keys(reqs[j].what) \cap Keys(reqs[i].what) = {}

\* An attention answered with success is in all four places, and one given up
\* with success in none of the three that do not depend on the group, whatever
\* requests failed halfway before: asking again repairs them.  (And every variable keeps
\* to its range.)
OkStands ==
  TypeOK /\ \A i \in 1 .. Len(reqs) : Stands(i) =>
    LET r == reqs[i].what
    IN /\ Op(i) = "add" =>
            r.m \in flist[r.u][r.g] /\ glist[r.u][r.m] = r.g /\ r.m \in list[r.u] /\ r.u \in fans[r.m]
       /\ Op(i) = "drop" =>
            glist[r.u][r.m] = NoGroup /\ r.m \notin list[r.u] /\ r.u \notin fans[r.m]

\* Every attention to m by u was answered with success and is for one group.
OneGroup(u, m) ==
  \E g \in Groups : \A i \in 1 .. Len(reqs) :
    Op(i) = "add" /\ reqs[i].what.u = u /\ reqs[i].what.m = m
      => reqs[i].what.g = g /\ reqs[i].status = "ok"

GroupRefused(u, m) ==
  \E i \in 1 .. Len(reqs) :
    /\ Op(i) = "drop" /\ reqs[i].what.u = u /\ reqs[i].what.m = m
    /\ reqs[i].refused \cap {1, 2} # {}

\* An attention given up with success is in no group any more, also when
\* giving it up has failed halfway before: the group is forgotten after the
\* user is taken out of it (unless Redis refused one of these two commands
\* and executed the later ones).
LeavesGroup ==
  \A i \in 1 .. Len(reqs) :
    LET r == reqs[i].what
    IN Stands(i) /\ Op(i) = "drop" /\ OneGroup(r.u, r.m) /\ ~GroupRefused(r.u, r.m)
         => \A g \in Groups : r.m \notin flist[r.u][g]

\* What is asked of the last request on a key for its answer to be believed.
LastWriteOk(key, i) ==
  \A j \in 1 .. i :
    /\ Op(j) \in Writes
    /\ key \in Keys(reqs[j].what)
    /\ \A k \in j + 1 .. i : Op(k) \in Writes => key \notin Keys(reqs[k].what)
    => reqs[j].status = "ok"

\* The two halves of a relation come from different sets, the one u keeps and
\* the one m's requests have kept for u: they tell who attends to whom all the
\* same.
RelationTells ==
  \A i \in 1 .. Len(reqs) :
    LET r == reqs[i].what
    IN /\ Op(i) = "relation" /\ Stands(i) /\ reqs[i].refused = {}
       /\ LastWriteOk(<<r.u, r.m>>, i) /\ LastWriteOk(<<r.m, r.u>>, i)
       => /\ 1 \in reqs[i].answer <=> r.m \in list[r.u]
          /\ 2 \in reqs[i].answer <=> r.u \in list[r.m]

Quiet == \A i \in 1 .. Len(reqs) : ~Pending(i) /\ reqs[i].status = "ok" /\ reqs[i].refused = {}

\* Whoever is in a group of u is attended to by u.
GroupsHoldAttended ==
  Quiet /\ disturbed = {} =>
    \A u, m \in Users, g \in Groups : m \in flist[u][g] => m \in list[u]
=============================================================================
