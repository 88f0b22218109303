-------------------------- MODULE FeedStoreProofs --------------------------
(***************************************************************************)
(* What a success of the Proxy means, for any number of users, groups,     *)
(* workers, requests and faults: an attention taken up or given up with    *)
(* success stands, one given up is in no group, and a relation tells who   *)
(* attends to whom, while no two requests meet on the pair of users.       *)
(***************************************************************************)
EXTENDS FeedStore, SequenceTheorems, TLAPS

Ops ==
  {"add", "drop", "relation", "addgroup", "dropgroup", "bygroup", "update", "groups", "list",
   "fans", "latest"}

LEMMA Fields ==
  ASSUME NEW r \in RequestType
  PROVE  /\ r.op \in Ops
         /\ r.op \in {"add", "drop", "relation"} => r.u \in Users /\ r.m \in Users
         /\ r.op \in {"add", "addgroup", "dropgroup", "bygroup"} => r.u \in Users /\ r.g \in Groups
         /\ r.op = "update" => r.u \in Users /\ r.t \in Times
         /\ r.op \in {"groups", "list", "fans"} => r.u \in Users
BY DEF RequestType, Pair, Ops

LEMMA CommandsOf ==
  ASSUME NEW r \in RequestType
  PROVE  Commands(r.op) \in 1 .. 5
BY Fields DEF Commands, Ops

LEMMA RequestsType == Requests \subseteq RequestType
<1>1. ASSUME NEW s \in Scripts, NEW i \in 1 .. Len(s) PROVE s[i] \in RequestType
  BY FeedStoreAssumption, ElementOfSeq
<1>2. QED
  BY <1>1 DEF Requests

Types == TypeOK /\ reqs \in Seq(Tracked)

\* One request has something happen to it.
Changes(i, q) ==
  /\ reqs' \in Seq(Tracked) /\ Len(reqs') = Len(reqs) /\ reqs'[i] = q
  /\ \A k \in 1 .. Len(reqs) : k # i => reqs'[k] = reqs[k]

LEMMA ChangesOne ==
  ASSUME Types, NEW i \in 1 .. Len(reqs), NEW q \in Tracked, reqs' = [reqs EXCEPT ![i] = q]
  PROVE  Changes(i, q)
BY ExceptSeq DEF Types, Changes

\* Redis has executed, or refused, the next command of request i.
Runs(i, q) ==
  /\ i \in 1 .. Len(reqs) /\ Pending(i) /\ q \in Tracked /\ Changes(i, q)
  /\ q.what = reqs[i].what /\ q.lost = reqs[i].lost /\ q.status = reqs[i].status
  /\ q.next = reqs[i].next + 1 /\ reqs[i].refused \subseteq q.refused
  /\ doing' = doing /\ err' = err /\ disturbed \subseteq disturbed'

StoreType ==
  /\ flist \in [Users -> [Groups -> SUBSET Users]]
  /\ glist \in [Users -> [Users -> Groups \cup {NoGroup}]]
  /\ list \in [Users -> SUBSET Users]
  /\ fans \in [Users -> SUBSET Users]
  /\ ginfo \in [Users -> SUBSET Groups]
  /\ active \in [Users -> Times \cup {0}]

LEMMA Next1 ==
  ASSUME Types, NEW i \in 1 .. Len(reqs), Pending(i)
  PROVE  /\ reqs[i] \in Tracked /\ reqs[i].what \in RequestType
         /\ reqs[i].next \in 1 .. 5 /\ reqs[i].next + 1 \in 1 .. 6
         /\ reqs[i].next <= Commands(Op(i)) /\ Commands(Op(i)) \in 1 .. 5
<1>1. reqs[i] \in Tracked
  BY DEF Types, TypeOK
<1>2. reqs[i].what \in RequestType /\ reqs[i].next \in 1 .. 6
  BY <1>1 DEF Tracked
<1>3. Commands(Op(i)) \in 1 .. 5 /\ reqs[i].next <= Commands(Op(i))
  BY <1>2, CommandsOf DEF Op, Pending
<1>4. QED
  BY <1>1, <1>2, <1>3

\* Commands of which nothing is kept but that they were executed.
LEMMA ExecutedRuns ==
  ASSUME Types, NEW i \in 1 .. Len(reqs), Pending(i), Executed(i),
         UNCHANGED <<doing, err, disturbed>>
  PROVE  Runs(i, [reqs[i] EXCEPT !.next = @ + 1])
<1>1. PICK q : q = [reqs[i] EXCEPT !.next = @ + 1]
  OBVIOUS
<1>2. q \in Tracked /\ reqs' = [reqs EXCEPT ![i] = q]
  <2>1. PICK n \in 1 .. 6, p \in Tracked : n = reqs[i].next + 1 /\ p = reqs[i]
    BY Next1
  <2>2. q = [p EXCEPT !.next = n]
    BY <1>1, <2>1
  <2>3. q \in Tracked
    BY <2>2 DEF Tracked
  <2>4. QED
    BY <1>1, <2>3 DEF Executed
<1>3. Changes(i, q)
  BY <1>2, ChangesOne
<1>4. /\ q.what = reqs[i].what /\ q.lost = reqs[i].lost /\ q.status = reqs[i].status
      /\ q.next = reqs[i].next + 1 /\ reqs[i].refused \subseteq q.refused
  BY <1>1, Next1 DEF Tracked
<1>5. QED
  BY <1>1, <1>2, <1>3, <1>4 DEF Runs

\* Those of which an answer is kept.
LEMMA ReadRuns ==
  ASSUME Types, NEW i \in 1 .. Len(reqs), Pending(i),
         NEW a \in SUBSET (Users \cup Groups \cup {1, 2}), ExecutedRead(i, a),
         UNCHANGED <<doing, err, disturbed>>
  PROVE  Runs(i, [reqs[i] EXCEPT !.next = @ + 1, !.answer = a])
<1>1. PICK q : q = [reqs[i] EXCEPT !.next = @ + 1, !.answer = a]
  OBVIOUS
<1>2. q \in Tracked /\ reqs' = [reqs EXCEPT ![i] = q]
  <2>1. PICK n \in 1 .. 6, p \in Tracked : n = reqs[i].next + 1 /\ p = reqs[i]
    BY Next1
  <2>2. q = [p EXCEPT !.next = n, !.answer = a]
    BY <1>1, <2>1
  <2>3. q \in Tracked
    BY <2>2 DEF Tracked
  <2>4. reqs' = [reqs EXCEPT ![i] = q]
    BY <1>1 DEF ExecutedRead
  <2>5. QED
    BY <2>3, <2>4
<1>3. Changes(i, q)
  BY <1>2, ChangesOne
<1>4. /\ q.what = reqs[i].what /\ q.lost = reqs[i].lost /\ q.status = reqs[i].status
      /\ q.next = reqs[i].next + 1 /\ reqs[i].refused \subseteq q.refused
  BY <1>1, Next1 DEF Tracked
<1>5. QED
  BY <1>1, <1>2, <1>3, <1>4 DEF Runs

LEMMA RefuseRuns ==
  ASSUME Types, NEW i \in 1 .. Len(reqs), Refuse(i)
  PROVE  \E q : /\ Runs(i, q) /\ q.refused = reqs[i].refused \cup {reqs[i].next}
                /\ q.answer = reqs[i].answer
<1>1. Pending(i) /\ UNCHANGED <<doing, err, disturbed>>
  BY DEF Refuse
<1>2. reqs[i] \in Tracked /\ reqs[i].next \in 1 .. 5
  BY <1>1, Next1
<1>3. PICK g \in Groups \cup {NoGroup} :
        reqs' = [reqs EXCEPT ![i].next = @ + 1, ![i].refused = @ \cup {reqs[i].next},
                             ![i].gname = g]
  <2>1. reqs[i].gname \in Groups \cup {NoGroup}
    BY <1>2 DEF Tracked
  <2>2. QED
    BY <2>1 DEF Refuse, Unread
<1>4. PICK n \in 1 .. 6, c \in SUBSET (1 .. 5), p \in Tracked :
        n = reqs[i].next + 1 /\ c = reqs[i].refused \cup {reqs[i].next} /\ p = reqs[i]
  <2>1. reqs[i].next + 1 \in 1 .. 6
    BY <1>2
  <2>2. reqs[i].refused \cup {reqs[i].next} \in SUBSET (1 .. 5)
    BY <1>2 DEF Tracked
  <2>3. QED
    BY <1>2, <2>1, <2>2
<1>5. PICK q : q = [p EXCEPT !.next = n, !.refused = c, !.gname = g]
  OBVIOUS
<1>6. q \in Tracked
  BY <1>5 DEF Tracked
<1>7. reqs' = [reqs EXCEPT ![i] = q]
  BY <1>3, <1>4, <1>5
<1>8. Changes(i, q)
  BY <1>6, <1>7, ChangesOne
<1>9. /\ q.what = p.what /\ q.lost = p.lost /\ q.status = p.status
      /\ q.next = n /\ q.refused = c /\ q.answer = p.answer
  BY <1>5 DEF Tracked
<1>10. Runs(i, q)
  BY <1>1, <1>4, <1>6, <1>8, <1>9 DEF Runs
<1>11. QED
  BY <1>4, <1>9, <1>10

-----------------------------------------------------------------------------
(* What a command does to the store, for one pair of users. *)

\* Nothing, to what is kept of u's attention to m.
Untouched(u, m) ==
  /\ \A g \in Groups : m \in flist'[u][g] <=> m \in flist[u][g]
  /\ glist'[u][m] = glist[u][m]
  /\ m \in list'[u] <=> m \in list[u]
  /\ u \in fans'[m] <=> u \in fans[m]

\* Request i writes to that.
Wants(i, u, m) == Op(i) \in {"add", "drop"} /\ reqs[i].what.u = u /\ reqs[i].what.m = m

Others(i) ==
  \A u, m \in Users : ~Wants(i, u, m) /\ <<u, m>> \notin disturbed' => Untouched(u, m)

\* The rest of what is known of the request stays.
Bare(i, q) ==
  /\ q.refused = reqs[i].refused /\ q.gname = reqs[i].gname /\ q.answer = reqs[i].answer

LEMMA BareRuns ==
  ASSUME Types, NEW i \in 1 .. Len(reqs), Pending(i), Executed(i),
         UNCHANGED <<doing, err, disturbed>>
  PROVE  \E q : Runs(i, q) /\ Bare(i, q)
<1>1. PICK q : q = [reqs[i] EXCEPT !.next = @ + 1]
  OBVIOUS
<1>2. Runs(i, q)
  BY <1>1, ExecutedRuns
<1>3. Bare(i, q)
  BY <1>1, Next1 DEF Tracked, Bare
<1>4. QED
  BY <1>2, <1>3

\* The pair an add or a drop is about.
LEMMA PairOf ==
  ASSUME Types, NEW i \in 1 .. Len(reqs), Op(i) \in {"add", "drop"}
  PROVE  /\ reqs[i].what.u \in Users /\ reqs[i].what.m \in Users
         /\ Op(i) = "add" => reqs[i].what.g \in Groups
         /\ Keys(reqs[i].what) = {<<reqs[i].what.u, reqs[i].what.m>>}
<1>1. reqs[i].what \in RequestType
  BY DEF Types, TypeOK, Tracked
<1>2. QED
  BY <1>1, Fields DEF Op, Keys

\* A step of an add or drop: its command, and what it does to the pair.
Step(i, op, k) ==
  /\ Op(i) = op /\ reqs[i].next = k /\ Pending(i) /\ StoreType' /\ Others(i) /\ faults' = faults

LEMMA Add1 ==
  ASSUME Types, NEW i \in 1 .. Len(reqs), AddAttention1(i)
  PROVE  LET r == reqs[i].what
         IN /\ Step(i, "add", 1) /\ \E q : Runs(i, q) /\ Bare(i, q)
            /\ \A g \in Groups : r.m \in flist'[r.u][g] <=> r.m \in flist[r.u][g] \/ g = r.g
            /\ UNCHANGED <<glist, list, fans>>
<1>1. /\ Pending(i) /\ Op(i) = "add" /\ reqs[i].next = 1 /\ Executed(i)
      /\ UNCHANGED <<glist, list, fans, ginfo, active, doing, err, disturbed, faults>>
  BY DEF AddAttention1, At, Op
<1>2. PICK u \in Users, m \in Users, g \in Groups :
        u = reqs[i].what.u /\ m = reqs[i].what.m /\ g = reqs[i].what.g
  BY <1>1, PairOf
<1>3. \E q : Runs(i, q) /\ Bare(i, q)
  BY <1>1, BareRuns
<1>4. flist' = [flist EXCEPT ![u][g] = @ \cup {m}] /\ flist \in [Users -> [Groups -> SUBSET Users]]
  BY <1>2 DEF AddAttention1, Types, TypeOK
<1>5. flist' \in [Users -> [Groups -> SUBSET Users]]
  BY <1>4
<1>6. \A v \in Users, h \in Groups :
        flist'[v][h] = IF v = u /\ h = g THEN flist[v][h] \cup {m} ELSE flist[v][h]
  BY <1>4
<1>7. StoreType'
  BY <1>1, <1>5 DEF StoreType, Types, TypeOK
<1>8. Others(i)
  <2>1. SUFFICES ASSUME NEW a \in Users, NEW b \in Users, ~Wants(i, a, b)
                 PROVE  Untouched(a, b)
    BY DEF Others
  <2>2. a # u \/ b # m
    BY <1>1, <1>2, <2>1 DEF Wants
  <2>3. \A h \in Groups : b \in flist'[a][h] <=> b \in flist[a][h]
    BY <1>6, <2>2
  <2>4. QED
    BY <1>1, <2>3 DEF Untouched
<1>9. \A h \in Groups : m \in flist'[u][h] <=> m \in flist[u][h] \/ h = g
  BY <1>6
<1>10. QED
  BY <1>1, <1>2, <1>3, <1>7, <1>8, <1>9 DEF Step

LEMMA Add2 ==
  ASSUME Types, NEW i \in 1 .. Len(reqs), AddAttention2(i)
  PROVE  LET r == reqs[i].what
         IN /\ Step(i, "add", 2) /\ \E q : Runs(i, q) /\ Bare(i, q)
            /\ glist'[r.u][r.m] = r.g /\ UNCHANGED <<flist, list, fans>>
<1>1. /\ Pending(i) /\ Op(i) = "add" /\ reqs[i].next = 2 /\ Executed(i)
      /\ UNCHANGED <<flist, list, fans, ginfo, active, doing, err, disturbed, faults>>
  BY DEF AddAttention2, At, Op
<1>2. PICK u \in Users, m \in Users, g \in Groups :
        u = reqs[i].what.u /\ m = reqs[i].what.m /\ g = reqs[i].what.g
  BY <1>1, PairOf
<1>3. \E q : Runs(i, q) /\ Bare(i, q)
  BY <1>1, BareRuns
<1>4. glist' = [glist EXCEPT ![u][m] = g] /\ glist \in [Users -> [Users -> Groups \cup {NoGroup}]]
  BY <1>2 DEF AddAttention2, Types, TypeOK
<1>5. glist' \in [Users -> [Users -> Groups \cup {NoGroup}]]
  BY <1>4
<1>6. \A v \in Users, n \in Users : glist'[v][n] = IF v = u /\ n = m THEN g ELSE glist[v][n]
  BY <1>4
<1>7. Others(i) /\ StoreType'
  BY <1>1, <1>2, <1>5, <1>6 DEF Others, Untouched, Wants, StoreType, Types, TypeOK
<1>8. QED
  BY <1>1, <1>2, <1>3, <1>6, <1>7 DEF Step

LEMMA Add3 ==
  ASSUME Types, NEW i \in 1 .. Len(reqs), AddAttention3(i)
  PROVE  LET r == reqs[i].what
         IN /\ Step(i, "add", 3) /\ \E q : Runs(i, q) /\ Bare(i, q)
            /\ r.m \in list'[r.u] /\ UNCHANGED <<flist, glist, fans>>
<1>1. /\ Pending(i) /\ Op(i) = "add" /\ reqs[i].next = 3 /\ Executed(i)
      /\ UNCHANGED <<flist, glist, fans, ginfo, active, doing, err, disturbed, faults>>
  BY DEF AddAttention3, At, Op
<1>2. PICK u \in Users, m \in Users : u = reqs[i].what.u /\ m = reqs[i].what.m
  BY <1>1, PairOf
<1>3. \E q : Runs(i, q) /\ Bare(i, q)
  BY <1>1, BareRuns
<1>4. list' = [list EXCEPT ![u] = @ \cup {m}] /\ list \in [Users -> SUBSET Users]
  BY <1>2 DEF AddAttention3, Types, TypeOK
<1>5. list' \in [Users -> SUBSET Users]
  BY <1>4
<1>6. \A v \in Users : list'[v] = IF v = u THEN list[v] \cup {m} ELSE list[v]
  BY <1>4
<1>7. Others(i) /\ StoreType'
  BY <1>1, <1>2, <1>5, <1>6 DEF Others, Untouched, Wants, StoreType, Types, TypeOK
<1>8. QED
  BY <1>1, <1>2, <1>3, <1>6, <1>7 DEF Step

LEMMA Add4 ==
  ASSUME Types, NEW i \in 1 .. Len(reqs), AddAttention4(i)
  PROVE  LET r == reqs[i].what
         IN /\ Step(i, "add", 4) /\ \E q : Runs(i, q) /\ Bare(i, q)
            /\ r.u \in fans'[r.m] /\ UNCHANGED <<flist, glist, list>>
<1>1. /\ Pending(i) /\ Op(i) = "add" /\ reqs[i].next = 4 /\ Executed(i)
      /\ UNCHANGED <<flist, glist, list, ginfo, active, doing, err, disturbed, faults>>
  BY DEF AddAttention4, At, Op
<1>2. PICK u \in Users, m \in Users : u = reqs[i].what.u /\ m = reqs[i].what.m
  BY <1>1, PairOf
<1>3. \E q : Runs(i, q) /\ Bare(i, q)
  BY <1>1, BareRuns
<1>4. fans' = [fans EXCEPT ![m] = @ \cup {u}] /\ fans \in [Users -> SUBSET Users]
  BY <1>2 DEF AddAttention4, Types, TypeOK
<1>5. fans' \in [Users -> SUBSET Users]
  BY <1>4
<1>6. \A v \in Users : fans'[v] = IF v = m THEN fans[v] \cup {u} ELSE fans[v]
  BY <1>4
<1>7. Others(i) /\ StoreType'
  BY <1>1, <1>2, <1>5, <1>6 DEF Others, Untouched, Wants, StoreType, Types, TypeOK
<1>8. QED
  BY <1>1, <1>2, <1>3, <1>6, <1>7 DEF Step

LEMMA Drop1 ==
  ASSUME Types, NEW i \in 1 .. Len(reqs), DropAttention1(i)
  PROVE  LET r == reqs[i].what
         IN /\ Step(i, "drop", 1)
            /\ \E q : /\ Runs(i, q) /\ q.refused = reqs[i].refused
                      /\ glist[r.u][r.m] # NoGroup => q.gname = glist[r.u][r.m]
            /\ UNCHANGED <<flist, glist, list, fans>>
<1>1. /\ Pending(i) /\ Op(i) = "drop" /\ reqs[i].next = 1
      /\ UNCHANGED <<store, doing, err, disturbed, faults>>
  BY DEF DropAttention1, At, Op
<1>2. PICK u \in Users, m \in Users : u = reqs[i].what.u /\ m = reqs[i].what.m
  BY <1>1, PairOf
<1>3. PICK g \in Groups \cup {NoGroup} :
        /\ glist[u][m] # NoGroup => g = glist[u][m]
        /\ reqs' = [reqs EXCEPT ![i].next = 2, ![i].gname = g]
  <2>1. glist[u][m] \in Groups \cup {NoGroup}
    BY <1>2 DEF Types, TypeOK
  <2>2. PICK g \in IF glist[u][m] = NoGroup THEN Unread ELSE {glist[u][m]} :
          reqs' = [reqs EXCEPT ![i].next = 2, ![i].gname = g]
    BY <1>2 DEF DropAttention1
  <2>3. CASE glist[u][m] = NoGroup
    BY <2>2, <2>3 DEF Unread
  <2>4. CASE glist[u][m] # NoGroup
    BY <2>1, <2>2, <2>4
  <2>5. QED
    BY <2>3, <2>4
<1>4. PICK p, n, q :
        p \in Tracked /\ n \in 1 .. 6 /\ p = reqs[i] /\ n = 2 /\ q = [p EXCEPT !.next = n, !.gname = g]
  <2>1. 2 \in 1 .. 6
    OBVIOUS
  <2>2. QED
    BY <1>1, <2>1, Next1
<1>5. q \in Tracked /\ reqs' = [reqs EXCEPT ![i] = q]
  <2>1. q \in Tracked
    BY <1>4 DEF Tracked
  <2>2. reqs' = [reqs EXCEPT ![i] = q]
    BY <1>3, <1>4
  <2>3. QED
    BY <2>1, <2>2
<1>6. /\ q.what = reqs[i].what /\ q.lost = reqs[i].lost /\ q.status = reqs[i].status
      /\ q.next = reqs[i].next + 1 /\ q.refused = reqs[i].refused /\ q.gname = g
  BY <1>1, <1>4 DEF Tracked
<1>7. Runs(i, q)
  BY <1>1, <1>5, <1>6, ChangesOne DEF Runs
<1>8. Others(i) /\ StoreType'
  BY <1>1 DEF Others, Untouched, StoreType, Types, TypeOK, store
<1>9. QED
  BY <1>1, <1>2, <1>3, <1>6, <1>7, <1>8 DEF Step, store

LEMMA Drop2 ==
  ASSUME Types, NEW i \in 1 .. Len(reqs), DropAttention2(i)
  PROVE  LET r == reqs[i].what
         IN /\ Step(i, "drop", 2) /\ \E q : Runs(i, q) /\ Bare(i, q)
            /\ \A g \in Groups :
                 r.m \in flist'[r.u][g] <=> r.m \in flist[r.u][g] /\ g # reqs[i].gname
            /\ UNCHANGED <<glist, list, fans>>
<1>1. /\ Pending(i) /\ Op(i) = "drop" /\ reqs[i].next = 2 /\ Executed(i)
      /\ UNCHANGED <<glist, list, fans, ginfo, active, doing, err, disturbed, faults>>
  BY DEF DropAttention2, At, Op
<1>2. PICK u, m, n :
        u \in Users /\ m \in Users /\ u = reqs[i].what.u /\ m = reqs[i].what.m /\ n = reqs[i].gname
  BY <1>1, PairOf
<1>3. \E q : Runs(i, q) /\ Bare(i, q)
  BY <1>1, BareRuns
<1>4. /\ flist \in [Users -> [Groups -> SUBSET Users]]
      /\ flist' = [flist EXCEPT ![u] =
                     [g \in Groups |-> IF g = n THEN flist[u][g] \ {m} ELSE flist[u][g]]]
  BY <1>2 DEF DropAttention2, Types, TypeOK
<1>5. flist' \in [Users -> [Groups -> SUBSET Users]]
  BY <1>4
<1>6. \A v \in Users, h \in Groups :
        flist'[v][h] = IF v = u /\ h = n THEN flist[v][h] \ {m} ELSE flist[v][h]
  BY <1>4
<1>7. StoreType'
  BY <1>1, <1>5 DEF StoreType, Types, TypeOK
<1>8. Others(i)
  <2>1. SUFFICES ASSUME NEW a \in Users, NEW b \in Users, ~Wants(i, a, b)
                 PROVE  Untouched(a, b)
    BY DEF Others
  <2>2. a # u \/ b # m
    BY <1>1, <1>2, <2>1 DEF Wants
  <2>3. \A h \in Groups : b \in flist'[a][h] <=> b \in flist[a][h]
    BY <1>6, <2>2
  <2>4. QED
    BY <1>1, <2>3 DEF Untouched
<1>9. \A h \in Groups : m \in flist'[u][h] <=> m \in flist[u][h] /\ h # n
  BY <1>2, <1>6
<1>10. QED
  BY <1>1, <1>2, <1>3, <1>7, <1>8, <1>9 DEF Step

LEMMA Drop3 ==
  ASSUME Types, NEW i \in 1 .. Len(reqs), DropAttention3(i)
  PROVE  LET r == reqs[i].what
         IN /\ Step(i, "drop", 3) /\ \E q : Runs(i, q) /\ Bare(i, q)
            /\ glist'[r.u][r.m] = NoGroup /\ UNCHANGED <<flist, list, fans>>
<1>1. /\ Pending(i) /\ Op(i) = "drop" /\ reqs[i].next = 3 /\ Executed(i)
      /\ UNCHANGED <<flist, list, fans, ginfo, active, doing, err, disturbed, faults>>
  BY DEF DropAttention3, At, Op
<1>2. PICK u \in Users, m \in Users : u = reqs[i].what.u /\ m = reqs[i].what.m
  BY <1>1, PairOf
<1>3. \E q : Runs(i, q) /\ Bare(i, q)
  BY <1>1, BareRuns
<1>4. /\ glist' = [glist EXCEPT ![u][m] = NoGroup]
      /\ glist \in [Users -> [Users -> Groups \cup {NoGroup}]]
  BY <1>2 DEF DropAttention3, Types, TypeOK
<1>5. glist' \in [Users -> [Users -> Groups \cup {NoGroup}]]
  BY <1>4
<1>6. \A v \in Users, n \in Users :
        glist'[v][n] = IF v = u /\ n = m THEN NoGroup ELSE glist[v][n]
  BY <1>4
<1>7. Others(i) /\ StoreType'
  BY <1>1, <1>2, <1>5, <1>6 DEF Others, Untouched, Wants, StoreType, Types, TypeOK
<1>8. QED
  BY <1>1, <1>2, <1>3, <1>6, <1>7 DEF Step

LEMMA Drop4 ==
  ASSUME Types, NEW i \in 1 .. Len(reqs), NEW x \in Users \cup {NoUser}, DropAttention4(i, x)
  PROVE  LET r == reqs[i].what
         IN /\ Step(i, "drop", 4) /\ \E q : Runs(i, q) /\ q.refused = reqs[i].refused
            /\ r.m \notin list'[r.u] /\ UNCHANGED <<flist, glist, fans>>
<1>1. /\ Pending(i) /\ Op(i) = "drop" /\ reqs[i].next = 4
      /\ UNCHANGED <<flist, glist, fans, ginfo, active, doing, err, faults>>
  BY DEF DropAttention4, At, Op
<1>2. PICK u \in Users, m \in Users : u = reqs[i].what.u /\ m = reqs[i].what.m
  BY <1>1, PairOf
<1>3. PICK e : e = (reqs[i].extra \/ Cardinality({m, x} \cap list[u]) = 2)
  OBVIOUS
<1>4. PICK p, n, d, q :
        /\ p \in Tracked /\ n \in 1 .. 6 /\ d \in BOOLEAN
        /\ p = reqs[i] /\ n = 5 /\ d = e /\ q = [p EXCEPT !.next = n, !.extra = d]
  <2>1. 5 \in 1 .. 6 /\ reqs[i] \in Tracked
    BY <1>1, Next1
  <2>2. e \in BOOLEAN
    BY <1>3
  <2>3. QED
    BY <2>1, <2>2
<1>5. q \in Tracked /\ reqs' = [reqs EXCEPT ![i] = q]
  <2>1. q \in Tracked
    BY <1>4 DEF Tracked
  <2>2. reqs' = [reqs EXCEPT ![i].next = 5, ![i].extra = e]
    BY <1>2, <1>3 DEF DropAttention4
  <2>3. reqs' = [reqs EXCEPT ![i] = q]
    BY <1>4, <2>2
  <2>4. QED
    BY <2>1, <2>3
<1>6. /\ q.what = reqs[i].what /\ q.lost = reqs[i].lost /\ q.status = reqs[i].status
      /\ q.next = reqs[i].next + 1 /\ q.refused = reqs[i].refused
  BY <1>1, <1>4 DEF Tracked
<1>7. Changes(i, q)
  BY <1>5, ChangesOne
<1>8. /\ list' = [list EXCEPT ![u] = @ \ {m, x}] /\ list \in [Users -> SUBSET Users]
      /\ disturbed' = disturbed \cup {<<u, y>> : y \in {x} \ {m, NoUser}}
  BY <1>2 DEF DropAttention4, Types, TypeOK
<1>9. Runs(i, q)
  BY <1>1, <1>5, <1>6, <1>7, <1>8 DEF Runs
<1>10. list' \in [Users -> SUBSET Users]
  BY <1>8
<1>11. \A v \in Users : list'[v] = IF v = u THEN list[v] \ {m, x} ELSE list[v]
  BY <1>8
<1>12. StoreType'
  BY <1>1, <1>10 DEF StoreType, Types, TypeOK
<1>13. Others(i)
  <2>1. SUFFICES ASSUME NEW a \in Users, NEW b \in Users, ~Wants(i, a, b),
                        <<a, b>> \notin disturbed'
                 PROVE  Untouched(a, b)
    BY DEF Others
  <2>2. a # u \/ b # m
    BY <1>1, <1>2, <2>1 DEF Wants
  <2>3. a = u /\ b = x => <<a, b>> \in disturbed'
    BY <1>8, <2>2, FeedStoreAssumption
  <2>4. b \in list'[a] <=> b \in list[a]
    BY <1>11, <2>1, <2>2, <2>3
  <2>5. QED
    BY <1>1, <2>4 DEF Untouched
<1>14. m \notin list'[u]
  BY <1>11
<1>15. QED
  BY <1>1, <1>2, <1>6, <1>9, <1>12, <1>13, <1>14 DEF Step

LEMMA Drop5 ==
  ASSUME Types, NEW i \in 1 .. Len(reqs), NEW x \in Users \cup {NoUser}, DropAttention5(i, x)
  PROVE  LET r == reqs[i].what
         IN /\ Step(i, "drop", 5) /\ \E q : Runs(i, q) /\ q.refused = reqs[i].refused
            /\ r.u \notin fans'[r.m] /\ UNCHANGED <<flist, glist, list>>
<1>1. /\ Pending(i) /\ Op(i) = "drop" /\ reqs[i].next = 5
      /\ UNCHANGED <<flist, glist, list, ginfo, active, doing, err, faults>>
  BY DEF DropAttention5, At, Op
<1>2. PICK u \in Users, m \in Users : u = reqs[i].what.u /\ m = reqs[i].what.m
  BY <1>1, PairOf
<1>3. PICK e : e = (reqs[i].extra \/ Cardinality({u, x} \cap fans[m]) = 2)
  OBVIOUS
<1>4. PICK p, n, d, q :
        /\ p \in Tracked /\ n \in 1 .. 6 /\ d \in BOOLEAN
        /\ p = reqs[i] /\ n = 6 /\ d = e /\ q = [p EXCEPT !.next = n, !.extra = d]
  <2>1. 6 \in 1 .. 6 /\ reqs[i] \in Tracked
    BY <1>1, Next1
  <2>2. e \in BOOLEAN
    BY <1>3
  <2>3. QED
    BY <2>1, <2>2
<1>5. q \in Tracked /\ reqs' = [reqs EXCEPT ![i] = q]
  <2>1. q \in Tracked
    BY <1>4 DEF Tracked
  <2>2. reqs' = [reqs EXCEPT ![i].next = 6, ![i].extra = e]
    BY <1>2, <1>3 DEF DropAttention5
  <2>3. reqs' = [reqs EXCEPT ![i] = q]
    BY <1>4, <2>2
  <2>4. QED
    BY <2>1, <2>3
<1>6. /\ q.what = reqs[i].what /\ q.lost = reqs[i].lost /\ q.status = reqs[i].status
      /\ q.next = reqs[i].next + 1 /\ q.refused = reqs[i].refused
  BY <1>1, <1>4 DEF Tracked
<1>7. Changes(i, q)
  BY <1>5, ChangesOne
<1>8. /\ fans' = [fans EXCEPT ![m] = @ \ {u, x}] /\ fans \in [Users -> SUBSET Users]
      /\ disturbed' = disturbed \cup {<<y, m>> : y \in {x} \ {u, NoUser}}
  BY <1>2 DEF DropAttention5, Types, TypeOK
<1>9. Runs(i, q)
  BY <1>1, <1>5, <1>6, <1>7, <1>8 DEF Runs
<1>10. fans' \in [Users -> SUBSET Users]
  BY <1>8
<1>11. \A v \in Users : fans'[v] = IF v = m THEN fans[v] \ {u, x} ELSE fans[v]
  BY <1>8
<1>12. StoreType'
  BY <1>1, <1>10 DEF StoreType, Types, TypeOK
<1>13. Others(i)
  <2>1. SUFFICES ASSUME NEW a \in Users, NEW b \in Users, ~Wants(i, a, b),
                        <<a, b>> \notin disturbed'
                 PROVE  Untouched(a, b)
    BY DEF Others
  <2>2. a # u \/ b # m
    BY <1>1, <1>2, <2>1 DEF Wants
  <2>3. b = m /\ a = x => <<a, b>> \in disturbed'
    BY <1>8, <2>2, FeedStoreAssumption
  <2>4. a \in fans'[b] <=> a \in fans[b]
    BY <1>11, <2>1, <2>2, <2>3
  <2>5. QED
    BY <1>1, <2>4 DEF Untouched
<1>14. u \notin fans'[m]
  BY <1>11
<1>15. QED
  BY <1>1, <1>2, <1>6, <1>9, <1>12, <1>13, <1>14 DEF Step

-----------------------------------------------------------------------------
(* The other commands leave the pairs alone. *)

\* What a query or a refused command leaves.
LEMMA Left ==
  ASSUME Types, NEW i \in 1 .. Len(reqs), UNCHANGED store
  PROVE  StoreType' /\ Others(i)
BY DEF StoreType, Types, TypeOK, Others, Untouched, store

\* A request that is neither an attention nor its end.
Aside(i) ==
  /\ Op(i) \notin {"add", "drop", "relation"}
  /\ Pending(i) /\ StoreType' /\ faults' = faults /\ \A u, m \in Users : Untouched(u, m)
  /\ \E q : Runs(i, q) /\ q.refused = reqs[i].refused

LEMMA GroupsAside ==
  ASSUME Types, NEW i \in 1 .. Len(reqs),
         AddGroup(i) \/ DropGroup(i) \/ UpdateFeedMimiID(i)
  PROVE  Aside(i)
<1>1. /\ Pending(i) /\ Op(i) \in {"addgroup", "dropgroup", "update"} /\ Executed(i)
      /\ UNCHANGED <<flist, glist, list, fans, doing, err, disturbed, faults>>
  BY DEF AddGroup, DropGroup, UpdateFeedMimiID, At, Op
<1>2. PICK q : Runs(i, q) /\ Bare(i, q)
  BY <1>1, BareRuns
<1>3. reqs[i].what \in RequestType
  BY <1>1, Next1
<1>4. ginfo' \in [Users -> SUBSET Groups] /\ active' \in [Users -> Times \cup {0}]
  <2>1. CASE AddGroup(i)
    <3>1. reqs[i].what.u \in Users /\ reqs[i].what.g \in Groups
      BY <1>3, <2>1, Fields DEF AddGroup, At
    <3>2. QED
      BY <2>1, <3>1 DEF AddGroup, Types, TypeOK
  <2>2. CASE DropGroup(i)
    <3>1. reqs[i].what.u \in Users
      BY <1>3, <2>2, Fields DEF DropGroup, At
    <3>2. QED
      BY <2>2, <3>1 DEF DropGroup, Types, TypeOK
  <2>3. CASE UpdateFeedMimiID(i)
    <3>1. reqs[i].what.u \in Users /\ reqs[i].what.t \in Times
      BY <1>3, <2>3, Fields DEF UpdateFeedMimiID, At
    <3>2. QED
      BY <2>3, <3>1 DEF UpdateFeedMimiID, Types, TypeOK
  <2>4. QED
    BY <2>1, <2>2, <2>3
<1>5. StoreType'
  BY <1>1, <1>4 DEF StoreType, Types, TypeOK
<1>6. \A u, m \in Users : Untouched(u, m)
  BY <1>1 DEF Untouched
<1>7. QED
  BY <1>1, <1>2, <1>5, <1>6 DEF Aside, Bare

\* A query keeps an answer.
Reads(i, a) ==
  \E q : Runs(i, q) /\ q.refused = reqs[i].refused /\ q.answer = a

LEMMA QueryReads ==
  ASSUME Types, NEW i \in 1 .. Len(reqs), Pending(i),
         NEW a \in SUBSET (Users \cup Groups \cup {1, 2}), ExecutedRead(i, a),
         UNCHANGED <<doing, err, disturbed>>
  PROVE  Reads(i, a)
<1>1. PICK q : q = [reqs[i] EXCEPT !.next = @ + 1, !.answer = a]
  OBVIOUS
<1>2. Runs(i, q)
  BY <1>1, ReadRuns
<1>3. q.refused = reqs[i].refused /\ q.answer = a
  BY <1>1, Next1 DEF Tracked
<1>4. QED
  BY <1>2, <1>3 DEF Reads

LEMMA QueriesAside ==
  ASSUME Types, NEW i \in 1 .. Len(reqs),
         \/ QueryGroup(i) \/ QueryList(i) \/ QueryListByGroup(i) \/ QueryFansList(i)
         \/ QueryFeedMimiID(i)
  PROVE  Aside(i)
<1>1. ASSUME NEW op \in {"groups", "list", "bygroup", "fans", "latest"},
             NEW a \in SUBSET (Users \cup Groups \cup {1, 2}), Query(i, op, a)
      PROVE  Aside(i)
  <2>1. /\ Pending(i) /\ Op(i) = op /\ ExecutedRead(i, a)
        /\ UNCHANGED <<store, doing, err, disturbed, faults>>
    BY <1>1 DEF Query, At, Op
  <2>2. Reads(i, a)
    BY <1>1, <2>1, QueryReads
  <2>3. StoreType' /\ \A u, m \in Users : Untouched(u, m)
    BY <2>1 DEF StoreType, Types, TypeOK, Untouched, store
  <2>4. QED
    BY <2>1, <2>2, <2>3 DEF Aside, Reads
<1>2. reqs[i].what \in RequestType
  BY DEF Types, TypeOK, Tracked
<1>3. CASE QueryGroup(i)
  <2>1. reqs[i].what.u \in Users
    BY <1>2, <1>3, Fields DEF QueryGroup, Query, At
  <2>2. ginfo[reqs[i].what.u] \in SUBSET (Users \cup Groups \cup {1, 2})
    BY <2>1 DEF Types, TypeOK
  <2>3. QED
    BY <1>1, <1>3, <2>2 DEF QueryGroup
<1>4. CASE QueryList(i)
  <2>1. reqs[i].what.u \in Users
    BY <1>2, <1>4, Fields DEF QueryList, Query, At
  <2>2. list[reqs[i].what.u] \in SUBSET (Users \cup Groups \cup {1, 2})
    BY <2>1 DEF Types, TypeOK
  <2>3. QED
    BY <1>1, <1>4, <2>2 DEF QueryList
<1>5. CASE QueryListByGroup(i)
  <2>1. reqs[i].what.u \in Users /\ reqs[i].what.g \in Groups
    BY <1>2, <1>5, Fields DEF QueryListByGroup, Query, At
  <2>2. flist[reqs[i].what.u][reqs[i].what.g] \in SUBSET (Users \cup Groups \cup {1, 2})
    BY <2>1 DEF Types, TypeOK
  <2>3. QED
    BY <1>1, <1>5, <2>2 DEF QueryListByGroup
<1>6. CASE QueryFansList(i)
  <2>1. reqs[i].what.u \in Users
    BY <1>2, <1>6, Fields DEF QueryFansList, Query, At
  <2>2. fans[reqs[i].what.u] \in SUBSET (Users \cup Groups \cup {1, 2})
    BY <2>1 DEF Types, TypeOK
  <2>3. QED
    BY <1>1, <1>6, <2>2 DEF QueryFansList
<1>7. CASE QueryFeedMimiID(i)
  <2>1. PICK a : /\ a = {u \in Users : active[u] # 0
                            /\ active[u] \in reqs[i].what.begin .. reqs[i].what.end}
                 /\ Query(i, "latest", a)
    BY <1>7 DEF QueryFeedMimiID
  <2>2. QED
    BY <1>1, <2>1
<1>8. QED
  BY <1>3, <1>4, <1>5, <1>6, <1>7

LEMMA RelationPair ==
  ASSUME Types, NEW i \in 1 .. Len(reqs), Op(i) = "relation"
  PROVE  /\ reqs[i].what.u \in Users /\ reqs[i].what.m \in Users
         /\ Keys(reqs[i].what) = {<<reqs[i].what.u, reqs[i].what.m>>,
                                  <<reqs[i].what.m, reqs[i].what.u>>}
<1>1. reqs[i].what \in RequestType
  BY DEF Types, TypeOK, Tracked
<1>2. QED
  BY <1>1, Fields DEF Op, Keys

LEMMA Relation1 ==
  ASSUME Types, NEW i \in 1 .. Len(reqs), QueryRelation1(i)
  PROVE  LET r == reqs[i].what
         IN /\ Step(i, "relation", 1) /\ UNCHANGED store
            /\ Reads(i, IF r.m \in list[r.u] THEN {1} ELSE {})
<1>1. PICK a \in SUBSET (Users \cup Groups \cup {1, 2}) :
        a = IF reqs[i].what.m \in list[reqs[i].what.u] THEN {1} ELSE {}
  OBVIOUS
<1>2. /\ Pending(i) /\ Op(i) = "relation" /\ reqs[i].next = 1 /\ ExecutedRead(i, a)
      /\ UNCHANGED <<store, doing, err, disturbed, faults>>
  BY <1>1 DEF QueryRelation1, At, Op
<1>3. Reads(i, a)
  BY <1>2, QueryReads
<1>4. StoreType' /\ Others(i)
  BY <1>2, Left
<1>5. QED
  BY <1>1, <1>2, <1>3, <1>4 DEF Step

LEMMA Relation2 ==
  ASSUME Types, NEW i \in 1 .. Len(reqs), QueryRelation2(i)
  PROVE  LET r == reqs[i].what
         IN /\ Step(i, "relation", 2) /\ UNCHANGED store
            /\ Reads(i, reqs[i].answer \cup (IF r.m \in fans[r.u] THEN {2} ELSE {}))
<1>1. /\ Pending(i) /\ Op(i) = "relation" /\ reqs[i].next = 2
      /\ UNCHANGED <<store, doing, err, disturbed, faults>>
  BY DEF QueryRelation2, At, Op
<1>2. reqs[i].answer \in SUBSET (Users \cup Groups \cup {1, 2})
  BY <1>1, Next1 DEF Tracked
<1>3. PICK a \in SUBSET (Users \cup Groups \cup {1, 2}) :
        a = reqs[i].answer
              \cup (IF reqs[i].what.m \in fans[reqs[i].what.u] THEN {2} ELSE {})
  BY <1>2
<1>4. ExecutedRead(i, a)
  BY <1>3 DEF QueryRelation2
<1>5. Reads(i, a)
  BY <1>1, <1>4, QueryReads
<1>6. StoreType' /\ Others(i)
  BY <1>1, Left
<1>7. QED
  BY <1>1, <1>3, <1>5, <1>6 DEF Step

-----------------------------------------------------------------------------
(* The kinds of step. *)

\* A request comes in, last of all.
Arrives(q) ==
  /\ q \in Tracked /\ reqs' \in Seq(Tracked) /\ Len(reqs') = Len(reqs) + 1
  /\ \A k \in 1 .. Len(reqs) : reqs'[k] = reqs[k]
  /\ reqs'[Len(reqs) + 1] = q
  /\ q.next = 1 /\ q.refused = {} /\ q.answer = {} /\ q.status \in {"waiting", "error"}
  /\ disturbed' = disturbed \cup Meeting(q.what)
  /\ UNCHANGED store

\* The worker is done with a request.
Marks(i, q) ==
  /\ i \in 1 .. Len(reqs) /\ reqs[i].status = "waiting" /\ q \in Tracked /\ Changes(i, q)
  /\ q.what = reqs[i].what /\ q.next = reqs[i].next /\ q.gname = reqs[i].gname
  /\ q.refused = reqs[i].refused /\ q.answer = reqs[i].answer
  /\ q.status # "waiting"
  /\ q.status = "ok" => q.next > Commands(Op(i)) /\ q.refused \cap Checked(Op(i)) = {}
  /\ UNCHANGED <<store, disturbed>>

Rests == UNCHANGED <<store, reqs, disturbed>>

Command(i) == i \in 1 .. Len(reqs) /\ (Execute(i) \/ Refuse(i))

LEMMA RelationRuns ==
  ASSUME NEW i \in 1 .. Len(reqs), NEW a, Reads(i, a)
  PROVE  \E q : Runs(i, q)
BY DEF Reads

LEMMA ExecuteRuns ==
  ASSUME Types, NEW i \in 1 .. Len(reqs), Execute(i)
  PROVE  (\E q : Runs(i, q)) /\ StoreType' /\ Others(i) /\ faults' = faults
<1>1. CASE AddAttention1(i)
  BY <1>1, Add1 DEF Step
<1>2. CASE AddAttention2(i)
  BY <1>2, Add2 DEF Step
<1>3. CASE AddAttention3(i)
  BY <1>3, Add3 DEF Step
<1>4. CASE AddAttention4(i)
  BY <1>4, Add4 DEF Step
<1>5. CASE DropAttention1(i)
  BY <1>5, Drop1 DEF Step
<1>6. CASE DropAttention2(i)
  BY <1>6, Drop2 DEF Step
<1>7. CASE DropAttention3(i)
  BY <1>7, Drop3 DEF Step
<1>8. CASE \E x \in Users \cup {NoUser} : DropAttention4(i, x) \/ DropAttention5(i, x)
  <2>1. PICK x \in Users \cup {NoUser} : DropAttention4(i, x) \/ DropAttention5(i, x)
    BY <1>8
  <2>2. CASE DropAttention4(i, x)
    BY <2>2, Drop4 DEF Step
  <2>3. CASE DropAttention5(i, x)
    BY <2>3, Drop5 DEF Step
  <2>4. QED
    BY <2>1, <2>2, <2>3
<1>9. CASE AddGroup(i) \/ DropGroup(i) \/ UpdateFeedMimiID(i)
  <2>1. Aside(i)
    BY <1>9, GroupsAside
  <2>2. QED
    BY <2>1 DEF Aside, Others
<1>10. CASE QueryRelation1(i)
  BY <1>10, Relation1, RelationRuns DEF Step
<1>11. CASE QueryRelation2(i)
  BY <1>11, Relation2, RelationRuns DEF Step
<1>12. CASE \/ QueryGroup(i) \/ QueryList(i) \/ QueryListByGroup(i) \/ QueryFansList(i)
            \/ QueryFeedMimiID(i)
  <2>1. Aside(i)
    BY <1>12, QueriesAside
  <2>2. QED
    BY <2>1 DEF Aside, Others
<1>13. QED
  BY <1>1, <1>2, <1>3, <1>4, <1>5, <1>6, <1>7, <1>8, <1>9, <1>10, <1>11, <1>12 DEF Execute

LEMMA CommandRuns ==
  ASSUME Types, NEW i, Command(i)
  PROVE  /\ \E q : Runs(i, q)
         /\ StoreType' /\ Others(i) /\ faults' \in 0 .. MaxFaults
<1>1. i \in 1 .. Len(reqs)
  BY DEF Command
<1>2. faults \in 0 .. MaxFaults
  BY DEF Types, TypeOK
<1>3. CASE Execute(i)
  BY <1>1, <1>2, <1>3, ExecuteRuns
<1>4. CASE Refuse(i)
  <2>1. \E q : Runs(i, q)
    BY <1>1, <1>4, RefuseRuns
  <2>2. StoreType' /\ Others(i)
    BY <1>1, <1>4, Left DEF Refuse
  <2>3. faults' \in 0 .. MaxFaults
    BY <1>2, <1>4, FeedStoreAssumption DEF Refuse
  <2>4. QED
    BY <2>1, <2>2, <2>3
<1>5. QED
  BY <1>3, <1>4 DEF Command

-----------------------------------------------------------------------------
(* Type correctness. *)

LEMMA TrackedEach ==
  ASSUME reqs \in Seq(Tracked)
  PROVE  Len(reqs) \in Nat /\ \A i \in 1 .. Len(reqs) : reqs[i] \in Tracked
<1>1. Len(reqs) \in Nat
  BY LenProperties
<1>2. QED
  BY <1>1, ElementOfSeq

LEMMA CommandTypes ==
  ASSUME Types, NEW i, Command(i)
  PROVE  Types'
<1>1. PICK q : Runs(i, q)
  BY CommandRuns
<1>2. StoreType' /\ faults' \in 0 .. MaxFaults
  BY CommandRuns
<1>3. /\ reqs' \in Seq(Tracked) /\ Len(reqs') = Len(reqs)
      /\ \A k \in 1 .. Len(reqs) : reqs'[k].status = reqs[k].status
      /\ doing' = doing /\ err' = err
  BY <1>1 DEF Runs, Changes
<1>4. \A k \in 1 .. Len(reqs') : reqs'[k] \in Tracked
  BY <1>3, TrackedEach
<1>5. QED
  BY <1>2, <1>3, <1>4 DEF Types, TypeOK, StoreType

LEMMA ArrivesTypes ==
  ASSUME Types, NEW w \in Workers, NEW r \in Requests, ProcPkgCli(w, r)
  PROVE  Types' /\ \E q : Arrives(q)
<1>1. r \in RequestType /\ err[w] \in BOOLEAN
  BY RequestsType DEF Types, TypeOK
<1>2. PICK q : q = [what |-> r, next |-> 1, gname |-> NoGroup, extra |-> FALSE,
                    refused |-> {}, answer |-> {}, lost |-> err[w],
                    status |-> IF err[w] THEN "error" ELSE "waiting"]
  OBVIOUS
<1>3. q \in Tracked /\ q.status = (IF err[w] THEN "error" ELSE "waiting")
  <2>1. 1 \in 1 .. 6 /\ {} \in SUBSET (1 .. 5) /\ {} \in SUBSET (Users \cup Groups \cup {1, 2})
    OBVIOUS
  <2>2. PICK st \in {"waiting", "ok", "error", "none"} :
          st = (IF err[w] THEN "error" ELSE "waiting")
    OBVIOUS
  <2>3. PICK n \in 1 .. 6 : n = 1
    BY <2>1
  <2>4. PICK e \in BOOLEAN : e = err[w]
    BY <1>1
  <2>5. q = [what |-> r, next |-> n, gname |-> NoGroup, extra |-> FALSE,
             refused |-> {}, answer |-> {}, lost |-> e, status |-> st]
    BY <1>2, <2>2, <2>3, <2>4
  <2>6. QED
    BY <1>1, <2>1, <2>2, <2>5 DEF Tracked
<1>4. reqs' = Append(reqs, q) /\ reqs \in Seq(Tracked)
  BY <1>2 DEF ProcPkgCli, Types
<1>5. /\ reqs' \in Seq(Tracked) /\ Len(reqs') = Len(reqs) + 1
      /\ \A k \in 1 .. Len(reqs) : reqs'[k] = reqs[k]
      /\ reqs'[Len(reqs) + 1] = q
  BY <1>3, <1>4, AppendProperties
<1>6. Arrives(q)
  <2>1. /\ q.next = 1 /\ q.refused = {} /\ q.answer = {} /\ q.status \in {"waiting", "error"}
        /\ q.what = r
    BY <1>2
  <2>2. disturbed' = disturbed \cup Meeting(q.what) /\ UNCHANGED store
    BY <2>1 DEF ProcPkgCli
  <2>3. QED
    BY <1>3, <1>5, <2>1, <2>2 DEF Arrives
<1>7. Len(reqs) \in Nat /\ \A k \in 1 .. Len(reqs') : reqs'[k] \in Tracked
  BY <1>4, <1>5, TrackedEach
<1>8. /\ doing' \in [Workers -> (1 .. Len(reqs')) \cup {Idle}]
      /\ \A v \in Workers : v # w \/ err[w] => doing'[v] = doing[v]
      /\ ~err[w] => doing'[w] = Len(reqs) + 1
  <2>1. doing \in [Workers -> (1 .. Len(reqs)) \cup {Idle}]
    BY DEF Types, TypeOK
  <2>2. 1 .. Len(reqs) \subseteq 1 .. Len(reqs') /\ Len(reqs) + 1 \in 1 .. Len(reqs')
    BY <1>5, <1>7
  <2>3. CASE err[w]
    BY <2>1, <2>2, <2>3 DEF ProcPkgCli
  <2>4. CASE ~err[w]
    BY <2>1, <2>2, <2>4 DEF ProcPkgCli
  <2>5. QED
    BY <2>3, <2>4
<1>9. ASSUME NEW v \in Workers, NEW x \in Workers, doing'[v] # Idle
      PROVE  reqs'[doing'[v]].status = "waiting" /\ (doing'[v] = doing'[x] => v = x)
  <2>1. /\ doing \in [Workers -> (1 .. Len(reqs)) \cup {Idle}]
        /\ \A y, z \in Workers : doing[y] # Idle =>
             reqs[doing[y]].status = "waiting" /\ (doing[y] = doing[z] => y = z)
    BY DEF Types, TypeOK
  <2>2. doing[w] = Idle
    BY DEF ProcPkgCli
  <2>3. CASE v # w \/ err[w]
    <3>1. doing'[v] = doing[v] /\ doing[v] \in 1 .. Len(reqs)
      BY <1>8, <1>9, <2>1, <2>3
    <3>2. reqs'[doing'[v]].status = "waiting"
      BY <1>5, <1>9, <2>1, <3>1
    <3>3. CASE x # w \/ err[w]
      BY <1>8, <1>9, <2>1, <3>1, <3>2, <3>3
    <3>4. CASE x = w /\ ~err[w]
      BY <1>7, <1>8, <3>1, <3>2, <3>4
    <3>5. QED
      BY <3>3, <3>4
  <2>4. CASE v = w /\ ~err[w]
    <3>1. doing'[v] = Len(reqs) + 1 /\ reqs'[doing'[v]].status = "waiting"
      BY <1>3, <1>5, <1>8, <2>4
    <3>2. Idle # Len(reqs) + 1
      BY <1>9, <3>1
    <3>3. ASSUME x # w PROVE doing'[x] # Len(reqs) + 1
      BY <1>7, <1>8, <2>1, <3>2, <3>3
    <3>4. QED
      BY <2>4, <3>1, <3>3
  <2>5. QED
    BY <2>3, <2>4
<1>10. UNCHANGED <<store, err, faults>>
  BY DEF ProcPkgCli
<1>11. Types'
  BY <1>5, <1>7, <1>8, <1>9, <1>10 DEF Types, TypeOK, store
<1>12. QED
  BY <1>6, <1>11

\* What the worker does to its request when it has done with it.
Ends(w, q) ==
  /\ doing[w] # Idle /\ Marks(doing[w], q) /\ doing' = [doing EXCEPT ![w] = Idle]
  /\ err' \in [Workers -> BOOLEAN] /\ faults' \in 0 .. MaxFaults

LEMMA EndsTypes ==
  ASSUME Types, NEW w \in Workers, NEW q, Ends(w, q)
  PROVE  Types'
<1>1. PICK i : i = doing[w]
  OBVIOUS
<1>2. /\ reqs' \in Seq(Tracked) /\ Len(reqs') = Len(reqs)
      /\ \A k \in 1 .. Len(reqs) : k # i => reqs'[k] = reqs[k]
      /\ UNCHANGED store
  BY <1>1 DEF Ends, Marks, Changes
<1>3. \A k \in 1 .. Len(reqs') : reqs'[k] \in Tracked
  BY <1>2, TrackedEach
<1>4. /\ doing \in [Workers -> (1 .. Len(reqs)) \cup {Idle}]
      /\ \A y, z \in Workers : doing[y] # Idle =>
           reqs[doing[y]].status = "waiting" /\ (doing[y] = doing[z] => y = z)
  BY DEF Types, TypeOK
<1>5. /\ doing' \in [Workers -> (1 .. Len(reqs)) \cup {Idle}]
      /\ doing'[w] = Idle /\ \A v \in Workers : v # w => doing'[v] = doing[v]
  BY <1>4 DEF Ends
<1>6. ASSUME NEW v \in Workers, NEW x \in Workers, doing'[v] # Idle
      PROVE  reqs'[doing'[v]].status = "waiting" /\ (doing'[v] = doing'[x] => v = x)
  <2>1. v # w /\ doing'[v] = doing[v]
    BY <1>5, <1>6
  <2>2. doing[v] \in 1 .. Len(reqs) /\ doing[v] # i /\ reqs[doing[v]].status = "waiting"
    BY <1>1, <1>4, <1>6, <2>1
  <2>3. reqs'[doing'[v]].status = "waiting"
    BY <1>2, <2>1, <2>2
  <2>4. CASE x = w
    BY <1>5, <1>6, <2>3, <2>4
  <2>5. CASE x # w
    BY <1>4, <1>5, <1>6, <2>1, <2>3, <2>5
  <2>6. QED
    BY <2>4, <2>5
<1>7. err' \in [Workers -> BOOLEAN] /\ faults' \in 0 .. MaxFaults
  BY DEF Ends
<1>8. QED
  BY <1>2, <1>3, <1>5, <1>6, <1>7 DEF Types, TypeOK, store

LEMMA AnswerEnds ==
  ASSUME Types, NEW w \in Workers, Answer(w)
  PROVE  \E q : Ends(w, q)
<1>1. PICK i : i = doing[w]
  OBVIOUS
<1>2. /\ doing[w] # Idle /\ i \in 1 .. Len(reqs) /\ reqs[i].status = "waiting"
      /\ reqs[i] \in Tracked
  BY <1>1 DEF Answer, Types, TypeOK
<1>3. PICK st \in {"error", "ok"} :
        st = IF reqs[i].extra \/ reqs[i].refused \cap Checked(Op(i)) # {} THEN "error" ELSE "ok"
  OBVIOUS
<1>4. PICK p, q : p \in Tracked /\ p = reqs[i] /\ q = [p EXCEPT !.status = st]
  BY <1>2
<1>5. q \in Tracked
  BY <1>3, <1>4 DEF Tracked
<1>6. reqs' = [reqs EXCEPT ![i] = q]
  BY <1>1, <1>3, <1>4 DEF Answer, Op
<1>7. Changes(i, q)
  BY <1>2, <1>5, <1>6, ChangesOne
<1>8. /\ q.what = reqs[i].what /\ q.next = reqs[i].next /\ q.gname = reqs[i].gname
      /\ q.refused = reqs[i].refused /\ q.answer = reqs[i].answer /\ q.status = st
  BY <1>4 DEF Tracked
<1>9. reqs[i].next > Commands(Op(i)) /\ UNCHANGED <<store, err, disturbed, faults>>
  BY <1>1 DEF Answer, Op
<1>10. st = "ok" => reqs[i].refused \cap Checked(Op(i)) = {}
  BY <1>3
<1>11. Marks(i, q)
  BY <1>2, <1>3, <1>5, <1>7, <1>8, <1>9, <1>10 DEF Marks
<1>12. err' \in [Workers -> BOOLEAN] /\ faults' \in 0 .. MaxFaults
  BY <1>9 DEF Types, TypeOK
<1>13. QED
  BY <1>1, <1>2, <1>11, <1>12 DEF Ends, Answer

LEMMA BrokenEnds ==
  ASSUME Types, NEW w \in Workers, AnswerLost(w) \/ WorkerKilled(w)
  PROVE  \E q : Ends(w, q)
<1>1. PICK i : i = doing[w]
  OBVIOUS
<1>2. PICK st \in {"error", "none"} : Broken(w, st) /\ err' \in [Workers -> BOOLEAN]
  <2>1. err \in [Workers -> BOOLEAN]
    BY DEF Types, TypeOK
  <2>2. CASE AnswerLost(w)
    BY <2>1, <2>2 DEF AnswerLost
  <2>3. CASE WorkerKilled(w)
    BY <2>1, <2>3 DEF WorkerKilled
  <2>4. QED
    BY <2>2, <2>3
<1>3. /\ doing[w] # Idle /\ i \in 1 .. Len(reqs) /\ reqs[i].status = "waiting"
      /\ reqs[i] \in Tracked
  BY <1>1, <1>2 DEF Broken, Types, TypeOK
<1>4. PICK l \in BOOLEAN : reqs' = [reqs EXCEPT ![i].status = st, ![i].lost = l]
  <2>1. PICK l \in IF reqs[i].what.op = "drop" /\ reqs[i].next = 1 THEN {TRUE} ELSE BOOLEAN :
          reqs' = [reqs EXCEPT ![i].status = st, ![i].lost = l]
    BY <1>1, <1>2 DEF Broken
  <2>2. l \in BOOLEAN
    BY <2>1
  <2>3. QED
    BY <2>1, <2>2
<1>5. PICK p, q : p \in Tracked /\ p = reqs[i] /\ q = [p EXCEPT !.status = st, !.lost = l]
  BY <1>3
<1>6. q \in Tracked
  BY <1>2, <1>5 DEF Tracked
<1>7. reqs' = [reqs EXCEPT ![i] = q]
  BY <1>4, <1>5
<1>8. Changes(i, q)
  BY <1>3, <1>6, <1>7, ChangesOne
<1>9. /\ q.what = reqs[i].what /\ q.next = reqs[i].next /\ q.gname = reqs[i].gname
      /\ q.refused = reqs[i].refused /\ q.answer = reqs[i].answer /\ q.status = st
  BY <1>5 DEF Tracked
<1>10. UNCHANGED <<store, disturbed>> /\ faults' \in 0 .. MaxFaults
  BY <1>2, FeedStoreAssumption DEF Broken, Types, TypeOK
<1>11. Marks(i, q)
  BY <1>2, <1>3, <1>6, <1>8, <1>9, <1>10 DEF Marks
<1>12. QED
  BY <1>1, <1>2, <1>3, <1>10, <1>11 DEF Ends, Broken

\* What a step can be.
Kinds ==
  \/ Rests
  \/ \E q : Arrives(q)
  \/ \E i, q : Marks(i, q)
  \/ \E i : Command(i)

LEMMA StepKinds ==
  ASSUME Types, [Next]_vars
  PROVE  Types' /\ Kinds
<1>1. CASE UNCHANGED vars
  BY <1>1 DEF vars, store, Types, TypeOK, Kinds, Rests
<1>2. CASE \E w \in Workers, r \in Requests : ProcPkgCli(w, r)
  BY <1>2, ArrivesTypes DEF Kinds
<1>3. CASE \E i \in 1 .. Len(reqs) : Execute(i) \/ Refuse(i)
  BY <1>3, CommandTypes DEF Kinds, Command
<1>4. CASE \E w \in Workers : Answer(w) \/ AnswerLost(w) \/ WorkerKilled(w)
  <2>1. PICK w, q : w \in Workers /\ Ends(w, q)
    BY <1>4, AnswerEnds, BrokenEnds
  <2>2. QED
    BY <2>1, EndsTypes DEF Kinds, Ends
<1>5. CASE \E w \in Workers : TimeEvent(w)
  <2>1. UNCHANGED <<store, reqs, doing, disturbed, faults>> /\ err' \in [Workers -> BOOLEAN]
    BY <1>5 DEF TimeEvent, Types, TypeOK
  <2>2. QED
    BY <2>1 DEF store, Types, TypeOK, Kinds, Rests
<1>6. QED
  BY <1>1, <1>2, <1>3, <1>4, <1>5 DEF Next

-----------------------------------------------------------------------------
(* The order of the requests on a key. *)

\* Redis or the worker is not done with request i.
Active(i) == Pending(i) \/ reqs[i].status = "waiting"

\* Two requests on the same key of which the first was not done when the second
\* came have disturbed the key.
Ordered ==
  \A i, j \in 1 .. Len(reqs) :
    j < i /\ Active(j) => Keys(reqs[j].what) \cap Keys(reqs[i].what) \subseteq disturbed

LEMMA Ages ==
  ASSUME Types, Kinds
  PROVE  /\ Len(reqs) \in Nat /\ Len(reqs') \in Nat /\ Len(reqs) <= Len(reqs')
         /\ disturbed \subseteq disturbed'
         /\ \A k \in 1 .. Len(reqs) :
              /\ k \in 1 .. Len(reqs') /\ reqs'[k].what = reqs[k].what
              /\ Active(k)' => Active(k)
<1>1. Len(reqs) \in Nat
  BY TrackedEach DEF Types
<1>2. CASE Rests
  BY <1>1, <1>2 DEF Rests, Active, Pending
<1>3. CASE \E q : Arrives(q)
  BY <1>1, <1>3 DEF Arrives, Active, Pending
<1>4. CASE \E i, q : Marks(i, q)
  <2>1. PICK i, q : Marks(i, q)
    BY <1>4
  <2>2. /\ Len(reqs') = Len(reqs) /\ UNCHANGED disturbed /\ Active(i)
        /\ \A k \in 1 .. Len(reqs) : k # i => reqs'[k] = reqs[k]
        /\ reqs'[i].what = reqs[i].what
    BY <2>1 DEF Marks, Changes, Active
  <2>3. QED
    BY <1>1, <2>2 DEF Active, Pending
<1>5. CASE \E i : Command(i)
  <2>1. PICK i, q : Runs(i, q)
    BY <1>5, CommandRuns
  <2>2. /\ Len(reqs') = Len(reqs) /\ disturbed \subseteq disturbed' /\ Active(i)
        /\ \A k \in 1 .. Len(reqs) : k # i => reqs'[k] = reqs[k]
        /\ reqs'[i].what = reqs[i].what
    BY <2>1 DEF Runs, Changes, Active
  <2>3. QED
    BY <1>1, <2>2 DEF Active, Pending
<1>6. QED
  BY <1>2, <1>3, <1>4, <1>5 DEF Kinds

LEMMA OrderedStep ==
  ASSUME Types, Ordered, Kinds
  PROVE  Ordered'
<1>1. SUFFICES ASSUME NEW i \in 1 .. Len(reqs'), NEW j \in 1 .. Len(reqs'), j < i, Active(j)'
               PROVE  Keys(reqs'[j].what) \cap Keys(reqs'[i].what) \subseteq disturbed'
  BY DEF Ordered
<1>2. CASE i \in 1 .. Len(reqs)
  <2>1. j \in 1 .. Len(reqs)
    BY <1>1, <1>2, Ages
  <2>2. Keys(reqs[j].what) \cap Keys(reqs[i].what) \subseteq disturbed
    BY <1>1, <1>2, <2>1, Ages DEF Ordered
  <2>3. QED
    BY <1>2, <2>1, <2>2, Ages
<1>3. CASE i \notin 1 .. Len(reqs)
  <2>1. PICK q : Arrives(q)
    BY <1>1, <1>3, CommandRuns DEF Kinds, Rests, Marks, Changes, Runs
  <2>2. i = Len(reqs) + 1 /\ reqs'[i] = q /\ j \in 1 .. Len(reqs)
    BY <1>1, <1>3, <2>1, Ages DEF Arrives
  <2>3. Active(j) /\ reqs'[j].what = reqs[j].what
    BY <1>1, <2>2, Ages
  <2>4. Keys(reqs[j].what) \cap Keys(q.what) \subseteq Meeting(q.what)
    BY <2>2, <2>3 DEF Meeting, Active
  <2>5. QED
    BY <2>1, <2>2, <2>3, <2>4 DEF Arrives
<1>4. QED
  BY <1>2, <1>3

\* Of the requests on a key that is not disturbed one at most is not done.
LEMMA Alone ==
  ASSUME Types, Ordered, NEW i \in 1 .. Len(reqs), NEW j \in 1 .. Len(reqs), i # j,
         Active(i), Active(j), NEW k, k \in Keys(reqs[i].what), k \in Keys(reqs[j].what)
  PROVE  k \in disturbed
<1>1. i < j \/ j < i
  BY TrackedEach DEF Types
<1>2. QED
  BY <1>1 DEF Ordered

\* A success is given after the last command, when no answer that was looked at
\* was an error.
Answered ==
  \A i \in 1 .. Len(reqs) : reqs[i].status = "ok" =>
    reqs[i].next > Commands(Op(i)) /\ reqs[i].refused \cap Checked(Op(i)) = {}

LEMMA AnsweredStep ==
  ASSUME Types, Answered, Kinds
  PROVE  Answered'
<1>1. SUFFICES ASSUME NEW i \in 1 .. Len(reqs'), reqs'[i].status = "ok"
               PROVE  /\ reqs'[i].next > Commands(reqs'[i].what.op)
                      /\ reqs'[i].refused \cap Checked(reqs'[i].what.op) = {}
  BY DEF Answered, Op
<1>2. CASE Rests
  BY <1>1, <1>2 DEF Rests, Answered, Op
<1>3. CASE \E q : Arrives(q)
  <2>1. PICK q : Arrives(q)
    BY <1>3
  <2>2. i \in 1 .. Len(reqs) /\ reqs'[i] = reqs[i]
    BY <1>1, <2>1, Ages DEF Arrives
  <2>3. QED
    BY <1>1, <2>2 DEF Answered, Op
<1>4. CASE \E j, q : Marks(j, q)
  <2>1. PICK j, q : Marks(j, q)
    BY <1>4
  <2>2. i \in 1 .. Len(reqs)
    BY <1>1, <2>1 DEF Marks, Changes
  <2>3. CASE i = j
    BY <1>1, <2>1, <2>3 DEF Marks, Changes, Op
  <2>4. CASE i # j
    BY <1>1, <2>1, <2>2, <2>4 DEF Marks, Changes, Answered, Op
  <2>5. QED
    BY <2>3, <2>4
<1>5. CASE \E j : Command(j)
  <2>1. PICK j, q : Runs(j, q)
    BY <1>5, CommandRuns
  <2>2. i \in 1 .. Len(reqs) /\ (i # j => reqs'[i] = reqs[i])
    BY <1>1, <2>1 DEF Runs, Changes
  <2>3. CASE i = j
    <3>1. Pending(i) /\ reqs[i].status = "ok"
      BY <1>1, <2>1, <2>3 DEF Runs, Changes
    <3>2. reqs[i].next > Commands(Op(i)) /\ reqs[i].next <= Commands(Op(i))
      BY <2>2, <3>1, Next1 DEF Answered
    <3>3. QED
      BY <2>2, <3>1, <3>2, Next1
  <2>4. CASE i # j
    BY <1>1, <2>2, <2>4 DEF Answered, Op
  <2>5. QED
    BY <2>3, <2>4
<1>6. QED
  BY <1>2, <1>3, <1>4, <1>5 DEF Kinds

-----------------------------------------------------------------------------
(* What the executed commands of a request have left in the store. *)

\* No other request met request i, and no later one is for a change.
Clear(i) ==
  /\ Keys(reqs[i].what) \cap disturbed = {}
  /\ \A j \in i + 1 .. Len(reqs) :
       Op(j) \in Writes => Keys(reqs[j].what) \cap Keys(reqs[i].what) = {}

\* Redis has executed command k of request i.
Done(i, k) == reqs[i].next > k /\ k \notin reqs[i].refused

AddDone(i) ==
  LET r == reqs[i].what
  IN /\ Done(i, 1) => r.m \in flist[r.u][r.g]
     /\ Done(i, 2) => glist[r.u][r.m] = r.g
     /\ Done(i, 3) => r.m \in list[r.u]
     /\ Done(i, 4) => r.u \in fans[r.m]

DropDone(i) ==
  LET r == reqs[i].what
  IN /\ Done(i, 3) => glist[r.u][r.m] = NoGroup
     /\ Done(i, 4) => r.m \notin list[r.u]
     /\ Done(i, 5) => r.u \notin fans[r.m]

RelationDone(i) ==
  LET r == reqs[i].what
  IN /\ Done(i, 1) => (1 \in reqs[i].answer <=> r.m \in list[r.u])
     /\ Done(i, 2) => (2 \in reqs[i].answer <=> r.m \in fans[r.u])
     /\ reqs[i].next <= 2 => 2 \notin reqs[i].answer

EffectOf(i) ==
  /\ Op(i) = "add" => AddDone(i)
  /\ Op(i) = "drop" => DropDone(i)
  /\ Op(i) = "relation" => RelationDone(i)

Effects == \A i \in 1 .. Len(reqs) : Clear(i) => EffectOf(i)

LEMMA ClearBefore ==
  ASSUME Types, Kinds, NEW i \in 1 .. Len(reqs), Clear(i)'
  PROVE  Clear(i)
<1>1. /\ Keys(reqs'[i].what) \cap disturbed' = {}
      /\ \A j \in i + 1 .. Len(reqs') :
           reqs'[j].what.op \in Writes => Keys(reqs'[j].what) \cap Keys(reqs'[i].what) = {}
  BY DEF Clear, Op
<1>2. Keys(reqs[i].what) \cap disturbed = {}
  BY <1>1, Ages
<1>3. ASSUME NEW j \in i + 1 .. Len(reqs), Op(j) \in Writes
      PROVE  Keys(reqs[j].what) \cap Keys(reqs[i].what) = {}
  <2>1. j \in 1 .. Len(reqs) /\ j \in i + 1 .. Len(reqs')
    BY Ages
  <2>2. QED
    BY <1>1, <1>3, <2>1, Ages DEF Op
<1>4. QED
  BY <1>2, <1>3 DEF Clear

\* The commands of another request leave the pairs of a request alone.
LEMMA OtherCommand ==
  ASSUME Types, Ordered, Kinds, NEW i \in 1 .. Len(reqs), Clear(i)', NEW j, Command(j), i # j,
         NEW u \in Users, NEW m \in Users, <<u, m>> \in Keys(reqs[i].what)
  PROVE  Untouched(u, m)
<1>1. j \in 1 .. Len(reqs) /\ Others(j)
  BY CommandRuns DEF Command
<1>2. Clear(i)
  BY ClearBefore
<1>3. <<u, m>> \notin disturbed'
  BY Ages DEF Clear
<1>4. Active(j)
  BY CommandRuns DEF Runs, Active
<1>5. ~Wants(j, u, m)
  <2>1. SUFFICES ASSUME Wants(j, u, m) PROVE FALSE
    OBVIOUS
  <2>2. Op(j) \in Writes /\ <<u, m>> \in Keys(reqs[j].what)
    BY <1>1, <2>1, PairOf DEF Wants, Writes
  <2>3. CASE j < i
    BY <1>1, <1>2, <1>4, <2>2, <2>3 DEF Ordered, Clear
  <2>4. CASE i < j
    <3>1. j \in i + 1 .. Len(reqs)
      BY <1>1, <2>4, Ages
    <3>2. QED
      BY <1>2, <2>2, <3>1 DEF Clear
  <2>5. QED
    BY <1>1, <2>3, <2>4
<1>6. QED
  BY <1>1, <1>3, <1>5 DEF Others

\* Where nothing happens to a request and its pairs, what it left stays.
LEMMA EffectKept ==
  ASSUME Types, NEW i \in 1 .. Len(reqs), EffectOf(i),
         reqs'[i].what = reqs[i].what, reqs'[i].next = reqs[i].next,
         reqs'[i].refused = reqs[i].refused, reqs'[i].answer = reqs[i].answer,
         \A u, m \in Users : <<u, m>> \in Keys(reqs[i].what) => Untouched(u, m)
  PROVE  EffectOf(i)'
<1>1. \A k \in 1 .. 5 : Done(i, k)' <=> Done(i, k)
  BY DEF Done
<1>2. Op(i)' = Op(i)
  BY DEF Op
<1>3. CASE Op(i) = "add"
  <2>1. PICK u \in Users, m \in Users, g \in Groups :
          u = reqs[i].what.u /\ m = reqs[i].what.m /\ g = reqs[i].what.g
    BY <1>3, PairOf
  <2>2. Untouched(u, m)
    BY <1>3, <2>1, PairOf
  <2>3. AddDone(i)'
    BY <1>1, <1>3, <2>1, <2>2 DEF EffectOf, AddDone, Untouched
  <2>4. QED
    BY <1>2, <1>3, <2>3 DEF EffectOf
<1>4. CASE Op(i) = "drop"
  <2>1. PICK u \in Users, m \in Users : u = reqs[i].what.u /\ m = reqs[i].what.m
    BY <1>4, PairOf
  <2>2. Untouched(u, m)
    BY <1>4, <2>1, PairOf
  <2>3. DropDone(i)'
    BY <1>1, <1>4, <2>1, <2>2 DEF EffectOf, DropDone, Untouched
  <2>4. QED
    BY <1>2, <1>4, <2>3 DEF EffectOf
<1>5. CASE Op(i) = "relation"
  <2>1. PICK u \in Users, m \in Users : u = reqs[i].what.u /\ m = reqs[i].what.m
    BY <1>5, RelationPair
  <2>2. Untouched(u, m) /\ Untouched(m, u)
    BY <1>5, <2>1, RelationPair
  <2>3. /\ (m \in list'[u] <=> m \in list[u]) /\ (m \in fans'[u] <=> m \in fans[u])
        /\ (Done(i, 1)' <=> Done(i, 1)) /\ (Done(i, 2)' <=> Done(i, 2))
    BY <1>1, <2>2 DEF Untouched
  <2>4. RelationDone(i)
    BY <1>5 DEF EffectOf
  <2>5. RelationDone(i)'
    BY <2>1, <2>3, <2>4 DEF RelationDone
  <2>6. QED
    BY <1>2, <1>5, <2>5 DEF EffectOf
<1>6. CASE Op(i) \notin {"add", "drop", "relation"}
  BY <1>2, <1>6 DEF EffectOf
<1>7. QED
  BY <1>3, <1>4, <1>5, <1>6

\* The next command is executed: one more has had its effect.
LEMMA DoneExecuted ==
  ASSUME Types, NEW i \in 1 .. Len(reqs), NEW q, Runs(i, q), q.refused = reqs[i].refused,
         NEW k \in 1 .. 5, Done(i, k)'
  PROVE  Done(i, k) \/ k = reqs[i].next
<1>1. reqs[i].next \in 1 .. 5 /\ reqs'[i] = q /\ q.next = reqs[i].next + 1
  BY Next1 DEF Runs, Changes
<1>2. QED
  BY <1>1 DEF Done

LEMMA DoneRefused ==
  ASSUME Types, NEW i \in 1 .. Len(reqs), Refuse(i), NEW k \in 1 .. 5, Done(i, k)'
  PROVE  Done(i, k)
<1>1. PICK q : Runs(i, q) /\ q.refused = reqs[i].refused \cup {reqs[i].next}
  BY RefuseRuns
<1>2. reqs[i].next \in 1 .. 5 /\ reqs'[i] = q /\ q.next = reqs[i].next + 1
  BY <1>1, Next1 DEF Runs, Changes
<1>3. QED
  BY <1>1, <1>2 DEF Done

\* What the commands of a request can be.
LEMMA AddCommands ==
  ASSUME NEW i, Command(i), Op(i) = "add"
  PROVE  \/ AddAttention1(i) \/ AddAttention2(i) \/ AddAttention3(i) \/ AddAttention4(i)
         \/ Refuse(i)
BY DEF Command, Execute, Op, At, DropAttention1, DropAttention2, DropAttention3, DropAttention4,
       DropAttention5, AddGroup, DropGroup, UpdateFeedMimiID, QueryRelation1, QueryRelation2,
       Query, QueryGroup, QueryList, QueryListByGroup, QueryFansList, QueryFeedMimiID

LEMMA DropCommands ==
  ASSUME NEW i, Command(i), Op(i) = "drop"
  PROVE  \/ DropAttention1(i) \/ DropAttention2(i) \/ DropAttention3(i)
         \/ \E x \in Users \cup {NoUser} : DropAttention4(i, x) \/ DropAttention5(i, x)
         \/ Refuse(i)
BY DEF Command, Execute, Op, At, AddAttention1, AddAttention2, AddAttention3, AddAttention4,
       AddGroup, DropGroup, UpdateFeedMimiID, QueryRelation1, QueryRelation2,
       Query, QueryGroup, QueryList, QueryListByGroup, QueryFansList, QueryFeedMimiID

LEMMA RelationCommands ==
  ASSUME NEW i, Command(i), Op(i) = "relation"
  PROVE  QueryRelation1(i) \/ QueryRelation2(i) \/ Refuse(i)
BY DEF Command, Execute, Op, At, AddAttention1, AddAttention2, AddAttention3, AddAttention4,
       DropAttention1, DropAttention2, DropAttention3, DropAttention4, DropAttention5,
       AddGroup, DropGroup, UpdateFeedMimiID, Query, QueryGroup, QueryList, QueryListByGroup,
       QueryFansList, QueryFeedMimiID

LEMMA RefusedKeeps ==
  ASSUME Types, NEW i \in 1 .. Len(reqs), Refuse(i), EffectOf(i)
  PROVE  EffectOf(i)'
<1>1. PICK q : Runs(i, q) /\ q.answer = reqs[i].answer
  BY RefuseRuns
<1>2. reqs'[i] = q /\ reqs[i].next \in 1 .. 5
  BY <1>1, Next1 DEF Runs, Changes
<1>3. /\ reqs'[i].what = reqs[i].what /\ reqs'[i].next = reqs[i].next + 1
      /\ reqs'[i].answer = reqs[i].answer
  BY <1>1, <1>2 DEF Runs
<1>4. \A k \in 1 .. 5 : Done(i, k)' => Done(i, k)
  BY DoneRefused
<1>5. UNCHANGED <<flist, glist, list, fans>>
  BY DEF Refuse, store
<1>6. Op(i) = "add" => AddDone(i)'
  BY <1>3, <1>4, <1>5 DEF EffectOf, AddDone
<1>7. Op(i) = "drop" => DropDone(i)'
  BY <1>3, <1>4, <1>5 DEF EffectOf, DropDone
<1>8. Op(i) = "relation" => RelationDone(i)'
  <2>1. reqs[i].next + 1 <= 2 => reqs[i].next <= 2
    BY <1>2
  <2>2. QED
    BY <1>3, <1>4, <1>5, <2>1 DEF EffectOf, RelationDone
<1>9. QED
  BY <1>3, <1>6, <1>7, <1>8 DEF EffectOf, Op

LEMMA AddOwn ==
  ASSUME Types, NEW i \in 1 .. Len(reqs), Command(i), Op(i) = "add", EffectOf(i)
  PROVE  EffectOf(i)'
<1>1. PICK u \in Users, m \in Users, g \in Groups :
        u = reqs[i].what.u /\ m = reqs[i].what.m /\ g = reqs[i].what.g
  BY PairOf
<1>2. AddDone(i)
  BY DEF EffectOf
<1>3. CASE AddAttention1(i)
  <2>1. PICK q : Runs(i, q) /\ q.refused = reqs[i].refused
    BY <1>3, Add1 DEF Bare
  <2>2. reqs[i].next = 1 /\ m \in flist'[u][g] /\ UNCHANGED <<glist, list, fans>>
    BY <1>1, <1>3, Add1 DEF Step
  <2>3. \A n \in 1 .. 5 : Done(i, n)' => Done(i, n) \/ n = 1
    BY <2>1, <2>2, DoneExecuted
  <2>4. reqs'[i].what = reqs[i].what
    BY <2>1 DEF Runs, Changes
  <2>5. AddDone(i)'
    BY <1>1, <1>2, <2>2, <2>3, <2>4 DEF AddDone
  <2>6. QED
    BY <2>4, <2>5 DEF EffectOf, Op
<1>4. CASE AddAttention2(i)
  <2>1. PICK q : Runs(i, q) /\ q.refused = reqs[i].refused
    BY <1>4, Add2 DEF Bare
  <2>2. reqs[i].next = 2 /\ glist'[u][m] = g /\ UNCHANGED <<flist, list, fans>>
    BY <1>1, <1>4, Add2 DEF Step
  <2>3. \A n \in 1 .. 5 : Done(i, n)' => Done(i, n) \/ n = 2
    BY <2>1, <2>2, DoneExecuted
  <2>4. reqs'[i].what = reqs[i].what
    BY <2>1 DEF Runs, Changes
  <2>5. AddDone(i)'
    BY <1>1, <1>2, <2>2, <2>3, <2>4 DEF AddDone
  <2>6. QED
    BY <2>4, <2>5 DEF EffectOf, Op
<1>5. CASE AddAttention3(i)
  <2>1. PICK q : Runs(i, q) /\ q.refused = reqs[i].refused
    BY <1>5, Add3 DEF Bare
  <2>2. reqs[i].next = 3 /\ m \in list'[u] /\ UNCHANGED <<flist, glist, fans>>
    BY <1>1, <1>5, Add3 DEF Step
  <2>3. \A n \in 1 .. 5 : Done(i, n)' => Done(i, n) \/ n = 3
    BY <2>1, <2>2, DoneExecuted
  <2>4. reqs'[i].what = reqs[i].what
    BY <2>1 DEF Runs, Changes
  <2>5. AddDone(i)'
    BY <1>1, <1>2, <2>2, <2>3, <2>4 DEF AddDone
  <2>6. QED
    BY <2>4, <2>5 DEF EffectOf, Op
<1>6. CASE AddAttention4(i)
  <2>1. PICK q : Runs(i, q) /\ q.refused = reqs[i].refused
    BY <1>6, Add4 DEF Bare
  <2>2. reqs[i].next = 4 /\ u \in fans'[m] /\ UNCHANGED <<flist, glist, list>>
    BY <1>1, <1>6, Add4 DEF Step
  <2>3. \A n \in 1 .. 5 : Done(i, n)' => Done(i, n) \/ n = 4
    BY <2>1, <2>2, DoneExecuted
  <2>4. reqs'[i].what = reqs[i].what
    BY <2>1 DEF Runs, Changes
  <2>5. AddDone(i)'
    BY <1>1, <1>2, <2>2, <2>3, <2>4 DEF AddDone
  <2>6. QED
    BY <2>4, <2>5 DEF EffectOf, Op
<1>7. CASE Refuse(i)
  BY <1>7, RefusedKeeps
<1>8. QED
  BY <1>3, <1>4, <1>5, <1>6, <1>7, AddCommands

LEMMA DropOwn ==
  ASSUME Types, NEW i \in 1 .. Len(reqs), Command(i), Op(i) = "drop", EffectOf(i)
  PROVE  EffectOf(i)'
<1>1. PICK u \in Users, m \in Users : u = reqs[i].what.u /\ m = reqs[i].what.m
  BY PairOf
<1>2. DropDone(i)
  BY DEF EffectOf
<1>3. CASE DropAttention1(i)
  <2>1. PICK q : Runs(i, q) /\ q.refused = reqs[i].refused
    BY <1>3, Drop1
  <2>2. reqs[i].next = 1 /\ UNCHANGED <<glist, list, fans>>
    BY <1>1, <1>3, Drop1 DEF Step
  <2>3. \A n \in 1 .. 5 : Done(i, n)' => Done(i, n) \/ n = 1
    BY <2>1, <2>2, DoneExecuted
  <2>4. reqs'[i].what = reqs[i].what
    BY <2>1 DEF Runs, Changes
  <2>5. DropDone(i)'
    BY <1>1, <1>2, <2>2, <2>3, <2>4 DEF DropDone
  <2>6. QED
    BY <2>4, <2>5 DEF EffectOf, Op
<1>4. CASE DropAttention2(i)
  <2>1. PICK q : Runs(i, q) /\ q.refused = reqs[i].refused
    BY <1>4, Drop2 DEF Bare
  <2>2. reqs[i].next = 2 /\ UNCHANGED <<glist, list, fans>>
    BY <1>1, <1>4, Drop2 DEF Step
  <2>3. \A n \in 1 .. 5 : Done(i, n)' => Done(i, n) \/ n = 2
    BY <2>1, <2>2, DoneExecuted
  <2>4. reqs'[i].what = reqs[i].what
    BY <2>1 DEF Runs, Changes
  <2>5. DropDone(i)'
    BY <1>1, <1>2, <2>2, <2>3, <2>4 DEF DropDone
  <2>6. QED
    BY <2>4, <2>5 DEF EffectOf, Op
<1>5. CASE DropAttention3(i)
  <2>1. PICK q : Runs(i, q) /\ q.refused = reqs[i].refused
    BY <1>5, Drop3 DEF Bare
  <2>2. reqs[i].next = 3 /\ glist'[u][m] = NoGroup /\ UNCHANGED <<list, fans>>
    BY <1>1, <1>5, Drop3 DEF Step
  <2>3. \A n \in 1 .. 5 : Done(i, n)' => Done(i, n) \/ n = 3
    BY <2>1, <2>2, DoneExecuted
  <2>4. reqs'[i].what = reqs[i].what
    BY <2>1 DEF Runs, Changes
  <2>5. DropDone(i)'
    BY <1>1, <1>2, <2>2, <2>3, <2>4 DEF DropDone
  <2>6. QED
    BY <2>4, <2>5 DEF EffectOf, Op
<1>6. ASSUME NEW x \in Users \cup {NoUser}, DropAttention4(i, x) PROVE EffectOf(i)'
  <2>1. PICK q : Runs(i, q) /\ q.refused = reqs[i].refused
    BY <1>6, Drop4
  <2>2. reqs[i].next = 4 /\ m \notin list'[u] /\ UNCHANGED <<glist, fans>>
    BY <1>1, <1>6, Drop4 DEF Step
  <2>3. \A n \in 1 .. 5 : Done(i, n)' => Done(i, n) \/ n = 4
    BY <2>1, <2>2, DoneExecuted
  <2>4. reqs'[i].what = reqs[i].what
    BY <2>1 DEF Runs, Changes
  <2>5. DropDone(i)'
    BY <1>1, <1>2, <2>2, <2>3, <2>4 DEF DropDone
  <2>6. QED
    BY <2>4, <2>5 DEF EffectOf, Op
<1>7. ASSUME NEW x \in Users \cup {NoUser}, DropAttention5(i, x) PROVE EffectOf(i)'
  <2>1. PICK q : Runs(i, q) /\ q.refused = reqs[i].refused
    BY <1>7, Drop5
  <2>2. reqs[i].next = 5 /\ u \notin fans'[m] /\ UNCHANGED <<glist, list>>
    BY <1>1, <1>7, Drop5 DEF Step
  <2>3. \A n \in 1 .. 5 : Done(i, n)' => Done(i, n) \/ n = 5
    BY <2>1, <2>2, DoneExecuted
  <2>4. reqs'[i].what = reqs[i].what
    BY <2>1 DEF Runs, Changes
  <2>5. DropDone(i)'
    BY <1>1, <1>2, <2>2, <2>3, <2>4 DEF DropDone
  <2>6. QED
    BY <2>4, <2>5 DEF EffectOf, Op
<1>8. CASE Refuse(i)
  BY <1>8, RefusedKeeps
<1>9. QED
  BY <1>3, <1>4, <1>5, <1>6, <1>7, <1>8, DropCommands

LEMMA RelationOwn ==
  ASSUME Types, NEW i \in 1 .. Len(reqs), Command(i), Op(i) = "relation", EffectOf(i)
  PROVE  EffectOf(i)'
<1>1. PICK u \in Users, m \in Users : u = reqs[i].what.u /\ m = reqs[i].what.m
  BY RelationPair
<1>2. RelationDone(i)
  BY DEF EffectOf
<1>3. CASE QueryRelation1(i)
  <2>1. /\ reqs[i].next = 1 /\ UNCHANGED store
        /\ Reads(i, IF m \in list[u] THEN {1} ELSE {})
    BY <1>1, <1>3, Relation1 DEF Step
  <2>2. PICK q : /\ Runs(i, q) /\ q.refused = reqs[i].refused
                 /\ q.answer = IF m \in list[u] THEN {1} ELSE {}
    BY <2>1 DEF Reads
  <2>3. \A n \in 1 .. 5 : Done(i, n)' => Done(i, n) \/ n = 1
    BY <2>1, <2>2, DoneExecuted
  <2>4. reqs'[i].what = reqs[i].what /\ reqs'[i].answer = q.answer
    BY <2>2 DEF Runs, Changes
  <2>5. ~Done(i, 2)
    BY <2>1 DEF Done
  <2>6. (1 \in q.answer <=> m \in list[u]) /\ 2 \notin q.answer
    BY <2>2
  <2>7. RelationDone(i)'
    BY <1>1, <2>1, <2>3, <2>4, <2>5, <2>6 DEF RelationDone, store
  <2>8. QED
    BY <2>4, <2>7 DEF EffectOf, Op
<1>4. CASE QueryRelation2(i)
  <2>1. /\ reqs[i].next = 2 /\ UNCHANGED store
        /\ Reads(i, reqs[i].answer \cup (IF m \in fans[u] THEN {2} ELSE {}))
    BY <1>1, <1>4, Relation2 DEF Step
  <2>2. PICK q : /\ Runs(i, q) /\ q.refused = reqs[i].refused
                 /\ q.answer = reqs[i].answer \cup (IF m \in fans[u] THEN {2} ELSE {})
    BY <2>1 DEF Reads
  <2>3. \A n \in 1 .. 5 : Done(i, n)' => Done(i, n) \/ n = 2
    BY <2>1, <2>2, DoneExecuted
  <2>4. /\ reqs'[i].what = reqs[i].what /\ reqs'[i].answer = q.answer
        /\ reqs'[i].next = 3
    BY <2>1, <2>2 DEF Runs, Changes
  <2>5. 2 \notin reqs[i].answer
    BY <1>2, <2>1 DEF RelationDone
  <2>6. (1 \in q.answer <=> 1 \in reqs[i].answer) /\ (2 \in q.answer <=> m \in fans[u])
    BY <2>2, <2>5
  <2>7. RelationDone(i)'
    BY <1>1, <1>2, <2>1, <2>3, <2>4, <2>6 DEF RelationDone, store
  <2>8. QED
    BY <2>4, <2>7 DEF EffectOf, Op
<1>5. CASE Refuse(i)
  BY <1>5, RefusedKeeps
<1>6. QED
  BY <1>3, <1>4, <1>5, RelationCommands

LEMMA EffectsStep ==
  ASSUME Types, Ordered, Effects, Kinds
  PROVE  Effects'
<1>1. SUFFICES ASSUME NEW i \in 1 .. Len(reqs'), Clear(i)'
               PROVE  EffectOf(i)'
  BY DEF Effects
<1>2. CASE i \notin 1 .. Len(reqs)
  <2>1. PICK q : Arrives(q)
    BY <1>1, <1>2, CommandRuns DEF Kinds, Rests, Marks, Changes, Runs
  <2>2. reqs'[i] = q /\ q.next = 1 /\ q.answer = {}
    BY <1>1, <1>2, <2>1, Ages DEF Arrives
  <2>3. \A k \in 1 .. 5 : ~Done(i, k)'
    BY <2>2 DEF Done
  <2>4. QED
    BY <2>2, <2>3 DEF EffectOf, AddDone, DropDone, RelationDone
<1>3. CASE i \in 1 .. Len(reqs)
  <2>1. EffectOf(i)
    BY <1>1, <1>3, ClearBefore DEF Effects
  <2>2. CASE UNCHANGED store
             /\ reqs'[i].what = reqs[i].what /\ reqs'[i].next = reqs[i].next
             /\ reqs'[i].refused = reqs[i].refused /\ reqs'[i].answer = reqs[i].answer
    <3>1. \A u, m \in Users : Untouched(u, m)
      BY <2>2 DEF Untouched, store
    <3>2. QED
      BY <1>3, <2>1, <2>2, <3>1, EffectKept
  <2>3. CASE Rests
    BY <2>2, <2>3 DEF Rests
  <2>4. CASE \E q : Arrives(q)
    BY <1>3, <2>2, <2>4 DEF Arrives
  <2>5. CASE \E j, q : Marks(j, q)
    <3>1. PICK j, q : Marks(j, q)
      BY <2>5
    <3>2. CASE i = j
      BY <2>2, <3>1, <3>2 DEF Marks, Changes
    <3>3. CASE i # j
      BY <1>3, <2>2, <3>1, <3>3 DEF Marks, Changes
    <3>4. QED
      BY <3>2, <3>3
  <2>6. CASE \E j : Command(j)
    <3>1. PICK j : Command(j)
      BY <2>6
    <3>2. CASE i = j
      <4>1. Op(i) \notin {"add", "drop", "relation"} => EffectOf(i)'
        BY <1>3, Ages DEF EffectOf, Op
      <4>2. QED
        BY <1>3, <2>1, <3>1, <3>2, <4>1, AddOwn, DropOwn, RelationOwn
    <3>3. CASE i # j
      <4>1. reqs'[i] = reqs[i]
        BY <1>3, <3>1, <3>3, CommandRuns DEF Runs, Changes
      <4>2. \A u, m \in Users : <<u, m>> \in Keys(reqs[i].what) => Untouched(u, m)
        BY <1>1, <1>3, <3>1, <3>3, OtherCommand
      <4>3. QED
        BY <1>3, <2>1, <4>1, <4>2, EffectKept
    <3>4. QED
      BY <3>2, <3>3
  <2>7. QED
    BY <2>3, <2>4, <2>5, <2>6 DEF Kinds
<1>4. QED
  BY <1>2, <1>3

\* A success is the whole effect.
LEMMA SuccessHolds ==
  ASSUME Types, Answered, Effects, NEW i \in 1 .. Len(reqs), Stands(i)
  PROVE  LET r == reqs[i].what
         IN /\ Op(i) = "add" =>
                 /\ r.m \in flist[r.u][r.g] /\ glist[r.u][r.m] = r.g
                 /\ r.m \in list[r.u] /\ r.u \in fans[r.m]
            /\ Op(i) = "drop" =>
                 glist[r.u][r.m] = NoGroup /\ r.m \notin list[r.u] /\ r.u \notin fans[r.m]
<1>1. EffectOf(i)
  BY DEF Effects, Clear, Stands
<1>2. reqs[i].next > Commands(Op(i)) /\ reqs[i].refused \cap Checked(Op(i)) = {}
  BY DEF Answered, Stands
<1>3. reqs[i].next \in 1 .. 6
  BY DEF Types, TypeOK, Tracked
<1>4. ASSUME Op(i) = "add" PROVE \A k \in 1 .. 4 : Done(i, k)
  <2>1. Commands(Op(i)) = 4 /\ Checked(Op(i)) = 1 .. 4
    BY <1>4 DEF Commands, Checked
  <2>2. QED
    BY <1>2, <1>3, <2>1 DEF Done
<1>5. ASSUME Op(i) = "drop" PROVE \A k \in 2 .. 5 : Done(i, k)
  <2>1. Commands(Op(i)) = 5 /\ Checked(Op(i)) = 2 .. 5
    BY <1>5 DEF Commands, Checked
  <2>2. QED
    BY <1>2, <1>3, <2>1 DEF Done
<1>6. QED
  BY <1>1, <1>4, <1>5 DEF EffectOf, AddDone, DropDone

-----------------------------------------------------------------------------
(* Who never asked, and the last who asked. *)

\* Nothing is kept of an attention nobody asked for.
Strangers ==
  \A u, m \in Users :
    <<u, m>> \notin disturbed /\ (\A i \in 1 .. Len(reqs) : ~Wants(i, u, m))
      => m \notin list[u] /\ u \notin fans[m]

LEMMA StrangersStep ==
  ASSUME Types, Strangers, Kinds
  PROVE  Strangers'
<1>1. SUFFICES ASSUME NEW u \in Users, NEW m \in Users, <<u, m>> \notin disturbed',
                      \A i \in 1 .. Len(reqs') : ~Wants(i, u, m)'
               PROVE  m \notin list'[u] /\ u \notin fans'[m]
  BY DEF Strangers
<1>2. <<u, m>> \notin disturbed /\ \A i \in 1 .. Len(reqs) : ~Wants(i, u, m)
  BY <1>1, Ages DEF Wants, Op
<1>3. m \notin list[u] /\ u \notin fans[m]
  BY <1>2 DEF Strangers
<1>4. CASE UNCHANGED store
  BY <1>3, <1>4 DEF store
<1>5. CASE \E j : Command(j)
  <2>1. PICK j : Command(j)
    BY <1>5
  <2>2. Others(j) /\ ~Wants(j, u, m)
    BY <1>2, <2>1, CommandRuns DEF Command
  <2>3. Untouched(u, m)
    BY <1>1, <2>2 DEF Others
  <2>4. QED
    BY <1>3, <2>3 DEF Untouched
<1>6. QED
  BY <1>4, <1>5 DEF Kinds, Rests, Arrives, Marks

\* Of the requests to change a pair there is a last one.
LastWanted ==
  \A u, m \in Users :
    \/ \A i \in 1 .. Len(reqs) : ~Wants(i, u, m)
    \/ \E i \in 1 .. Len(reqs) :
         Wants(i, u, m) /\ \A k \in i + 1 .. Len(reqs) : ~Wants(k, u, m)

LEMMA LastWantedStep ==
  ASSUME Types, LastWanted, Kinds
  PROVE  LastWanted'
<1>1. SUFFICES ASSUME NEW u \in Users, NEW m \in Users
               PROVE  \/ \A i \in 1 .. Len(reqs') : ~Wants(i, u, m)'
                      \/ \E i \in 1 .. Len(reqs') :
                           /\ Wants(i, u, m)'
                           /\ \A k \in i + 1 .. Len(reqs') : ~Wants(k, u, m)'
  BY DEF LastWanted
<1>2. /\ Len(reqs) \in Nat /\ Len(reqs') \in Nat /\ Len(reqs) <= Len(reqs')
      /\ \A k \in 1 .. Len(reqs) : Wants(k, u, m)' <=> Wants(k, u, m)
  BY Ages DEF Wants, Op
<1>3. Len(reqs') = Len(reqs) \/ Len(reqs') = Len(reqs) + 1
  BY CommandRuns DEF Kinds, Rests, Arrives, Marks, Changes, Runs
<1>4. PICK n \in Nat : n = Len(reqs')
  BY <1>2
<1>5. CASE n # Len(reqs) /\ Wants(n, u, m)'
  <2>1. n \in 1 .. Len(reqs') /\ n + 1 .. Len(reqs') = {}
    BY <1>2, <1>3, <1>4, <1>5
  <2>2. QED
    BY <1>5, <2>1
<1>6. CASE n = Len(reqs) \/ ~Wants(n, u, m)'
  <2>1. \A k \in 1 .. Len(reqs') : k \in 1 .. Len(reqs) \/ ~Wants(k, u, m)'
    BY <1>2, <1>3, <1>4, <1>6
  <2>2. CASE \A i \in 1 .. Len(reqs) : ~Wants(i, u, m)
    BY <1>2, <2>1, <2>2
  <2>3. CASE \E i \in 1 .. Len(reqs) :
               Wants(i, u, m) /\ \A k \in i + 1 .. Len(reqs) : ~Wants(k, u, m)
    <3>1. PICK i \in 1 .. Len(reqs) :
            Wants(i, u, m) /\ \A k \in i + 1 .. Len(reqs) : ~Wants(k, u, m)
      BY <2>3
    <3>2. i \in 1 .. Len(reqs') /\ Wants(i, u, m)'
      BY <1>2, <3>1
    <3>3. ASSUME NEW k \in i + 1 .. Len(reqs') PROVE ~Wants(k, u, m)'
      <4>1. k \in 1 .. Len(reqs')
        BY <1>2
      <4>2. CASE k \in 1 .. Len(reqs)
        <5>1. k \in i + 1 .. Len(reqs)
          BY <1>2, <4>2
        <5>2. QED
          BY <1>2, <3>1, <4>2, <5>1
      <4>3. CASE k \notin 1 .. Len(reqs)
        BY <2>1, <4>1, <4>3
      <4>4. QED
        BY <4>2, <4>3
    <3>4. QED
      BY <3>2, <3>3
  <2>4. QED
    BY <2>2, <2>3 DEF LastWanted
<1>7. QED
  BY <1>5, <1>6

\* Only an attention or its end changes a pair of users.
LEMMA PairWrites ==
  ASSUME Types, NEW k \in 1 .. Len(reqs), Op(k) \in Writes, NEW a \in Users, NEW b \in Users,
         <<a, b>> \in Keys(reqs[k].what)
  PROVE  Wants(k, a, b)
<1>1. PICK r \in RequestType : r = reqs[k].what
  BY DEF Types, TypeOK, Tracked
<1>2. CASE Op(k) \in {"add", "drop"}
  BY <1>2, PairOf DEF Wants
<1>3. CASE Op(k) \in {"addgroup", "dropgroup"}
  <2>1. Keys(r) = {<<r.u, r.g>>} /\ r.g \in Groups
    BY <1>1, <1>3, Fields DEF Keys, Op
  <2>2. b = r.g
    BY <1>1, <2>1
  <2>3. QED
    BY <2>1, <2>2, FeedStoreAssumption
<1>4. CASE Op(k) = "update"
  <2>1. Keys(r) = {<<r.u>>}
    BY <1>1, <1>4 DEF Keys, Op
  <2>2. <<a, b>> = <<r.u>>
    BY <1>1, <2>1
  <2>3. Len(<<a, b>>) = 2 /\ Len(<<r.u>>) = 1
    OBVIOUS
  <2>4. QED
    BY <2>2, <2>3
<1>5. QED
  BY <1>2, <1>3, <1>4 DEF Writes

\* What the last request for a pair left, when it was a success.
LEMMA LastTells ==
  ASSUME Types, Answered, Effects, Strangers, LastWanted, NEW i \in 1 .. Len(reqs), Stands(i),
         NEW a \in Users, NEW b \in Users, <<a, b>> \in Keys(reqs[i].what),
         LastWriteOk(<<a, b>>, i), Op(i) = "relation"
  PROVE  b \in list[a] <=> a \in fans[b]
<1>1. <<a, b>> \notin disturbed
  BY DEF Stands
<1>2. CASE \A j \in 1 .. Len(reqs) : ~Wants(j, a, b)
  BY <1>1, <1>2 DEF Strangers
<1>3. CASE \E j \in 1 .. Len(reqs) :
             Wants(j, a, b) /\ \A k \in j + 1 .. Len(reqs) : ~Wants(k, a, b)
  <2>1. PICK j \in 1 .. Len(reqs) :
          Wants(j, a, b) /\ \A k \in j + 1 .. Len(reqs) : ~Wants(k, a, b)
    BY <1>3
  <2>2. /\ Op(j) \in {"add", "drop"} /\ reqs[j].what.u = a /\ reqs[j].what.m = b
        /\ Keys(reqs[j].what) = {<<a, b>>}
    BY <2>1, PairOf DEF Wants
  <2>3. Len(reqs) \in Nat
    BY TrackedEach DEF Types
  <2>4. ASSUME NEW k \in j + 1 .. Len(reqs), Op(k) \in Writes
        PROVE  <<a, b>> \notin Keys(reqs[k].what)
    BY <2>1, <2>3, <2>4, PairWrites
  <2>5. j \in 1 .. i
    <3>1. j \notin i + 1 .. Len(reqs)
      BY <2>2 DEF Stands, Writes
    <3>2. QED
      BY <2>3, <3>1
  <2>6. \A k \in j + 1 .. i : k \in j + 1 .. Len(reqs)
    BY <2>3
  <2>7. reqs[j].status = "ok"
    BY <2>2, <2>4, <2>5, <2>6 DEF LastWriteOk, Writes
  <2>8. Stands(j)
    BY <1>1, <2>2, <2>4, <2>7 DEF Stands
  <2>9. QED
    BY <2>2, <2>8, SuccessHolds
<1>4. QED
  BY <1>2, <1>3 DEF LastWanted

LEMMA RelationHolds ==
  ASSUME Types, Answered, Effects, Strangers, LastWanted
  PROVE  RelationTells
<1>1. SUFFICES ASSUME NEW i \in 1 .. Len(reqs), Op(i) = "relation", Stands(i),
                      reqs[i].refused = {},
                      LastWriteOk(<<reqs[i].what.u, reqs[i].what.m>>, i),
                      LastWriteOk(<<reqs[i].what.m, reqs[i].what.u>>, i)
               PROVE  /\ 1 \in reqs[i].answer <=> reqs[i].what.m \in list[reqs[i].what.u]
                      /\ 2 \in reqs[i].answer <=> reqs[i].what.u \in list[reqs[i].what.m]
  BY DEF RelationTells
<1>2. PICK u \in Users, m \in Users : u = reqs[i].what.u /\ m = reqs[i].what.m
  BY <1>1, RelationPair
<1>3. RelationDone(i)
  BY <1>1 DEF Effects, EffectOf, Clear, Stands
<1>4. Done(i, 1) /\ Done(i, 2)
  <2>1. reqs[i].next > Commands(Op(i)) /\ Commands(Op(i)) = 2 /\ reqs[i].next \in 1 .. 6
    BY <1>1 DEF Answered, Stands, Commands, Types, TypeOK, Tracked
  <2>2. QED
    BY <1>1, <2>1 DEF Done
<1>5. u \in list[m] <=> m \in fans[u]
  <2>1. <<m, u>> \in Keys(reqs[i].what)
    BY <1>1, <1>2, RelationPair
  <2>2. LastWriteOk(<<m, u>>, i)
    BY <1>1, <1>2
  <2>3. QED
    BY <1>1, <2>1, <2>2, LastTells
<1>6. QED
  BY <1>2, <1>3, <1>4, <1>5 DEF RelationDone

-----------------------------------------------------------------------------
(* The group of an attention. *)

\* Every attention to m by u is for group g and nothing has gone wrong with it
\* (so far), and Redis refused no drop the two commands that concern the group.
Kept(u, m, g) ==
  \A i \in 1 .. Len(reqs) : Wants(i, u, m) =>
    /\ Op(i) = "add" =>
         /\ reqs[i].what.g = g /\ reqs[i].status \in {"ok", "waiting"}
         /\ reqs[i].refused \cap 1 .. 4 = {}
    /\ Op(i) = "drop" => reqs[i].refused \cap {1, 2} = {}

\* m is in group g of u at most, and while it is, the group is known, or about
\* to be.  A drop in progress has read the right name, or has nothing to remove.
Halfway(i, u, m) ==
  Wants(i, u, m) /\ Op(i) = "add" /\ reqs[i].next = 2 /\ reqs[i].status = "waiting"

Knows(i, u, m, g) ==
  Wants(i, u, m) /\ Op(i) = "drop" /\ Active(i) =>
    /\ reqs[i].next = 2 => reqs[i].gname = g \/ m \notin flist[u][g]
    /\ reqs[i].next = 3 => m \notin flist[u][g]

Place(u, m, g) ==
  /\ glist[u][m] \in {NoGroup, g}
  /\ \A h \in Groups : m \in flist[u][h] => h = g
  /\ m \in flist[u][g] =>
       glist[u][m] = g \/ \E i \in 1 .. Len(reqs) : Halfway(i, u, m)
  /\ \A i \in 1 .. Len(reqs) : Knows(i, u, m, g)

GroupKnown ==
  \A u, m \in Users, g \in Groups : <<u, m>> \notin disturbed /\ Kept(u, m, g) => Place(u, m, g)

LEMMA WantsSame ==
  ASSUME Types, Kinds, NEW i \in 1 .. Len(reqs), NEW u, NEW m
  PROVE  (Wants(i, u, m)' <=> Wants(i, u, m)) /\ Op(i)' = Op(i)
BY Ages DEF Wants, Op

\* Nothing goes wrong later that has gone wrong already.
LEMMA KeptBefore ==
  ASSUME Types, Kinds, NEW u, NEW m, NEW g, Kept(u, m, g)'
  PROVE  Kept(u, m, g)
<1>1. SUFFICES ASSUME NEW i \in 1 .. Len(reqs), Wants(i, u, m)
               PROVE  /\ Op(i) = "add" =>
                           /\ reqs[i].what.g = g /\ reqs[i].status \in {"ok", "waiting"}
                           /\ reqs[i].refused \cap 1 .. 4 = {}
                      /\ Op(i) = "drop" => reqs[i].refused \cap {1, 2} = {}
  BY DEF Kept
<1>2. i \in 1 .. Len(reqs') /\ Wants(i, u, m)' /\ Op(i)' = Op(i)
  BY <1>1, WantsSame, Ages
<1>3. /\ Op(i) = "add" =>
           /\ reqs'[i].what.g = g /\ reqs'[i].status \in {"ok", "waiting"}
           /\ reqs'[i].refused \cap 1 .. 4 = {}
      /\ Op(i) = "drop" => reqs'[i].refused \cap {1, 2} = {}
  BY <1>2 DEF Kept
<1>4. CASE Rests
  BY <1>3, <1>4 DEF Rests
<1>5. CASE \E q : Arrives(q)
  BY <1>1, <1>3, <1>5 DEF Arrives
<1>6. CASE \E j, q : Marks(j, q)
  <2>1. PICK j, q : Marks(j, q)
    BY <1>6
  <2>2. CASE i = j
    BY <1>3, <2>1, <2>2 DEF Marks, Changes
  <2>3. CASE i # j
    BY <1>1, <1>3, <2>1, <2>3 DEF Marks, Changes
  <2>4. QED
    BY <2>2, <2>3
<1>7. CASE \E j : Command(j)
  <2>1. PICK j, q : Runs(j, q)
    BY <1>7, CommandRuns
  <2>2. CASE i = j
    BY <1>3, <2>1, <2>2 DEF Runs, Changes
  <2>3. CASE i # j
    BY <1>1, <1>3, <2>1, <2>3 DEF Runs, Changes
  <2>4. QED
    BY <2>2, <2>3
<1>8. QED
  BY <1>4, <1>5, <1>6, <1>7 DEF Kinds

\* The steps that are not commands of a request on the pair.
LEMMA PlaceKept ==
  ASSUME Types, Kinds, NEW u \in Users, NEW m \in Users, NEW g \in Groups,
         Place(u, m, g), Untouched(u, m),
         \A i \in 1 .. Len(reqs) : Halfway(i, u, m) => Halfway(i, u, m)',
         \A i \in 1 .. Len(reqs) : Wants(i, u, m) =>
           reqs'[i].next = reqs[i].next /\ reqs'[i].gname = reqs[i].gname,
         \A i \in 1 .. Len(reqs') : i \notin 1 .. Len(reqs) => reqs'[i].next = 1
  PROVE  Place(u, m, g)'
<1>1. glist'[u][m] \in {NoGroup, g} /\ \A h \in Groups : m \in flist'[u][h] => h = g
  BY DEF Place, Untouched
<1>2. ASSUME m \in flist'[u][g]
      PROVE  glist'[u][m] = g \/ \E i \in 1 .. Len(reqs') : Halfway(i, u, m)'
  <2>1. glist[u][m] = g \/ \E i \in 1 .. Len(reqs) : Halfway(i, u, m)
    BY <1>2 DEF Place, Untouched
  <2>2. CASE glist[u][m] = g
    BY <2>2 DEF Untouched
  <2>3. CASE \E i \in 1 .. Len(reqs) : Halfway(i, u, m)
    BY <2>3, Ages
  <2>4. QED
    BY <2>1, <2>2, <2>3
<1>3. ASSUME NEW i \in 1 .. Len(reqs') PROVE Knows(i, u, m, g)'
  <2>1. CASE i \in 1 .. Len(reqs)
    <3>1. SUFFICES ASSUME Wants(i, u, m)', Op(i)' = "drop", Active(i)'
                   PROVE  /\ reqs'[i].next = 2 => reqs'[i].gname = g \/ m \notin flist'[u][g]
                          /\ reqs'[i].next = 3 => m \notin flist'[u][g]
      BY DEF Knows
    <3>2. Wants(i, u, m) /\ Op(i) = "drop" /\ Active(i)
      BY <2>1, <3>1, WantsSame, Ages
    <3>3. QED
      BY <2>1, <3>2 DEF Place, Knows, Untouched
  <2>2. CASE i \notin 1 .. Len(reqs)
    BY <1>3, <2>2 DEF Knows
  <2>3. QED
    BY <2>1, <2>2
<1>4. QED
  BY <1>1, <1>2, <1>3 DEF Place

\* While Redis executes a request on the pair every other one there is done.
LEMMA Only ==
  ASSUME Types, Ordered, NEW j \in 1 .. Len(reqs), Pending(j), NEW u, NEW m,
         Wants(j, u, m), <<u, m>> \notin disturbed,
         NEW i \in 1 .. Len(reqs), Wants(i, u, m), Active(i)
  PROVE  i = j
<1>1. <<u, m>> \in Keys(reqs[i].what) /\ <<u, m>> \in Keys(reqs[j].what) /\ Active(j)
  BY PairOf DEF Wants, Active
<1>2. QED
  BY <1>1, Alone

\* What is left to show when request j, which is on the pair, has gone on.
LEMMA PlaceOwn ==
  ASSUME Types, Ordered, Kinds, NEW u \in Users, NEW m \in Users, NEW g \in Groups,
         <<u, m>> \notin disturbed, NEW j \in 1 .. Len(reqs), Command(j), Wants(j, u, m),
         glist'[u][m] \in {NoGroup, g},
         \A h \in Groups : m \in flist'[u][h] => h = g,
         m \in flist'[u][g] => glist'[u][m] = g \/ Halfway(j, u, m)',
         Knows(j, u, m, g)'
  PROVE  Place(u, m, g)'
<1>1. PICK q : Runs(j, q)
  BY CommandRuns
<1>2. Len(reqs') = Len(reqs) /\ Pending(j)
  BY <1>1 DEF Runs, Changes
<1>3. ASSUME NEW i \in 1 .. Len(reqs') PROVE Knows(i, u, m, g)'
  <2>1. SUFFICES ASSUME i # j, Wants(i, u, m)', Active(i)'
                 PROVE  FALSE
    BY DEF Knows
  <2>2. i \in 1 .. Len(reqs) /\ Wants(i, u, m) /\ Active(i)
    BY <1>2, <2>1, WantsSame, Ages
  <2>3. QED
    BY <1>2, <2>1, <2>2, Only
<1>4. QED
  BY <1>2, <1>3 DEF Place

LEMMA PlaceAdd ==
  ASSUME Types, Ordered, Answered, Kinds, NEW u \in Users, NEW m \in Users, NEW g \in Groups,
         <<u, m>> \notin disturbed, Place(u, m, g), Kept(u, m, g), Kept(u, m, g)',
         NEW j \in 1 .. Len(reqs), Command(j), Wants(j, u, m), Op(j) = "add"
  PROVE  Place(u, m, g)'
<1>1. PICK q0 : Runs(j, q0)
  BY CommandRuns
<1>2. /\ Pending(j) /\ Len(reqs') = Len(reqs) /\ reqs[j].next \in 1 .. 4
      /\ reqs'[j].next = reqs[j].next + 1 /\ reqs'[j].status = reqs[j].status
      /\ Wants(j, u, m)' /\ Op(j)' = "add"
  <2>1. Commands(Op(j)) = 4
    BY DEF Commands
  <2>2. Pending(j)
    BY <1>1 DEF Runs
  <2>3. reqs[j].next \in 1 .. 4
    BY <2>1, <2>2, Next1
  <2>4. QED
    BY <1>1, <2>2, <2>3, WantsSame DEF Runs, Changes
<1>3. reqs[j].what.u = u /\ reqs[j].what.m = m /\ reqs[j].what.g = g
  BY DEF Kept, Wants
<1>4. reqs[j].status = "waiting"
  <2>1. reqs[j].status = "ok" => reqs[j].next > 4
    BY DEF Answered, Commands
  <2>2. QED
    BY <1>2, <2>1 DEF Kept
<1>5. ~Refuse(j)
  <2>1. SUFFICES ASSUME Refuse(j) PROVE FALSE
    OBVIOUS
  <2>2. PICK q : Runs(j, q) /\ q.refused = reqs[j].refused \cup {reqs[j].next}
    BY <2>1, RefuseRuns
  <2>3. reqs'[j] = q /\ reqs[j].next \in q.refused
    BY <2>2 DEF Runs, Changes
  <2>4. reqs'[j].refused \cap 1 .. 4 = {}
    BY <1>2 DEF Kept
  <2>5. QED
    BY <1>2, <2>3, <2>4
<1>6. Knows(j, u, m, g)'
  BY <1>2 DEF Knows
<1>7. \A i \in 1 .. Len(reqs) : Halfway(i, u, m) => i = j
  BY <1>2, Only DEF Halfway, Active
<1>8. /\ glist[u][m] \in {NoGroup, g} /\ \A h \in Groups : m \in flist[u][h] => h = g
      /\ m \in flist[u][g] => glist[u][m] = g \/ reqs[j].next = 2
  BY <1>7 DEF Place, Halfway
<1>9. CASE AddAttention1(j)
  <2>1. /\ reqs[j].next = 1 /\ UNCHANGED glist
        /\ \A h \in Groups : m \in flist'[u][h] <=> m \in flist[u][h] \/ h = g
    BY <1>3, <1>9, Add1 DEF Step
  <2>2. Halfway(j, u, m)'
    BY <1>2, <1>4, <2>1 DEF Halfway
  <2>3. QED
    BY <1>6, <1>8, <2>1, <2>2, PlaceOwn
<1>10. CASE AddAttention2(j)
  <2>1. glist'[u][m] = g /\ UNCHANGED flist
    BY <1>3, <1>10, Add2
  <2>2. QED
    BY <1>6, <1>8, <2>1, PlaceOwn
<1>11. CASE AddAttention3(j)
  <2>1. reqs[j].next = 3 /\ UNCHANGED <<flist, glist>>
    BY <1>11, Add3 DEF Step
  <2>2. QED
    BY <1>6, <1>8, <2>1, PlaceOwn
<1>12. CASE AddAttention4(j)
  <2>1. reqs[j].next = 4 /\ UNCHANGED <<flist, glist>>
    BY <1>12, Add4 DEF Step
  <2>2. QED
    BY <1>6, <1>8, <2>1, PlaceOwn
<1>13. QED
  BY <1>5, <1>9, <1>10, <1>11, <1>12, AddCommands

LEMMA PlaceDrop ==
  ASSUME Types, Ordered, Kinds, NEW u \in Users, NEW m \in Users, NEW g \in Groups,
         <<u, m>> \notin disturbed, Place(u, m, g), Kept(u, m, g)',
         NEW j \in 1 .. Len(reqs), Command(j), Wants(j, u, m), Op(j) = "drop"
  PROVE  Place(u, m, g)'
<1>1. PICK q0 : Runs(j, q0)
  BY CommandRuns
<1>2. /\ Pending(j) /\ Active(j) /\ Len(reqs') = Len(reqs) /\ reqs[j].next \in 1 .. 5
      /\ reqs'[j].next = reqs[j].next + 1
      /\ Wants(j, u, m)' /\ Op(j)' = "drop"
  <2>1. Pending(j)
    BY <1>1 DEF Runs
  <2>2. QED
    BY <1>1, <2>1, Next1, WantsSame DEF Runs, Changes, Active
<1>3. reqs[j].what.u = u /\ reqs[j].what.m = m
  BY DEF Wants
<1>4. /\ glist[u][m] \in {NoGroup, g} /\ \A h \in Groups : m \in flist[u][h] => h = g
      /\ m \in flist[u][g] => glist[u][m] = g
      /\ reqs[j].next = 2 => reqs[j].gname = g \/ m \notin flist[u][g]
      /\ reqs[j].next = 3 => m \notin flist[u][g]
  <2>1. \A i \in 1 .. Len(reqs) : ~Halfway(i, u, m)
    BY <1>2, Only DEF Halfway, Active
  <2>2. QED
    BY <1>2, <2>1 DEF Place, Knows
<1>5. NoGroup # g
  BY FeedStoreAssumption
<1>6. ASSUME reqs[j].next \in 3 .. 5 PROVE Knows(j, u, m, g)'
  <2>1. reqs'[j].next # 2 /\ reqs'[j].next # 3
    BY <1>2, <1>6
  <2>2. QED
    BY <2>1 DEF Knows
<1>7. CASE DropAttention1(j)
  <2>1. PICK q : Runs(j, q) /\ (glist[u][m] # NoGroup => q.gname = glist[u][m])
    BY <1>3, <1>7, Drop1
  <2>2. reqs[j].next = 1 /\ UNCHANGED <<flist, glist>>
    BY <1>7, Drop1 DEF Step
  <2>3. reqs'[j].next = 2 /\ reqs'[j].gname = q.gname
    BY <1>2, <2>1, <2>2 DEF Runs, Changes
  <2>4. Knows(j, u, m, g)'
    BY <1>4, <1>5, <2>1, <2>2, <2>3 DEF Knows
  <2>5. QED
    BY <1>4, <2>2, <2>4, PlaceOwn
<1>8. CASE DropAttention2(j)
  <2>1. /\ reqs[j].next = 2 /\ UNCHANGED glist
        /\ \A h \in Groups : m \in flist'[u][h] <=> m \in flist[u][h] /\ h # reqs[j].gname
    BY <1>3, <1>8, Drop2 DEF Step
  <2>2. m \notin flist'[u][g]
    BY <1>4, <2>1
  <2>3. Knows(j, u, m, g)'
    BY <2>2 DEF Knows
  <2>4. QED
    BY <1>4, <2>1, <2>2, <2>3, PlaceOwn
<1>9. CASE DropAttention3(j)
  <2>1. reqs[j].next = 3 /\ glist'[u][m] = NoGroup /\ UNCHANGED flist
    BY <1>3, <1>9, Drop3 DEF Step
  <2>2. QED
    BY <1>4, <1>6, <2>1, PlaceOwn
<1>10. ASSUME NEW x \in Users \cup {NoUser}, DropAttention4(j, x) \/ DropAttention5(j, x)
       PROVE  Place(u, m, g)'
  <2>1. CASE DropAttention4(j, x)
    <3>1. reqs[j].next = 4 /\ UNCHANGED <<flist, glist>>
      BY <2>1, Drop4 DEF Step
    <3>2. QED
      BY <1>4, <1>6, <3>1, PlaceOwn
  <2>2. CASE DropAttention5(j, x)
    <3>1. reqs[j].next = 5 /\ UNCHANGED <<flist, glist>>
      BY <2>2, Drop5 DEF Step
    <3>2. QED
      BY <1>4, <1>6, <3>1, PlaceOwn
  <2>3. QED
    BY <1>10, <2>1, <2>2
<1>11. CASE Refuse(j)
  <2>1. PICK q : Runs(j, q) /\ q.refused = reqs[j].refused \cup {reqs[j].next}
    BY <1>11, RefuseRuns
  <2>2. reqs'[j] = q /\ reqs[j].next \in q.refused
    BY <2>1 DEF Runs, Changes
  <2>3. reqs'[j].refused \cap {1, 2} = {}
    BY <1>2 DEF Kept
  <2>4. reqs[j].next \in 3 .. 5
    BY <1>2, <2>2, <2>3
  <2>5. UNCHANGED <<flist, glist>>
    BY <1>11 DEF Refuse, store
  <2>6. QED
    BY <1>4, <1>6, <2>4, <2>5, PlaceOwn
<1>12. QED
  BY <1>7, <1>8, <1>9, <1>10, <1>11, DropCommands

LEMMA GroupKnownStep ==
  ASSUME Types, Ordered, Answered, GroupKnown, Kinds
  PROVE  GroupKnown'
<1>1. SUFFICES ASSUME NEW u \in Users, NEW m \in Users, NEW g \in Groups,
                      <<u, m>> \notin disturbed', Kept(u, m, g)'
               PROVE  Place(u, m, g)'
  BY DEF GroupKnown
<1>2. <<u, m>> \notin disturbed /\ Kept(u, m, g) /\ Place(u, m, g)
  BY <1>1, Ages, KeptBefore DEF GroupKnown
<1>3. CASE Rests
  <2>1. Untouched(u, m) /\ reqs' = reqs
    BY <1>3 DEF Rests, store, Untouched
  <2>2. \A i \in 1 .. Len(reqs) : Halfway(i, u, m) => Halfway(i, u, m)'
    BY <2>1 DEF Halfway, Wants, Op
  <2>3. QED
    BY <1>2, <2>1, <2>2, PlaceKept
<1>4. CASE \E q : Arrives(q)
  <2>1. PICK q : Arrives(q)
    BY <1>4
  <2>2. /\ Untouched(u, m) /\ \A i \in 1 .. Len(reqs) : reqs'[i] = reqs[i]
        /\ \A i \in 1 .. Len(reqs') : i \notin 1 .. Len(reqs) => reqs'[i].next = 1
    BY <2>1, Ages DEF Arrives, store, Untouched
  <2>3. \A i \in 1 .. Len(reqs) : Halfway(i, u, m) => Halfway(i, u, m)'
    BY <2>2 DEF Halfway, Wants, Op
  <2>4. QED
    BY <1>2, <2>2, <2>3, PlaceKept
<1>5. CASE \E j, q : Marks(j, q)
  <2>1. PICK j, q : Marks(j, q)
    BY <1>5
  <2>2. /\ Untouched(u, m) /\ Len(reqs') = Len(reqs) /\ j \in 1 .. Len(reqs)
        /\ \A i \in 1 .. Len(reqs) : i # j => reqs'[i] = reqs[i]
        /\ reqs'[j] = q /\ q.next = reqs[j].next /\ q.gname = reqs[j].gname
        /\ q.status # "waiting" /\ (q.status = "ok" => q.next > Commands(Op(j)))
    BY <2>1 DEF Marks, Changes, store, Untouched
  <2>3. ~Halfway(j, u, m)
    <3>1. SUFFICES ASSUME Halfway(j, u, m) PROVE FALSE
      OBVIOUS
    <3>2. Wants(j, u, m)' /\ Op(j)' = "add" /\ Commands("add") = 4
      BY <2>2, <3>1, WantsSame DEF Halfway, Commands
    <3>3. q.status \in {"ok", "waiting"}
      BY <1>1, <2>2, <3>2 DEF Kept
    <3>4. QED
      BY <2>2, <3>1, <3>2, <3>3 DEF Halfway
  <2>4. \A i \in 1 .. Len(reqs) : Halfway(i, u, m) => Halfway(i, u, m)'
    BY <2>2, <2>3 DEF Halfway, Wants, Op
  <2>5. QED
    BY <1>2, <2>2, <2>4, PlaceKept
<1>6. CASE \E j : Command(j)
  <2>1. PICK j, q : Command(j) /\ Runs(j, q)
    BY <1>6, CommandRuns
  <2>2. /\ j \in 1 .. Len(reqs) /\ Len(reqs') = Len(reqs)
        /\ \A i \in 1 .. Len(reqs) : i # j => reqs'[i] = reqs[i]
    BY <2>1 DEF Runs, Changes
  <2>3. CASE Wants(j, u, m)
    <3>1. Op(j) \in {"add", "drop"}
      BY <2>3 DEF Wants
    <3>2. CASE Op(j) = "add"
      BY <1>1, <1>2, <2>1, <2>2, <2>3, <3>2, PlaceAdd
    <3>3. CASE Op(j) = "drop"
      BY <1>1, <1>2, <2>1, <2>2, <2>3, <3>3, PlaceDrop
    <3>4. QED
      BY <3>1, <3>2, <3>3
  <2>4. CASE ~Wants(j, u, m)
    <3>1. Untouched(u, m)
      BY <1>1, <2>1, <2>4, CommandRuns DEF Others
    <3>2. \A i \in 1 .. Len(reqs) : Halfway(i, u, m) => Halfway(i, u, m)'
      BY <2>2, <2>4 DEF Halfway, Wants, Op
    <3>3. \A i \in 1 .. Len(reqs) : Wants(i, u, m) =>
            reqs'[i].next = reqs[i].next /\ reqs'[i].gname = reqs[i].gname
      BY <2>2, <2>4
    <3>4. QED
      BY <1>2, <2>2, <3>1, <3>2, <3>3, PlaceKept
  <2>5. QED
    BY <2>3, <2>4
<1>7. QED
  BY <1>3, <1>4, <1>5, <1>6 DEF Kinds

LEMMA GroupLeft ==
  ASSUME Types, Answered, Effects, GroupKnown
  PROVE  LeavesGroup
<1>1. SUFFICES ASSUME NEW i \in 1 .. Len(reqs), Stands(i), Op(i) = "drop",
                      OneGroup(reqs[i].what.u, reqs[i].what.m),
                      ~GroupRefused(reqs[i].what.u, reqs[i].what.m),
                      NEW h \in Groups
               PROVE  reqs[i].what.m \notin flist[reqs[i].what.u][h]
  BY DEF LeavesGroup
<1>2. PICK u \in Users, m \in Users : u = reqs[i].what.u /\ m = reqs[i].what.m
  BY <1>1, PairOf
<1>3. PICK g \in Groups : \A j \in 1 .. Len(reqs) :
        Op(j) = "add" /\ reqs[j].what.u = u /\ reqs[j].what.m = m
          => reqs[j].what.g = g /\ reqs[j].status = "ok"
  BY <1>1, <1>2 DEF OneGroup
<1>4. Kept(u, m, g)
  <2>1. ASSUME NEW j \in 1 .. Len(reqs), Wants(j, u, m), Op(j) = "add"
        PROVE  /\ reqs[j].what.g = g /\ reqs[j].status \in {"ok", "waiting"}
               /\ reqs[j].refused \cap 1 .. 4 = {}
    <3>1. reqs[j].what.g = g /\ reqs[j].status = "ok"
      BY <1>3, <2>1 DEF Wants
    <3>2. Checked(Op(j)) = 1 .. 4
      BY <2>1 DEF Checked
    <3>3. QED
      BY <3>1, <3>2 DEF Answered
  <2>2. ASSUME NEW j \in 1 .. Len(reqs), Wants(j, u, m), Op(j) = "drop"
        PROVE  reqs[j].refused \cap {1, 2} = {}
    BY <1>1, <1>2, <2>2 DEF GroupRefused, Wants
  <2>3. QED
    BY <2>1, <2>2 DEF Kept
<1>5. <<u, m>> \notin disturbed
  BY <1>1, <1>2, PairOf DEF Stands
<1>6. Place(u, m, g)
  BY <1>4, <1>5 DEF GroupKnown
<1>7. glist[u][m] = NoGroup
  BY <1>1, <1>2, SuccessHolds
<1>8. \A j \in 1 .. Len(reqs) : ~Halfway(j, u, m)
  BY <1>3 DEF Halfway, Wants
<1>9. QED
  BY <1>2, <1>6, <1>7, <1>8, FeedStoreAssumption DEF Place

-----------------------------------------------------------------------------
(* The inductive invariant. *)

IInv ==
  /\ Types
  /\ Ordered
  /\ Answered
  /\ Effects
  /\ Strangers
  /\ LastWanted
  /\ GroupKnown

LEMMA InitIInv ==
  ASSUME Init
  PROVE  IInv
<1>1. reqs = <<>> /\ Len(reqs) = 0 /\ reqs \in Seq(Tracked) /\ 1 .. Len(reqs) = {}
  BY EmptySeq DEF Init
<1>2. faults \in 0 .. MaxFaults
  BY FeedStoreAssumption DEF Init
<1>3. Types
  BY <1>1, <1>2 DEF Init, Types, TypeOK
<1>4. Ordered /\ Answered /\ Effects /\ LastWanted
  BY <1>1 DEF Ordered, Answered, Effects, LastWanted
<1>5. Strangers
  BY DEF Init, Strangers
<1>6. GroupKnown
  BY <1>1 DEF Init, GroupKnown, Place
<1>7. QED
  BY <1>3, <1>4, <1>5, <1>6 DEF IInv

LEMMA NextIInv ==
  ASSUME IInv, [Next]_vars
  PROVE  IInv'
<1>1. Types' /\ Kinds
  BY StepKinds DEF IInv
<1>2. Ordered' /\ Answered' /\ LastWanted'
  BY <1>1, OrderedStep, AnsweredStep, LastWantedStep DEF IInv
<1>3. Effects'
  BY <1>1, EffectsStep DEF IInv
<1>4. Strangers'
  BY <1>1, StrangersStep DEF IInv
<1>5. GroupKnown'
  BY <1>1, GroupKnownStep DEF IInv
<1>6. QED
  BY <1>1, <1>2, <1>3, <1>4, <1>5 DEF IInv

LEMMA Invariant == Spec => []IInv
<1>1. Init => IInv
  BY InitIInv
<1>2. IInv /\ [Next]_vars => IInv'
  BY NextIInv
<1>3. QED
  BY <1>1, <1>2, PTL DEF Spec

\* An attention that was taken up with success (AddAttention, the answers
\* checked by ProcPkgCli) is in all four places, one given up with success in
\* none of the three that do not depend on the group, as long as no other
\* request met it and nobody has asked for a change since.
THEOREM SuccessStands == Spec => []OkStands
<1>1. IInv => OkStands
  BY SuccessHolds DEF IInv, Types, OkStands
<1>2. QED
  BY <1>1, Invariant, PTL

\* An attention given up with success is in no group any more, whatever failed
\* halfway before: DropAttention forgets the group after it has taken the user
\* out of it.
THEOREM GivenUpLeavesGroup == Spec => []LeavesGroup
<1>1. IInv => LeavesGroup
  BY GroupLeft DEF IInv
<1>2. QED
  BY <1>1, Invariant, PTL

\* QueryRelation tells who attends to whom, though it looks at the list of u
\* and at the fans of u, which other requests keep, when the last requests for
\* a change of the two pairs were successes and no other met the question.
THEOREM RelationIsTold == Spec => []RelationTells
<1>1. IInv => RelationTells
  BY RelationHolds DEF IInv
<1>2. QED
  BY <1>1, Invariant, PTL
=============================================================================
