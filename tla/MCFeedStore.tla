---------------------------- MODULE MCFeedStore ----------------------------
(***************************************************************************)
(* FeedStore with two workers and two users who attend to each other, so   *)
(* that requests meet on both, and with one group after the other.         *)
(***************************************************************************)
EXTENDS FeedStore, TLC

CONSTANTS u1, u2, g1, g2, w1, w2

MCUsers == {u1, u2}
MCGroups == {g1, g2}
MCTimes == {1, 2}
MCWorkers == {w1, w2}

Add(u, m, g) == [op |-> "add", u |-> u, m |-> m, g |-> g]
Drop(u, m) == [op |-> "drop", u |-> u, m |-> m]
Relation(u, m) == [op |-> "relation", u |-> u, m |-> m]
OnGroup(op, g) == [op |-> op, u |-> u1, g |-> g]
OnUser(op, u) == [op |-> op, u |-> u]

MCRegroup == {<<Add(u1, u2, g1), Add(u1, u2, g2), Drop(u1, u2)>>}

Try(u, m) == Add(u, m, g1)

\* Asking again after a failure, giving up meanwhile, changing one's mind, and
\* one request of each other kind.
MCScripts ==
  {<<Try(u1, u2), Drop(u1, u2), Drop(u1, u2)>>, <<Try(u1, u2), Drop(u1, u2), Try(u1, u2)>>,
   <<Drop(u1, u2), Try(u1, u2), Relation(u2, u1)>>,
   <<Try(u1, u2), Try(u1, u2), Drop(u1, u2)>>,
   <<Try(u1, u2), Add(u1, u2, g2), Drop(u1, u2)>>,
   <<Try(u1, u2), Try(u2, u1), Relation(u1, u2)>>,
   <<OnGroup("addgroup", g1), OnGroup("dropgroup", g1), OnUser("groups", u1)>>,
   <<Try(u1, u2), OnGroup("bygroup", g1), OnUser("list", u1)>>,
   <<Try(u1, u2), OnUser("fans", u2)>>,
   <<[op |-> "update", u |-> u1, t |-> 2], [op |-> "latest", begin |-> 1, end |-> 2]>>}

MCSymmetry == Permutations(MCWorkers)
=============================================================================
