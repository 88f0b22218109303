--------------------------- MODULE RecoveryProofs ---------------------------
(***************************************************************************)
(* Proofs about the two parts that bring back what has failed: MAIN, which *)
(* forks again the processes that crash (Supervisor), and the pool, which  *)
(* connects again the services that lost their hosts (Services).  They     *)
(* share no state.                                                         *)
(***************************************************************************)
EXTENDS Services, Supervisor, FiniteSetTheorems, SequenceTheorems, WellFoundedInduction, TLAPS

-----------------------------------------------------------------------------
(***************************************************************************)
(* Supervisor: MAIN's table names exactly the children it has, for any     *)
(* number of workers and any number of faults.                             *)
(***************************************************************************)

\* What KnowsItsChildren needs to be inductive: while the first loop of forks
\* runs, the slots it has not come to have no process, and the slot to be
\* forked again has none.
Unforked ==
  /\ main = "fork" => \A s \in slot .. CONN : ~pid[s] /\ proc[s] = "none"
  /\ main = "refork" => proc[slot] = "none"

\* Slots are the numbers of the workers and, after the last, of CONN.
LEMMA SlotsAre ==
  /\ WorkNum \in Nat \ {0}
  /\ MaxCrashes \in Nat
  /\ \A s : s \in Slots <=> s \in Nat /\ s <= CONN
  /\ CONN \in Slots
  /\ 0 \in Slots
  /\ \A s \in Slots : s # CONN => s + 1 \in Slots
BY SupervisorAssumption DEF Slots, CONN

\* Init establishes the types, and every step keeps them.
LEMMA SupervisorTypes == SupervisorSpec => []SupervisorTypeOK
<1>1. SupervisorInit => SupervisorTypeOK
  <2> HAVE SupervisorInit
  <2>1. slot \in Slots /\ crashes \in 0 .. MaxCrashes
    BY SlotsAre DEF SupervisorInit
  <2>2. pid \in [Slots -> BOOLEAN] /\ term \in [Slots -> BOOLEAN]
    BY DEF SupervisorInit
  <2>3. proc \in [Slots -> {"none"} \cup Running \cup Exited]
    BY DEF SupervisorInit
  <2>4. inited \in [Works -> BOOLEAN]
    BY DEF SupervisorInit
  <2> QED
    BY <2>1, <2>2, <2>3, <2>4 DEF SupervisorInit, SupervisorTypeOK
<1>2. SupervisorTypeOK /\ [SupervisorNext]_supervisor_vars => SupervisorTypeOK'
  <2> SUFFICES ASSUME SupervisorTypeOK, [SupervisorNext]_supervisor_vars PROVE SupervisorTypeOK'
    OBVIOUS
  <2> USE SlotsAre DEF SupervisorTypeOK, table, children
  <2>1. CASE ForkAll
    BY <2>1 DEF ForkAll, Fork, Running
  <2>2. CASE Check
    BY <2>2 DEF Check
  <2>3. CASE Refork
    BY <2>3 DEF Refork, Fork, Running
  <2>4. CASE KillAll
    BY <2>4 DEF KillAll
  <2>5. CASE DrainDone
    BY <2>5 DEF DrainDone
  <2>6. ASSUME NEW s \in Slots, WaitExited(s) PROVE SupervisorTypeOK'
    BY <2>6 DEF WaitExited, Reap
  <2>7. ASSUME NEW s \in Slots, DrainExited(s) PROVE SupervisorTypeOK'
    BY <2>7 DEF DrainExited, Reap
  <2>8. CASE WaitNoChild
    BY <2>8 DEF WaitNoChild
  <2>9. CASE ForkFails
    BY <2>9 DEF ForkFails
  <2>10. CASE Stop
    BY <2>10 DEF Stop
  <2>11. CASE Sigterm
    BY <2>11 DEF Sigterm
  <2>12. ASSUME NEW s \in Works, WorkStarted(s) PROVE SupervisorTypeOK'
    BY <2>12 DEF WorkStarted, Running
  <2>13. CASE ConnStarted
    BY <2>13 DEF ConnStarted, Running
  <2>14. ASSUME NEW s \in Slots, Terminate(s) PROVE SupervisorTypeOK'
    BY <2>14 DEF Terminate, Exited
  <2>15. ASSUME NEW s \in Slots, StartFails(s) PROVE SupervisorTypeOK'
    BY <2>15 DEF StartFails, Exited
  <2>16. ASSUME NEW s \in Slots, Crash(s) PROVE SupervisorTypeOK'
    BY <2>16 DEF Crash, Exited
  <2>17. CASE UNCHANGED supervisor_vars
    BY <2>17 DEF supervisor_vars
  <2> QED
    BY <2>1, <2>2, <2>3, <2>4, <2>5, <2>6, <2>7, <2>8, <2>9, <2>10, <2>11,
       <2>12, <2>13, <2>14, <2>15, <2>16, <2>17
    DEF SupervisorNext, MainStep, ChildStep
<1> QED
  BY <1>1, <1>2, PTL DEF SupervisorSpec

-----------------------------------------------------------------------------
\* The step that reaps a child only ever takes one that MAIN knows of.
LEMMA ReapKnown ==
  ASSUME SupervisorTypeOK, KnowsItsChildren, main \in {"wait", "drain"},
         NEW s \in Slots, Reap(s)
  PROVE  /\ pid[s]
         /\ proc' = [proc EXCEPT ![s] = "none"]
<1>1. proc[s] # "none"
  BY DEF Reap, Exited
<1> QED
  BY <1>1 DEF Reap, KnowsItsChildren

\* A fork fills the slot, or leaves it empty when MAIN is to stop.
LEMMA ForkFills ==
  ASSUME SupervisorTypeOK, NEW s \in Slots, proc[s] = "none", Fork(s)
  PROVE  /\ pid'[s] <=> proc'[s] # "none"
         /\ \A t \in Slots \ {s} : pid'[t] = pid[t] /\ proc'[t] = proc[t]
<1>1. CASE g_stop
  BY <1>1 DEF Fork, SupervisorTypeOK
<1>2. CASE ~g_stop
  BY <1>2 DEF Fork, SupervisorTypeOK
<1> QED
  BY <1>1, <1>2

\* A child that starts, ends or crashes stays MAIN's child until it is reaped.
LEMMA StaysAChild ==
  ASSUME SupervisorTypeOK, KnowsItsChildren, Unforked, NEW s \in Slots,
         proc[s] \in Running, NEW new, new # "none",
         proc' = [proc EXCEPT ![s] = new], UNCHANGED <<main, slot, pid>>
  PROVE  KnowsItsChildren' /\ Unforked'
<1>1. proc[s] # "none" /\ proc'[s] # "none"
  BY DEF Running, SupervisorTypeOK
<1>2. \A t \in Slots \ {s} : proc'[t] = proc[t]
  BY DEF SupervisorTypeOK
<1>3. KnowsItsChildren'
  BY <1>1, <1>2 DEF KnowsItsChildren
<1>4. Unforked'
  BY <1>1, <1>2, SlotsAre DEF Unforked, SupervisorTypeOK
<1> QED
  BY <1>3, <1>4

\* MAIN's table names the children it has and no other, for any number of
\* workers: no child escapes the stop, and none is left when MAIN is done.
THEOREM ChildrenKnown == SupervisorSpec => []KnowsItsChildren
<1>1. SupervisorInit => KnowsItsChildren /\ Unforked
  BY SlotsAre DEF SupervisorInit, KnowsItsChildren, Unforked
<1>2. /\ SupervisorTypeOK /\ SupervisorTypeOK' /\ KnowsItsChildren /\ Unforked
      /\ [SupervisorNext]_supervisor_vars
      => KnowsItsChildren' /\ Unforked'
  <2> SUFFICES ASSUME SupervisorTypeOK, SupervisorTypeOK', KnowsItsChildren, Unforked,
                      [SupervisorNext]_supervisor_vars
               PROVE  KnowsItsChildren' /\ Unforked'
    OBVIOUS
  <2>1. slot \in Slots
    BY DEF SupervisorTypeOK
  <2>2. CASE ForkAll
    <3>1. main = "fork" /\ proc[slot] = "none" /\ Fork(slot)
      BY <2>2, <2>1, SlotsAre DEF ForkAll, Unforked
    <3>2. /\ pid'[slot] <=> proc'[slot] # "none"
          /\ \A t \in Slots \ {slot} : pid'[t] = pid[t] /\ proc'[t] = proc[t]
      BY <3>1, <2>1, ForkFills
    <3>3. KnowsItsChildren'
      BY <3>1, <3>2, <2>2 DEF KnowsItsChildren, ForkAll
    <3>4. Unforked'
      BY <3>1, <3>2, <2>1, <2>2, SlotsAre DEF Unforked, ForkAll
    <3> QED
      BY <3>3, <3>4
  <2>3. CASE Check
    BY <2>3 DEF Check, children, KnowsItsChildren, Unforked
  <2>4. CASE Refork
    <3>1. main = "refork" /\ proc[slot] = "none" /\ Fork(slot)
      BY <2>4 DEF Refork, Unforked
    <3>2. /\ pid'[slot] <=> proc'[slot] # "none"
          /\ \A t \in Slots \ {slot} : pid'[t] = pid[t] /\ proc'[t] = proc[t]
      BY <3>1, <2>1, ForkFills
    <3>3. KnowsItsChildren'
      BY <3>1, <3>2, <2>4 DEF KnowsItsChildren, Refork
    <3>4. Unforked'
      BY <2>4 DEF Unforked, Refork
    <3> QED
      BY <3>3, <3>4
  <2>5. CASE KillAll
    BY <2>5 DEF KillAll, KnowsItsChildren, Unforked
  <2>6. CASE DrainDone
    BY <2>6 DEF DrainDone, table, children, KnowsItsChildren, Unforked
  <2>7. ASSUME NEW s \in Slots, WaitExited(s) PROVE KnowsItsChildren' /\ Unforked'
    <3>1. pid[s] /\ proc' = [proc EXCEPT ![s] = "none"]
      BY <2>7, ReapKnown DEF WaitExited
    <3>2. CASE proc[s] = "ten"
      BY <2>7, <3>1, <3>2 DEF WaitExited, KnowsItsChildren, Unforked, SupervisorTypeOK
    <3>3. CASE proc[s] # "ten"
      BY <2>7, <3>1, <3>3 DEF WaitExited, KnowsItsChildren, Unforked, SupervisorTypeOK
    <3> QED
      BY <3>2, <3>3
  <2>8. ASSUME NEW s \in Slots, DrainExited(s) PROVE KnowsItsChildren' /\ Unforked'
    <3>1. pid[s] /\ proc' = [proc EXCEPT ![s] = "none"]
      BY <2>8, ReapKnown DEF DrainExited
    <3> QED
      BY <2>8, <3>1 DEF DrainExited, KnowsItsChildren, Unforked, SupervisorTypeOK
  <2>9. CASE WaitNoChild
    BY <2>9 DEF WaitNoChild, table, children, KnowsItsChildren, Unforked
  <2>10. CASE ForkFails
    BY <2>10 DEF ForkFails, KnowsItsChildren, Unforked
  <2>11. CASE Stop
    BY <2>11 DEF Stop, table, children, KnowsItsChildren, Unforked
  <2>12. CASE Sigterm
    BY <2>12 DEF Sigterm, table, children, KnowsItsChildren, Unforked
  <2>13. ASSUME NEW s \in Slots, ChildStep(s) PROVE KnowsItsChildren' /\ Unforked'
    <3>1. CASE Terminate(s)
      BY <2>13, <3>1, StaysAChild DEF Terminate, Running, table
    <3>2. CASE s \in Works /\ WorkStarted(s)
      BY <2>13, <3>2, StaysAChild DEF WorkStarted, Running, table
    <3>3. CASE s = CONN /\ ConnStarted
      BY <2>13, <3>3, StaysAChild DEF ConnStarted, Running, table
    <3> QED
      BY <2>13, <3>1, <3>2, <3>3 DEF ChildStep
  <2>14. ASSUME NEW s \in Slots, StartFails(s) PROVE KnowsItsChildren' /\ Unforked'
    BY <2>14, StaysAChild DEF StartFails, Running, table
  <2>15. ASSUME NEW s \in Slots, Crash(s) PROVE KnowsItsChildren' /\ Unforked'
    BY <2>15, StaysAChild DEF Crash, table
  <2>16. CASE UNCHANGED supervisor_vars
    BY <2>16 DEF supervisor_vars, table, children, KnowsItsChildren, Unforked
  <2> QED
    BY <2>2, <2>3, <2>4, <2>5, <2>6, <2>7, <2>8, <2>9, <2>10, <2>11, <2>12,
       <2>13, <2>14, <2>15, <2>16 DEF SupervisorNext, MainStep
<1> QED
  BY <1>1, <1>2, SupervisorTypes, PTL DEF SupervisorSpec

-----------------------------------------------------------------------------
(***************************************************************************)
(* Services.  A state of the pool is sound for a set W of services if W is *)
(* what should be connected: each of W is connected or waits for the       *)
(* timer, no other has anything, every link has its owner, and the turns   *)
(* of round robin are kept.  Each function of the library keeps that, with *)
(* one service more in W or one less; what is due changes in the same way  *)
(* while a call goes through the services of a group.                      *)
(***************************************************************************)

\* Objects of different classes are different, and one child has one parent.
LEMMA Classes ==
  /\ Services \cap Replicas = {} /\ Services \cap Groups = {} /\ Replicas \cap Groups = {}
  /\ None \notin Elements /\ Services \in SUBSET Nat /\ SyncServices \in SUBSET Services
  /\ Fds \in SUBSET Nat /\ MaxFaults \in Nat
  /\ AsyncServices \in SUBSET Services /\ AsyncServices \cap SyncServices = {}
  /\ Services = AsyncServices \cup SyncServices
  /\ Services \in SUBSET Elements /\ Parents \in SUBSET Elements
BY TreeAssumption DEF Elements, Parents, AsyncServices

\* The children of a replicas are services, those of a group are replicas.
LEMMA ChildrenAre ==
  /\ \A r \in Replicas : Children[r] \in Seq(Services) /\ Range(Children[r]) \in SUBSET Services
  /\ \A g \in Groups : Children[g] \in Seq(Replicas) /\ Range(Children[g]) \in SUBSET Replicas
<1>1. \A r \in Replicas : Children[r] \in Seq(Services)
  BY TreeAssumption, Classes DEF Parents
<1>2. \A g \in Groups : Children[g] \in Seq(Replicas)
  BY TreeAssumption DEF Parents
<1>3. ASSUME NEW S, NEW l \in Seq(S) PROVE Range(l) \in SUBSET S
  BY DEF Range
<1>4. QED
  BY <1>1, <1>2, <1>3

\* Parent gives the one parent: of a service a replicas, of a replicas a group.
LEMMA ParentsAre ==
  /\ \A e \in Services \cup Replicas :
       /\ Parent[e] \in Parents
       /\ \A q \in Parents : e \in Range(Children[q]) <=> q = Parent[e]
  /\ \A s \in Services : Parent[s] \in Replicas
  /\ \A r \in Replicas : Parent[r] \in Groups
<1>1. ASSUME NEW e \in Services \cup Replicas
      PROVE  /\ Parent[e] \in Parents
             /\ \A q \in Parents : e \in Range(Children[q]) <=> q = Parent[e]
  <2>1. e \in Elements \ Groups
    BY Classes DEF Elements, Parents
  <2>2. PICK p \in Parents : \A q \in Parents : e \in Range(Children[q]) <=> q = p
    BY <2>1, TreeAssumption
  <2>3. Parent[e] = CHOOSE q \in Parents : e \in Range(Children[q])
    BY <2>1 DEF Parent
  <2>4. (CHOOSE q \in Parents : e \in Range(Children[q])) = p
    BY <2>2
  <2>5. QED
    BY <2>2, <2>3, <2>4
<1>2. ASSUME NEW s \in Services PROVE Parent[s] \in Replicas
  <2>1. Parent[s] \in Parents /\ s \in Range(Children[Parent[s]])
    BY <1>1
  <2>2. QED
    BY <2>1, ChildrenAre, Classes DEF Parents
<1>3. ASSUME NEW r \in Replicas PROVE Parent[r] \in Groups
  <2>1. Parent[r] \in Parents /\ r \in Range(Children[Parent[r]])
    BY <1>1
  <2>2. QED
    BY <2>1, ChildrenAre, Classes DEF Parents
<1>4. QED
  BY <1>1, <1>2, <1>3

-----------------------------------------------------------------------------
(* Enabling and disabling. *)

Told(en) == \A p \in Parents : en[p] <=> \E c \in Range(Children[p]) : en[c]

\* Enabling a service enables it and no other service, and each of those above is
\* again enabled exactly while one of its children is.
LEMMA RaisedKeeps ==
  ASSUME NEW en \in [Elements -> BOOLEAN], Told(en), NEW s \in Services
  PROVE  /\ Raised(en, s) \in [Elements -> BOOLEAN]
         /\ Told(Raised(en, s))
         /\ \A t \in Services : Raised(en, s)[t] <=> (t = s \/ en[t])
<1> DEFINE r == Parent[s]
           g == Parent[r]
           up == Raised(en, s)
<1>1. /\ r \in Replicas /\ g \in Groups
      /\ s \in Elements /\ r \in Elements /\ g \in Elements
      /\ r \in Parents /\ g \in Parents
  BY ParentsAre, Classes DEF Elements, Parents
<1>2. CASE en[s]
  BY <1>2 DEF Raised
<1>3. CASE ~en[s]
  <2>1. up = [e \in Elements |-> en[e] \/ e \in {s, r} \/ (e = g /\ ~en[r])]
    BY <1>3 DEF Raised
  <2>2. up \in [Elements -> BOOLEAN]
    BY <2>1
  <2>3. ASSUME NEW e \in Elements
         PROVE  up[e] <=> (en[e] \/ e = s \/ e = r \/ (e = g /\ ~en[r]))
    BY <2>1
  <2> HIDE DEF up, r, g
  <2>4. \A t \in Services : up[t] <=> (t = s \/ en[t])
    <3>1. \A t \in Services : t \in Elements /\ t # r /\ t # g
      BY <1>1, Classes
    <3>2. QED
      BY <2>3, <3>1
  <2>5. \A q \in Replicas : up[q] <=> (q = r \/ en[q])
    <3>1. \A q \in Replicas : q \in Elements /\ q # s /\ q # g
      BY <1>1, Classes DEF Elements, Parents
    <3>2. QED
      BY <2>3, <3>1
  <2>6. \A q \in Groups : up[q] <=> (q = g \/ en[q])
    <3>1. en[r] => en[g]
      BY <1>1, ParentsAre DEF Told, g
    <3>2. \A q \in Groups : q \in Elements /\ q # s /\ q # r
      BY <1>1, Classes DEF Elements, Parents
    <3>3. QED
      BY <2>3, <3>1, <3>2
  <2>7. ASSUME NEW p \in Replicas
        PROVE  up[p] <=> \E c \in Range(Children[p]) : up[c]
    <3>1. en[p] <=> \E c \in Range(Children[p]) : en[c]
      BY DEF Told, Parents
    <3>2. \A c \in Range(Children[p]) : c \in Services /\ (up[c] <=> (c = s \/ en[c]))
      BY <2>4, ChildrenAre
    <3>3. s \in Range(Children[p]) <=> p = r
      BY ParentsAre DEF Parents, r
    <3>4. QED
      BY <2>5, <3>1, <3>2, <3>3
  <2>8. ASSUME NEW p \in Groups
        PROVE  up[p] <=> \E c \in Range(Children[p]) : up[c]
    <3>1. en[p] <=> \E c \in Range(Children[p]) : en[c]
      BY DEF Told, Parents
    <3>2. \A c \in Range(Children[p]) : c \in Replicas /\ (up[c] <=> (c = r \/ en[c]))
      BY <2>5, ChildrenAre
    <3>3. r \in Range(Children[p]) <=> p = g
      BY <1>1, ParentsAre DEF Parents, g
    <3>4. QED
      BY <2>6, <3>1, <3>2, <3>3
  <2>9. Told(up)
    BY <2>7, <2>8 DEF Told, Parents
  <2>10. QED
    BY <2>2, <2>4, <2>9 DEF up
<1>4. QED
  BY <1>2, <1>3

\* Disabling a service does the same.
LEMMA LoweredKeeps ==
  ASSUME NEW en \in [Elements -> BOOLEAN], Told(en), NEW s \in Services
  PROVE  /\ Lowered(en, s) \in [Elements -> BOOLEAN]
         /\ Told(Lowered(en, s))
         /\ \A t \in Services : Lowered(en, s)[t] <=> (t # s /\ en[t])
<1> DEFINE r == Parent[s]
           g == Parent[r]
           rOff == \A c \in Range(Children[r]) \ {s} : ~en[c]
           gOff == rOff /\ \A c \in Range(Children[g]) \ {r} : ~en[c]
           down == Lowered(en, s)
<1>1. /\ r \in Replicas /\ g \in Groups
      /\ s \in Elements /\ r \in Elements /\ g \in Elements
      /\ r \in Parents /\ g \in Parents
  BY ParentsAre, Classes DEF Elements, Parents
<1>2. CASE ~en[s]
  BY <1>2 DEF Lowered
<1>3. CASE en[s]
  <2>1. down = [en EXCEPT ![s] = FALSE, ![r] = @ /\ ~rOff, ![g] = @ /\ ~gOff]
    BY <1>3 DEF Lowered
  <2>2. s # r /\ s # g /\ r # g
    BY <1>1, Classes
  <2>3. rOff \in BOOLEAN /\ gOff \in BOOLEAN /\ (gOff => rOff)
    OBVIOUS
  <2> HIDE DEF down, rOff, gOff, r, g
  <2>4. ASSUME NEW e \in Elements
        PROVE  down[e] = IF e = s THEN FALSE
                         ELSE IF e = r THEN en[r] /\ ~rOff
                         ELSE IF e = g THEN en[g] /\ ~gOff ELSE en[e]
    BY <2>1, <2>2, <2>3, <1>1
  <2>5. down \in [Elements -> BOOLEAN]
    BY <2>1, <2>3
  <2>6. \A t \in Services : down[t] <=> (t # s /\ en[t])
    <3>1. \A t \in Services : t \in Elements /\ t # r /\ t # g
      BY <1>1, Classes
    <3>2. QED
      BY <2>4, <3>1
  <2>7. \A q \in Replicas : down[q] <=> (en[q] /\ ~(q = r /\ rOff))
    <3>1. \A q \in Replicas : q \in Elements /\ q # s /\ q # g
      BY <1>1, Classes DEF Elements, Parents
    <3>2. QED
      BY <2>4, <3>1
  <2>8. \A q \in Groups : down[q] <=> (en[q] /\ ~(q = g /\ gOff))
    <3>1. \A q \in Groups : q \in Elements /\ q # s /\ q # r
      BY <1>1, Classes DEF Elements, Parents
    <3>2. QED
      BY <2>4, <3>1
  <2>9. ASSUME NEW p \in Replicas
        PROVE  down[p] <=> \E c \in Range(Children[p]) : down[c]
    <3>1. en[p] <=> \E c \in Range(Children[p]) : en[c]
      BY DEF Told, Parents
    <3>2. \A c \in Range(Children[p]) : c \in Services /\ (down[c] <=> (c # s /\ en[c]))
      BY <2>6, ChildrenAre
    <3>3. s \in Range(Children[p]) <=> p = r
      BY ParentsAre DEF Parents, r
    <3>4. QED
      BY <2>7, <3>1, <3>2, <3>3 DEF rOff
  <2>10. ASSUME NEW p \in Groups
        PROVE  down[p] <=> \E c \in Range(Children[p]) : down[c]
    <3>1. en[p] <=> \E c \in Range(Children[p]) : en[c]
      BY DEF Told, Parents
    <3>2. \A c \in Range(Children[p]) : c \in Replicas /\ (down[c] <=> (en[c] /\ ~(c = r /\ rOff)))
      BY <2>7, ChildrenAre
    <3>3. r \in Range(Children[p]) <=> p = g
      BY <1>1, ParentsAre DEF Parents, g
    <3>4. en[r]
      BY <1>1, <1>3, ParentsAre DEF Told, r
    <3>5. QED
      BY <2>8, <3>1, <3>2, <3>3, <3>4 DEF gOff
  <2>11. Told(down)
    BY <2>9, <2>10 DEF Told, Parents
  <2>12. QED
    BY <2>5, <2>6, <2>11 DEF down
<1>4. QED
  BY <1>2, <1>3

-----------------------------------------------------------------------------
(* States. *)

Links == {"none", "connecting", "up", "sending", "draining"}

\* The records the library's functions work on.
State ==
  [enable : [Elements -> BOOLEAN], m_current : [Parents -> Nat],
   reinit_set : SUBSET Services, m_fd : [AsyncServices -> Fds \cup {-1}],
   m_connecting : [AsyncServices -> BOOLEAN],
   fd_service_map : [Fds -> AsyncServices \cup {None}], links : [Fds -> Links],
   open : [SyncServices -> BOOLEAN], late : [SyncServices -> BOOLEAN],
   missed : [Elements -> Nat], faults : 0 .. MaxFaults]

SameLinks(u, st) ==
  /\ u.m_fd = st.m_fd /\ u.m_connecting = st.m_connecting
  /\ u.fd_service_map = st.fd_service_map /\ u.links = st.links
SameSockets(u, st) == u.open = st.open /\ u.late = st.late
SameTurns(u, st) == u.m_current = st.m_current /\ u.missed = st.missed

\* What Enable leaves: nothing but m_enable changes.
LEMMA EnableIs ==
  ASSUME NEW st \in State, Told(st.enable), NEW s \in Services, NEW u, u = Enable(st, s)
  PROVE  /\ u \in State /\ Told(u.enable)
         /\ \A t \in Services : u.enable[t] <=> (t = s \/ st.enable[t])
         /\ u.reinit_set = st.reinit_set
         /\ SameLinks(u, st) /\ SameSockets(u, st) /\ SameTurns(u, st)
<1> DEFINE up == Raised(st.enable, s)
<1>1. st.enable \in [Elements -> BOOLEAN]
  BY DEF State
<1>2. /\ up \in [Elements -> BOOLEAN] /\ Told(up)
      /\ \A t \in Services : up[t] <=> (t = s \/ st.enable[t])
  BY <1>1, RaisedKeeps
<1>3. u = [st EXCEPT !.enable = up]
  BY DEF Enable
<1> HIDE DEF up
<1>4. u \in State /\ u.enable = up
  BY <1>2, <1>3 DEF State
<1>5. u.reinit_set = st.reinit_set /\ SameLinks(u, st) /\ SameSockets(u, st) /\ SameTurns(u, st)
  BY <1>3 DEF State, SameLinks, SameSockets, SameTurns
<1>6. QED
  BY <1>2, <1>4, <1>5

\* What Disable leaves.
LEMMA DisableIs ==
  ASSUME NEW st \in State, Told(st.enable), NEW s \in Services, NEW u, u = Disable(st, s)
  PROVE  /\ u \in State /\ Told(u.enable)
         /\ \A t \in Services : u.enable[t] <=> (t # s /\ st.enable[t])
         /\ u.reinit_set = st.reinit_set
         /\ SameLinks(u, st) /\ SameSockets(u, st) /\ SameTurns(u, st)
<1> DEFINE down == Lowered(st.enable, s)
<1>1. st.enable \in [Elements -> BOOLEAN]
  BY DEF State
<1>2. /\ down \in [Elements -> BOOLEAN] /\ Told(down)
      /\ \A t \in Services : down[t] <=> (t # s /\ st.enable[t])
  BY <1>1, LoweredKeeps
<1>3. u = [st EXCEPT !.enable = down]
  BY DEF Disable
<1> HIDE DEF down
<1>4. u \in State /\ u.enable = down
  BY <1>2, <1>3 DEF State
<1>5. u.reinit_set = st.reinit_set /\ SameLinks(u, st) /\ SameSockets(u, st) /\ SameTurns(u, st)
  BY <1>3 DEF State, SameLinks, SameSockets, SameTurns
<1>6. QED
  BY <1>2, <1>4, <1>5

\* SetToReInit and CancelFromReInit change nothing but the set.
LEMMA ReInitSetIs ==
  ASSUME NEW st \in State, NEW s \in Services, NEW u,
         u \in {SetToReInit(st, s), CancelFromReInit(st, s)}
  PROVE  /\ u \in State /\ u.enable = st.enable
         /\ u = SetToReInit(st, s) => u.reinit_set = st.reinit_set \cup {s}
         /\ u = CancelFromReInit(st, s) => u.reinit_set = st.reinit_set \ {s}
         /\ SameLinks(u, st) /\ SameSockets(u, st) /\ SameTurns(u, st)
<1>1. ASSUME u = SetToReInit(st, s)
      PROVE  /\ u \in State /\ u.enable = st.enable /\ u.reinit_set = st.reinit_set \cup {s}
             /\ SameLinks(u, st) /\ SameSockets(u, st) /\ SameTurns(u, st)
  BY <1>1 DEF State, SetToReInit, SameLinks, SameSockets, SameTurns
<1>2. ASSUME u = CancelFromReInit(st, s)
      PROVE  /\ u \in State /\ u.enable = st.enable /\ u.reinit_set = st.reinit_set \ {s}
             /\ SameLinks(u, st) /\ SameSockets(u, st) /\ SameTurns(u, st)
  BY <1>2 DEF State, CancelFromReInit, SameLinks, SameSockets, SameTurns
<1>3. QED
  BY <1>1, <1>2

\* A link that is closed, with the entry of the map that goes with it.
LEMMA ClosedIs ==
  ASSUME NEW st \in State, NEW fd \in Fds, NEW to \in Links, NEW u,
         u = Erase([st EXCEPT !.links[fd] = to], fd)
  PROVE  /\ u \in State /\ u.enable = st.enable /\ u.reinit_set = st.reinit_set
         /\ u.m_fd = st.m_fd /\ u.m_connecting = st.m_connecting
         /\ u.links = [st.links EXCEPT ![fd] = to]
         /\ u.fd_service_map = [st.fd_service_map EXCEPT ![fd] = None]
         /\ SameSockets(u, st) /\ SameTurns(u, st)
<1> DEFINE v == [st EXCEPT !.links[fd] = to]
<1>1. /\ v \in State /\ v.enable = st.enable /\ v.reinit_set = st.reinit_set
      /\ v.m_fd = st.m_fd /\ v.m_connecting = st.m_connecting
      /\ v.links = [st.links EXCEPT ![fd] = to] /\ v.fd_service_map = st.fd_service_map
      /\ SameSockets(v, st) /\ SameTurns(v, st)
  <2>1. v = [st EXCEPT !.links = [st.links EXCEPT ![fd] = to]]
    BY DEF State
  <2> HIDE DEF v
  <2>2. QED
    BY <2>1 DEF State, SameSockets, SameTurns
<1>2. u = [v EXCEPT !.fd_service_map[fd] = None]
  BY DEF Erase
<1> HIDE DEF v
<1>3. /\ u \in State /\ u.enable = v.enable /\ u.reinit_set = v.reinit_set
      /\ u.m_fd = v.m_fd /\ u.m_connecting = v.m_connecting
      /\ u.links = v.links /\ u.fd_service_map = [v.fd_service_map EXCEPT ![fd] = None]
      /\ SameSockets(u, v) /\ SameTurns(u, v)
  <2>1. v \in State
    BY <1>1
  <2>2. [v.fd_service_map EXCEPT ![fd] = None] \in [Fds -> AsyncServices \cup {None}]
    BY <2>1 DEF State
  <2>3. u = [v EXCEPT !.fd_service_map = [v.fd_service_map EXCEPT ![fd] = None]]
    BY <2>1, <1>2 DEF State
  <2>4. u \in State /\ u.fd_service_map = [v.fd_service_map EXCEPT ![fd] = None]
    BY <2>1, <2>2, <2>3 DEF State
  <2>5. /\ u.enable = v.enable /\ u.reinit_set = v.reinit_set
        /\ u.m_fd = v.m_fd /\ u.m_connecting = v.m_connecting /\ u.links = v.links
        /\ SameSockets(u, v) /\ SameTurns(u, v)
    BY <2>1, <2>3 DEF State, SameSockets, SameTurns
  <2>6. QED
    BY <2>4, <2>5
<1>4. QED
  BY <1>1, <1>3 DEF SameSockets, SameTurns

\* A service that has no descriptor any more.
LEMMA WithoutFdIs ==
  ASSUME NEW st \in State, NEW s \in AsyncServices, NEW u,
         u = [st EXCEPT !.m_connecting[s] = FALSE, !.m_fd[s] = -1]
  PROVE  /\ u \in State /\ u.enable = st.enable /\ u.reinit_set = st.reinit_set
         /\ u.m_fd = [st.m_fd EXCEPT ![s] = -1]
         /\ u.m_connecting = [st.m_connecting EXCEPT ![s] = FALSE]
         /\ u.links = st.links /\ u.fd_service_map = st.fd_service_map
         /\ SameSockets(u, st) /\ SameTurns(u, st)
BY DEF State, SameSockets, SameTurns

-----------------------------------------------------------------------------
(* What holds of a state in which the services of W should be connected. *)

Active == {"connecting", "up", "sending"}

AsyncOK(st, W) ==
  \A s \in AsyncServices :
    /\ st.enable[s] <=> st.m_fd[s] # -1 /\ ~st.m_connecting[s]
    /\ st.m_connecting[s] => st.m_fd[s] # -1
    /\ st.m_fd[s] # -1 => s \in W /\ st.fd_service_map[st.m_fd[s]] = s

SyncOK(st, W) ==
  \A s \in SyncServices :
    /\ st.enable[s] <=> st.open[s]
    /\ st.enable[s] => s \in W
    /\ ~st.late[s]

MapOK(st) ==
  \A fd \in Fds :
    LET s == st.fd_service_map[fd] IN
    IF st.links[fd] \in Active
    THEN /\ s \in AsyncServices
         /\ st.m_fd[s] = fd
         /\ st.m_connecting[s] <=> st.links[fd] = "connecting"
    ELSE s = None

\* How many choices there are from place m to place i, of n.
Ahead(m, i, n) == IF m <= i THEN i - m ELSE i - m + n

TurnsOK(st) ==
  \A p \in Parents :
    LET n == Len(Children[p])
        m == st.m_current[p]
    IN  /\ m \in 0 .. n
        /\ n > 0 => m < n
        /\ Strategy[p] = "ROLL" =>
             \A i \in 1 .. n : st.missed[Children[p][i]] + Ahead(m, i - 1, n) < n

Sound(st, W) ==
  /\ st \in State
  /\ Told(st.enable)
  /\ st.reinit_set = {s \in W : ~st.enable[s]}
  /\ AsyncOK(st, W) /\ SyncOK(st, W) /\ MapOK(st) /\ TurnsOK(st)

\* The turns only depend on the counters.
LEMMA SameTurnsOK ==
  ASSUME NEW u, NEW st, SameTurns(u, st), TurnsOK(st)
  PROVE  TurnsOK(u)
BY DEF SameTurns, TurnsOK

\* Minus one is no descriptor, None no service.
LEMMA Nothings == -1 \notin Fds /\ None \notin Services /\ None \notin AsyncServices
BY Classes DEF Elements

\* Shut of an AsyncService: it has no descriptor, no entry in the map, and does not
\* wait for the timer, so that nothing is due to it any more.
LEMMA ShutAsyncKeeps ==
  ASSUME NEW W \in SUBSET Services, NEW st, Sound(st, W), NEW s \in AsyncServices
  PROVE  Sound(ShutAsync(st, s), W \ {s}) /\ ~ShutAsync(st, s).enable[s]
<1> DEFINE fd == st.m_fd[s]
           closed == IF fd = -1 THEN st
                     ELSE Erase([st EXCEPT !.links[fd] = NetClose(@)], fd)
           off == Disable(closed, s)
           v == [off EXCEPT !.m_connecting[s] = FALSE, !.m_fd[s] = -1]
           u == CancelFromReInit(v, s)
<1>1. ShutAsync(st, s) = u
  BY DEF ShutAsync
<1>2. st \in State /\ s \in Services /\ fd \in Fds \cup {-1}
  BY Classes DEF Sound, State
<1>3. /\ closed \in State /\ closed.enable = st.enable /\ closed.reinit_set = st.reinit_set
      /\ closed.m_fd = st.m_fd /\ closed.m_connecting = st.m_connecting
      /\ SameSockets(closed, st) /\ SameTurns(closed, st)
      /\ fd = -1 => closed.links = st.links /\ closed.fd_service_map = st.fd_service_map
      /\ fd # -1 => /\ closed.links = [st.links EXCEPT ![fd] = NetClose(st.links[fd])]
                    /\ closed.fd_service_map = [st.fd_service_map EXCEPT ![fd] = None]
  <2>1. CASE fd = -1
    BY <1>2, <2>1 DEF SameSockets, SameTurns
  <2>2. CASE fd # -1
    <3>1. fd \in Fds /\ NetClose(st.links[fd]) \in Links
      BY <1>2, <2>2 DEF NetClose, Links
    <3>2. closed = Erase([st EXCEPT !.links[fd] = NetClose(st.links[fd])], fd)
      BY <2>2
    <3> HIDE DEF closed, fd
    <3>3. QED
      BY <1>2, <2>2, <3>1, <3>2, ClosedIs
  <2>3. QED
    BY <2>1, <2>2
<1> HIDE DEF closed
<1>4. /\ off \in State /\ Told(off.enable)
      /\ \A t \in Services : off.enable[t] <=> (t # s /\ st.enable[t])
      /\ off.reinit_set = st.reinit_set
      /\ SameLinks(off, closed) /\ SameSockets(off, closed) /\ SameTurns(off, closed)
  <2>1. Told(closed.enable)
    BY <1>3 DEF Sound
  <2>2. QED
    BY <1>2, <1>3, <2>1, DisableIs
<1> HIDE DEF off
<1>5. /\ v \in State /\ v.enable = off.enable /\ v.reinit_set = off.reinit_set
      /\ v.m_fd = [st.m_fd EXCEPT ![s] = -1]
      /\ v.m_connecting = [st.m_connecting EXCEPT ![s] = FALSE]
      /\ v.links = closed.links /\ v.fd_service_map = closed.fd_service_map
      /\ SameSockets(v, st) /\ SameTurns(v, st)
  <2>1. /\ v \in State /\ v.enable = off.enable /\ v.reinit_set = off.reinit_set
        /\ v.m_fd = [off.m_fd EXCEPT ![s] = -1]
        /\ v.m_connecting = [off.m_connecting EXCEPT ![s] = FALSE]
        /\ v.links = off.links /\ v.fd_service_map = off.fd_service_map
        /\ SameSockets(v, off) /\ SameTurns(v, off)
    BY <1>4, WithoutFdIs
  <2>2. QED
    BY <1>3, <1>4, <2>1 DEF SameLinks, SameSockets, SameTurns
<1> HIDE DEF v
<1>6. /\ u \in State /\ Told(u.enable)
      /\ \A t \in Services : u.enable[t] <=> (t # s /\ st.enable[t])
      /\ u.reinit_set = st.reinit_set \ {s}
      /\ u.m_fd = [st.m_fd EXCEPT ![s] = -1]
      /\ u.m_connecting = [st.m_connecting EXCEPT ![s] = FALSE]
      /\ u.links = closed.links /\ u.fd_service_map = closed.fd_service_map
      /\ u.open = st.open /\ u.late = st.late /\ SameTurns(u, st)
  <2>1. /\ u \in State /\ u.enable = v.enable /\ u.reinit_set = v.reinit_set \ {s}
        /\ SameLinks(u, v) /\ SameSockets(u, v) /\ SameTurns(u, v)
    BY <1>2, <1>5, ReInitSetIs
  <2>2. QED
    BY <1>3, <1>4, <1>5, <2>1 DEF SameLinks, SameSockets, SameTurns
<1> HIDE DEF u
<1>7. u.reinit_set = {t \in W \ {s} : ~u.enable[t]}
  BY <1>6 DEF Sound
<1>8. ASSUME NEW t \in AsyncServices
      PROVE  /\ u.enable[t] <=> u.m_fd[t] # -1 /\ ~u.m_connecting[t]
             /\ u.m_connecting[t] => u.m_fd[t] # -1
             /\ u.m_fd[t] # -1 => t \in W \ {s} /\ u.fd_service_map[u.m_fd[t]] = t
  <2>1. t \in Services
    BY Classes
  <2>2. CASE t = s
    BY <1>2, <1>6, <2>1, <2>2 DEF State
  <2>3. CASE t # s
    <3>1. /\ u.enable[t] <=> st.enable[t]
          /\ u.m_fd[t] = st.m_fd[t] /\ u.m_connecting[t] = st.m_connecting[t]
      BY <1>2, <1>6, <2>1, <2>3 DEF State
    <3>2. /\ st.enable[t] <=> st.m_fd[t] # -1 /\ ~st.m_connecting[t]
          /\ st.m_connecting[t] => st.m_fd[t] # -1
          /\ st.m_fd[t] # -1 => t \in W /\ st.fd_service_map[st.m_fd[t]] = t
      BY DEF Sound, AsyncOK
    <3>3. fd # -1 => st.fd_service_map[fd] = s
      BY DEF Sound, AsyncOK
    <3>4. st.m_fd[t] # -1 => u.fd_service_map[st.m_fd[t]] = t
      BY <1>2, <1>3, <1>6, <2>3, <3>2, <3>3 DEF State
    <3>5. QED
      BY <2>3, <3>1, <3>2, <3>4
  <2>4. QED
    BY <2>2, <2>3
<1>9. SyncOK(u, W \ {s})
  BY <1>6, Classes DEF Sound, SyncOK
<1>10. ASSUME NEW f \in Fds, NEW t, t = u.fd_service_map[f]
       PROVE  IF u.links[f] \in Active
              THEN /\ t \in AsyncServices
                   /\ u.m_fd[t] = f
                   /\ u.m_connecting[t] <=> u.links[f] = "connecting"
              ELSE t = None
  <2>1. CASE f = fd
    <3>1. fd # -1 /\ fd \in Fds
      BY <1>2, <2>1, Nothings
    <3>2. u.links[f] = NetClose(st.links[f]) /\ t = None
      BY <1>2, <1>3, <1>6, <1>10, <2>1, <3>1 DEF State
    <3>3. QED
      BY <3>2 DEF NetClose, Active
  <2>2. CASE f # fd
    <3>1. u.links[f] = st.links[f] /\ t = st.fd_service_map[f]
      BY <1>2, <1>3, <1>6, <1>10, <2>2 DEF State
    <3>2. IF st.links[f] \in Active
          THEN /\ t \in AsyncServices
               /\ st.m_fd[t] = f
               /\ st.m_connecting[t] <=> st.links[f] = "connecting"
          ELSE t = None
      BY <3>1 DEF Sound, MapOK
    <3>3. QED
      BY <1>2, <1>6, <2>2, <3>1, <3>2 DEF State
  <2>3. QED
    BY <2>1, <2>2
<1>11. AsyncOK(u, W \ {s}) /\ MapOK(u) /\ TurnsOK(u)
  BY <1>6, <1>8, <1>10, SameTurnsOK DEF AsyncOK, MapOK, Sound
<1>12. QED
  BY <1>1, <1>2, <1>6, <1>7, <1>9, <1>11 DEF Sound

\* A failure more changes nothing else.
LEMMA FaultyIs ==
  ASSUME NEW st \in State, NEW f \in Faulty(st)
  PROVE  /\ f \in State /\ f.enable = st.enable /\ f.reinit_set = st.reinit_set
         /\ SameLinks(f, st) /\ SameSockets(f, st) /\ SameTurns(f, st)
<1>1. st.faults < MaxFaults /\ f = [st EXCEPT !.faults = @ + 1]
  BY DEF Faulty
<1>2. st.faults + 1 \in 0 .. MaxFaults
  BY <1>1, Classes DEF State
<1>3. QED
  BY <1>1, <1>2 DEF State, SameLinks, SameSockets, SameTurns

\* A state that differs from a sound one in its counters only is sound if they are.
LEMMA SoundAgain ==
  ASSUME NEW W, NEW st, Sound(st, W), NEW u \in State,
         u.enable = st.enable, u.reinit_set = st.reinit_set,
         SameLinks(u, st), SameSockets(u, st), TurnsOK(u)
  PROVE  Sound(u, W)
BY DEF Sound, SameLinks, SameSockets, AsyncOK, SyncOK, MapOK

\* A failure that is only counted changes nothing else.
LEMMA FaultyKeeps ==
  ASSUME NEW W, NEW st, Sound(st, W), NEW f \in Faulty(st)
  PROVE  Sound(f, W)
<1>1. st \in State
  BY DEF Sound
<1>2. QED
  BY <1>1, FaultyIs, SameTurnsOK, SoundAgain DEF Sound

\* The socket of a service that is shut may have been left in any state.
LEMMA ShutSyncKeeps ==
  ASSUME NEW W \in SUBSET Services, NEW st, Sound(st, W), NEW s \in SyncServices,
         NEW left \in State, left.enable = st.enable, left.reinit_set = st.reinit_set,
         SameLinks(left, st), SameTurns(left, st),
         \A t \in SyncServices \ {s} : left.open[t] = st.open[t] /\ left.late[t] = st.late[t]
  PROVE  Sound(ShutSync(left, s), W \ {s}) /\ ~ShutSync(left, s).enable[s]
<1> DEFINE off == Disable(left, s)
           v == [off EXCEPT !.open[s] = FALSE, !.late[s] = FALSE]
           u == CancelFromReInit(v, s)
<1>1. ShutSync(left, s) = u
  BY DEF ShutSync
<1>2. s \in Services /\ Told(left.enable)
  BY Classes DEF Sound
<1>3. /\ off \in State /\ Told(off.enable)
      /\ \A t \in Services : off.enable[t] <=> (t # s /\ st.enable[t])
      /\ off.reinit_set = st.reinit_set
      /\ SameLinks(off, left) /\ SameSockets(off, left) /\ SameTurns(off, left)
  BY <1>2, DisableIs
<1> HIDE DEF off
<1>4. /\ v \in State /\ v.enable = off.enable /\ v.reinit_set = off.reinit_set
      /\ v.open = [off.open EXCEPT ![s] = FALSE]
      /\ v.late = [off.late EXCEPT ![s] = FALSE]
      /\ SameLinks(v, off) /\ SameTurns(v, off)
  <2>1. off \in State
    BY <1>3
  <2>2. QED
    BY <2>1 DEF State, SameLinks, SameTurns
<1> HIDE DEF v
<1>5. /\ u \in State /\ Told(u.enable)
      /\ \A t \in Services : u.enable[t] <=> (t # s /\ st.enable[t])
      /\ u.reinit_set = st.reinit_set \ {s}
      /\ u.open = [left.open EXCEPT ![s] = FALSE] /\ u.late = [left.late EXCEPT ![s] = FALSE]
      /\ SameLinks(u, st) /\ SameTurns(u, st)
  <2>1. /\ u \in State /\ u.enable = v.enable /\ u.reinit_set = v.reinit_set \ {s}
        /\ SameLinks(u, v) /\ SameSockets(u, v) /\ SameTurns(u, v)
    BY <1>2, <1>4, ReInitSetIs
  <2>2. QED
    BY <1>3, <1>4, <2>1 DEF SameLinks, SameSockets, SameTurns
<1> HIDE DEF u
<1>6. u.reinit_set = {t \in W \ {s} : ~u.enable[t]}
  BY <1>5 DEF Sound
<1>7. AsyncOK(u, W \ {s})
  <2>1. \A t \in AsyncServices : t \in Services /\ t # s /\ (u.enable[t] <=> st.enable[t])
    BY <1>5, Classes
  <2>2. QED
    BY <1>5, <2>1 DEF Sound, AsyncOK, SameLinks
<1>8. SyncOK(u, W \ {s})
  <2>1. ASSUME NEW t \in SyncServices
        PROVE  /\ t \in Services
               /\ u.open[t] <=> (t # s /\ st.open[t])
               /\ u.late[t] <=> (t # s /\ st.late[t])
    <3>1. left.open \in [SyncServices -> BOOLEAN] /\ left.late \in [SyncServices -> BOOLEAN]
      BY DEF State
    <3>2. CASE t = s
      BY <1>5, <3>1, <3>2, Classes
    <3>3. CASE t # s
      BY <1>5, <3>1, <3>3, Classes
    <3>4. QED
      BY <3>2, <3>3
  <2>2. QED
    BY <1>5, <2>1 DEF Sound, SyncOK
<1>9. MapOK(u) /\ TurnsOK(u)
  BY <1>5, SameTurnsOK DEF Sound, MapOK, SameLinks
<1>10. QED
  BY <1>1, <1>2, <1>5, <1>6, <1>7, <1>8, <1>9 DEF Sound

\* Shut of either kind of service.
LEMMA ShutKeeps ==
  ASSUME NEW W \in SUBSET Services, NEW st, Sound(st, W), NEW s \in Services
  PROVE  Sound(Shut(st, s), W \ {s}) /\ ~Shut(st, s).enable[s]
<1>1. CASE s \in SyncServices
  <2>1. st \in State /\ SameLinks(st, st) /\ SameTurns(st, st)
    BY DEF Sound, SameLinks, SameTurns
  <2>2. QED
    BY <1>1, <2>1, ShutSyncKeeps DEF Shut
<1>2. CASE s \notin SyncServices
  BY <1>2, ShutAsyncKeeps DEF Shut, AsyncServices
<1>3. QED
  BY <1>1, <1>2

\* To disable what is not enabled changes nothing.
LEMMA DisableNothing ==
  ASSUME NEW st \in State, NEW s \in Services, ~st.enable[s]
  PROVE  Disable(st, s) = st
<1>1. Disable(st, s) = [st EXCEPT !.enable = st.enable]
  BY DEF Disable, Lowered
<1>2. QED
  BY <1>1 DEF State

\* A service that is not enabled may be put into the set of those to be retried.
LEMMA RetriedKeeps ==
  ASSUME NEW W \in SUBSET Services, NEW st, Sound(st, W), NEW s \in Services, ~st.enable[s]
  PROVE  Sound(SetToReInit(st, s), W \cup {s})
<1> DEFINE u == SetToReInit(st, s)
<1>1. st \in State
  BY DEF Sound
<1>2. /\ u \in State /\ u.enable = st.enable /\ u.reinit_set = st.reinit_set \cup {s}
      /\ SameLinks(u, st) /\ SameSockets(u, st) /\ SameTurns(u, st)
  BY <1>1, ReInitSetIs
<1> HIDE DEF u
<1>3. u.reinit_set = {t \in W \cup {s} : ~u.enable[t]}
  BY <1>2 DEF Sound
<1>4. AsyncOK(u, W \cup {s}) /\ SyncOK(u, W \cup {s}) /\ MapOK(u)
  BY <1>2 DEF Sound, AsyncOK, SyncOK, MapOK, SameLinks, SameSockets
<1>5. TurnsOK(u)
  BY <1>2, SameTurnsOK DEF Sound
<1>6. QED
  BY <1>2, <1>3, <1>4, <1>5 DEF Sound, u

\* A service that should not be connected has nothing.
LEMMA NotWanted ==
  ASSUME NEW W \in SUBSET Services, NEW st, Sound(st, W), NEW s \in Services, s \notin W
  PROVE  /\ ~st.enable[s] /\ s \notin st.reinit_set
         /\ s \in AsyncServices => st.m_fd[s] = -1 /\ ~st.m_connecting[s]
         /\ s \in SyncServices => ~st.open[s] /\ ~st.late[s]
BY Classes DEF Sound, AsyncOK, SyncOK

\* Init of an AsyncService whose connect failed leaves it to the timer.
LEMMA RefusedKeeps ==
  ASSUME NEW W \in SUBSET Services, NEW st, Sound(st, W), NEW s \in AsyncServices, s \notin W
  PROVE  Sound(Refused(st, s), W \cup {s})
<1> DEFINE v == [st EXCEPT !.m_fd[s] = -1, !.m_connecting[s] = FALSE]
<1>1. st \in State /\ s \in Services
  BY Classes DEF Sound
<1>2. ~st.enable[s] /\ st.m_fd[s] = -1 /\ ~st.m_connecting[s]
  BY <1>1, NotWanted
<1>3. v = st
  <2>1. v = [st EXCEPT !.m_fd = [st.m_fd EXCEPT ![s] = -1],
                       !.m_connecting = [st.m_connecting EXCEPT ![s] = FALSE]]
    BY <1>1 DEF State
  <2>2. [st.m_fd EXCEPT ![s] = -1] = st.m_fd
    BY <1>1, <1>2 DEF State
  <2>3. [st.m_connecting EXCEPT ![s] = FALSE] = st.m_connecting
    BY <1>1, <1>2 DEF State
  <2>4. QED
    BY <1>1, <2>1, <2>2, <2>3 DEF State
<1>4. Refused(st, s) = SetToReInit(st, s)
  BY <1>3 DEF Refused
<1>5. QED
  BY <1>1, <1>2, <1>4, RetriedKeeps

\* Init of an AsyncService whose connect is in progress: the new descriptor has no
\* entry in the map yet, so that the service gets it.
LEMMA ConnectingKeeps ==
  ASSUME NEW W \in SUBSET Services, NEW st, Sound(st, W), NEW s \in AsyncServices, s \notin W,
         NEW fd \in Fds, st.links[fd] = "none"
  PROVE  Sound(Connecting(st, s, fd), W \cup {s})
<1> DEFINE v == [st EXCEPT !.m_fd[s] = fd, !.m_connecting[s] = TRUE,
                           !.links[fd] = "connecting",
                           !.fd_service_map[fd] = IF @ = None THEN s ELSE @]
           u == SetToReInit(v, s)
<1>1. st \in State /\ s \in Services /\ fd # -1
  BY Classes, Nothings DEF Sound
<1>2. ~st.enable[s] /\ st.m_fd[s] = -1 /\ ~st.m_connecting[s]
  BY <1>1, NotWanted
<1>3. st.fd_service_map[fd] = None
  BY DEF Sound, MapOK, Active
<1>4. /\ v \in State /\ v.enable = st.enable /\ v.reinit_set = st.reinit_set
      /\ v.m_fd = [st.m_fd EXCEPT ![s] = fd]
      /\ v.m_connecting = [st.m_connecting EXCEPT ![s] = TRUE]
      /\ v.links = [st.links EXCEPT ![fd] = "connecting"]
      /\ v.fd_service_map = [st.fd_service_map EXCEPT ![fd] = s]
      /\ SameSockets(v, st) /\ SameTurns(v, st)
  <2>1. v = [st EXCEPT !.m_fd = [st.m_fd EXCEPT ![s] = fd],
                       !.m_connecting = [st.m_connecting EXCEPT ![s] = TRUE],
                       !.links = [st.links EXCEPT ![fd] = "connecting"],
                       !.fd_service_map = [st.fd_service_map EXCEPT ![fd] = s]]
    BY <1>1, <1>3 DEF State
  <2>2. /\ [st.m_fd EXCEPT ![s] = fd] \in [AsyncServices -> Fds \cup {-1}]
        /\ [st.m_connecting EXCEPT ![s] = TRUE] \in [AsyncServices -> BOOLEAN]
        /\ [st.links EXCEPT ![fd] = "connecting"] \in [Fds -> Links]
        /\ [st.fd_service_map EXCEPT ![fd] = s] \in [Fds -> AsyncServices \cup {None}]
    BY <1>1 DEF State, Links
  <2> HIDE DEF v
  <2>3. /\ v.m_fd = [st.m_fd EXCEPT ![s] = fd]
        /\ v.m_connecting = [st.m_connecting EXCEPT ![s] = TRUE]
        /\ v.links = [st.links EXCEPT ![fd] = "connecting"]
        /\ v.fd_service_map = [st.fd_service_map EXCEPT ![fd] = s]
    BY <1>1, <2>1 DEF State
  <2>4. v.enable = st.enable /\ v.reinit_set = st.reinit_set
        /\ SameSockets(v, st) /\ SameTurns(v, st)
    BY <1>1, <2>1 DEF State, SameSockets, SameTurns
  <2>5. v \in State
    BY <1>1, <2>1, <2>2 DEF State
  <2>6. QED
    BY <2>3, <2>4, <2>5
<1> HIDE DEF v
<1>5. /\ u \in State /\ u.enable = st.enable /\ u.reinit_set = st.reinit_set \cup {s}
      /\ u.m_fd = [st.m_fd EXCEPT ![s] = fd]
      /\ u.m_connecting = [st.m_connecting EXCEPT ![s] = TRUE]
      /\ u.links = [st.links EXCEPT ![fd] = "connecting"]
      /\ u.fd_service_map = [st.fd_service_map EXCEPT ![fd] = s]
      /\ SameSockets(u, st) /\ SameTurns(u, st)
  <2>1. /\ u \in State /\ u.enable = v.enable /\ u.reinit_set = v.reinit_set \cup {s}
        /\ SameLinks(u, v) /\ SameSockets(u, v) /\ SameTurns(u, v)
    BY <1>1, <1>4, ReInitSetIs
  <2>2. QED
    BY <1>4, <2>1 DEF SameLinks, SameSockets, SameTurns
<1>6. Connecting(st, s, fd) = u
  BY DEF Connecting, v
<1> HIDE DEF u
<1>7. u.reinit_set = {t \in W \cup {s} : ~u.enable[t]}
  BY <1>2, <1>5 DEF Sound
<1>8. ASSUME NEW t \in AsyncServices
      PROVE  /\ u.enable[t] <=> u.m_fd[t] # -1 /\ ~u.m_connecting[t]
             /\ u.m_connecting[t] => u.m_fd[t] # -1
             /\ u.m_fd[t] # -1 => t \in W \cup {s} /\ u.fd_service_map[u.m_fd[t]] = t
  <2>1. CASE t = s
    BY <1>1, <1>2, <1>5, <2>1 DEF State
  <2>2. CASE t # s
    <3>1. u.m_fd[t] = st.m_fd[t] /\ u.m_connecting[t] = st.m_connecting[t]
      BY <1>1, <1>5, <2>2 DEF State
    <3>2. /\ st.enable[t] <=> st.m_fd[t] # -1 /\ ~st.m_connecting[t]
          /\ st.m_connecting[t] => st.m_fd[t] # -1
          /\ st.m_fd[t] # -1 => t \in W /\ st.fd_service_map[st.m_fd[t]] = t
      BY DEF Sound, AsyncOK
    <3>3. st.m_fd[t] # -1 => st.m_fd[t] \in Fds /\ st.m_fd[t] # fd
      BY <1>1, <1>3, <3>2, Nothings DEF State
    <3>4. st.m_fd[t] # -1 => u.fd_service_map[st.m_fd[t]] = t
      BY <1>1, <1>5, <3>2, <3>3 DEF State
    <3>5. QED
      BY <1>5, <3>1, <3>2, <3>4
  <2>3. QED
    BY <2>1, <2>2
<1>9. SyncOK(u, W \cup {s})
  BY <1>5 DEF Sound, SyncOK, SameSockets
<1>10. ASSUME NEW f \in Fds, NEW t, t = u.fd_service_map[f]
       PROVE  IF u.links[f] \in Active
              THEN /\ t \in AsyncServices
                   /\ u.m_fd[t] = f
                   /\ u.m_connecting[t] <=> u.links[f] = "connecting"
              ELSE t = None
  <2>1. CASE f = fd
    BY <1>1, <1>5, <1>10, <2>1 DEF State, Active
  <2>2. CASE f # fd
    <3>1. u.links[f] = st.links[f] /\ t = st.fd_service_map[f]
      BY <1>1, <1>5, <1>10, <2>2 DEF State
    <3>2. IF st.links[f] \in Active
          THEN /\ t \in AsyncServices
               /\ st.m_fd[t] = f
               /\ st.m_connecting[t] <=> st.links[f] = "connecting"
          ELSE t = None
      BY <3>1 DEF Sound, MapOK
    <3>3. t \in AsyncServices /\ st.m_fd[t] = f => t # s
      BY <1>2, Nothings
    <3>4. QED
      BY <1>1, <1>5, <3>1, <3>2, <3>3 DEF State
  <2>3. QED
    BY <2>1, <2>2
<1>11. AsyncOK(u, W \cup {s}) /\ MapOK(u) /\ TurnsOK(u)
  BY <1>5, <1>8, <1>10, SameTurnsOK DEF AsyncOK, MapOK, Sound
<1>12. QED
  BY <1>5, <1>6, <1>7, <1>9, <1>11 DEF Sound

-----------------------------------------------------------------------------
\* A set of natural numbers has a least one: what an induction rests on.
LEMMA LeastOne ==
  ASSUME NEW T \in SUBSET Nat, T # {}
  PROVE  \E m \in T : \A n \in T : m <= n
<1> DEFINE Less == OpToRel(<, Nat)
<1>1. IsWellFoundedOn(Less, Nat)
  BY NatLessThanWellFounded
<1>2. \A m, n \in Nat : m < n => <<m, n>> \in Less
  BY DEF OpToRel
<1> HIDE DEF Less
<1>3. PICK m \in T : \A n \in T : <<n, m>> \notin Less
  BY <1>1, WFMin
<1>4. \A n \in T : ~(n < m)
  BY <1>2, <1>3
<1>5. QED
  BY <1>4

\* A set of natural numbers that is not empty has its minimum.
LEMMA MinIn ==
  ASSUME NEW T \in SUBSET Nat, T # {}
  PROVE  Min(T) \in T /\ \A n \in T : Min(T) <= n
BY LeastOne DEF Min

\* async_net_connect_ser, however it ends.
LEMMA ConnectsKeeps ==
  ASSUME NEW W \in SUBSET Services, NEW st, Sound(st, W), NEW s \in AsyncServices, s \notin W,
         NEW u \in Connects(st, s)
  PROVE  Sound(u, W \cup {s})
<1> DEFINE free == {fd \in Fds : st.links[fd] = "none"}
<1>1. CASE free = {}
  BY <1>1, RefusedKeeps DEF Connects
<1>2. CASE free # {}
  <2>1. Min(free) \in Fds /\ st.links[Min(free)] = "none"
    <3>1. free \in SUBSET Nat
      BY Classes
    <3>2. Min(free) \in free
      BY <1>2, <3>1, MinIn
    <3>3. QED
      BY <3>2
  <2>2. u \in {Connecting(st, s, Min(free))} \cup {Refused(f, s) : f \in Faulty(st)}
    BY <1>2 DEF Connects
  <2>3. CASE u = Connecting(st, s, Min(free))
    BY <2>1, <2>3, ConnectingKeeps
  <2>4. CASE \E f \in Faulty(st) : u = Refused(f, s)
    BY <2>4, FaultyKeeps, RefusedKeeps
  <2>5. QED
    BY <2>2, <2>3, <2>4
<1>3. QED
  BY <1>1, <1>2

\* Init of a SyncService: connected, or shut and left to the timer.
LEMMA InitSyncKeeps ==
  ASSUME NEW W \in SUBSET Services, NEW st, Sound(st, W), NEW s \in SyncServices, s \notin W,
         NEW u \in InitSync(st, s)
  PROVE  Sound(u, W \cup {s})
<1>1. s \in Services /\ st \in State /\ ~st.enable[s]
  BY Classes, NotWanted DEF Sound
<1>2. CASE u = CancelFromReInit(Enable(Opened(st, s), s), s)
  <2> DEFINE v == Opened(st, s)
             w == Enable(v, s)
  <2>1. /\ v \in State /\ v.enable = st.enable /\ v.reinit_set = st.reinit_set
        /\ v.open = [st.open EXCEPT ![s] = TRUE] /\ v.late = st.late
        /\ SameLinks(v, st) /\ SameTurns(v, st)
    BY <1>1 DEF Opened, State, SameLinks, SameTurns
  <2> HIDE DEF v
  <2>2. /\ w \in State /\ Told(w.enable)
        /\ \A t \in Services : w.enable[t] <=> (t = s \/ v.enable[t])
        /\ w.reinit_set = v.reinit_set
        /\ SameLinks(w, v) /\ SameSockets(w, v) /\ SameTurns(w, v)
    <3>1. Told(v.enable)
      BY <2>1 DEF Sound
    <3>2. QED
      BY <1>1, <2>1, <3>1, EnableIs
  <2> HIDE DEF w
  <2>3. /\ u \in State /\ Told(u.enable)
        /\ \A t \in Services : u.enable[t] <=> (t = s \/ st.enable[t])
        /\ u.reinit_set = st.reinit_set \ {s}
        /\ u.open = [st.open EXCEPT ![s] = TRUE] /\ u.late = st.late
        /\ SameLinks(u, st) /\ SameTurns(u, st)
    <3>1. /\ u \in State /\ u.enable = w.enable /\ u.reinit_set = w.reinit_set \ {s}
          /\ SameLinks(u, w) /\ SameSockets(u, w) /\ SameTurns(u, w)
      BY <1>1, <1>2, <2>2, ReInitSetIs DEF w, v
    <3>2. QED
      BY <2>1, <2>2, <3>1 DEF SameLinks, SameSockets, SameTurns
  <2>4. u.reinit_set = {t \in W \cup {s} : ~u.enable[t]}
    BY <1>1, <2>3 DEF Sound
  <2>5. AsyncOK(u, W \cup {s})
    <3>1. \A t \in AsyncServices : t \in Services /\ t # s /\ (u.enable[t] <=> st.enable[t])
      BY <2>3, Classes
    <3>2. QED
      BY <2>3, <3>1 DEF Sound, AsyncOK, SameLinks
  <2>6. SyncOK(u, W \cup {s})
    <3>1. ASSUME NEW t \in SyncServices
          PROVE  /\ t \in Services /\ u.late[t] = st.late[t]
                 /\ u.open[t] <=> (t = s \/ st.open[t])
      <4>1. st.open \in [SyncServices -> BOOLEAN]
        BY <1>1 DEF State
      <4>2. QED
        BY <2>3, <4>1, Classes
    <3>2. QED
      BY <2>3, <3>1 DEF Sound, SyncOK
  <2>7. MapOK(u) /\ TurnsOK(u)
    BY <2>3, SameTurnsOK DEF Sound, MapOK, SameLinks
  <2>8. QED
    BY <2>3, <2>4, <2>5, <2>6, <2>7 DEF Sound
<1>3. CASE \E f \in Faulty(st) : u = SetToReInit(Shut(f, s), s)
  <2>1. PICK f \in Faulty(st) : u = SetToReInit(Shut(f, s), s)
    BY <1>3
  <2>2. Sound(f, W)
    BY FaultyKeeps
  <2>3. Sound(Shut(f, s), W \ {s}) /\ ~Shut(f, s).enable[s]
    BY <1>1, <2>2, ShutKeeps
  <2>4. Sound(u, (W \ {s}) \cup {s})
    BY <1>1, <2>1, <2>3, RetriedKeeps
  <2>5. (W \ {s}) \cup {s} = W \cup {s}
    OBVIOUS
  <2>6. QED
    BY <2>4, <2>5
<1>4. QED
  BY <1>2, <1>3 DEF InitSync

\* Init of a service that has nothing yet.
LEMMA InitKeeps ==
  ASSUME NEW W \in SUBSET Services, NEW st, Sound(st, W), NEW s \in Services, s \notin W,
         NEW u \in InitService(st, s)
  PROVE  Sound(u, W \cup ({s} \ Forbidden))
<1>1. CASE s \in Forbidden
  <2>1. u = Shut(st, s)
    BY <1>1 DEF InitService
  <2>2. W \ {s} = W /\ W \cup ({s} \ Forbidden) = W
    BY <1>1
  <2>3. QED
    BY <2>1, <2>2, ShutKeeps
<1>2. CASE s \in SyncServices \ Forbidden
  <2>1. u \in InitSync(st, s)
    BY <1>2, Classes DEF InitService
  <2>2. {s} \ Forbidden = {s}
    BY <1>2
  <2>3. QED
    BY <1>2, <2>1, <2>2, InitSyncKeeps
<1>3. CASE s \in AsyncServices \ Forbidden
  <2>1. u \in InitAsync(st, s)
    BY <1>3, Classes DEF InitService
  <2>2. {s} \ Forbidden = {s} /\ ~st.m_connecting[s]
    BY <1>3, NotWanted
  <2>3. u \in Connects(st, s)
    BY <2>1, <2>2 DEF InitAsync
  <2>4. QED
    BY <1>3, <2>2, <2>3, ConnectsKeeps
<1>4. QED
  BY <1>1, <1>2, <1>3, Classes

\* One visit of ProcessReInit.
LEMMA VisitKeeps ==
  ASSUME NEW W \in SUBSET (Services \ Forbidden), NEW st, Sound(st, W),
         NEW s \in st.reinit_set, NEW u \in InitService(ReInit(st, s), s)
  PROVE  Sound(u, W)
<1>1. s \in W /\ s \in Services /\ s \notin Forbidden /\ ~st.enable[s] /\ st \in State
  BY DEF Sound
<1>2. Disable(st, s) = st
  BY <1>1, DisableNothing
<1>3. {s} \ Forbidden = {s} /\ (W \ {s}) \cup {s} = W
  BY <1>1
<1>4. Sound(Shut(st, s), W \ {s})
  BY <1>1, ShutKeeps
<1>5. CASE s \in AsyncServices /\ st.m_connecting[s]
  <2>1. ReInit(st, s) = st
    BY <1>2, <1>5 DEF ReInit
  <2>2. u \in {st} \cup UNION {Connects(shut, s) : shut \in {Shut(f, s) : f \in Faulty(st)}}
    BY <1>1, <1>5, <2>1, Classes DEF InitService, InitAsync
  <2>3. CASE u = st
    BY <2>3
  <2>4. CASE \E f \in Faulty(st) : u \in Connects(Shut(f, s), s)
    <3>1. PICK f \in Faulty(st) : u \in Connects(Shut(f, s), s)
      BY <2>4
    <3>2. Sound(f, W)
      BY FaultyKeeps
    <3>3. Sound(Shut(f, s), W \ {s})
      BY <1>1, <3>2, ShutKeeps
    <3>4. Sound(u, (W \ {s}) \cup {s})
      BY <1>5, <3>1, <3>3, ConnectsKeeps
    <3>5. QED
      BY <1>3, <3>4
  <2>5. QED
    BY <2>2, <2>3, <2>4
<1>6. CASE ~(s \in AsyncServices /\ st.m_connecting[s])
  <2>1. ReInit(st, s) = Shut(st, s)
    BY <1>2, <1>6 DEF ReInit
  <2>2. Sound(u, (W \ {s}) \cup ({s} \ Forbidden))
    BY <1>1, <1>4, <2>1, InitKeeps
  <2>3. QED
    BY <1>3, <2>2
<1>7. QED
  BY <1>5, <1>6

-----------------------------------------------------------------------------
(* Events. *)

\* The service of a link that is in use.
LEMMA OwnerIs ==
  ASSUME NEW W, NEW st, Sound(st, W), NEW fd \in Fds, st.links[fd] \in Active
  PROVE  LET s == st.fd_service_map[fd]
         IN  /\ s \in AsyncServices /\ s \in Services /\ s \in W
             /\ st.m_fd[s] = fd
             /\ st.m_connecting[s] <=> st.links[fd] = "connecting"
<1> DEFINE s == st.fd_service_map[fd]
<1>1. /\ s \in AsyncServices /\ st.m_fd[s] = fd
      /\ st.m_connecting[s] <=> st.links[fd] = "connecting"
  BY DEF Sound, MapOK
<1>2. s \in Services /\ fd # -1
  BY <1>1, Classes, Nothings
<1>3. s \in W
  BY <1>1, <1>2 DEF Sound, AsyncOK
<1>4. QED
  BY <1>1, <1>2, <1>3

\* A link that is up enables its service.
LEMMA ConnectedKeeps ==
  ASSUME NEW W \in SUBSET Services, NEW st, Sound(st, W), NEW fd \in Fds,
         st.links[fd] = "connecting", NEW u,
         u = [SetServiceConnected(st, fd) EXCEPT !.links[fd] = "up"]
  PROVE  Sound(u, W)
<1> DEFINE s == st.fd_service_map[fd]
           v == [st EXCEPT !.m_connecting[s] = FALSE]
           on == Enable(v, s)
           w == CancelFromReInit(on, s)
<1>1. /\ s \in AsyncServices /\ s \in Services /\ s \in W
      /\ st.m_fd[s] = fd /\ st.m_connecting[s] /\ fd # -1
  BY OwnerIs, Nothings DEF Active
<1>2. u = [w EXCEPT !.links[fd] = "up"]
  BY <1>1 DEF SetServiceConnected, LinkUp
<1>3. st \in State
  BY DEF Sound
<1> HIDE DEF s
<1>4. /\ v \in State /\ v.enable = st.enable /\ v.reinit_set = st.reinit_set
      /\ v.m_connecting = [st.m_connecting EXCEPT ![s] = FALSE]
      /\ v.m_fd = st.m_fd /\ v.links = st.links /\ v.fd_service_map = st.fd_service_map
      /\ SameSockets(v, st) /\ SameTurns(v, st)
  BY <1>1, <1>3 DEF State, SameSockets, SameTurns
<1> HIDE DEF v
<1>5. /\ on \in State /\ Told(on.enable)
      /\ \A t \in Services : on.enable[t] <=> (t = s \/ v.enable[t])
      /\ on.reinit_set = v.reinit_set
      /\ SameLinks(on, v) /\ SameSockets(on, v) /\ SameTurns(on, v)
  <2>1. Told(v.enable)
    BY <1>4 DEF Sound
  <2>2. QED
    BY <1>1, <1>4, <2>1, EnableIs
<1> HIDE DEF on
<1>6. /\ w \in State /\ w.enable = on.enable /\ w.reinit_set = on.reinit_set \ {s}
      /\ SameLinks(w, on) /\ SameSockets(w, on) /\ SameTurns(w, on)
  BY <1>1, <1>5, ReInitSetIs
<1> HIDE DEF w
<1>7. /\ u \in State /\ u.enable = w.enable /\ u.reinit_set = w.reinit_set
      /\ u.links = [w.links EXCEPT ![fd] = "up"]
      /\ u.m_fd = w.m_fd /\ u.m_connecting = w.m_connecting
      /\ u.fd_service_map = w.fd_service_map
      /\ SameSockets(u, w) /\ SameTurns(u, w)
  <2>1. w \in State /\ "up" \in Links
    BY <1>6 DEF Links
  <2>2. u = [w EXCEPT !.links = [w.links EXCEPT ![fd] = "up"]]
    BY <1>2, <2>1 DEF State
  <2>3. [w.links EXCEPT ![fd] = "up"] \in [Fds -> Links]
    BY <2>1 DEF State
  <2>4. QED
    BY <2>1, <2>2, <2>3 DEF State, SameSockets, SameTurns
<1>8. /\ u \in State /\ Told(u.enable)
      /\ \A t \in Services : u.enable[t] <=> (t = s \/ st.enable[t])
      /\ u.reinit_set = st.reinit_set \ {s}
      /\ u.links = [st.links EXCEPT ![fd] = "up"]
      /\ u.m_connecting = [st.m_connecting EXCEPT ![s] = FALSE]
      /\ u.m_fd = st.m_fd /\ u.fd_service_map = st.fd_service_map
      /\ SameSockets(u, st) /\ SameTurns(u, st)
  BY <1>4, <1>5, <1>6, <1>7 DEF SameLinks, SameSockets, SameTurns
<1>9. u.reinit_set = {t \in W : ~u.enable[t]}
  BY <1>8 DEF Sound
<1>10. AsyncOK(u, W)
  <2>1. ASSUME NEW t \in AsyncServices
        PROVE  /\ u.enable[t] <=> (t = s \/ st.enable[t])
               /\ u.m_connecting[t] <=> (t # s /\ st.m_connecting[t])
    <3>1. st.m_connecting \in [AsyncServices -> BOOLEAN]
      BY <1>3 DEF State
    <3>2. QED
      BY <1>8, <3>1, Classes
  <2>2. QED
    BY <1>1, <1>8, <2>1 DEF Sound, AsyncOK
<1>11. SyncOK(u, W)
  <2>1. \A t \in SyncServices : t # s /\ t \in Services
    BY <1>1, Classes
  <2>2. QED
    BY <1>8, <2>1 DEF Sound, SyncOK, SameSockets
<1>12. ASSUME NEW f \in Fds, NEW t, t = u.fd_service_map[f]
       PROVE  IF u.links[f] \in Active
              THEN /\ t \in AsyncServices
                   /\ u.m_fd[t] = f
                   /\ u.m_connecting[t] <=> u.links[f] = "connecting"
              ELSE t = None
  <2>1. CASE f = fd
    <3>1. t = s /\ u.links[f] = "up"
      BY <1>3, <1>8, <1>12, <2>1 DEF State, s
    <3>2. ~u.m_connecting[s]
      BY <1>1, <1>3, <1>8 DEF State
    <3>3. QED
      BY <1>1, <1>8, <2>1, <3>1, <3>2 DEF Active
  <2>2. CASE f # fd
    <3>1. u.links[f] = st.links[f] /\ t = st.fd_service_map[f]
      BY <1>3, <1>8, <1>12, <2>2 DEF State
    <3>2. IF st.links[f] \in Active
          THEN /\ t \in AsyncServices
               /\ st.m_fd[t] = f
               /\ st.m_connecting[t] <=> st.links[f] = "connecting"
          ELSE t = None
      BY <3>1 DEF Sound, MapOK
    <3>3. t \in AsyncServices /\ st.m_fd[t] = f =>
            t # s /\ (u.m_connecting[t] <=> st.m_connecting[t])
      BY <1>1, <1>3, <1>8, <2>2 DEF State
    <3>4. QED
      BY <1>8, <3>1, <3>2, <3>3
  <2>3. QED
    BY <2>1, <2>2
<1>13. MapOK(u) /\ TurnsOK(u)
  BY <1>8, <1>12, SameTurnsOK DEF MapOK, Sound
<1>14. QED
  BY <1>8, <1>9, <1>10, <1>11, <1>13 DEF Sound

\* A link that changes within what its state allows.
LEMMA LinkKeeps ==
  ASSUME NEW W, NEW st, Sound(st, W), NEW fd \in Fds, NEW to \in Links,
         \/ {st.links[fd], to} \in SUBSET {"up", "sending"}
         \/ {st.links[fd], to} \cap Active = {}
  PROVE  Sound([st EXCEPT !.links[fd] = to], W)
<1> DEFINE u == [st EXCEPT !.links[fd] = to]
<1>1. st \in State
  BY DEF Sound
<1>2. /\ u \in State /\ u.enable = st.enable /\ u.reinit_set = st.reinit_set
      /\ u.links = [st.links EXCEPT ![fd] = to]
      /\ u.m_fd = st.m_fd /\ u.m_connecting = st.m_connecting
      /\ u.fd_service_map = st.fd_service_map
      /\ SameSockets(u, st) /\ SameTurns(u, st)
  <2>1. u = [st EXCEPT !.links = [st.links EXCEPT ![fd] = to]]
    BY <1>1 DEF State
  <2> HIDE DEF u
  <2>2. QED
    BY <1>1, <2>1 DEF State, SameSockets, SameTurns
<1> HIDE DEF u
<1>3. AsyncOK(u, W) /\ SyncOK(u, W) /\ TurnsOK(u)
  BY <1>2, SameTurnsOK DEF Sound, AsyncOK, SyncOK, SameSockets
<1>4. ASSUME NEW f \in Fds
      PROVE  /\ u.links[f] \in Active <=> st.links[f] \in Active
             /\ u.links[f] = "connecting" <=> st.links[f] = "connecting"
  BY <1>1, <1>2 DEF Active, State
<1>5. MapOK(u)
  BY <1>2, <1>4 DEF Sound, MapOK
<1>6. QED
  BY <1>2, <1>3, <1>5 DEF Sound, u

\* A link that ends takes its service along, and the service waits for the timer;
\* none is taken along by a link that only sends what is left.
LEMMA HandleErrorKeeps ==
  ASSUME NEW W \in SUBSET Services, NEW st, Sound(st, W), NEW fd \in Fds,
         st.links[fd] # "none", NEW u, u = HandleError(st, fd)
  PROVE  Sound(u, W)
<1>1. st \in State /\ st.links[fd] \in Links
  BY DEF Sound, State
<1>2. CASE st.links[fd] = "draining"
  <2>1. u = [st EXCEPT !.links[fd] = "none"]
    BY <1>2 DEF HandleError
  <2>2. {st.links[fd], "none"} \cap Active = {} /\ "none" \in Links
    BY <1>2 DEF Active, Links
  <2>3. QED
    BY <2>1, <2>2, LinkKeeps
<1>3. CASE st.links[fd] # "draining"
  <2> DEFINE s == st.fd_service_map[fd]
             gone == Erase(st, fd)
             off == Disable(gone, s)
             v == [off EXCEPT !.m_connecting[s] = FALSE, !.m_fd[s] = -1]
             w == SetToReInit(v, s)
  <2>1. st.links[fd] \in Active
    BY <1>1, <1>3 DEF Links, Active
  <2>2. /\ s \in AsyncServices /\ s \in Services /\ s \in W
        /\ st.m_fd[s] = fd /\ fd # -1
    BY <2>1, OwnerIs, Nothings
  <2>3. u = [w EXCEPT !.links[fd] = "none"]
    BY <1>3, <2>2 DEF HandleError, SetServiceDisconnected, LinkDown
  <2> HIDE DEF s
  <2>4. /\ gone \in State /\ gone.enable = st.enable /\ gone.reinit_set = st.reinit_set
        /\ gone.fd_service_map = [st.fd_service_map EXCEPT ![fd] = None]
        /\ gone.m_connecting = st.m_connecting
        /\ gone.m_fd = st.m_fd /\ gone.links = st.links
        /\ SameSockets(gone, st) /\ SameTurns(gone, st)
    BY <1>1 DEF Erase, State, SameSockets, SameTurns
  <2> HIDE DEF gone
  <2>5. /\ off \in State /\ Told(off.enable)
        /\ \A t \in Services : off.enable[t] <=> (t # s /\ gone.enable[t])
        /\ off.reinit_set = gone.reinit_set
        /\ SameLinks(off, gone) /\ SameSockets(off, gone) /\ SameTurns(off, gone)
    <3>1. Told(gone.enable)
      BY <2>4 DEF Sound
    <3>2. QED
      BY <2>2, <2>4, <3>1, DisableIs
  <2> HIDE DEF off
  <2>6. /\ v \in State /\ v.enable = off.enable /\ v.reinit_set = off.reinit_set
        /\ v.m_fd = [off.m_fd EXCEPT ![s] = -1]
        /\ v.m_connecting = [off.m_connecting EXCEPT ![s] = FALSE]
        /\ v.links = off.links /\ v.fd_service_map = off.fd_service_map
        /\ SameSockets(v, off) /\ SameTurns(v, off)
    BY <2>2, <2>5, WithoutFdIs
  <2> HIDE DEF v
  <2>7. /\ w \in State /\ w.enable = v.enable /\ w.reinit_set = v.reinit_set \cup {s}
        /\ SameLinks(w, v) /\ SameSockets(w, v) /\ SameTurns(w, v)
    BY <2>2, <2>6, ReInitSetIs
  <2> HIDE DEF w
  <2>8. /\ u \in State /\ u.enable = w.enable /\ u.reinit_set = w.reinit_set
        /\ u.links = [w.links EXCEPT ![fd] = "none"]
        /\ u.m_fd = w.m_fd /\ u.m_connecting = w.m_connecting
        /\ u.fd_service_map = w.fd_service_map
        /\ SameSockets(u, w) /\ SameTurns(u, w)
    <3>1. w \in State /\ "none" \in Links
      BY <2>7 DEF Links
    <3>2. u = [w EXCEPT !.links = [w.links EXCEPT ![fd] = "none"]]
      BY <2>3, <3>1 DEF State
    <3>3. [w.links EXCEPT ![fd] = "none"] \in [Fds -> Links]
      BY <3>1 DEF State
    <3>4. QED
      BY <3>1, <3>2, <3>3 DEF State, SameSockets, SameTurns
  <2>9. /\ u \in State /\ Told(u.enable)
        /\ \A t \in Services : u.enable[t] <=> (t # s /\ st.enable[t])
        /\ u.reinit_set = st.reinit_set \cup {s}
        /\ u.m_fd = [st.m_fd EXCEPT ![s] = -1]
        /\ u.m_connecting = [st.m_connecting EXCEPT ![s] = FALSE]
        /\ u.links = [st.links EXCEPT ![fd] = "none"]
        /\ u.fd_service_map = [st.fd_service_map EXCEPT ![fd] = None]
        /\ SameSockets(u, st) /\ SameTurns(u, st)
    BY <2>4, <2>5, <2>6, <2>7, <2>8 DEF SameLinks, SameSockets, SameTurns
  <2>10. u.reinit_set = {t \in W : ~u.enable[t]}
    BY <2>2, <2>9 DEF Sound
  <2>11. ASSUME NEW t \in AsyncServices
         PROVE  /\ u.enable[t] <=> u.m_fd[t] # -1 /\ ~u.m_connecting[t]
                /\ u.m_connecting[t] => u.m_fd[t] # -1
                /\ u.m_fd[t] # -1 => t \in W /\ u.fd_service_map[u.m_fd[t]] = t
    <3>1. CASE t = s
      BY <1>1, <2>2, <2>9, <3>1 DEF State
    <3>2. CASE t # s
      <4>1. /\ t \in Services /\ (u.enable[t] <=> st.enable[t])
            /\ u.m_fd[t] = st.m_fd[t] /\ u.m_connecting[t] = st.m_connecting[t]
        BY <1>1, <2>9, <3>2, Classes DEF State
      <4>2. /\ st.enable[t] <=> st.m_fd[t] # -1 /\ ~st.m_connecting[t]
            /\ st.m_connecting[t] => st.m_fd[t] # -1
            /\ st.m_fd[t] # -1 => t \in W /\ st.fd_service_map[st.m_fd[t]] = t
        BY DEF Sound, AsyncOK
      <4>3. st.m_fd[t] # -1 => st.m_fd[t] \in Fds /\ st.m_fd[t] # fd
        BY <1>1, <3>2, <4>2 DEF State, s
      <4>4. st.m_fd[t] # -1 => u.fd_service_map[st.m_fd[t]] = t
        BY <1>1, <2>9, <4>2, <4>3 DEF State
      <4>5. QED
        BY <4>1, <4>2, <4>4
    <3>3. QED
      BY <3>1, <3>2
  <2>12. SyncOK(u, W)
    <3>1. \A t \in SyncServices : t # s /\ t \in Services
      BY <2>2, Classes
    <3>2. QED
      BY <2>9, <3>1 DEF Sound, SyncOK, SameSockets
  <2>13. ASSUME NEW f \in Fds, NEW t, t = u.fd_service_map[f]
         PROVE  IF u.links[f] \in Active
                THEN /\ t \in AsyncServices
                     /\ u.m_fd[t] = f
                     /\ u.m_connecting[t] <=> u.links[f] = "connecting"
                ELSE t = None
    <3>1. CASE f = fd
      BY <1>1, <2>9, <2>13, <3>1 DEF State, Active
    <3>2. CASE f # fd
      <4>1. u.links[f] = st.links[f] /\ t = st.fd_service_map[f]
        BY <1>1, <2>9, <2>13, <3>2 DEF State
      <4>2. IF st.links[f] \in Active
            THEN /\ t \in AsyncServices
                 /\ st.m_fd[t] = f
                 /\ st.m_connecting[t] <=> st.links[f] = "connecting"
            ELSE t = None
        BY <4>1 DEF Sound, MapOK
      <4>3. t \in AsyncServices /\ st.m_fd[t] = f =>
              /\ t # s /\ u.m_fd[t] = f
              /\ u.m_connecting[t] <=> st.m_connecting[t]
        BY <1>1, <2>2, <2>9, <3>2 DEF State
      <4>4. QED
        BY <4>1, <4>2, <4>3
    <3>3. QED
      BY <3>1, <3>2
  <2>14. AsyncOK(u, W) /\ MapOK(u) /\ TurnsOK(u)
    BY <2>9, <2>11, <2>13, SameTurnsOK DEF AsyncOK, MapOK, Sound
  <2>15. QED
    BY <2>9, <2>10, <2>12, <2>14 DEF Sound
<1>4. QED
  BY <1>2, <1>3

\* Send of an enabled AsyncService, which has a link.
LEMMA SendKeeps ==
  ASSUME NEW W \in SUBSET Services, NEW st, Sound(st, W), NEW s \in AsyncServices,
         st.enable[s], NEW u \in Send(st, s)
  PROVE  Sound(u, W)
<1> DEFINE fd == st.m_fd[s]
<1>1. st \in State
  BY DEF Sound
<1>2. fd \in Fds /\ st.links[fd] \in {"up", "sending"}
  <2>1. fd # -1 /\ ~st.m_connecting[s] /\ st.fd_service_map[fd] = s
    BY DEF Sound, AsyncOK
  <2>2. fd \in Fds
    BY <1>1, <2>1 DEF State
  <2>3. QED
    BY <2>1, <2>2, Nothings DEF Sound, MapOK, Active
<1>3. u \in SendPkg(st, fd)
  BY <1>2 DEF Send
<1> HIDE DEF fd
<1>4. CASE u = st
  BY <1>4
<1>5. CASE u = [st EXCEPT !.links[fd] = IF @ = "up" THEN "sending" ELSE @]
  <2>1. u = [st EXCEPT !.links[fd] = "sending"]
    BY <1>1, <1>2, <1>5 DEF State
  <2>2. {st.links[fd], "sending"} \in SUBSET {"up", "sending"} /\ "sending" \in Links
    BY <1>2 DEF Links
  <2>3. QED
    BY <1>2, <2>1, <2>2, LinkKeeps
<1>6. CASE \E f \in Faulty(st) : u = HandleError(f, fd)
  <2>1. PICK f \in Faulty(st) : u = HandleError(f, fd)
    BY <1>6
  <2>2. Sound(f, W) /\ f.links = st.links
    BY <1>1, FaultyKeeps, FaultyIs DEF SameLinks
  <2>3. f.links[fd] # "none"
    BY <1>2, <2>2
  <2>4. QED
    BY <1>2, <2>1, <2>2, <2>3, HandleErrorKeeps
<1>7. QED
  BY <1>3, <1>4, <1>5, <1>6 DEF SendPkg

\* SendAndRecv of an enabled SyncService: done, or shut and left to the timer.
LEMMA SendAndRecvKeeps ==
  ASSUME NEW W \in SUBSET Services, NEW st, Sound(st, W), NEW s \in SyncServices,
         st.enable[s], NEW u \in SendAndRecv(st, s)
  PROVE  Sound(u, W)
<1>1. s \in W /\ s \in Services /\ (W \ {s}) \cup {s} = W
  BY Classes DEF Sound, SyncOK
<1>2. CASE u = st
  BY <1>2
<1>3. ASSUME NEW f \in Faulty(st), NEW x \in Unfinished(f, s), u = SetToReInit(Shut(x, s), s)
      PROVE  Sound(u, W)
  <2>1. Sound(f, W) /\ f \in State
    BY FaultyKeeps DEF Sound
  <2>2. /\ x \in State /\ x.enable = f.enable /\ x.reinit_set = f.reinit_set
        /\ SameLinks(x, f) /\ SameTurns(x, f)
        /\ \A t \in SyncServices \ {s} : x.open[t] = f.open[t] /\ x.late[t] = f.late[t]
    <3>1. CASE x = [f EXCEPT !.late[s] = TRUE]
      BY <2>1, <3>1 DEF State, SameLinks, SameTurns
    <3>2. CASE x = [f EXCEPT !.open[s] = FALSE, !.late[s] = FALSE]
      BY <2>1, <3>2 DEF State, SameLinks, SameTurns
    <3>3. QED
      BY <3>1, <3>2 DEF Unfinished
  <2>3. Sound(ShutSync(x, s), W \ {s}) /\ ~ShutSync(x, s).enable[s]
    BY <2>1, <2>2, ShutSyncKeeps
  <2>4. u = SetToReInit(ShutSync(x, s), s)
    BY <1>3 DEF Shut
  <2>5. Sound(u, (W \ {s}) \cup {s})
    BY <1>1, <2>3, <2>4, RetriedKeeps
  <2>6. QED
    BY <1>1, <2>5
<1>4. QED
  BY <1>2, <1>3 DEF SendAndRecv

-----------------------------------------------------------------------------
(* Strategies. *)

\* A service, or child, that is not enabled counts from nought again.
Fresh(st) == \A e \in Elements : ~st.enable[e] => st.missed[e] = 0

\* A choice more brings every place but the one chosen a step nearer.
LEMMA AheadIs ==
  ASSUME NEW n \in Nat \ {0}, NEW m \in 0 .. n - 1, NEW i \in 0 .. n - 1
  PROVE  /\ Ahead(m, i, n) \in 0 .. n - 1
         /\ (m + 1) % n \in 0 .. n - 1
         /\ i # m => Ahead((m + 1) % n, i, n) = Ahead(m, i, n) - 1
<1>1. (m + 1) % n = IF m + 1 = n THEN 0 ELSE m + 1
  <2>1. CASE m + 1 = n
    <3>1. n % n = 0
      OBVIOUS
    <3>2. QED
      BY <2>1, <3>1
  <2>2. CASE m + 1 # n
    <3>1. m + 1 \in 0 .. n - 1
      BY <2>2
    <3>2. \A k \in 0 .. n - 1 : k % n = k
      OBVIOUS
    <3>3. QED
      BY <2>2, <3>1, <3>2
  <2>3. QED
    BY <2>1, <2>2
<1>2. QED
  BY <1>1 DEF Ahead

\* FirstEnabled finds an enabled child or none, and the one it starts at if that
\* one is enabled.
LEMMA FirstEnabledIs ==
  ASSUME NEW S, NEW st, NEW kids \in Seq(S), NEW from \in Nat, NEW c,
         Len(kids) # 0, c = FirstEnabled(st, kids, from)
  PROVE  /\ c = None \/ \E i \in 1 .. Len(kids) : c = kids[i] /\ st.enable[c]
         /\ from < Len(kids) /\ st.enable[kids[from + 1]] => c = kids[from + 1]
<1> DEFINE n == Len(kids)
           on == {k \in 0 .. n - 1 : st.enable[kids[((from + k) % n) + 1]]}
<1>1. n \in Nat \ {0}
  BY LenProperties
<1>2. c = IF on = {} THEN None ELSE kids[((from + Min(on)) % n) + 1]
  BY DEF FirstEnabled
<1>3. on # {} => Min(on) \in on /\ \A k \in on : Min(on) <= k
  <2>1. on \in SUBSET Nat
    BY <1>1
  <2> HIDE DEF on
  <2>2. QED
    BY <2>1, MinIn
<1>4. c = None \/ \E i \in 1 .. Len(kids) : c = kids[i] /\ st.enable[c]
  <2>1. CASE on = {}
    BY <1>2, <2>1
  <2>2. CASE on # {}
    <3>1. PICK k \in on : k = Min(on)
      BY <1>3, <2>2
    <3>2. k \in Nat /\ st.enable[kids[((from + k) % n) + 1]]
      BY <1>1
    <3>3. from + k \in Nat
      BY <3>2
    <3>4. PICK x \in Nat : x = from + k
      BY <3>3
    <3>5. x % n \in 0 .. n - 1
      BY <1>1
    <3>6. ((from + k) % n) + 1 \in 1 .. n
      <4> HIDE DEF n
      <4>1. QED
        BY <1>1, <3>4, <3>5
    <3>7. c = kids[((from + k) % n) + 1]
      BY <1>2, <2>2, <3>1
    <3>8. QED
      BY <3>2, <3>6, <3>7
  <2>3. QED
    BY <2>1, <2>2
<1>5. ASSUME from < n, st.enable[kids[from + 1]] PROVE c = kids[from + 1]
  <2>1. (from + 0) % n = from
    <3>1. from \in 0 .. n - 1 /\ from + 0 = from
      BY <1>1, <1>5
    <3>2. \A k \in 0 .. n - 1 : k % n = k
      BY <1>1
    <3>3. QED
      BY <3>1, <3>2
  <2>2. 0 \in on
    BY <1>1, <1>5, <2>1
  <2>3. Min(on) = 0
    <3>1. PICK k \in on : k = Min(on) /\ k <= 0
      BY <1>3, <2>2
    <3>2. k \in Nat
      BY <1>1
    <3>3. QED
      BY <3>1, <3>2
  <2>4. QED
    BY <1>2, <2>1, <2>2, <2>3
<1>6. QED
  BY <1>4, <1>5

\* A region of a hundredth part each has an index of a child.
LEMMA RegionIn ==
  ASSUME NEW n \in Nat \ {0}, 100 % n = 0, NEW x \in 0 .. 99
  PROVE  x \div (100 \div n) \in 0 .. n - 1
<1> DEFINE q == 100 \div n
           i == x \div q
<1>1. q \in Nat /\ 100 = n * q
  BY SMTT(30)
<1> HIDE DEF q
<1>2. q # 0
  BY <1>1
<1>3. i \in Nat /\ q * i <= x
  BY <1>1, <1>2, SMTT(30)
<1> HIDE DEF i
<1>4. ASSUME i >= n PROVE FALSE
  <2>1. q * i >= q * n
    BY <1>1, <1>3, <1>4, SMTT(30)
  <2>2. q * n = 100
    BY <1>1
  <2>3. q * i \in Nat
    BY <1>1, <1>3
  <2>4. QED
    BY <1>3, <2>1, <2>2, <2>3
<1>5. QED
  BY <1>3, <1>4 DEF i, q

\* Every strategy chooses an enabled child or none; round robin the next in turn if
\* that one is enabled.
LEMMA ChosenIs ==
  ASSUME NEW st \in State, NEW p \in Parents, NEW seed \in Nat, NEW c, TurnsOK(st),
         c = Chosen(st, p, seed)
  PROVE  /\ c = None \/ (c \in Range(Children[p]) /\ st.enable[c])
         /\ c # None /\ Strategy[p] = "ROLL" =>
              LET m == st.m_current[p]
                  first == Children[p][m + 1]
              IN  m \in 0 .. Len(Children[p]) - 1 /\ (st.enable[first] => c = first)
<1> DEFINE kids == Children[p]
           n == Len(kids)
           m == st.m_current[p]
<1>1. PICK S : kids \in Seq(S)
  BY ChildrenAre DEF Parents
<1>2. n \in Nat /\ DOMAIN kids = 1 .. n
  BY <1>1, LenProperties
<1>3. m \in 0 .. n /\ (n > 0 => m < n)
  BY DEF TurnsOK
<1>4. Strategy[p] \in GroupStrategies
  BY StrategyAssumption DEF Parents, GroupStrategies
<1>5. \A i \in 1 .. n : kids[i] \in Range(kids)
  BY <1>2 DEF Range
<1>6. CASE n = 0
  BY <1>6 DEF Chosen
<1>7. CASE n # 0 /\ Strategy[p] = "FIXED"
  <2>1. c = FirstEnabled(st, kids, 0)
    BY <1>2, <1>7 DEF Chosen
  <2>2. c = None \/ \E i \in 1 .. n : c = kids[i] /\ st.enable[c]
    <3>1. kids \in Seq(S) /\ Len(kids) # 0 /\ 0 \in Nat
      BY <1>1, <1>2, <1>7
    <3> HIDE DEF kids
    <3>2. QED
      BY <2>1, <3>1, FirstEnabledIs
  <2>3. QED
    BY <1>5, <1>7, <2>2
<1>8. CASE n # 0 /\ Strategy[p] = "ROLL"
  <2>1. c = FirstEnabled(st, kids, m)
    BY <1>2, <1>8 DEF Chosen
  <2>2. m \in Nat /\ m < n /\ m \in 0 .. n - 1
    BY <1>2, <1>3, <1>8
  <2>3. /\ c = None \/ \E i \in 1 .. n : c = kids[i] /\ st.enable[c]
        /\ st.enable[kids[m + 1]] => c = kids[m + 1]
    <3>1. kids \in Seq(S) /\ Len(kids) # 0 /\ m \in Nat /\ m < Len(kids)
      BY <1>1, <1>2, <1>8, <2>2
    <3> HIDE DEF kids, m
    <3>2. QED
      BY <2>1, <3>1, FirstEnabledIs
  <2>4. QED
    BY <1>5, <2>2, <2>3
<1>9. ASSUME NEW i \in 0 .. n - 1, c = Region(st, kids, i)
      PROVE  c = None \/ (c \in Range(kids) /\ st.enable[c])
  <2>1. i + 1 \in 1 .. n
    BY <1>2
  <2>2. QED
    BY <1>5, <1>9, <2>1 DEF Region
<1>10. CASE n # 0 /\ Strategy[p] = "INT_REGION"
  <2>1. c = Region(st, kids, (seed % 100) \div (100 \div n))
    <3>1. n # 0 /\ n > 0 /\ Strategy[p] # "FIXED" /\ Strategy[p] # "ROLL"
          /\ Strategy[p] # "STRING_REGION"
      BY <1>2, <1>10
    <3>2. QED
      BY <1>10, <3>1, Zenon DEF Chosen
  <2>2. 100 % n = 0
    BY <1>10, StrategyAssumption DEF Parents
  <2>3. seed % 100 \in 0 .. 99
    OBVIOUS
  <2>4. (seed % 100) \div (100 \div n) \in 0 .. n - 1
    BY <1>2, <1>10, <2>2, <2>3, RegionIn
  <2>5. c = None \/ (c \in Range(kids) /\ st.enable[c])
    BY <1>9, <2>1, <2>4
  <2>6. QED
    BY <1>10, <2>5
<1>11. CASE n # 0 /\ Strategy[p] = "STRING_REGION"
  <2>1. c = Region(st, kids, seed % n)
    BY <1>2, <1>11 DEF Chosen
  <2>2. seed % n \in 0 .. n - 1
    <3>1. n \in Nat \ {0}
      BY <1>2, <1>11
    <3> HIDE DEF n
    <3>2. QED
      BY <3>1
  <2>3. c = None \/ (c \in Range(kids) /\ st.enable[c])
    BY <1>9, <2>1, <2>2
  <2>4. QED
    BY <1>11, <2>3
<1>12. QED
  BY <1>4, <1>6, <1>7, <1>8, <1>10, <1>11 DEF GroupStrategies

\* A choice keeps the turns: a child that is passed over has come a step nearer, and
\* one that is chosen or disabled has not been passed over since.
LEMMA PickIs ==
  ASSUME NEW st \in State, NEW p \in Parents, NEW seed \in Nat, TurnsOK(st), Fresh(st),
         NEW r, r = Pick(st, p, seed)
  PROVE  /\ r.to = None \/ (r.to \in Range(Children[p]) /\ st.enable[r.to])
         /\ r.st \in State /\ r.st.enable = st.enable /\ r.st.reinit_set = st.reinit_set
         /\ SameLinks(r.st, st) /\ SameSockets(r.st, st)
         /\ TurnsOK(r.st) /\ Fresh(r.st)
<1> DEFINE c == Chosen(st, p, seed)
           kids == Children[p]
           n == Len(kids)
           m == st.m_current[p]
           u == Choose(st, p, c)
<1>1. r.to = c /\ r.st = u
  BY DEF Pick
<1>2. /\ c = None \/ (c \in Range(kids) /\ st.enable[c])
      /\ c # None /\ Strategy[p] = "ROLL" =>
           m \in 0 .. n - 1 /\ (st.enable[kids[m + 1]] => c = kids[m + 1])
  BY ChosenIs
<1> HIDE DEF c
<1>3. CASE c = None \/ Strategy[p] # "ROLL"
  <2>1. u = st
    BY <1>3 DEF Choose
  <2>2. QED
    BY <1>1, <1>2, <2>1 DEF SameLinks, SameSockets
<1>4. CASE c # None /\ Strategy[p] = "ROLL"
  <2> DEFINE others == {e \in Range(kids) \ {c} : st.enable[e]}
             mi == [e \in Elements |-> IF e = c THEN 0
                      ELSE IF e \in others THEN st.missed[e] + 1 ELSE st.missed[e]]
             mc == [st.m_current EXCEPT ![p] = (m + 1) % n]
             v == [st EXCEPT !.missed = mi]
  <2>1. m \in 0 .. n - 1 /\ (st.enable[kids[m + 1]] => c = kids[m + 1])
    BY <1>2, <1>4
  <2>2. n \in Nat \ {0} /\ DOMAIN kids = 1 .. n
    <3>1. PICK S : kids \in Seq(S)
      BY ChildrenAre DEF Parents
    <3>2. n \in Nat /\ DOMAIN kids = 1 .. n
      BY <3>1, LenProperties
    <3>3. QED
      BY <2>1, <3>2
  <2>3. v = Passed(st, p, c)
    BY DEF Passed, State
  <2>4. mi \in [Elements -> Nat]
    BY DEF State
  <2>5. mc \in [Parents -> Nat] /\ (m + 1) % n \in 0 .. n - 1
    <3>1. (m + 1) % n \in 0 .. n - 1
      BY <2>1, <2>2, AheadIs
    <3>2. QED
      BY <2>2, <3>1 DEF State
  <2> HIDE DEF mi
  <2>6. /\ v \in State /\ v.enable = st.enable /\ v.reinit_set = st.reinit_set
        /\ SameLinks(v, st) /\ SameSockets(v, st)
        /\ v.m_current = st.m_current /\ v.missed = mi
    BY <2>4 DEF State, SameLinks, SameSockets
  <2> HIDE DEF v
  <2>7. u = [v EXCEPT !.m_current = mc]
    <3>1. u = [v EXCEPT !.m_current[p] = (@ + 1) % n]
      BY <1>4, <2>3 DEF Choose
    <3>2. v \in State
      BY <2>6
    <3>3. u = [v EXCEPT !.m_current = [v.m_current EXCEPT ![p] = (v.m_current[p] + 1) % n]]
      BY <3>1, <3>2 DEF State
    <3>4. QED
      BY <2>6, <3>3
  <2> HIDE DEF mc, u
  <2>8. /\ u \in State /\ u.enable = v.enable /\ u.reinit_set = v.reinit_set
        /\ SameLinks(u, v) /\ SameSockets(u, v)
        /\ u.m_current = mc /\ u.missed = v.missed
    <3>1. v \in State
      BY <2>6
    <3>2. QED
      BY <3>1, <2>5, <2>7 DEF State, SameLinks, SameSockets
  <2>9. /\ u \in State /\ u.enable = st.enable /\ u.reinit_set = st.reinit_set
        /\ SameLinks(u, st) /\ SameSockets(u, st)
        /\ u.m_current = mc /\ u.missed = mi
    BY <2>6, <2>8 DEF SameLinks, SameSockets
  <2>10. Fresh(u)
    BY <2>9 DEF Fresh, mi
  <2>11. ASSUME NEW q \in Parents
         PROVE  LET k == Len(Children[q])
                    o == u.m_current[q]
                IN  /\ o \in 0 .. k
                    /\ k > 0 => o < k
                    /\ Strategy[q] = "ROLL" =>
                         \A i \in 1 .. k : u.missed[Children[q][i]] + Ahead(o, i - 1, k) < k
    <3>1. CASE q = p
      <4>1. u.m_current[q] = (m + 1) % n
        BY <2>9, <3>1 DEF mc, State
      <4>2. ASSUME NEW i \in 1 .. n
            PROVE  u.missed[kids[i]] + Ahead((m + 1) % n, i - 1, n) < n
        <5> DEFINE e == kids[i]
        <5>1. e \in Elements /\ e \in Range(kids)
          <6>1. e \in Range(kids)
            BY <2>2 DEF Range
          <6>2. QED
            BY <6>1, ChildrenAre, Classes DEF Parents, Elements
        <5>2. u.missed[e] = IF e = c THEN 0
                ELSE IF st.enable[e] THEN st.missed[e] + 1 ELSE st.missed[e]
          BY <2>9, <5>1 DEF mi
        <5>3. st.missed[e] \in Nat /\ (~st.enable[e] => st.missed[e] = 0)
          BY <5>1 DEF State, Fresh
        <5>4. /\ Ahead(m, i - 1, n) \in 0 .. n - 1
              /\ Ahead((m + 1) % n, i - 1, n) \in 0 .. n - 1
              /\ i - 1 # m => Ahead((m + 1) % n, i - 1, n) = Ahead(m, i - 1, n) - 1
          <6>1. i - 1 \in 0 .. n - 1
            BY <2>2
          <6>2. QED
            BY <2>1, <2>2, <2>5, <6>1, AheadIs
        <5>5. CASE e = c \/ ~st.enable[e]
          BY <2>2, <5>2, <5>3, <5>4, <5>5
        <5>6. CASE e # c /\ st.enable[e]
          <6>1. i - 1 # m
            BY <2>1, <2>2, <5>6
          <6>2. st.missed[e] + Ahead(m, i - 1, n) < n
            BY <1>4 DEF TurnsOK
          <6>3. u.missed[e] = st.missed[e] + 1
            BY <5>2, <5>6
          <6>4. PICK a \in Nat : a = st.missed[e]
            BY <5>3
          <6>5. PICK b \in Int : b = Ahead(m, i - 1, n)
            BY <2>2, <5>4
          <6>6. PICK d \in Int : d = Ahead((m + 1) % n, i - 1, n)
            BY <2>2, <5>4
          <6>7. PICK k \in Int : k = n
            BY <2>2
          <6>8. a + b < k
            BY <6>2, <6>4, <6>5, <6>7
          <6>9. d = b - 1
            BY <5>4, <6>1, <6>5, <6>6
          <6>10. (a + 1) + d < k
            BY <6>8, <6>9
          <6>11. QED
            BY <6>3, <6>4, <6>6, <6>7, <6>10
        <5>7. QED
          BY <5>5, <5>6
      <4>3. QED
        BY <2>2, <2>5, <3>1, <4>1, <4>2
    <3>2. CASE q # p
      <4>1. u.m_current[q] = st.m_current[q]
        BY <2>9, <3>2 DEF mc, State
      <4>2. ASSUME NEW i \in 1 .. Len(Children[q])
            PROVE  u.missed[Children[q][i]] = st.missed[Children[q][i]]
        <5> DEFINE e == Children[q][i]
        <5>1. e \in Range(Children[q])
          <6>1. PICK S : Children[q] \in Seq(S)
            BY ChildrenAre DEF Parents
          <6>2. QED
            BY <6>1 DEF Range
        <5>2. e \in Services \cup Replicas
          BY <5>1, ChildrenAre DEF Parents
        <5>3. e \in Elements /\ e \notin Range(kids)
          BY <3>2, <5>1, <5>2, ParentsAre DEF Elements, Parents
        <5>4. e # c
          BY <1>2, <1>4, <5>3
        <5>5. QED
          BY <2>9, <5>3, <5>4 DEF mi
      <4>3. QED
        BY <4>1, <4>2 DEF TurnsOK
    <3>3. QED
      BY <3>1, <3>2
  <2>12. TurnsOK(u)
    BY <2>11 DEF TurnsOK
  <2>13. QED
    BY <1>1, <1>2, <2>9, <2>10, <2>12
<1>5. QED
  BY <1>3, <1>4

\* A request goes to a service that is enabled, if to any.
LEMMA RouteIs ==
  ASSUME NEW W, NEW st, Sound(st, W), Fresh(st), NEW g \in Groups, NEW seed \in Seeds,
         NEW r, r = Route(st, g, seed)
  PROVE  /\ r.to = None \/ (r.to \in Services /\ r.st.enable[r.to])
         /\ Sound(r.st, W)
<1> DEFINE a == Pick(st, g, seed)
<1>1. seed \in Nat /\ g \in Parents /\ st \in State /\ TurnsOK(st)
  BY TreeAssumption DEF Parents, Sound
<1>2. /\ a.to = None \/ (a.to \in Range(Children[g]) /\ st.enable[a.to])
      /\ a.st \in State /\ a.st.enable = st.enable /\ a.st.reinit_set = st.reinit_set
      /\ SameLinks(a.st, st) /\ SameSockets(a.st, st)
      /\ TurnsOK(a.st) /\ Fresh(a.st)
  BY <1>1, PickIs
<1>3. Sound(a.st, W)
  BY <1>2, SoundAgain
<1>4. r = IF a.to = None THEN a ELSE Pick(a.st, a.to, seed)
  BY DEF Route
<1> HIDE DEF a
<1>5. CASE a.to = None
  BY <1>3, <1>4, <1>5
<1>6. CASE a.to # None
  <2>1. a.to \in Replicas /\ a.to \in Parents /\ r = Pick(a.st, a.to, seed)
    BY <1>2, <1>4, <1>6, ChildrenAre DEF Parents
  <2>2. /\ r.to = None \/ (r.to \in Range(Children[a.to]) /\ a.st.enable[r.to])
        /\ r.st \in State /\ r.st.enable = a.st.enable /\ r.st.reinit_set = a.st.reinit_set
        /\ SameLinks(r.st, a.st) /\ SameSockets(r.st, a.st) /\ TurnsOK(r.st)
    BY <1>1, <1>2, <2>1, PickIs
  <2>3. Sound(r.st, W)
    BY <1>3, <2>2, SoundAgain
  <2>4. QED
    BY <2>1, <2>2, <2>3, ChildrenAre
<1>7. QED
  BY <1>5, <1>6

-----------------------------------------------------------------------------
(* Lists made into one sequence. *)

\* f[i] is what the first i members of the list l make put end to end: what the
\* recursive function of FlattenSeq stands for.
Joins(f, l) ==
  f = [i \in 1 .. Len(l) |-> IF i = 1 THEN l[i] ELSE f[i - 1] \o l[i]]

\* There is such a function.
LEMMA JoinsExists ==
  ASSUME NEW S, NEW l \in Seq(S)
  PROVE  \E f : Joins(f, l)
<1> DEFINE Upto(f, n) == f = [i \in 1 .. n |-> IF i = 1 THEN l[i] ELSE f[i - 1] \o l[i]]
           Bad == {n \in Nat : ~\E f : Upto(f, n)}
<1>1. Len(l) \in Nat
  BY LenProperties
<1>2. SUFFICES ASSUME Bad # {} PROVE FALSE
  BY <1>1 DEF Joins
<1>3. PICK n \in Bad : \A k \in Bad : n <= k
  <2>1. Bad \in SUBSET Nat
    OBVIOUS
  <2> HIDE DEF Bad
  <2>2. QED
    BY <1>2, <2>1, LeastOne
<1>4. n \in Nat /\ ~\E f : Upto(f, n)
  OBVIOUS
<1>5. CASE n = 0
  <2> DEFINE f == [i \in 1 .. 0 |-> l[1]]
  <2>1. Upto(f, 0)
    OBVIOUS
  <2>2. QED
    BY <1>4, <1>5, <2>1
<1>6. CASE n # 0
  <2>1. n - 1 \in Nat /\ ~(n <= n - 1)
    BY <1>4, <1>6
  <2>2. PICK f : Upto(f, n - 1)
    BY <1>3, <2>1
  <2> DEFINE g == [i \in 1 .. n |-> IF i < n THEN f[i]
                                    ELSE IF n = 1 THEN l[n] ELSE f[n - 1] \o l[n]]
  <2>3. ASSUME NEW i \in 1 .. n PROVE g[i] = IF i = 1 THEN l[i] ELSE g[i - 1] \o l[i]
    <3>1. CASE i < n
      <4>1. /\ i \in 1 .. n - 1 /\ g[i] = f[i]
            /\ i # 1 => i - 1 \in 1 .. n /\ g[i - 1] = f[i - 1]
        BY <1>4, <3>1
      <4>2. f[i] = IF i = 1 THEN l[i] ELSE f[i - 1] \o l[i]
        BY <2>2, <4>1
      <4>3. QED
        BY <4>1, <4>2
    <3>2. CASE i = n
      <4>1. i # 1 => i - 1 \in 1 .. n /\ i - 1 < n
        BY <1>4, <3>2
      <4>2. QED
        BY <3>2, <4>1
    <3>3. QED
      BY <1>4, <3>1, <3>2
  <2>4. Upto(g, n)
    <3>1. g = [i \in 1 .. n |-> g[i]]
      OBVIOUS
    <3> HIDE DEF g
    <3>2. QED
      BY <2>3, <3>1
  <2>5. QED
    BY <1>4, <2>4
<1>7. QED
  BY <1>5, <1>6

\* What FlattenSeq makes of a list.
LEMMA FlattenJoins ==
  ASSUME NEW S, NEW l \in Seq(S), l # <<>>
  PROVE  \E f : Joins(f, l) /\ FlattenSeq(l) = f[Len(l)]
<1> DEFINE f == CHOOSE f : Joins(f, l)
<1>1. Joins(f, l)
  BY JoinsExists
<1>2. Len(l) # 0
  BY EmptySeq
<1>3. FlattenSeq(l) = f[Len(l)]
  BY <1>2 DEF FlattenSeq, Joins
<1>4. QED
  BY <1>1, <1>3

\* It is one function: two lists that begin alike are made into what begins alike.
LEMMA JoinsAgree ==
  ASSUME NEW l, NEW k, Len(l) \in Nat, Len(k) \in Nat, NEW n \in Nat, n <= Len(l), n <= Len(k),
         \A i \in 1 .. n : l[i] = k[i],
         NEW f, NEW g, Joins(f, l), Joins(g, k)
  PROVE  \A i \in 1 .. n : f[i] = g[i]
<1> DEFINE Bad == {i \in 1 .. n : f[i] # g[i]}
<1>1. SUFFICES ASSUME Bad # {} PROVE FALSE
  OBVIOUS
<1>2. PICK i \in Bad : \A j \in Bad : i <= j
  <2>1. Bad \in SUBSET Nat
    OBVIOUS
  <2> HIDE DEF Bad
  <2>2. QED
    BY <1>1, <2>1, LeastOne
<1>3. i \in 1 .. n /\ i \in 1 .. Len(l) /\ i \in 1 .. Len(k) /\ f[i] # g[i] /\ l[i] = k[i]
  OBVIOUS
<1>4. /\ f[i] = IF i = 1 THEN l[i] ELSE f[i - 1] \o l[i]
      /\ g[i] = IF i = 1 THEN k[i] ELSE g[i - 1] \o k[i]
  BY <1>3 DEF Joins
<1>5. i # 1
  BY <1>3, <1>4
<1>6. i - 1 \in 1 .. n /\ ~(i <= i - 1)
  BY <1>3, <1>5
<1>7. f[i - 1] = g[i - 1]
  BY <1>2, <1>6
<1>8. QED
  BY <1>3, <1>4, <1>5, <1>7

\* A member more changes nothing of what comes before.
LEMMA JoinsLonger ==
  \A l, k, f, g :
    /\ Joins(f, l) /\ Joins(g, k)
    /\ Len(l) \in Nat \ {0} /\ Len(k) = Len(l) + 1
    /\ \A i \in 1 .. Len(l) : l[i] = k[i]
    => f[Len(l)] = g[Len(l)]
<1> SUFFICES ASSUME NEW l, NEW k, NEW f, NEW g, Joins(f, l), Joins(g, k),
                    Len(l) \in Nat \ {0}, Len(k) = Len(l) + 1,
                    \A i \in 1 .. Len(l) : l[i] = k[i]
             PROVE  f[Len(l)] = g[Len(l)]
  OBVIOUS
<1>1. \A i \in 1 .. Len(l) : f[i] = g[i]
  <2>1. PICK n : n = Len(l)
    OBVIOUS
  <2>2. /\ n \in Nat /\ n <= Len(l) /\ n <= Len(k) /\ Len(l) \in Nat /\ Len(k) \in Nat
        /\ \A i \in 1 .. n : l[i] = k[i]
    BY <2>1
  <2>3. \A i \in 1 .. n : f[i] = g[i]
    BY <2>2, JoinsAgree, SMTT(20)
  <2>4. QED
    BY <2>1, <2>3
<1>2. QED
  BY <1>1

\* Nothing is made of nothing.
LEMMA FlattenEmpty == FlattenSeq(<<>>) = <<>>
BY EmptySeq DEF FlattenSeq

\* One more member goes to the end.
LEMMA FlattenAppend ==
  ASSUME NEW S, NEW l \in Seq(Seq(S)), NEW e \in Seq(S)
  PROVE  FlattenSeq(Append(l, e)) = FlattenSeq(l) \o e
<1>1. PICK k : k = Append(l, e)
  OBVIOUS
<1>2. /\ k \in Seq(Seq(S)) /\ k # <<>>
      /\ Len(k) = Len(l) + 1
      /\ \A i \in 1 .. Len(l) : k[i] = l[i]
      /\ k[Len(l) + 1] = e
  BY <1>1, AppendProperties
<1>3. PICK g : Joins(g, k) /\ FlattenSeq(k) = g[Len(k)]
  BY <1>2, FlattenJoins
<1>4. Len(l) \in Nat /\ Len(k) \in Nat /\ Len(k) \in 1 .. Len(k)
  BY <1>2, LenProperties
<1>5. g[Len(k)] = IF Len(k) = 1 THEN e ELSE g[Len(l)] \o e
  <2>1. \A i \in 1 .. Len(k) : g[i] = IF i = 1 THEN k[i] ELSE g[i - 1] \o k[i]
    BY <1>3 DEF Joins
  <2>2. g[Len(k)] = IF Len(k) = 1 THEN k[Len(k)] ELSE g[Len(k) - 1] \o k[Len(k)]
    BY <1>4, <2>1
  <2>3. k[Len(k)] = e /\ Len(k) - 1 = Len(l)
    BY <1>2, <1>4
  <2>4. QED
    BY <2>2, <2>3
<1>6. CASE l = <<>>
  <2>1. Len(l) = 0 /\ FlattenSeq(l) = <<>>
    BY <1>6, EmptySeq, FlattenEmpty
  <2>2. <<>> \o e = e
    BY ConcatEmptySeq
  <2>3. QED
    BY <1>1, <1>2, <1>3, <1>5, <2>1, <2>2
<1>7. CASE l # <<>>
  <2>1. PICK f : Joins(f, l) /\ FlattenSeq(l) = f[Len(l)]
    BY <1>7, FlattenJoins
  <2>2. Len(l) \in Nat \ {0}
    BY <1>7, EmptySeq
  <2>3. Joins(f, l) /\ Joins(g, k) /\ Len(k) = Len(l) + 1 /\ \A i \in 1 .. Len(l) : l[i] = k[i]
    BY <1>2, <1>3, <2>1
  <2>4. f[Len(l)] = g[Len(l)]
    BY <2>2, <2>3, JoinsLonger
  <2>5. Len(k) # 1 /\ f[Len(l)] = g[Len(l)]
    BY <1>2, <1>4, <2>2, <2>4
  <2>6. QED
    BY <1>1, <1>3, <1>5, <2>1, <2>5
<1>8. QED
  BY <1>6, <1>7

\* Two sequences end to end.
LEMMA RangeConcat ==
  ASSUME NEW S, NEW a \in Seq(S), NEW b \in Seq(S)
  PROVE  a \o b \in Seq(S) /\ Range(a \o b) = Range(a) \cup Range(b)
<1> DEFINE m == Len(a)
           n == Len(b)
           c == a \o b
<1>1. /\ c \in Seq(S) /\ m \in Nat /\ n \in Nat
      /\ DOMAIN a = 1 .. m /\ DOMAIN b = 1 .. n /\ DOMAIN c = 1 .. m + n
      /\ \A i \in 1 .. m : c[i] = a[i]
      /\ \A i \in 1 .. n : m + i \in 1 .. m + n /\ c[m + i] = b[i]
  <2>1. /\ c \in Seq(S) /\ Len(c) = m + n
        /\ \A i \in 1 .. m + n : c[i] = IF i <= m THEN a[i] ELSE b[i - m]
    BY ConcatProperties
  <2>2. /\ m \in Nat /\ n \in Nat
        /\ DOMAIN a = 1 .. m /\ DOMAIN b = 1 .. n /\ DOMAIN c = 1 .. m + n
    BY <2>1, LenProperties
  <2> HIDE DEF m, n, c
  <2>3. \A i \in 1 .. m : i \in 1 .. m + n /\ i <= m
    BY <2>2
  <2>4. \A i \in 1 .. n : m + i \in 1 .. m + n /\ ~(m + i <= m) /\ (m + i) - m = i
    BY <2>2
  <2>5. QED
    BY <2>1, <2>2, <2>3, <2>4
<1> HIDE DEF m, n, c
<1>2. \A i \in 1 .. m + n : i \in 1 .. m \/ \E j \in 1 .. n : i = m + j
  <2>1. ASSUME NEW i \in 1 .. m + n, i \notin 1 .. m PROVE i - m \in 1 .. n /\ i = m + (i - m)
    BY <1>1, <2>1
  <2>2. QED
    BY <2>1
<1>3. \A x : (\E i \in 1 .. m + n : x = c[i])
               <=> (\E i \in 1 .. m : x = a[i]) \/ (\E i \in 1 .. n : x = b[i])
  <2>1. \A i \in 1 .. m : i \in 1 .. m + n
    BY <1>1
  <2>2. QED
    BY <1>1, <1>2, <2>1
<1>4. QED
  BY <1>1, <1>3 DEF Range, c

\* Two sequences without doublets that share no member make one without doublets.
LEMMA InjectiveConcat ==
  ASSUME NEW S, NEW a \in Seq(S), NEW b \in Seq(S), IsInjective(a), IsInjective(b),
         Range(a) \cap Range(b) = {}
  PROVE  IsInjective(a \o b)
<1> DEFINE m == Len(a)
           n == Len(b)
           c == a \o b
<1>1. /\ m \in Nat /\ n \in Nat
      /\ DOMAIN a = 1 .. m /\ DOMAIN b = 1 .. n /\ DOMAIN c = 1 .. m + n
      /\ \A i \in 1 .. m + n : c[i] = IF i <= m THEN a[i] ELSE b[i - m]
  <2>1. /\ c \in Seq(S) /\ Len(c) = m + n
        /\ \A i \in 1 .. m + n : c[i] = IF i <= m THEN a[i] ELSE b[i - m]
    BY ConcatProperties
  <2>2. QED
    BY <2>1, LenProperties
<1> HIDE DEF m, n, c
<1>2. ASSUME NEW i \in 1 .. m + n, NEW j \in 1 .. m + n, c[i] = c[j] PROVE i = j
  <2>1. CASE i <= m /\ j <= m
    <3>1. i \in 1 .. m /\ j \in 1 .. m /\ c[i] = a[i] /\ c[j] = a[j]
      BY <1>1, <2>1
    <3>2. QED
      BY <1>1, <1>2, <3>1 DEF IsInjective
  <2>2. CASE ~(i <= m) /\ ~(j <= m)
    <3>1. i - m \in 1 .. n /\ j - m \in 1 .. n /\ c[i] = b[i - m] /\ c[j] = b[j - m]
      BY <1>1, <2>2
    <3>2. i - m = j - m
      BY <1>1, <1>2, <3>1 DEF IsInjective
    <3>3. QED
      BY <1>1, <3>2
  <2>3. ASSUME NEW x \in 1 .. m + n, NEW y \in 1 .. m + n, x <= m, ~(y <= m)
        PROVE  c[x] # c[y]
    <3>1. x \in 1 .. m /\ y - m \in 1 .. n /\ c[x] = a[x] /\ c[y] = b[y - m]
      BY <1>1, <2>3
    <3>2. a[x] \in Range(a) /\ b[y - m] \in Range(b)
      BY <1>1, <3>1 DEF Range
    <3>3. QED
      BY <3>1, <3>2
  <2>4. QED
    BY <1>2, <2>1, <2>2, <2>3
<1>3. QED
  BY <1>1, <1>2 DEF IsInjective, c

\* Members of one set are made into members of it; what is made of lists without
\* doublets that share no member has none.
Apart(l) ==
  /\ \A i \in DOMAIN l : IsInjective(l[i])
  /\ \A i, j \in DOMAIN l : i # j => Range(l[i]) \cap Range(l[j]) = {}

\* What FlattenSeq makes of lists.
LEMMA FlattenIs ==
  ASSUME NEW S, NEW l \in Seq(Seq(S))
  PROVE  /\ FlattenSeq(l) \in Seq(S)
         /\ Range(FlattenSeq(l)) = UNION {Range(l[i]) : i \in DOMAIN l}
         /\ Apart(l) => IsInjective(FlattenSeq(l))
<1> DEFINE P(k) == /\ FlattenSeq(k) \in Seq(S)
                   /\ Range(FlattenSeq(k)) = UNION {Range(k[i]) : i \in DOMAIN k}
                   /\ Apart(k) => IsInjective(FlattenSeq(k))
           Bad == {n \in Nat : \E k \in Seq(Seq(S)) : Len(k) = n /\ ~P(k)}
<1>1. P(<<>>)
  <2>1. FlattenSeq(<<>>) = <<>> /\ DOMAIN <<>> = {} /\ <<>> \in Seq(S)
    BY FlattenEmpty, EmptySeq
  <2>2. QED
    BY <2>1 DEF Range, IsInjective
<1>2. ASSUME NEW h \in Seq(Seq(S)), NEW e \in Seq(S), P(h) PROVE P(Append(h, e))
  <2> DEFINE k == Append(h, e)
             a == FlattenSeq(h)
             m == Len(h)
  <2>1. m \in Nat /\ DOMAIN h = 1 .. m /\ DOMAIN k = 1 .. m + 1
        /\ k[m + 1] = e /\ \A i \in 1 .. m : k[i] = h[i]
    BY LenProperties, AppendProperties
  <2>2. a \in Seq(S) /\ Range(a) = UNION {Range(h[i]) : i \in DOMAIN h}
        /\ (Apart(h) => IsInjective(a))
    BY <1>2
  <2>3. FlattenSeq(k) = a \o e
    BY FlattenAppend
  <2> HIDE DEF a, k
  <2>4. a \o e \in Seq(S) /\ Range(a \o e) = Range(a) \cup Range(e)
    BY <2>2, RangeConcat
  <2>5. Range(a) \cup Range(e) = UNION {Range(k[i]) : i \in DOMAIN k}
    <3>1. \A x : x \in UNION {Range(k[i]) : i \in DOMAIN k}
                   <=> \E i \in 1 .. m + 1 : x \in Range(k[i])
      BY <2>1
    <3>2. \A x : x \in Range(a) <=> \E i \in 1 .. m : x \in Range(h[i])
      BY <2>1, <2>2
    <3>3. m + 1 \in 1 .. m + 1 /\ \A i \in 1 .. m : i \in 1 .. m + 1
      BY <2>1
    <3>4. \A i \in 1 .. m + 1 : i \in 1 .. m \/ i = m + 1
      BY <2>1
    <3>5. \A x : (\E i \in 1 .. m + 1 : x \in Range(k[i])) <=> x \in Range(a) \/ x \in Range(e)
      BY <2>1, <3>2, <3>3, <3>4
    <3>6. QED
      BY <3>1, <3>5
  <2>6. ASSUME Apart(k) PROVE IsInjective(a \o e)
    <3>1. Apart(h)
      <4>1. \A i \in DOMAIN h : i \in DOMAIN k /\ k[i] = h[i]
        BY <2>1
      <4> HIDE DEF m
      <4>2. QED
        BY <2>6, <4>1 DEF Apart
    <3>2. IsInjective(e) /\ \A i \in 1 .. m : Range(h[i]) \cap Range(e) = {}
      <4>1. m + 1 \in DOMAIN k /\ \A i \in 1 .. m : i \in DOMAIN k /\ i # m + 1
        BY <2>1
      <4>2. QED
        BY <2>1, <2>6, <4>1 DEF Apart
    <3>3. Range(a) \cap Range(e) = {}
      BY <2>1, <2>2, <3>2
    <3>4. QED
      BY <2>2, <3>1, <3>2, <3>3, InjectiveConcat
  <2>7. QED
    BY <2>3, <2>4, <2>5, <2>6 DEF k
<1> HIDE DEF P
<1>3. SUFFICES ASSUME Bad # {} PROVE FALSE
  <2>1. \A k \in Seq(Seq(S)) : Len(k) \in Nat
    BY LenProperties
  <2>2. P(l)
    BY <2>1
  <2>3. QED
    BY <2>2 DEF P
<1>4. PICK n \in Bad : \A m \in Bad : n <= m
  <2>1. Bad \in SUBSET Nat
    OBVIOUS
  <2> HIDE DEF Bad
  <2>2. QED
    BY <1>3, <2>1, LeastOne
<1>5. PICK k \in Seq(Seq(S)) : Len(k) = n /\ ~P(k)
  OBVIOUS
<1>6. PICK h \in Seq(Seq(S)), e \in Seq(S) : k = Append(h, e)
  <2>1. k # <<>>
    BY <1>1, <1>5
  <2>2. QED
    BY <2>1, SequenceEmptyOrAppend
<1>7. Len(h) \in Nat /\ ~(n <= Len(h))
  BY <1>5, <1>6, LenProperties, AppendProperties
<1>8. P(h)
  BY <1>4, <1>7
<1>9. QED
  BY <1>2, <1>5, <1>6, <1>8

\* The services of a group are those of its replicas, each once.
OfGroup(g) == {s \in Services : Parent[Parent[s]] = g}

\* ServicesOf visits the services of a group, each once.
LEMMA ServicesOfIs ==
  ASSUME NEW g \in Groups
  PROVE  /\ ServicesOf(g) \in Seq(Services) /\ IsInjective(ServicesOf(g))
         /\ Range(ServicesOf(g)) = OfGroup(g)
<1> DEFINE kids == Children[g]
           l == [i \in DOMAIN kids |-> Children[kids[i]]]
           n == Len(kids)
<1>1. n \in Nat /\ DOMAIN kids = 1 .. n /\ \A i \in 1 .. n : kids[i] \in Replicas
  BY ChildrenAre, LenProperties
<1>2. l \in Seq(Seq(Services)) /\ DOMAIN l = 1 .. n /\ \A i \in 1 .. n : l[i] = Children[kids[i]]
  <2>1. \A i \in 1 .. n : Children[kids[i]] \in Seq(Services)
    BY <1>1, ChildrenAre
  <2>2. l = [i \in 1 .. n |-> Children[kids[i]]]
    BY <1>1
  <2> HIDE DEF l, kids
  <2>3. QED
    BY <1>1, <2>1, <2>2
<1>3. g \in Parents /\ IsInjective(kids) /\ \A r \in Replicas : IsInjective(Children[r])
  BY TreeAssumption DEF Parents
<1>4. \A r \in Replicas, s \in Services : s \in Range(Children[r]) <=> r = Parent[s]
  BY ParentsAre DEF Parents
<1>5. \A r \in Replicas : r \in Range(kids) <=> g = Parent[r]
  BY <1>3, ParentsAre
<1>6. Apart(l)
  <2>1. ASSUME NEW i \in 1 .. n, NEW j \in 1 .. n, i # j
        PROVE  Range(Children[kids[i]]) \cap Range(Children[kids[j]]) = {}
    <3>1. kids[i] # kids[j]
      BY <1>1, <1>3, <2>1 DEF IsInjective
    <3>2. kids[i] \in Replicas /\ kids[j] \in Replicas
      BY <1>1
    <3>3. Range(Children[kids[i]]) \in SUBSET Services
      BY <3>2, ChildrenAre
    <3>4. QED
      BY <1>4, <3>1, <3>2, <3>3
  <2> HIDE DEF l, kids, n
  <2>2. \A i \in 1 .. n : kids[i] \in Replicas
    BY <1>1
  <2>3. QED
    BY <1>2, <1>3, <2>1, <2>2 DEF Apart
<1>7. UNION {Range(l[i]) : i \in DOMAIN l} = OfGroup(g)
  <2>1. ASSUME NEW s, s \in UNION {Range(l[i]) : i \in DOMAIN l} PROVE s \in OfGroup(g)
    <3>1. PICK i \in 1 .. n : s \in Range(Children[kids[i]])
      BY <1>2, <2>1
    <3>2. kids[i] \in Replicas /\ kids[i] \in Range(kids)
      BY <1>1 DEF Range
    <3>3. s \in Services
      BY <3>1, <3>2, ChildrenAre
    <3>4. QED
      BY <1>4, <1>5, <3>1, <3>2, <3>3 DEF OfGroup
  <2>2. ASSUME NEW s \in OfGroup(g) PROVE s \in UNION {Range(l[i]) : i \in DOMAIN l}
    <3>1. s \in Services /\ Parent[s] \in Replicas /\ Parent[Parent[s]] = g
      BY ParentsAre DEF OfGroup
    <3>2. PICK i \in 1 .. n : kids[i] = Parent[s]
      BY <1>1, <1>5, <3>1 DEF Range
    <3>3. s \in Range(l[i]) /\ i \in DOMAIN l
      BY <1>2, <1>4, <3>1, <3>2
    <3>4. QED
      BY <3>3
  <2> HIDE DEF l
  <2>3. QED
    BY <2>1, <2>2
<1>8. ServicesOf(g) = FlattenSeq(l)
  BY DEF ServicesOf
<1> HIDE DEF l
<1>9. QED
  BY <1>2, <1>6, <1>7, <1>8, FlattenIs

\* SetToSeq puts the members of a set in some order.
LEMMA ToSeqIs ==
  ASSUME NEW S, IsFiniteSet(S)
  PROVE  LET q == SetToSeq(S)
         IN  /\ Cardinality(S) \in Nat /\ q \in [1 .. Cardinality(S) -> S]
             /\ \A i, j \in 1 .. Cardinality(S) : q[i] = q[j] => i = j
             /\ \A x \in S : \E i \in 1 .. Cardinality(S) : q[i] = x
<1> DEFINE n == Cardinality(S)
           q == SetToSeq(S)
<1>1. n \in Nat /\ ExistsBijection(1 .. n, S)
  BY FS_CardinalityType
<1>2. PICK f : f \in Bijection(1 .. n, S)
  BY <1>1 DEF ExistsBijection
<1>3. f \in [1 .. n -> S] /\ \A i, j \in 1 .. n : f[i] = f[j] => i = j
  BY <1>2 DEF Bijection, Injection, Surjection, IsInjective
<1>4. q \in [1 .. n -> S] /\ \A i, j \in 1 .. n : q[i] = q[j] => i = j
  <2>1. IsInjective(f)
    BY <1>3 DEF IsInjective
  <2>2. q \in [1 .. n -> S] /\ IsInjective(q)
    BY <1>3, <2>1 DEF SetToSeq
  <2>3. QED
    BY <2>2 DEF IsInjective
<1>5. \A x \in S : \E i \in 1 .. n : q[i] = x
  <2> HIDE DEF n, q
  <2> DEFINE R == {q[i] : i \in 1 .. n}
  <2>1. q \in Bijection(1 .. n, R)
    <3>1. q \in [1 .. n -> R]
      BY <1>4
    <3>2. \A x \in R : \E i \in 1 .. n : q[i] = x
      OBVIOUS
    <3> HIDE DEF R
    <3>3. QED
      BY <1>4, <3>1, <3>2 DEF Bijection, Injection, Surjection, IsInjective
  <2>2. R \in SUBSET S
    BY <1>4
  <2> HIDE DEF R
  <2>3. Cardinality(R) = n
    BY <1>1, <2>1, FS_CountingElements DEF ExistsBijection
  <2>4. R = S
    BY <2>2, <2>3, FS_Subset DEF n
  <2>5. QED
    BY <2>4 DEF R
<1>6. QED
  BY <1>1, <1>4, <1>5

\* What the first call visits: the services of all groups, each once.
LEMMA AllServicesAre ==
  ASSUME NEW G \in SUBSET Groups, IsFiniteSet(G),
         NEW ss, ss = FlattenSeq([i \in 1 .. Cardinality(G) |-> ServicesOf(SetToSeq(G)[i])])
  PROVE  /\ ss \in Seq(Services) /\ IsInjective(ss)
         /\ Range(ss) = UNION {OfGroup(g) : g \in G}
<1> DEFINE n == Cardinality(G)
           q == SetToSeq(G)
           l == [i \in 1 .. n |-> ServicesOf(q[i])]
<1>1. /\ n \in Nat /\ q \in [1 .. n -> G]
      /\ \A i, j \in 1 .. n : q[i] = q[j] => i = j
      /\ \A x \in G : \E i \in 1 .. n : q[i] = x
  BY ToSeqIs
<1> HIDE DEF n, q
<1>2. \A i \in 1 .. n :
        /\ l[i] = ServicesOf(q[i]) /\ q[i] \in G /\ l[i] \in Seq(Services)
        /\ IsInjective(l[i]) /\ Range(l[i]) = OfGroup(q[i])
  BY <1>1, ServicesOfIs
<1>3. l \in Seq(Seq(Services)) /\ DOMAIN l = 1 .. n
  BY <1>1, <1>2
<1>4. ss = FlattenSeq(l)
  BY DEF n, q
<1> HIDE DEF l
<1>5. Apart(l)
  <2>1. ASSUME NEW i \in 1 .. n, NEW j \in 1 .. n, i # j
        PROVE  Range(l[i]) \cap Range(l[j]) = {}
    <3>1. q[i] # q[j]
      BY <1>1, <2>1
    <3>2. QED
      BY <1>2, <3>1 DEF OfGroup
  <2>2. QED
    BY <1>2, <1>3, <2>1 DEF Apart
<1>6. UNION {Range(l[i]) : i \in DOMAIN l} = UNION {OfGroup(g) : g \in G}
  <2>1. \A x : x \in UNION {Range(l[i]) : i \in DOMAIN l} <=> \E i \in 1 .. n : x \in OfGroup(q[i])
    BY <1>2, <1>3
  <2>2. \A x : x \in UNION {OfGroup(g) : g \in G} <=> \E g \in G : x \in OfGroup(g)
    OBVIOUS
  <2>3. \A x : (\E i \in 1 .. n : x \in OfGroup(q[i])) <=> \E g \in G : x \in OfGroup(g)
    BY <1>1
  <2>4. QED
    BY <2>1, <2>2, <2>3
<1>7. QED
  BY <1>3, <1>4, <1>5, <1>6, FlattenIs

-----------------------------------------------------------------------------
(* The services of a group are shut one after the other. *)

\* Of the subsets of a finite set that do not have a property there is one all of
\* whose own subsets have it.
LEMMA LeastSubset ==
  ASSUME NEW S, IsFiniteSet(S), NEW Bad \in SUBSET SUBSET S, Bad # {}
  PROVE  \E T \in Bad : \A R \in SUBSET T : R \in Bad => R = T
<1> DEFINE Sizes == {Cardinality(T) : T \in Bad}
<1>1. \A T \in Bad : IsFiniteSet(T) /\ Cardinality(T) \in Nat
  BY FS_Subset, FS_CardinalityType
<1>2. PICK m \in Sizes : \A n \in Sizes : m <= n
  <2>1. Sizes \in SUBSET Nat /\ Sizes # {}
    BY <1>1
  <2> HIDE DEF Sizes
  <2>2. QED
    BY <2>1, LeastOne
<1>3. PICK T \in Bad : m = Cardinality(T)
  OBVIOUS
<1>4. ASSUME NEW R \in SUBSET T, R \in Bad PROVE R = T
  <2>1. Cardinality(T) <= Cardinality(R)
    BY <1>2, <1>3, <1>4
  <2>2. /\ Cardinality(R) <= Cardinality(T)
        /\ Cardinality(T) = Cardinality(R) => T = R
    BY <1>1, FS_Subset
  <2>3. Cardinality(T) \in Nat /\ Cardinality(R) \in Nat
    BY <1>1, <1>4
  <2>4. QED
    BY <2>1, <2>2, <2>3
<1>5. QED
  BY <1>4

\* A finite set of numbers has a greatest one.
LEMMA MaxIn ==
  ASSUME NEW n \in Nat
  PROVE  \A T \in SUBSET (1 .. n) : T # {} => Max(T) \in T /\ \A k \in T : Max(T) >= k
<1> SUFFICES ASSUME NEW T \in SUBSET (1 .. n), T # {}
             PROVE  Max(T) \in T /\ \A k \in T : Max(T) >= k
  OBVIOUS
<1> DEFINE Below == {n - k : k \in T}
<1>1. PICK m \in Below : \A k \in Below : m <= k
  <2>1. \A k \in T : n - k \in Nat
    OBVIOUS
  <2>2. Below \in SUBSET Nat /\ Below # {}
    BY <2>1
  <2> HIDE DEF Below
  <2>3. QED
    BY <2>2, LeastOne
<1>2. PICK x \in T : m = n - x
  OBVIOUS
<1>3. \A k \in T : x >= k
  BY <1>1, <1>2
<1>4. QED
  BY <1>2, <1>3 DEF Max

\* g[T] is st after the services of ss at the places of T have been shut in turn:
\* what the recursive function of FoldLeft stands for.
Shuts(g, st, ss, S) ==
  g = [T \in SUBSET S |-> IF T = {} THEN st ELSE Shut(g[T \ {Max(T)}], ss[Max(T)])]

\* Every set of members of U has a greatest one.
HasMax(U) == \A T \in SUBSET U : T # {} => Max(T) \in T

\* It is one function.
LEMMA ShutsAgree ==
  ASSUME NEW st, NEW ss, NEW S, NEW R, NEW g, NEW h, Shuts(g, st, ss, S), Shuts(h, st, ss, R),
         NEW U \in SUBSET S, U \in SUBSET R, IsFiniteSet(U),
         HasMax(U)
  PROVE  g[U] = h[U]
<1> DEFINE Bad == {T \in SUBSET U : g[T] # h[T]}
<1>1. SUFFICES ASSUME Bad # {} PROVE FALSE
  OBVIOUS
<1>2. PICK T \in Bad : \A Q \in SUBSET T : Q \in Bad => Q = T
  <2>1. Bad \in SUBSET SUBSET U
    OBVIOUS
  <2> HIDE DEF Bad
  <2>2. QED
    BY <1>1, <2>1, LeastSubset
<1>3. T \in SUBSET U /\ T \in SUBSET S /\ T \in SUBSET R /\ g[T] # h[T]
  OBVIOUS
<1>4. /\ g[T] = IF T = {} THEN st ELSE Shut(g[T \ {Max(T)}], ss[Max(T)])
      /\ h[T] = IF T = {} THEN st ELSE Shut(h[T \ {Max(T)}], ss[Max(T)])
  BY <1>3 DEF Shuts
<1>5. T # {}
  BY <1>3, <1>4
<1>6. Max(T) \in T /\ T \ {Max(T)} \in SUBSET U
  BY <1>3, <1>5 DEF HasMax
<1>7. g[T \ {Max(T)}] = h[T \ {Max(T)}]
  BY <1>2, <1>3, <1>6
<1>8. QED
  BY <1>3, <1>4, <1>7

\* There is such a function.
LEMMA ShutsExist ==
  ASSUME NEW st, NEW ss, NEW n \in Nat
  PROVE  \E g : Shuts(g, st, ss, 1 .. n)
<1> DEFINE S == 1 .. n
           Bad == {R \in SUBSET S : ~\E g : Shuts(g, st, ss, R)}
<1>1. SUFFICES ASSUME Bad # {} PROVE FALSE
  OBVIOUS
<1>2. PICK R \in Bad : \A Q \in SUBSET R : Q \in Bad => Q = R
  <2>1. Bad \in SUBSET SUBSET S /\ IsFiniteSet(S)
    BY FS_Interval
  <2> HIDE DEF Bad, S
  <2>2. QED
    BY <1>1, <2>1, LeastSubset
<1> DEFINE G(x) == CHOOSE g : Shuts(g, st, ss, R \ {x})
<1>3. ASSUME NEW x \in R PROVE Shuts(G(x), st, ss, R \ {x})
  BY <1>2
<1>4. R \in SUBSET S /\ ~\E g : Shuts(g, st, ss, R)
  OBVIOUS
<1>5. \A T \in SUBSET R : T # {} => Max(T) \in T
  BY <1>4, MaxIn
<1> HIDE DEF G
<1> DEFINE h == [T \in SUBSET R |->
                   IF T = {} THEN st ELSE Shut(G(Max(T))[T \ {Max(T)}], ss[Max(T)])]
<1>6. ASSUME NEW T \in SUBSET R, T # {}
      PROVE  h[T \ {Max(T)}] = G(Max(T))[T \ {Max(T)}]
  <2> DEFINE x == Max(T)
             U == T \ {x}
  <2>1. x \in R /\ U \in SUBSET R /\ U \in SUBSET (R \ {x})
    BY <1>5, <1>6
  <2>2. G(x)[U] = IF U = {} THEN st ELSE Shut(G(x)[U \ {Max(U)}], ss[Max(U)])
    BY <1>3, <2>1 DEF Shuts
  <2>3. h[U] = IF U = {} THEN st ELSE Shut(G(Max(U))[U \ {Max(U)}], ss[Max(U)])
    BY <2>1
  <2>4. CASE U # {}
    <3> DEFINE y == Max(U)
               V == U \ {y}
    <3>1. y \in R /\ V \in SUBSET (R \ {x}) /\ V \in SUBSET (R \ {y})
      BY <1>5, <2>1, <2>4
    <3>2. /\ Shuts(G(x), st, ss, R \ {x}) /\ Shuts(G(y), st, ss, R \ {y})
      BY <1>3, <1>4, <2>1, <3>1
    <3> HIDE DEF x, y, U, V
    <3>3. IsFiniteSet(V) /\ HasMax(V)
      <4>1. V \in SUBSET (1 .. n)
        BY <1>4, <3>1
      <4>2. IsFiniteSet(1 .. n)
        BY FS_Interval
      <4>3. IsFiniteSet(V)
        BY <4>1, <4>2, FS_Subset
      <4>4. \A Z \in SUBSET V : Z \in SUBSET (1 .. n)
        BY <4>1
      <4>5. QED
        BY <4>3, <4>4, MaxIn DEF HasMax
    <3>4. G(x)[V] = G(y)[V]
      <4>1. PICK A, B : A = R \ {x} /\ B = R \ {y}
        OBVIOUS
      <4>2. PICK a, b : a = G(x) /\ b = G(y)
        OBVIOUS
      <4>3. PICK v : v = V
        OBVIOUS
      <4>4. Shuts(a, st, ss, A) /\ Shuts(b, st, ss, B) /\ v \in SUBSET A /\ v \in SUBSET B
        BY <3>1, <3>2, <4>1, <4>2, <4>3
      <4>5. IsFiniteSet(v) /\ HasMax(v)
        BY <3>3, <4>3
      <4> HIDE DEF S, Bad, h
      <4>6. a[v] = b[v]
        BY <4>4, <4>5, ShutsAgree
      <4>7. QED
        BY <4>2, <4>3, <4>6
    <3> USE DEF V, y
    <3>5. QED
      BY <2>2, <2>3, <2>4, <3>4 DEF U, x
  <2>5. QED
    BY <2>2, <2>3, <2>4
<1>7. Shuts(h, st, ss, R)
  <2>1. ASSUME NEW T \in SUBSET R
        PROVE  h[T] = IF T = {} THEN st ELSE Shut(h[T \ {Max(T)}], ss[Max(T)])
    BY <1>6
  <2>2. h = [T \in SUBSET R |-> h[T]]
    OBVIOUS
  <2> HIDE DEF h
  <2>3. QED
    BY <2>1, <2>2 DEF Shuts
<1>8. QED
  BY <1>4, <1>7

\* What FoldLeft gives.
LEMMA FoldIs ==
  ASSUME NEW st, NEW ss \in Seq(Services)
  PROVE  \E g : Shuts(g, st, ss, 1 .. Len(ss)) /\ FoldLeft(Shut, st, ss) = g[1 .. Len(ss)]
<1> DEFINE g == CHOOSE g : Shuts(g, st, ss, 1 .. Len(ss))
<1>1. Len(ss) \in Nat /\ DOMAIN ss = 1 .. Len(ss)
  BY LenProperties
<1>2. Shuts(g, st, ss, 1 .. Len(ss))
  BY <1>1, ShutsExist
<1>3. FoldLeft(Shut, st, ss) = g[1 .. Len(ss)]
  BY <1>1 DEF FoldLeft, MapThenFoldSet, Shuts
<1>4. QED
  BY <1>2, <1>3

\* When all is shut none of the services is left.
LEMMA DeleteKeeps ==
  ASSUME NEW W \in SUBSET Services, NEW st, Sound(st, W), NEW ss \in Seq(Services)
  PROVE  Sound(FoldLeft(Shut, st, ss), W \ Range(ss))
<1> DEFINE n == Len(ss)
           Past(k) == {ss[i] : i \in 1 .. k}
<1>1. n \in Nat /\ DOMAIN ss = 1 .. n /\ \A i \in 1 .. n : ss[i] \in Services
  BY LenProperties
<1>2. PICK g : Shuts(g, st, ss, 1 .. n) /\ FoldLeft(Shut, st, ss) = g[1 .. n]
  BY FoldIs
<1> HIDE DEF n
<1> DEFINE Bad == {k \in 0 .. n : ~Sound(g[1 .. k], W \ Past(k))}
<1>3. Bad = {}
  <2>1. SUFFICES ASSUME Bad # {} PROVE FALSE
    OBVIOUS
  <2>2. PICK k \in Bad : \A j \in Bad : k <= j
    <3>1. Bad \in SUBSET Nat
      OBVIOUS
    <3> HIDE DEF Bad
    <3>2. QED
      BY <2>1, <3>1, LeastOne
  <2>3. k \in 0 .. n /\ ~Sound(g[1 .. k], W \ Past(k)) /\ 1 .. k \in SUBSET (1 .. n)
    BY <1>1
  <2>4. g[1 .. k] = IF 1 .. k = {} THEN st
                    ELSE Shut(g[(1 .. k) \ {Max(1 .. k)}], ss[Max(1 .. k)])
    BY <1>2, <2>3 DEF Shuts
  <2>5. CASE k = 0
    <3>1. 1 .. k = {} /\ W \ Past(k) = W
      BY <2>5
    <3>2. QED
      BY <2>3, <2>4, <3>1
  <2>6. CASE k # 0
    <3>1. k \in 1 .. n /\ k - 1 \in 0 .. n /\ ~(k <= k - 1) /\ k \in Nat
      BY <1>1, <2>3, <2>6
    <3>2. Max(1 .. k) = k
      <4>1. Max(1 .. k) \in 1 .. k /\ \A j \in 1 .. k : Max(1 .. k) >= j
        <5>1. PICK T : T = 1 .. k
          OBVIOUS
        <5>2. k \in T
          BY <3>1, <5>1
        <5>3. T \in SUBSET (1 .. k) /\ T # {}
          BY <5>1, <5>2
        <5>4. Max(T) \in T /\ \A j \in T : Max(T) >= j
          BY <3>1, <5>3, MaxIn
        <5>5. QED
          BY <5>1, <5>4
      <4>2. PICK m \in 1 .. k : m = Max(1 .. k)
        BY <4>1
      <4>3. m >= k
        BY <3>1, <4>1, <4>2
      <4>4. QED
        BY <3>1, <4>2, <4>3
    <3>3. (1 .. k) \ {k} = 1 .. k - 1 /\ 1 .. k # {}
      <4>1. \A i : i \in (1 .. k) \ {k} <=> i \in 1 .. k - 1
        BY <3>1
      <4>2. k \in 1 .. k
        BY <3>1
      <4>3. QED
        BY <4>1, <4>2, Zenon
    <3>4. g[1 .. k] = Shut(g[1 .. k - 1], ss[k])
      BY <2>4, <3>2, <3>3
    <3>5. Sound(g[1 .. k - 1], W \ Past(k - 1))
      BY <2>2, <3>1
    <3>6. Past(k) = Past(k - 1) \cup {ss[k]}
      BY <3>1, <3>3
    <3>7. /\ (W \ Past(k - 1)) \ {ss[k]} = W \ Past(k)
          /\ W \ Past(k - 1) \in SUBSET Services /\ ss[k] \in Services
      BY <1>1, <3>1, <3>6
    <3> HIDE DEF Past
    <3>8. Sound(g[1 .. k], W \ Past(k))
      BY <3>4, <3>5, <3>7, ShutKeeps
    <3>9. QED
      BY <2>3, <3>8
  <2>7. QED
    BY <2>5, <2>6
<1>4. Sound(g[1 .. n], W \ Past(n))
  <2>1. n \in 0 .. n
    BY <1>1
  <2>2. QED
    BY <1>3, <2>1
<1>5. Past(n) = Range(ss)
  BY <1>1 DEF Range
<1>6. QED
  BY <1>2, <1>4, <1>5

-----------------------------------------------------------------------------
(* The invariant. *)

\* Becomes forgets how often a child that is not enabled was passed over.
LEMMA SettledIs ==
  ASSUME NEW W, NEW st, Sound(st, W), NEW v,
         v = [st EXCEPT !.missed = [e \in Elements |-> IF st.enable[e] THEN st.missed[e] ELSE 0]]
  PROVE  Sound(v, W) /\ Fresh(v)
<1> DEFINE mi == [e \in Elements |-> IF st.enable[e] THEN st.missed[e] ELSE 0]
<1>1. st \in State
  BY DEF Sound
<1>2. mi \in [Elements -> Nat]
  BY <1>1 DEF State
<1>3. \A e \in Elements : mi[e] = IF st.enable[e] THEN st.missed[e] ELSE 0
  OBVIOUS
<1> HIDE DEF mi
<1>4. /\ v \in State /\ v.enable = st.enable /\ v.reinit_set = st.reinit_set
      /\ SameLinks(v, st) /\ SameSockets(v, st)
      /\ v.m_current = st.m_current /\ v.missed = mi
  <2>1. v = [st EXCEPT !.missed = mi]
    BY DEF mi
  <2>2. QED
    BY <1>1, <1>2, <2>1 DEF State, SameLinks, SameSockets
<1>5. TurnsOK(v)
  <2>1. ASSUME NEW p \in Parents, NEW i \in 1 .. Len(Children[p]),
               st.missed[Children[p][i]] + Ahead(st.m_current[p], i - 1, Len(Children[p]))
                 < Len(Children[p])
        PROVE  mi[Children[p][i]] + Ahead(st.m_current[p], i - 1, Len(Children[p]))
                 < Len(Children[p])
    <3> DEFINE e == Children[p][i]
    <3>1. e \in Elements
      <4>1. PICK S : Children[p] \in Seq(S) /\ Range(Children[p]) \in SUBSET Elements
        BY ChildrenAre, Classes DEF Parents, Elements
      <4>2. QED
        BY <4>1 DEF Range
    <3>2. st.missed[e] \in Nat /\ (mi[e] = st.missed[e] \/ mi[e] = 0)
      BY <1>1, <1>3, <3>1 DEF State
    <3>3. PICK n \in Nat : n = Len(Children[p])
      <4>1. PICK S : Children[p] \in Seq(S)
        BY ChildrenAre DEF Parents
      <4>2. QED
        BY <4>1, LenProperties
    <3>4. PICK a \in Int : a = Ahead(st.m_current[p], i - 1, Len(Children[p]))
      <4>1. st.m_current[p] \in Nat /\ i \in Nat
        BY <1>1, <3>3 DEF State
      <4>2. QED
        BY <3>3, <4>1 DEF Ahead
    <3> HIDE DEF e
    <3>5. PICK m \in Nat, k \in Nat : m = mi[e] /\ k = st.missed[e]
      BY <3>2
    <3>6. m <= k /\ k + a < n
      <4>1. st.missed[e] + a < n
        BY <2>1, <3>3, <3>4 DEF e
      <4>2. QED
        BY <3>2, <3>5, <4>1
    <3>7. m + a < n
      BY <3>6
    <3>8. QED
      BY <3>3, <3>4, <3>5, <3>7 DEF e
  <2>2. TurnsOK(st)
    BY DEF Sound
  <2>3. QED
    BY <1>4, <2>1, <2>2 DEF TurnsOK
<1>6. Sound(v, W)
  BY <1>4, <1>5, SoundAgain
<1>7. Fresh(v)
  BY <1>3, <1>4 DEF Fresh
<1>8. QED
  BY <1>6, <1>7

\* The services of the groups of G.
AllOf(G) == UNION {OfGroup(g) : g \in G}

\* They are services, and what LiveServices says of the groups that exist.
LEMMA AllOfIs ==
  ASSUME NEW G \in SUBSET Groups
  PROVE  UNION {Range(ServicesOf(g)) : g \in G} = AllOf(G) /\ AllOf(G) \in SUBSET Services
<1>1. \A g \in G : Range(ServicesOf(g)) = OfGroup(g) /\ OfGroup(g) \in SUBSET Services
  BY ServicesOfIs DEF OfGroup
<1>2. QED
  BY <1>1 DEF AllOf

\* What a call still has to do.
CallOK ==
  /\ live \in SUBSET Groups
  /\ \/ call.kind \in {"none", "reinit"}
     \/ \E ss \in Seq(Services), g \in live \cup {None} :
          /\ call = Creating(ss, g)
          /\ IsInjective(ss) /\ Range(ss) \in SUBSET AllOf(live)

\* The services that should be connected.
Due == Wanted \ Pending

IInv == CallOK /\ Sound(Now, Due) /\ Fresh(Now)

\* What is due, in the groups that exist.
LEMMA DueIs == CallOK => Due = AllOf(live) \ (Forbidden \cup Pending)
BY AllOfIs DEF CallOK, Due, Wanted, LiveServices

\* Becomes keeps a state sound and forgets turns that no longer count.
LEMMA BecomesKeeps ==
  ASSUME NEW W, NEW st, Sound(st, W), Becomes(st)
  PROVE  Sound(Now', W) /\ Fresh(Now')
<1> DEFINE v == [st EXCEPT !.missed = [e \in Elements |-> IF st.enable[e] THEN st.missed[e] ELSE 0]]
<1>1. st \in State
  BY DEF Sound
<1>2. Now' = v
  BY <1>1 DEF Now, Becomes, State
<1> HIDE DEF v
<1>3. Sound(v, W) /\ Fresh(v)
  BY SettledIs DEF v
<1>4. QED
  BY <1>2, <1>3

\* A step that becomes a sound state keeps the invariant ...
LEMMA Settles ==
  ASSUME NEW W, NEW st, Sound(st, W), Becomes(st), CallOK', Due' = W
  PROVE  IInv'
<1>1. Sound(Now', W) /\ Fresh(Now')
  BY BecomesKeeps
<1>2. QED
  BY <1>1 DEF IInv

\* ... and so does one that leaves the pool alone.
LEMMA StaysAsItIs ==
  ASSUME IInv, UNCHANGED pool, CallOK', Due' = Due
  PROVE  IInv'
<1>1. Now' = Now
  BY DEF pool, Now
<1>2. QED
  BY <1>1 DEF IInv

\* Nothing is connected at first, and nothing is due before it has been visited.
LEMMA InitOK == Init => IInv
<1> SUFFICES ASSUME Init PROVE IInv
  OBVIOUS
<1> DEFINE ss == FlattenSeq([i \in 1 .. Cardinality(InitialGroups) |->
                               ServicesOf(SetToSeq(InitialGroups)[i])])
<1>1. InitialGroups \in SUBSET Groups /\ IsFiniteSet(InitialGroups)
  <2>1. InitialGroups \in SUBSET Groups
    BY DEF InitialGroups
  <2>2. QED
    BY <2>1, TreeAssumption, FS_Subset
<1>2. ss \in Seq(Services) /\ IsInjective(ss) /\ Range(ss) = AllOf(InitialGroups)
  BY <1>1, AllServicesAre DEF AllOf
<1>3. live = InitialGroups /\ call = Creating(ss, None)
  BY DEF Init
<1> HIDE DEF ss
<1>4. call.kind = "create" /\ call.todo = ss
  BY <1>3 DEF Creating
<1>5. CallOK
  BY <1>1, <1>2, <1>3 DEF CallOK
<1>6. Due = {}
  BY <1>2, <1>3, <1>4, <1>5, DueIs DEF Pending
<1>7. Now \in State
  BY Classes DEF Init, Now, State, Links, Parents
<1>8. /\ Now.enable = [e \in Elements |-> FALSE] /\ Now.reinit_set = {}
      /\ Now.m_fd = [s \in AsyncServices |-> -1]
      /\ Now.m_connecting = [s \in AsyncServices |-> FALSE]
      /\ Now.fd_service_map = [fd \in Fds |-> None] /\ Now.links = [fd \in Fds |-> "none"]
      /\ Now.open = [s \in SyncServices |-> FALSE] /\ Now.late = [s \in SyncServices |-> FALSE]
      /\ Now.m_current = [p \in Parents |-> 0] /\ Now.missed = [e \in Elements |-> 0]
  BY DEF Init, Now
<1> DEFINE st == Now
<1>9. st = Now
  OBVIOUS
<1> HIDE DEF st
<1>10. Told(st.enable)
  <2>1. ASSUME NEW p \in Parents, NEW c \in Range(Children[p])
        PROVE  c \in Elements /\ p \in Elements
    BY ChildrenAre, Classes DEF Parents, Elements
  <2>2. \A p \in Parents : p \in Elements
    BY DEF Elements
  <2>3. QED
    BY <1>8, <1>9, <2>1, <2>2 DEF Told
<1>11. AsyncOK(st, {})
  <2>1. AsyncServices \in SUBSET Elements
    BY Classes
  <2>2. QED
    BY <1>8, <1>9, <2>1 DEF AsyncOK
<1>12. SyncOK(st, {})
  <2>1. SyncServices \in SUBSET Elements
    BY Classes
  <2>2. QED
    BY <1>8, <1>9, <2>1 DEF SyncOK
<1>13. MapOK(st)
  BY <1>8, <1>9 DEF MapOK, Active
<1>14. TurnsOK(st)
  <2>1. ASSUME NEW p \in Parents
        PROVE  LET n == Len(Children[p])
                   m == st.m_current[p]
               IN  /\ m \in 0 .. n
                   /\ n > 0 => m < n
                   /\ Strategy[p] = "ROLL" =>
                        \A i \in 1 .. n : st.missed[Children[p][i]] + Ahead(m, i - 1, n) < n
    <3>1. st.m_current[p] = 0
      BY <1>8, <1>9
    <3>2. Len(Children[p]) \in Nat /\ \A i \in 1 .. Len(Children[p]) : Children[p][i] \in Elements
      <4>1. PICK S : Children[p] \in Seq(S) /\ Range(Children[p]) \in SUBSET Elements
        BY ChildrenAre, Classes DEF Parents, Elements
      <4>2. QED
        BY <4>1, LenProperties DEF Range
    <3>3. \A i \in 1 .. Len(Children[p]) : st.missed[Children[p][i]] = 0
      BY <1>8, <1>9, <3>2
    <3>4. QED
      BY <3>1, <3>2, <3>3 DEF Ahead
  <2>2. QED
    BY <2>1 DEF TurnsOK
<1>15. st.reinit_set = {s \in {} : ~st.enable[s]}
  BY <1>8, <1>9
<1>16. Sound(st, {})
  BY <1>7, <1>9, <1>10, <1>11, <1>12, <1>13, <1>14, <1>15 DEF Sound
<1>17. Fresh(st)
  BY <1>8, <1>9 DEF Fresh
<1>18. QED
  BY <1>5, <1>6, <1>9, <1>16, <1>17 DEF IInv

\* The sets a step starts from.
LEMMA Given ==
  ASSUME IInv
  PROVE  /\ CallOK /\ Sound(Now, Due) /\ Fresh(Now)
         /\ Due \in SUBSET (Services \ Forbidden) /\ Due \in SUBSET Services
         /\ live \in SUBSET Groups /\ Due = AllOf(live) \ (Forbidden \cup Pending)
BY DueIs, AllOfIs DEF IInv, CallOK

\* The first of a sequence without doublets, and the rest.
LEMMA HeadAndTail ==
  ASSUME NEW S, NEW ss \in Seq(S), ss # <<>>, IsInjective(ss)
  PROVE  /\ Head(ss) \in S /\ Tail(ss) \in Seq(S) /\ IsInjective(Tail(ss))
         /\ Range(ss) = Range(Tail(ss)) \cup {Head(ss)} /\ Head(ss) \notin Range(Tail(ss))
<1> DEFINE n == Len(ss)
           t == Tail(ss)
<1>1. /\ n \in Nat \ {0} /\ DOMAIN ss = 1 .. n
      /\ t \in Seq(S) /\ DOMAIN t = 1 .. n - 1 /\ Head(ss) = ss[1] /\ Head(ss) \in S
      /\ \A i \in 1 .. n - 1 : t[i] = ss[i + 1]
  <2>1. n \in Nat /\ n # 0 /\ DOMAIN ss = 1 .. n
    BY EmptySeq, LenProperties
  <2>2. /\ t \in Seq(S) /\ Len(t) = n - 1 /\ Head(ss) = ss[1] /\ Head(ss) \in S
        /\ \A i \in 1 .. Len(t) : t[i] = ss[i + 1]
    BY HeadTailProperties
  <2>3. DOMAIN t = 1 .. Len(t)
    BY <2>2, LenProperties
  <2>4. QED
    BY <2>1, <2>2, <2>3
<1> HIDE DEF n, t
<1>2. /\ \A i \in 1 .. n - 1 : i + 1 \in 1 .. n /\ i + 1 # 1 /\ i \in Nat
      /\ \A i \in 1 .. n : i = 1 \/ (i - 1 \in 1 .. n - 1 /\ (i - 1) + 1 = i)
      /\ 1 \in 1 .. n
  BY <1>1
<1>3. \A i, j \in 1 .. n : ss[i] = ss[j] => i = j
  BY <1>1 DEF IsInjective
<1>4. \A i, j \in 1 .. n - 1 : t[i] = t[j] => i = j
  <2>1. ASSUME NEW i \in 1 .. n - 1, NEW j \in 1 .. n - 1, t[i] = t[j] PROVE i = j
    <3>1. i + 1 = j + 1
      BY <1>1, <1>2, <1>3, <2>1
    <3>2. QED
      BY <1>2, <3>1
  <2>2. QED
    BY <2>1
<1>5. Head(ss) \notin Range(t)
  <2>1. \A i \in 1 .. n - 1 : t[i] # ss[1]
    BY <1>1, <1>2, <1>3
  <2>2. QED
    BY <1>1, <2>1 DEF Range
<1>6. Range(ss) = Range(t) \cup {Head(ss)}
  <2>1. ASSUME NEW x \in Range(ss) PROVE x \in Range(t) \cup {Head(ss)}
    <3>1. PICK i \in 1 .. n : x = ss[i]
      BY <1>1 DEF Range
    <3>2. CASE i = 1
      BY <1>1, <3>1, <3>2
    <3>3. CASE i # 1
      <4>1. i - 1 \in 1 .. n - 1 /\ x = t[i - 1]
        BY <1>1, <1>2, <3>1, <3>3
      <4>2. QED
        BY <1>1, <4>1 DEF Range
    <3>4. QED
      BY <3>2, <3>3
  <2>2. Head(ss) \in Range(ss)
    BY <1>1, <1>2 DEF Range
  <2>3. ASSUME NEW i \in 1 .. n - 1 PROVE t[i] \in Range(ss)
    BY <1>1, <1>2 DEF Range
  <2>4. Range(t) \in SUBSET Range(ss)
    BY <1>1, <2>3 DEF Range
  <2>5. QED
    BY <2>1, <2>2, <2>4
<1>7. QED
  BY <1>1, <1>4, <1>5, <1>6 DEF IsInjective, t

\* Init of one service more, which is due from then on unless it is forbidden.
LEMMA CreateServiceOK == ASSUME IInv, CreateService PROVE IInv'
<1>1. /\ CallOK /\ Sound(Now, Due) /\ Due \in SUBSET Services
      /\ live \in SUBSET Groups /\ Due = AllOf(live) \ (Forbidden \cup Pending)
  BY Given
<1>2. /\ call.kind = "create" /\ call.todo # <<>> /\ live' = live
      /\ call' = [call EXCEPT !.todo = Tail(call.todo)]
  BY DEF CreateService
<1>3. PICK st \in InitService(Now, Head(call.todo)) : Becomes(st)
  BY DEF CreateService
<1>4. PICK ss \in Seq(Services), g \in live \cup {None} :
        call = Creating(ss, g) /\ IsInjective(ss) /\ Range(ss) \in SUBSET AllOf(live)
  BY <1>1, <1>2 DEF CallOK
<1> DEFINE s == Head(ss)
           rest == Tail(ss)
<1>5. ss # <<>> /\ call.todo = ss /\ call' = Creating(rest, g)
  BY <1>2, <1>4 DEF Creating
<1>6. /\ s \in Services /\ rest \in Seq(Services) /\ IsInjective(rest)
      /\ Range(ss) = Range(rest) \cup {s} /\ s \notin Range(rest)
  BY <1>4, <1>5, HeadAndTail
<1> HIDE DEF s, rest
<1>7. Pending = Range(ss) /\ Pending' = Range(rest)
  <2>1. call'.kind = "create" /\ call'.todo = rest
    BY <1>5 DEF Creating
  <2>2. QED
    BY <1>2, <1>5, <2>1 DEF Pending
<1>8. CallOK'
  BY <1>1, <1>2, <1>4, <1>5, <1>6 DEF CallOK
<1>9. Due' = Due \cup ({s} \ Forbidden) /\ s \notin Due
  <2>1. Due' = AllOf(live) \ (Forbidden \cup Range(rest))
    BY <1>2, <1>7, <1>8, AllOfIs DEF Due, Wanted, LiveServices, CallOK
  <2>2. QED
    BY <1>1, <1>4, <1>6, <1>7, <2>1
<1>10. Sound(st, Due \cup ({s} \ Forbidden))
  BY <1>1, <1>3, <1>5, <1>6, <1>9, InitKeeps DEF s
<1>11. QED
  BY <1>3, <1>8, <1>9, <1>10, Settles

\* The services of a group are not those of the others.
LEMMA OthersAre ==
  ASSUME NEW G \in SUBSET Groups, NEW g \in Groups, g \notin G
  PROVE  AllOf(G \cup {g}) = AllOf(G) \cup OfGroup(g) /\ AllOf(G) \cap OfGroup(g) = {}
BY DEF AllOf, OfGroup

\* The services of the old group are shut and no longer due.
LEMMA DeleteOldOK == ASSUME IInv, DeleteOld PROVE IInv'
<1>1. /\ CallOK /\ Sound(Now, Due) /\ Due \in SUBSET Services
      /\ live \in SUBSET Groups /\ Due = AllOf(live) \ (Forbidden \cup Pending)
  BY Given
<1>2. /\ call.kind = "create" /\ call.todo = <<>>
      /\ live' = live \ {call.old} /\ call' = Idle
  BY DEF DeleteOld
<1>3. PICK ss \in Seq(Services), g \in live \cup {None} :
        call = Creating(ss, g) /\ IsInjective(ss) /\ Range(ss) \in SUBSET AllOf(live)
  BY <1>1, <1>2 DEF CallOK
<1>4. call.old = g /\ call.todo = ss /\ call'.kind = "none"
  BY <1>2, <1>3 DEF Creating, Idle
<1> DEFINE old == IF g = None THEN <<>> ELSE ServicesOf(g)
<1>5. Becomes(FoldLeft(Shut, Now, old))
  BY <1>4 DEF DeleteOld
<1>6. /\ old \in Seq(Services)
      /\ Range(old) = IF g = None THEN {} ELSE OfGroup(g)
  <2>1. CASE g = None
    BY <2>1, EmptySeq DEF Range
  <2>2. CASE g # None
    <3>1. g \in Groups
      BY <1>1, <2>2
    <3>2. QED
      BY <2>2, <3>1, ServicesOfIs
  <2>3. QED
    BY <2>1, <2>2
<1> HIDE DEF old
<1>7. Sound(FoldLeft(Shut, Now, old), Due \ Range(old))
  BY <1>1, <1>6, DeleteKeeps
<1>8. CallOK' /\ live' \in SUBSET Groups
  BY <1>1, <1>2, <1>4 DEF CallOK
<1>9. Pending = {} /\ Pending' = {}
  <2>1. ss = <<>> => Range(ss) = {}
    BY EmptySeq DEF Range
  <2>2. QED
    BY <1>2, <1>4, <2>1 DEF Pending
<1>10. Due' = Due \ Range(old)
  <2>1. Due' = AllOf(live') \ Forbidden
    BY <1>8, <1>9, AllOfIs DEF Due, Wanted, LiveServices
  <2>2. CASE g = None
    <3>1. live' = live
      BY <1>1, <1>2, <1>4, <2>2, Classes DEF Elements, Parents
    <3>2. QED
      BY <1>1, <1>6, <1>9, <2>1, <2>2, <3>1
  <2>3. CASE g # None
    <3>1. g \in live /\ g \in Groups /\ live' \cup {g} = live /\ g \notin live'
      BY <1>1, <1>2, <1>4, <2>3
    <3>2. AllOf(live) = AllOf(live') \cup OfGroup(g) /\ AllOf(live') \cap OfGroup(g) = {}
      BY <1>8, <3>1, OthersAre
    <3>3. QED
      BY <1>1, <1>6, <1>9, <2>1, <2>3, <3>2
  <2>4. QED
    BY <2>2, <2>3
<1>11. QED
  BY <1>5, <1>7, <1>8, <1>10, Settles

\* The services of the new group are not due before they have been visited.
LEMMA ReloadOK == ASSUME IInv, NEW g \in DOMAIN Successor, ReloadServiceGroup(g) PROVE IInv'
<1> DEFINE n == Successor[g]
           ss == ServicesOf(n)
<1>1. /\ CallOK /\ live \in SUBSET Groups /\ Due = AllOf(live) \ (Forbidden \cup Pending)
  BY Given
<1>2. /\ call = Idle /\ g \in live /\ n \notin live /\ live' = live \cup {n}
      /\ call' = Creating(ss, g) /\ UNCHANGED pool
  BY DEF ReloadServiceGroup
<1>3. n \in Groups
  BY TreeAssumption
<1>4. ss \in Seq(Services) /\ IsInjective(ss) /\ Range(ss) = OfGroup(n)
  BY <1>3, ServicesOfIs
<1> HIDE DEF n, ss
<1>5. AllOf(live') = AllOf(live) \cup OfGroup(n) /\ AllOf(live) \cap OfGroup(n) = {}
  BY <1>1, <1>2, <1>3, OthersAre
<1>6. CallOK' /\ live' \in SUBSET Groups
  <2>1. live' \in SUBSET Groups /\ g \in live' \cup {None} /\ Range(ss) \in SUBSET AllOf(live')
    BY <1>1, <1>2, <1>3, <1>4, <1>5
  <2>2. QED
    BY <1>2, <1>4, <2>1 DEF CallOK
<1>7. Pending = {} /\ Pending' = OfGroup(n)
  BY <1>2, <1>4 DEF Pending, Idle, Creating
<1>8. Due' = Due
  <2>1. Due' = AllOf(live') \ (Forbidden \cup OfGroup(n))
    BY <1>6, <1>7, AllOfIs DEF Due, Wanted, LiveServices
  <2>2. QED
    BY <1>1, <1>5, <1>7, <2>1
<1>9. QED
  BY <1>2, <1>6, <1>8, StaysAsItIs

\* A step that leaves the groups and the work of the call alone.
LEMMA DueStays ==
  ASSUME CallOK, live' = live, call'.kind \in {"none", "reinit"}, call.kind \in {"none", "reinit"}
  PROVE  CallOK' /\ Due' = Due
<1>1. Pending = {} /\ Pending' = {}
  BY DEF Pending
<1>2. CallOK'
  BY DEF CallOK
<1>3. Wanted' = Wanted
  BY DEF Wanted, LiveServices
<1>4. QED
  BY <1>1, <1>2, <1>3 DEF Due

\* ProcessReInit starts and ends.
LEMMA WalkOK == ASSUME IInv, ProcessReInit \/ WalkEnds PROVE IInv'
<1>1. call.kind \in {"none", "reinit"} /\ call'.kind \in {"none", "reinit"}
      /\ live' = live /\ UNCHANGED pool
  BY DEF ProcessReInit, WalkEnds, Idle, Walking
<1>2. CallOK' /\ Due' = Due
  BY <1>1, Given, DueStays
<1>3. QED
  BY <1>1, <1>2, StaysAsItIs

\* ProcessReInit visits a service of the set.
LEMMA VisitOK == ASSUME IInv, Visit PROVE IInv'
<1>1. /\ CallOK /\ Sound(Now, Due) /\ Due \in SUBSET (Services \ Forbidden)
  BY Given
<1>2. PICK s \in Unvisited : \E st \in InitService(ReInit(Now, s), s) :
        /\ Becomes(st)
        /\ call' = Walking(s, st # Now \/ s \in SyncServices \/ ~m_connecting[s])
  BY DEF Visit
<1>3. PICK st \in InitService(ReInit(Now, s), s) :
        /\ Becomes(st)
        /\ call' = Walking(s, st # Now \/ s \in SyncServices \/ ~m_connecting[s])
  BY <1>2
<1>4. call.kind = "reinit" /\ call'.kind = "reinit" /\ live' = live
  BY <1>3 DEF Visit, Walking
<1>5. CallOK' /\ Due' = Due
  BY <1>1, <1>4, DueStays
<1>6. s \in Now.reinit_set
  BY DEF Unvisited, Now
<1>7. Sound(st, Due)
  BY <1>1, <1>3, <1>6, VisitKeeps
<1>8. QED
  BY <1>3, <1>5, <1>7, Settles

\* An event of a descriptor reaches the service that owns the link.
LEMMA EventOK ==
  ASSUME IInv, NEW fd \in Fds, Connected(fd) \/ Sent(fd) \/ Lost(fd)
  PROVE  IInv'
<1>1. /\ CallOK /\ Sound(Now, Due) /\ Due \in SUBSET Services
  BY Given
<1>2. /\ call.kind = "none" /\ call'.kind = "none" /\ live' = live
  BY DEF Connected, Sent, Lost, Idle
<1>3. CallOK' /\ Due' = Due
  BY <1>1, <1>2, DueStays
<1>4. Now.links[fd] = links[fd]
  BY DEF Now
<1>5. SUFFICES \E st : Becomes(st) /\ Sound(st, Due)
  BY <1>3, Settles
<1>6. CASE Connected(fd)
  <2>1. /\ links[fd] = "connecting"
        /\ Becomes([SetServiceConnected(Now, fd) EXCEPT !.links[fd] = "up"])
    BY <1>6 DEF Connected
  <2>2. QED
    BY <1>1, <1>4, <2>1, ConnectedKeeps
<1>7. CASE Sent(fd)
  <2>1. CASE links[fd] = "draining"
    <3>1. Becomes(HandleError(Now, fd))
      BY <1>7, <2>1 DEF Sent
    <3>2. QED
      BY <1>1, <1>4, <2>1, <3>1, HandleErrorKeeps
  <2>2. CASE links[fd] # "draining"
    <3>1. links[fd] = "sending" /\ Becomes([Now EXCEPT !.links[fd] = "up"])
      BY <1>7, <2>2 DEF Sent
    <3>2. "up" \in Links /\ {Now.links[fd], "up"} \in SUBSET {"up", "sending"}
      BY <1>4, <3>1 DEF Links
    <3>3. QED
      BY <1>1, <3>1, <3>2, LinkKeeps
  <2>3. QED
    BY <2>1, <2>2
<1>8. CASE Lost(fd)
  <2>1. PICK f \in Faulty(Now) : Becomes(HandleError(f, fd))
    BY <1>8 DEF Lost
  <2>2. Sound(f, Due) /\ f.links = Now.links
    BY <1>1, FaultyKeeps, FaultyIs DEF Sound, SameLinks
  <2>3. f.links[fd] # "none"
    BY <1>4, <1>8, <2>2 DEF Lost
  <2>4. QED
    BY <1>1, <2>1, <2>2, <2>3, HandleErrorKeeps
<1>9. QED
  BY <1>6, <1>7, <1>8

\* A request reaches a service that is enabled, or none.
LEMMA RequestOK ==
  ASSUME IInv, NEW g \in Groups, NEW seed \in Seeds, SendRequest(g, seed) \/ Exchange(g, seed)
  PROVE  IInv'
<1> DEFINE r == Route(Now, g, seed)
<1>1. /\ CallOK /\ Sound(Now, Due) /\ Fresh(Now) /\ Due \in SUBSET Services
  BY Given
<1>2. /\ call.kind = "none" /\ call'.kind = "none" /\ live' = live
  BY DEF SendRequest, Exchange, Idle
<1>3. CallOK' /\ Due' = Due
  BY <1>1, <1>2, DueStays
<1>4. SUFFICES \E st : Becomes(st) /\ Sound(st, Due)
  BY <1>3, Settles
<1>5. /\ r.to = None \/ (r.to \in Services /\ r.st.enable[r.to])
      /\ Sound(r.st, Due)
  BY <1>1, RouteIs
<1>6. CASE SendRequest(g, seed)
  <2>1. /\ r.to \notin SyncServices
        /\ \E st \in IF r.to = None THEN {r.st} ELSE Send(r.st, r.to) : Becomes(st)
    BY <1>6 DEF SendRequest
  <2> HIDE DEF r
  <2>2. CASE r.to = None
    BY <1>5, <2>1, <2>2
  <2>3. CASE r.to # None
    <3>1. r.to \in AsyncServices /\ r.st.enable[r.to]
      BY <1>5, <2>1, <2>3, Classes
    <3>2. PICK st \in Send(r.st, r.to) : Becomes(st)
      BY <2>1, <2>3
    <3>3. QED
      BY <1>1, <1>5, <3>1, <3>2, SendKeeps
  <2>4. QED
    BY <2>2, <2>3
<1>7. CASE Exchange(g, seed)
  <2>1. /\ r.to \in SyncServices
        /\ \E st \in SendAndRecv(r.st, r.to) : Becomes(st)
    BY <1>7 DEF Exchange
  <2> HIDE DEF r
  <2>2. r.st.enable[r.to]
    BY <1>5, <2>1, Nothings, Classes
  <2>3. PICK st \in SendAndRecv(r.st, r.to) : Becomes(st)
    BY <2>1
  <2>4. QED
    BY <1>1, <1>5, <2>1, <2>2, <2>3, SendAndRecvKeeps
<1>8. QED
  BY <1>6, <1>7

\* The invariant holds in every behaviour.
LEMMA PoolInvariant == Spec => []IInv
<1>1. ASSUME IInv, [Next]_vars PROVE IInv'
  <2>1. CASE CreateService
    BY <1>1, <2>1, CreateServiceOK
  <2>2. CASE DeleteOld
    BY <1>1, <2>2, DeleteOldOK
  <2>3. CASE \E g \in DOMAIN Successor : ReloadServiceGroup(g)
    BY <1>1, <2>3, ReloadOK
  <2>4. CASE ProcessReInit \/ WalkEnds
    BY <1>1, <2>4, WalkOK
  <2>5. CASE Visit
    BY <1>1, <2>5, VisitOK
  <2>6. CASE \E fd \in Fds : Connected(fd) \/ Sent(fd) \/ Lost(fd)
    BY <1>1, <2>6, EventOK
  <2>7. CASE \E g \in Groups, seed \in Seeds : SendRequest(g, seed) \/ Exchange(g, seed)
    BY <1>1, <2>7, RequestOK
  <2>8. CASE UNCHANGED vars
    <3>1. UNCHANGED pool /\ live' = live /\ call' = call
      BY <2>8 DEF vars
    <3>2. CallOK' /\ Due' = Due
      <4>1. CallOK'
        BY <1>1, <3>1 DEF CallOK, IInv
      <4>2. Due' = Due
        BY <3>1 DEF Due, Wanted, Pending, LiveServices
      <4>3. QED
        BY <4>1, <4>2
    <3>3. QED
      BY <1>1, <3>1, <3>2, StaysAsItIs
  <2>9. QED
    BY <1>1, <2>1, <2>2, <2>3, <2>4, <2>5, <2>6, <2>7, <2>8 DEF Next
<1>2. QED
  BY <1>1, InitOK, PTL DEF Spec

\* An element is enabled exactly while one of its children is, whatever connects and
\* is lost below it: a request finds a service whenever one is connected.
THEOREM TreeTold == Spec => []EnabledByChild
<1>1. IInv => EnabledByChild
  BY DEF IInv, Sound, Told, Now, EnabledByChild
<1>2. QED
  BY <1>1, PoolInvariant, PTL

\* Every service that should be connected and is not waits for the timer, and the
\* timer calls no other: none is forgotten, none that was deleted is called.
THEOREM NobodyForgotten == Spec => []EnabledOrRetried
<1>1. ASSUME IInv PROVE EnabledOrRetried
  <2>1. Sound(Now, Due) /\ live \in SUBSET Groups
    BY <1>1, Given
  <2>2. TypeOK
    <3>1. Now \in State /\ TurnsOK(Now)
      BY <2>1 DEF Sound
    <3>2. \A p \in Parents : m_current[p] \in 0 .. Len(Children[p])
      BY <3>1 DEF TurnsOK, Now
    <3>3. QED
      BY <2>1, <3>1, <3>2 DEF TypeOK, State, Now, Links
  <2>3. reinit_set = {s \in Wanted \ Pending : ~enable[s]}
    BY <2>1 DEF Sound, Now, Due
  <2>4. \A s \in AsyncServices : enable[s] <=> m_fd[s] # -1 /\ ~m_connecting[s]
    BY <2>1 DEF Sound, AsyncOK, Now
  <2>5. \A s \in SyncServices : enable[s] <=> open[s]
    BY <2>1 DEF Sound, SyncOK, Now
  <2>6. QED
    BY <2>2, <2>3, <2>4, <2>5 DEF EnabledOrRetried
<1>2. QED
  BY <1>1, PoolInvariant, PTL

\* A link belongs to the one service of an existing group that knows its descriptor:
\* no event of a descriptor that is used again reaches the service that had it before.
THEOREM LinksAreOwned == Spec => []LinksOwned
<1>1. ASSUME IInv PROVE LinksOwned
  <2>1. Sound(Now, Due) /\ MapOK(Now) /\ AsyncOK(Now, Due)
    BY <1>1, Given DEF Sound
  <2>2. ASSUME NEW fd \in Fds, links[fd] \in Active
        PROVE  LET s == fd_service_map[fd]
               IN  s \in LiveServices /\ m_fd[s] = fd
                   /\ (m_connecting[s] <=> links[fd] = "connecting")
    BY <2>1, <2>2, OwnerIs DEF Now, Due, Wanted
  <2>3. ASSUME NEW fd \in Fds, links[fd] \notin Active PROVE fd_service_map[fd] = None
    BY <2>1, <2>3 DEF MapOK, Now
  <2>4. \A s \in AsyncServices : m_fd[s] # -1 => fd_service_map[m_fd[s]] = s
    BY <2>1 DEF AsyncOK, Now
  <2>5. QED
    BY <2>2, <2>3, <2>4 DEF LinksOwned, Active
<1>2. QED
  BY <1>1, PoolInvariant, PTL

\* Round robin passes over no enabled child more often than there are others, whatever
\* is enabled and disabled meanwhile.
THEOREM TurnsAreFair == Spec => []RollFair
<1>1. ASSUME IInv PROVE RollFair
  <2>1. Now \in State /\ TurnsOK(Now)
    BY <1>1, Given DEF Sound
  <2>2. ASSUME NEW p \in Parents, Strategy[p] = "ROLL", NEW c \in Range(Children[p])
        PROVE  missed[c] < Len(Children[p])
    <3>1. PICK S : Children[p] \in Seq(S) /\ Range(Children[p]) \in SUBSET Elements
      BY ChildrenAre, Classes DEF Parents, Elements
    <3>2. PICK i \in 1 .. Len(Children[p]) : c = Children[p][i]
      BY <3>1 DEF Range
    <3>3. PICK n \in Nat : n = Len(Children[p])
      BY <3>1, LenProperties
    <3>4. PICK m \in Nat : m = m_current[p] /\ m < n
      BY <2>1, <3>2, <3>3 DEF TurnsOK, State, Now
    <3>5. missed[c] + Ahead(m, i - 1, n) < n
      BY <2>1, <2>2, <3>2, <3>3, <3>4 DEF TurnsOK, Now
    <3>6. PICK k \in Nat : k = missed[c]
      BY <2>1, <3>1 DEF State, Now
    <3>7. Ahead(m, i - 1, n) \in Nat
      BY <3>2, <3>3, <3>4 DEF Ahead
    <3>8. k < n
      BY <3>5, <3>6, <3>7
    <3>9. QED
      BY <3>3, <3>6, <3>8
  <2>3. QED
    BY <2>2 DEF RollFair
<1>2. QED
  BY <1>1, PoolInvariant, PTL

\* No answer to a request that was given up can come on a connection in use.
THEOREM NoAnswerIsLate == Spec => []NoLateAnswer
<1>1. IInv => NoLateAnswer
  BY DEF IInv, Sound, SyncOK, Now, NoLateAnswer
<1>2. QED
  BY <1>1, PoolInvariant, PTL

=============================================================================
