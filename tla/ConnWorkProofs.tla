--------------------------- MODULE ConnWorkProofs ---------------------------
(***************************************************************************)
(* For any number of workers, descriptors, connections and kills, and any  *)
(* size of the queues: no request is answered twice, and as long as CONN   *)
(* is not killed a reply goes to the connection that asked.  While nobody  *)
(* is killed and the plugin closes nothing, every worker will have CONN's  *)
(* view of every connection, and its plugin's callbacks come in pairs.     *)
(***************************************************************************)
EXTENDS ConnWork, SequenceTheorems, WellFoundedInduction, TLAPS

\* All that is on its way from CONN to worker c, and back.
Stream(c) == recv_queue[c] \o recv_list[c]
Back(c) == send_queue[c] \o send_list[c]

(* Which requests are where: each of them is in one place only.            *)
Reqs(s) == {s[i].req : i \in 1 .. Len(s)} \ {NoReq}
Distinct(s) ==
  \A i, j \in 1 .. Len(s) : s[i].req # NoReq /\ s[i].req = s[j].req => i = j
HandReqs(c) == IF hand[c] = NoBlock THEN {} ELSE {hand[c].req} \ {NoReq}
Pending(c) == Reqs(Stream(c)) \cup HandReqs(c) \cup Reqs(Back(c))
Done == {delivered[i].req : i \in 1 .. Len(delivered)}

\* Within the channel c ...
OnePlace(c) ==
  /\ Distinct(Stream(c)) /\ Distinct(Back(c))
  /\ Reqs(Stream(c)) \cap HandReqs(c) = {}
  /\ (Reqs(Stream(c)) \cup HandReqs(c)) \cap Reqs(Back(c)) = {}

\* ... and altogether.
Unique ==
  /\ \A c \in Channels :
       /\ OnePlace(c)
       /\ Pending(c) \cap Done = {}
       /\ Pending(c) \subseteq 1 .. Len(asked)
       /\ \A d \in Channels \ {c} : Pending(c) \cap Pending(d) = {}
  /\ Done \subseteq 1 .. Len(asked)
  /\ AnsweredOnce

\* The counter of the ids does not wrap around.
IdsLast == MaxConns <= IntMax

\* What a block says of its request when a is "asked" and CONN was killed k
\* times: if it never was, the id is the number of the connection that asked.
Sound(b, a, k) ==
  IF b.type = "PROTO"
  THEN b.req \in 1 .. Len(a) /\ (IdsLast /\ k = 0 => b.id = a[b.req])
  ELSE b.req = NoReq
AllSound(s, a, k) == \A i \in 1 .. Len(s) : Sound(s[i], a, k)

\* Every block that carries a request carries one that was asked, ...
CarriedSound ==
  \A c \in Channels :
    /\ AllSound(Stream(c), asked, conn_kills) /\ AllSound(Back(c), asked, conn_kills)
    /\ hand[c] # NoBlock => Sound(hand[c], asked, conn_kills)

\* ... a notification carries none and its connection is there, ...
NoteSound ==
  note # NoNote => /\ note.block.type # "PROTO" /\ note.block.req = NoReq
                   /\ handlers[note.block.fd] # NoHandler

\* ... what was answered was asked, and by the one that got the answer, ...
AnswersSound ==
  /\ \A i \in 1 .. Len(delivered) : delivered[i].req \in 1 .. Len(asked)
  /\ IdsLast /\ conn_kills = 0 => RepliesToAsker

\* ... and the ids are the numbers of the connections.
IdsCount ==
  IdsLast /\ conn_kills = 0 =>
    /\ m_id = accepted
    /\ \A fd \in Fds : handlers[fd] # NoHandler => handlers[fd].id = handlers[fd].link

Addresses ==
  /\ Len(asked) <= MaxReqs
  /\ CarriedSound
  /\ NoteSound
  /\ AnswersSound
  /\ IdsCount

BaseInv == TypeOK /\ Addresses
UniqueInv == BaseInv /\ Unique

(* What a worker knows of fd before and after it handles a block about it. *)
IdBefore(b) == IF b.type = "LOGIN" THEN 0 ELSE b.id
IdAfter(b) == IF b.type = "CLOSE" THEN 0 ELSE b.id

\* val[i] is what it knows after the first i blocks of s: v at first, w at last.
Chained(s, fd, v, w) ==
  \E val \in [0 .. Len(s) -> 0 .. IntMax] :
    /\ val[0] = v
    /\ val[Len(s)] = w
    /\ \A i \in 1 .. Len(s) :
         IF s[i].fd = fd THEN val[i - 1] = IdBefore(s[i]) /\ val[i] = IdAfter(s[i])
         ELSE val[i] = val[i - 1]

Replies(s) == \A i \in 1 .. Len(s) : s[i].type = "PROTO"

\* Every worker meets the blocks about a descriptor in an order that makes
\* sense, and ends up with what CONN has told it; it sends replies only.
InStep(c) ==
  /\ \A fd \in Fds : Chained(ToHandle(c), fd, g_link_flags[c][fd], Told(c, fd))
  /\ Replies(Back(c))

\* The block CONN is telling everybody is about the connection it has.
NoteRight ==
  /\ \A fd \in Fds : handlers[fd] # NoHandler => ~handlers[fd].m_is_closed
  /\ note # NoNote =>
       /\ handlers[note.block.fd].id = note.block.id
       /\ \/ note.block.type = "LOGIN" /\ note.then = "open"
          \/ note.block.type = "CLOSE" /\ note.then = "fini"

Undisturbed == closes = 0 /\ conn_kills = 0 /\ work_kills = 0

Following ==
  Undisturbed => /\ \A c \in Channels : InStep(c)
                 /\ NoteRight
                 /\ LinksPaired

FollowInv == BaseInv /\ Following

-----------------------------------------------------------------------------
(***************************************************************************)
(* Sequences of blocks.                                                    *)
(***************************************************************************)

\* Requests in a sequence with one more ...
LEMMA AppendReqs ==
  ASSUME NEW s \in Seq(BlockType), NEW b \in BlockType
  PROVE  /\ Append(s, b) \in Seq(BlockType)
         /\ Reqs(Append(s, b)) = Reqs(s) \cup ({b.req} \ {NoReq})
         /\ Distinct(s) /\ b.req \notin Reqs(s) => Distinct(Append(s, b))
         /\ \A a, k : AllSound(s, a, k) /\ Sound(b, a, k) => AllSound(Append(s, b), a, k)
<1> DEFINE t == Append(s, b)
<1>1. /\ t \in Seq(BlockType) /\ Len(t) = Len(s) + 1 /\ Len(s) \in Nat
      /\ \A i \in 1 .. Len(s) : t[i] = s[i]
      /\ t[Len(s) + 1] = b
  BY AppendProperties, LenProperties
<1> HIDE DEF t
<1>2. \A i \in 1 .. Len(t) :
        (i \in 1 .. Len(s) /\ t[i] = s[i]) \/ (i = Len(s) + 1 /\ t[i] = b)
  BY <1>1
<1>3. Reqs(t) = Reqs(s) \cup ({b.req} \ {NoReq})
  BY <1>1 DEF Reqs
<1>4. ASSUME Distinct(s), b.req \notin Reqs(s) PROVE Distinct(t)
  BY <1>1, <1>2, <1>4 DEF Distinct, Reqs
<1>5. ASSUME NEW a, NEW k, AllSound(s, a, k), Sound(b, a, k) PROVE AllSound(t, a, k)
  BY <1>2, <1>5 DEF AllSound
<1>6. QED
  BY <1>1, <1>3, <1>4, <1>5 DEF t

\* ... and with the first one less.
LEMMA TailReqs ==
  ASSUME NEW s \in Seq(BlockType), s # <<>>
  PROVE  /\ Head(s) \in BlockType /\ Tail(s) \in Seq(BlockType)
         /\ Reqs(s) = Reqs(Tail(s)) \cup ({Head(s).req} \ {NoReq})
         /\ Distinct(s) => Distinct(Tail(s)) /\ (Head(s).req \notin Reqs(Tail(s)))
         /\ \A a, k : AllSound(s, a, k) => AllSound(Tail(s), a, k) /\ Sound(Head(s), a, k)
<1> DEFINE t == Tail(s)  h == Head(s)
<1>1. /\ h \in BlockType /\ t \in Seq(BlockType) /\ Len(t) = Len(s) - 1 /\ h = s[1]
      /\ \A i \in 1 .. Len(t) : t[i] = s[i + 1]
      /\ Len(s) \in Nat \ {0}
  BY HeadTailProperties, EmptySeq
<1> HIDE DEF t, h
<1>2. \A i \in 1 .. Len(t) : i + 1 \in 1 .. Len(s) /\ i + 1 # 1 /\ t[i] = s[i + 1]
  BY <1>1
<1>3. \A i \in 1 .. Len(s) : i = 1 \/ (i - 1 \in 1 .. Len(t) /\ s[i] = t[i - 1])
  BY <1>1
<1>4. 1 \in 1 .. Len(s)
  BY <1>1
<1>5. Reqs(s) = Reqs(t) \cup ({h.req} \ {NoReq})
  <2>1. Reqs(s) \subseteq Reqs(t) \cup ({h.req} \ {NoReq})
    <3>1. SUFFICES ASSUME NEW i \in 1 .. Len(s), s[i].req # NoReq
                   PROVE  s[i].req \in Reqs(t) \cup ({h.req} \ {NoReq})
      BY DEF Reqs
    <3>2. CASE i = 1
      BY <1>1, <3>1, <3>2
    <3>3. CASE i - 1 \in 1 .. Len(t) /\ s[i] = t[i - 1]
      BY <3>1, <3>3 DEF Reqs
    <3>4. QED
      BY <1>3, <3>2, <3>3
  <2>2. Reqs(t) \subseteq Reqs(s)
    BY <1>2 DEF Reqs
  <2>3. {h.req} \ {NoReq} \subseteq Reqs(s)
    BY <1>1, <1>4 DEF Reqs
  <2>4. QED
    BY <2>1, <2>2, <2>3
<1>6. ASSUME Distinct(s) PROVE Distinct(t) /\ h.req \notin Reqs(t)
  <2>1. ASSUME NEW i \in 1 .. Len(t), NEW j \in 1 .. Len(t),
               t[i].req # NoReq, t[i].req = t[j].req
        PROVE  i = j
    <3>1. i + 1 = j + 1
      BY <1>2, <1>6, <2>1 DEF Distinct
    <3>2. QED
      BY <3>1
  <2>2. ASSUME h.req \in Reqs(t) PROVE FALSE
    <3>1. PICK i \in 1 .. Len(t) : t[i].req = h.req /\ h.req # NoReq
      BY <2>2 DEF Reqs
    <3>2. i + 1 = 1
      BY <1>1, <1>2, <1>4, <1>6, <3>1 DEF Distinct
    <3>3. QED
      BY <3>2
  <2>3. QED
    BY <2>1, <2>2 DEF Distinct
<1>7. ASSUME NEW a, NEW k, AllSound(s, a, k) PROVE AllSound(t, a, k) /\ Sound(h, a, k)
  BY <1>1, <1>2, <1>4, <1>7 DEF AllSound
<1>8. QED
  BY <1>1, <1>5, <1>6, <1>7 DEF t, h

\* What is said of a request stays true when more are asked and CONN is killed.
LEMMA SoundStays ==
  ASSUME NEW a \in Seq(Links), NEW k \in Nat, NEW x \in Links
  PROVE  /\ \A s : AllSound(s, a, k) => AllSound(s, Append(a, x), k) /\ AllSound(s, a, k + 1)
         /\ \A b : Sound(b, a, k) => Sound(b, Append(a, x), k) /\ Sound(b, a, k + 1)
<1>1. /\ Len(Append(a, x)) = Len(a) + 1 /\ Len(a) \in Nat
      /\ \A i \in 1 .. Len(a) : Append(a, x)[i] = a[i]
  BY AppendProperties, LenProperties
<1>2. k + 1 # 0
  OBVIOUS
<1>3. ASSUME NEW b, Sound(b, a, k)
      PROVE  Sound(b, Append(a, x), k) /\ Sound(b, a, k + 1)
  BY <1>1, <1>2, <1>3 DEF Sound
<1>4. QED
  BY <1>3 DEF AllSound

\* The front of a sequence has nothing that the whole has not.
LEMMA FrontReqs ==
  ASSUME NEW q \in Seq(BlockType), NEW l \in Seq(BlockType)
  PROVE  /\ Reqs(q) \subseteq Reqs(q \o l)
         /\ Distinct(q \o l) => Distinct(q)
         /\ \A a, k : AllSound(q \o l, a, k) => AllSound(q, a, k)
<1> DEFINE s == q \o l
<1>1. \A i \in 1 .. Len(q) : i \in 1 .. Len(s) /\ s[i] = q[i]
  <2>1. Len(q) \in Nat /\ Len(l) \in Nat
    BY LenProperties
  <2>2. QED
    BY <2>1, ConcatProperties
<1> HIDE DEF s
<1>2. Reqs(q) \subseteq Reqs(s)
  BY <1>1 DEF Reqs
<1>3. ASSUME Distinct(s) PROVE Distinct(q)
  BY <1>1, <1>3 DEF Distinct
<1>4. ASSUME NEW a, NEW k, AllSound(s, a, k) PROVE AllSound(q, a, k)
  BY <1>1, <1>4 DEF AllSound
<1>5. QED
  BY <1>2, <1>3, <1>4 DEF s

\* The first block of a queue is the first of queue and list.
LEMMA HeadOfBoth ==
  ASSUME NEW q \in Seq(BlockType), NEW l \in Seq(BlockType), q # <<>>
  PROVE  q \o l # <<>> /\ Head(q \o l) = Head(q) /\ Tail(q \o l) = Tail(q) \o l
<1>1. /\ Len(q) \in Nat \ {0} /\ Len(l) \in Nat
      /\ Tail(q) \in Seq(BlockType) /\ Len(Tail(q)) = Len(q) - 1
      /\ \A i \in 1 .. Len(Tail(q)) : Tail(q)[i] = q[i + 1]
  BY HeadTailProperties, EmptySeq, LenProperties
<1> DEFINE s == q \o l  r == Tail(q) \o l
<1>2. /\ s \in Seq(BlockType) /\ Len(s) = Len(q) + Len(l)
      /\ \A i \in 1 .. Len(q) + Len(l) : s[i] = IF i <= Len(q) THEN q[i] ELSE l[i - Len(q)]
  BY ConcatProperties
<1>3. /\ r \in Seq(BlockType) /\ Len(r) = Len(q) - 1 + Len(l)
      /\ \A i \in 1 .. Len(q) - 1 + Len(l) :
           r[i] = IF i <= Len(q) - 1 THEN Tail(q)[i] ELSE l[i - (Len(q) - 1)]
  BY <1>1, ConcatProperties
<1> HIDE DEF s, r
<1>4. s # <<>>
  BY <1>1, <1>2
<1>5. Head(s) = Head(q)
  BY <1>1, <1>2, <1>4, HeadTailProperties
<1>6. /\ Tail(s) \in Seq(BlockType) /\ Len(Tail(s)) = Len(q) - 1 + Len(l)
      /\ \A i \in 1 .. Len(Tail(s)) : Tail(s)[i] = s[i + 1]
  BY <1>1, <1>2, <1>4, HeadTailProperties
<1>7. ASSUME NEW i \in 1 .. Len(Tail(s)) PROVE Tail(s)[i] = r[i]
  <2>1. i + 1 \in 1 .. Len(q) + Len(l) /\ i \in 1 .. Len(q) - 1 + Len(l)
    BY <1>1, <1>6
  <2>2. CASE i <= Len(q) - 1
    BY <1>1, <1>2, <1>3, <1>6, <2>1, <2>2
  <2>3. CASE ~(i <= Len(q) - 1)
    <3>1. ~(i + 1 <= Len(q)) /\ (i + 1) - Len(q) = i - (Len(q) - 1)
      BY <1>1, <2>3
    <3>2. QED
      BY <1>2, <1>3, <1>6, <2>1, <2>3, <3>1
  <2>4. QED
    BY <2>2, <2>3
<1>8. Tail(s) = r
  BY <1>3, <1>6, <1>7, SeqEqual
<1>9. QED
  BY <1>4, <1>5, <1>8 DEF s, r

\* Where one puts the brackets does not matter.
LEMMA Associative ==
  \A r, s, t \in Seq(BlockType) : (r \o s) \o t = r \o (s \o t)
BY ConcatAssociative

\* pruge_recv and pruge_send take nothing away and change no order.
LEMMA PrugedKeeps ==
  ASSUME NEW q \in Seq(BlockType), NEW l \in Seq(BlockType), Len(q) <= RingCap
  PROVE  /\ Pruged(q, l).q \in Seq(BlockType) /\ Pruged(q, l).l \in Seq(BlockType)
         /\ Len(Pruged(q, l).q) <= RingCap
         /\ Pruged(q, l).q \o Pruged(q, l).l = q \o l
<1>1. RingCap \in Nat /\ Len(q) \in Nat /\ Len(l) \in Nat
  BY ConnWorkAssumption, LenProperties
<1> DEFINE room == RingCap - Len(q)
           n == IF Len(l) <= room THEN Len(l) ELSE room
           a == SubSeq(l, 1, n)
           b == SubSeq(l, n + 1, Len(l))
<1>2. n \in 0 .. Len(l) /\ Len(q) + n <= RingCap
  BY <1>1
<1>3. Pruged(q, l).q = q \o a /\ Pruged(q, l).l = b
  BY DEF Pruged
<1> HIDE DEF n
<1>4. a \in Seq(BlockType) /\ Len(a) = n /\ b \in Seq(BlockType)
  <2>1. \A i \in 1 .. Len(l) : l[i] \in BlockType
    BY ElementOfSeq
  <2>2. /\ 1 \in Int /\ n \in Int /\ n + 1 \in Int /\ Len(l) \in Int
        /\ \A i \in 1 .. n : l[i] \in BlockType
        /\ \A i \in n + 1 .. Len(l) : l[i] \in BlockType
    BY <1>1, <1>2, <2>1
  <2>3. a \in Seq(BlockType) /\ Len(a) = IF 1 <= n THEN n - 1 + 1 ELSE 0
    BY <2>2, SubSeqProperties
  <2>4. b \in Seq(BlockType)
    BY <2>2, SubSeqProperties
  <2>5. QED
    BY <1>2, <2>3, <2>4
<1>5. a \o b = l
  <2>1. 1 \in 1 .. Len(l) + 1 /\ n \in 1 - 1 .. Len(l) /\ Len(l) \in n .. Len(l)
    BY <1>1, <1>2
  <2>2. a \o b = SubSeq(l, 1, Len(l))
    BY <2>1, ConcatAdjacentSubSeq
  <2>3. QED
    BY <2>2, SubSeqFull
<1> HIDE DEF a, b
<1>6. (q \o a) \o b = q \o l
  <2>1. (q \o a) \o b = q \o (a \o b)
    BY <1>4, Associative
  <2>2. QED
    BY <1>5, <2>1
<1>7. q \o a \in Seq(BlockType) /\ Len(q \o a) = Len(q) + n
  BY <1>4, ConcatProperties
<1>8. QED
  BY <1>2, <1>3, <1>4, <1>6, <1>7

\* recv_push and send_push put a block behind all others, or, if the caller
\* did not say "safe", may leave it.
LEMMA PushedAppends ==
  ASSUME NEW q \in Seq(BlockType), NEW l \in Seq(BlockType), Len(q) <= RingCap,
         NEW b \in BlockType, NEW safe \in BOOLEAN
  PROVE  LET p == Pushed(q, l, b, safe)
         IN /\ p.q \in Seq(BlockType) /\ p.l \in Seq(BlockType) /\ Len(p.q) <= RingCap
            /\ \/ p.q \o p.l = Append(q \o l, b)
               \/ ~safe /\ p.q \o p.l = q \o l
<1> DEFINE pq == Pruged(q, l).q  pl == Pruged(q, l).l  p == Pushed(q, l, b, safe)
<1>1. pq \in Seq(BlockType) /\ pl \in Seq(BlockType) /\ Len(pq) <= RingCap
      /\ pq \o pl = q \o l
  BY PrugedKeeps
<1>2. p = IF pl = <<>> /\ Len(pq) < RingCap THEN [q |-> Append(pq, b), l |-> <<>>]
          ELSE IF safe THEN [q |-> pq, l |-> Append(pl, b)]
          ELSE Pruged(q, l)
  BY DEF Pushed
<1>3. RingCap \in Nat /\ Len(pq) \in Nat
  BY <1>1, ConnWorkAssumption, LenProperties
<1> HIDE DEF pq, pl, p
<1>4. CASE pl = <<>> /\ Len(pq) < RingCap
  <2>1. p.q = Append(pq, b) /\ p.l = <<>>
    BY <1>2, <1>4
  <2>2. Append(pq, b) \in Seq(BlockType) /\ Len(Append(pq, b)) = Len(pq) + 1
    BY <1>1, AppendProperties
  <2>3. pq \o pl = pq
    BY <1>1, <1>4, ConcatEmptySeq
  <2>4. Append(pq, b) \o <<>> = Append(pq, b)
    BY <2>2, ConcatEmptySeq
  <2>5. p.q \o p.l = Append(q \o l, b)
    BY <1>1, <2>1, <2>3, <2>4
  <2>6. p.l \in Seq(BlockType)
    BY <1>1, <1>4, <2>1
  <2>7. QED
    BY <1>3, <1>4, <2>1, <2>2, <2>5, <2>6 DEF p
<1>5. CASE ~(pl = <<>> /\ Len(pq) < RingCap) /\ safe
  <2>1. p.q = pq /\ p.l = Append(pl, b)
    BY <1>2, <1>5
  <2>2. Append(pl, b) \in Seq(BlockType) /\ <<b>> \in Seq(BlockType)
    BY <1>1, AppendProperties
  <2>3. Append(pl, b) = pl \o <<b>>
    BY <1>1, AppendIsConcat
  <2>4. pq \o (pl \o <<b>>) = (pq \o pl) \o <<b>>
    BY <1>1, <2>2, Associative
  <2>5. q \o l \in Seq(BlockType)
    BY ConcatProperties
  <2>6. (q \o l) \o <<b>> = Append(q \o l, b)
    BY <2>5, AppendIsConcat
  <2>7. p.q \o p.l = Append(q \o l, b)
    BY <1>1, <2>1, <2>3, <2>4, <2>6
  <2>8. QED
    BY <1>1, <2>1, <2>2, <2>7 DEF p
<1>6. CASE ~(pl = <<>> /\ Len(pq) < RingCap) /\ ~safe
  <2>1. p = Pruged(q, l)
    BY <1>2, <1>6
  <2>2. p.q = pq /\ p.l = pl
    BY <2>1 DEF pq, pl
  <2>3. QED
    BY <1>1, <1>6, <2>2 DEF p
<1>7. QED
  BY <1>4, <1>5, <1>6

-----------------------------------------------------------------------------
(***************************************************************************)
(* What a worker knows while it handles a sequence of blocks.              *)
(***************************************************************************)

\* A set of natural numbers has a least one: what an induction rests on.
LEMMA LeastOne ==
  ASSUME NEW T \in SUBSET Nat, T # {}
  PROVE  \E m \in T : \A n \in T : m <= n
<1> DEFINE R == OpToRel(<, Nat)
<1>1. IsWellFoundedOn(R, Nat)
  BY NatLessThanWellFounded
<1>2. \A m, n \in Nat : m < n => <<m, n>> \in R
  BY DEF OpToRel
<1> HIDE DEF R
<1>3. PICK m \in T : \A n \in T : <<n, m>> \notin R
  BY <1>1, WFMin
<1>4. \A n \in T : ~(n < m)
  BY <1>2, <1>3
<1>5. QED
  BY <1>4

\* After no block it knows what it knew.
LEMMA ChainEmpty ==
  ASSUME NEW fd, NEW v \in 0 .. IntMax
  PROVE  Chained(<<>>, fd, v, v)
<1> DEFINE val == [i \in 0 .. 0 |-> v]
<1>1. Len(<<>>) = 0
  OBVIOUS
<1>2. val \in [0 .. Len(<<>>) -> 0 .. IntMax] /\ val[0] = v /\ val[Len(<<>>)] = v
  BY <1>1
<1> HIDE DEF val
<1>3. QED
  BY <1>1, <1>2 DEF Chained

\* One block more.
LEMMA ChainAppend ==
  ASSUME NEW s \in Seq(BlockType), NEW b \in BlockType, NEW fd, NEW v, NEW w,
         Chained(s, fd, v, w),
         b.fd = fd => w = IdBefore(b)
  PROVE  Chained(Append(s, b), fd, v, IF b.fd = fd THEN IdAfter(b) ELSE w)
<1> DEFINE t == Append(s, b)  x == IF b.fd = fd THEN IdAfter(b) ELSE w
<1>1. PICK val \in [0 .. Len(s) -> 0 .. IntMax] :
        /\ val[0] = v
        /\ val[Len(s)] = w
        /\ \A i \in 1 .. Len(s) :
             IF s[i].fd = fd THEN val[i - 1] = IdBefore(s[i]) /\ val[i] = IdAfter(s[i])
             ELSE val[i] = val[i - 1]
  BY DEF Chained
<1>2. /\ Len(t) = Len(s) + 1 /\ Len(s) \in Nat
      /\ \A i \in 1 .. Len(s) : t[i] = s[i]
      /\ t[Len(s) + 1] = b
  BY AppendProperties, LenProperties
<1>3. IntMax \in Nat
  BY ConnWorkAssumption
<1>4. w \in 0 .. IntMax
  BY <1>1, <1>2
<1>5. x \in 0 .. IntMax
  BY <1>3, <1>4 DEF IdAfter, BlockType
<1>6. IF b.fd = fd THEN w = IdBefore(b) /\ x = IdAfter(b) ELSE x = w
  OBVIOUS
<1> DEFINE new == [i \in 0 .. Len(t) |-> IF i = Len(t) THEN x ELSE val[i]]
<1> HIDE DEF t, x
<1>7. new \in [0 .. Len(t) -> 0 .. IntMax]
  BY <1>2, <1>5
<1>8. new[0] = v /\ new[Len(t)] = x
  BY <1>1, <1>2
<1>9. ASSUME NEW i \in 1 .. Len(t)
      PROVE  IF t[i].fd = fd THEN new[i - 1] = IdBefore(t[i]) /\ new[i] = IdAfter(t[i])
             ELSE new[i] = new[i - 1]
  <2>1. CASE i = Len(t)
    <3>1. i - 1 = Len(s) /\ i - 1 \in 0 .. Len(t) /\ i - 1 # Len(t) /\ t[i] = b
      BY <1>2, <2>1
    <3>2. new[i - 1] = w /\ new[i] = x
      BY <1>1, <2>1, <3>1
    <3> HIDE DEF new
    <3>3. QED
      BY <1>6, <3>1, <3>2
  <2>2. CASE i # Len(t)
    <3>1. i \in 1 .. Len(s) /\ i - 1 # Len(t) /\ i - 1 \in 0 .. Len(t) /\ t[i] = s[i]
      BY <1>2, <2>2
    <3>2. new[i - 1] = val[i - 1] /\ new[i] = val[i]
      BY <2>2, <3>1
    <3> HIDE DEF new
    <3>3. QED
      BY <1>1, <3>1, <3>2
  <2>3. QED
    BY <2>1, <2>2
<1> HIDE DEF new
<1>10. Chained(t, fd, v, x)
  BY <1>7, <1>8, <1>9 DEF Chained
<1>11. QED
  BY <1>10 DEF t, x

\* The first block is handled.
LEMMA ChainTail ==
  ASSUME NEW s \in Seq(BlockType), s # <<>>, NEW fd, NEW v, NEW w, Chained(s, fd, v, w)
  PROVE  LET h == Head(s)
         IN /\ h.fd = fd => v = IdBefore(h)
            /\ Chained(Tail(s), fd, IF h.fd = fd THEN IdAfter(h) ELSE v, w)
<1> DEFINE t == Tail(s)  h == Head(s)  x == IF h.fd = fd THEN IdAfter(h) ELSE v
<1>1. PICK val \in [0 .. Len(s) -> 0 .. IntMax] :
        /\ val[0] = v
        /\ val[Len(s)] = w
        /\ \A i \in 1 .. Len(s) :
             IF s[i].fd = fd THEN val[i - 1] = IdBefore(s[i]) /\ val[i] = IdAfter(s[i])
             ELSE val[i] = val[i - 1]
  BY DEF Chained
<1>2. /\ Len(t) = Len(s) - 1 /\ h = s[1]
      /\ \A i \in 1 .. Len(t) : t[i] = s[i + 1]
      /\ Len(s) \in Nat \ {0}
  BY HeadTailProperties, EmptySeq
<1>3. /\ h.fd = fd => v = IdBefore(h)
      /\ val[1] = x
  <2>1. 1 \in 1 .. Len(s) /\ 1 - 1 = 0
    BY <1>2
  <2>2. IF s[1].fd = fd THEN val[0] = IdBefore(s[1]) /\ val[1] = IdAfter(s[1])
        ELSE val[1] = val[0]
    BY <1>1, <2>1
  <2>3. QED
    BY <1>1, <1>2, <2>2
<1> DEFINE new == [i \in 0 .. Len(t) |-> val[i + 1]]
<1> HIDE DEF t, h, x
<1>4. new \in [0 .. Len(t) -> 0 .. IntMax]
  BY <1>2
<1>5. new[0] = x /\ new[Len(t)] = w
  BY <1>1, <1>2, <1>3
<1>6. ASSUME NEW i \in 1 .. Len(t)
      PROVE  IF t[i].fd = fd THEN new[i - 1] = IdBefore(t[i]) /\ new[i] = IdAfter(t[i])
             ELSE new[i] = new[i - 1]
  <2>1. i + 1 \in 1 .. Len(s) /\ (i + 1) - 1 = i /\ (i - 1) + 1 = i
        /\ i - 1 \in 0 .. Len(t) /\ i \in 0 .. Len(t)
    BY <1>2
  <2>2. new[i - 1] = val[i] /\ new[i] = val[i + 1] /\ t[i] = s[i + 1]
    BY <1>2, <2>1
  <2>3. IF s[i + 1].fd = fd
        THEN val[i] = IdBefore(s[i + 1]) /\ val[i + 1] = IdAfter(s[i + 1])
        ELSE val[i + 1] = val[i]
    BY <1>1, <2>1
  <2> HIDE DEF new
  <2>4. QED
    BY <2>2, <2>3
<1> HIDE DEF new
<1>7. Chained(t, fd, x, w)
  BY <1>4, <1>5, <1>6 DEF Chained
<1>8. QED
  BY <1>3, <1>7 DEF t, h, x

\* What it knows in the end is what the last block about fd says, or what it
\* knew at first if there is none; by induction on the blocks behind that one.
LEMMA ChainEnd ==
  ASSUME NEW s \in Seq(BlockType), NEW fd, NEW v, NEW w, Chained(s, fd, v, w)
  PROVE  LET about == {i \in 1 .. Len(s) : s[i].fd = fd}
         IN w = IF about = {} THEN v
                ELSE IdAfter(s[CHOOSE i \in about : \A j \in about : j <= i])
<1> DEFINE about == {i \in 1 .. Len(s) : s[i].fd = fd}
           first == IF about = {} THEN 0
                    ELSE CHOOSE i \in about : \A j \in about : j <= i
<1>1. PICK val \in [0 .. Len(s) -> 0 .. IntMax] :
        /\ val[0] = v
        /\ val[Len(s)] = w
        /\ \A i \in 1 .. Len(s) :
             IF s[i].fd = fd THEN val[i - 1] = IdBefore(s[i]) /\ val[i] = IdAfter(s[i])
             ELSE val[i] = val[i - 1]
  BY DEF Chained
<1>2. Len(s) \in Nat
  BY LenProperties
<1>3. ASSUME about # {}
      PROVE  \E i \in about : \A j \in about : j <= i
  <2> DEFINE T == {Len(s) - i : i \in about}
  <2>1. T \in SUBSET Nat /\ T # {}
    BY <1>2, <1>3
  <2>2. PICK m \in T : \A n \in T : m <= n
    <3> HIDE DEF T
    <3>1. QED
      BY <2>1, LeastOne
  <2>3. PICK i \in about : m = Len(s) - i
    BY <2>2
  <2>4. ASSUME NEW j \in about PROVE j <= i
    <3>1. Len(s) - i <= Len(s) - j
      BY <2>2, <2>3
    <3>2. QED
      BY <1>2, <3>1
  <2>5. QED
    BY <2>4
<1>4. /\ first \in 0 .. Len(s)
      /\ \A j \in about : j <= first
      /\ about = {} => first = 0
      /\ about # {} => first \in about
  <2>1. CASE about = {}
    BY <1>2, <2>1
  <2>2. CASE about # {}
    <3>1. first \in about /\ \A j \in about : j <= first
      BY <1>3, <2>2
    <3> HIDE DEF first
    <3>2. first \in 0 .. Len(s)
      BY <1>2, <3>1
    <3>3. QED
      BY <2>2, <3>1, <3>2
  <2>3. QED
    BY <2>1, <2>2
<1> HIDE DEF first
<1>5. \A i \in first + 1 .. Len(s) : i \in 1 .. Len(s) /\ s[i].fd # fd
  <2>1. SUFFICES ASSUME NEW i \in first + 1 .. Len(s), s[i].fd = fd PROVE FALSE
    BY <1>2, <1>4
  <2>2. i \in about
    BY <1>2, <1>4, <2>1
  <2>3. i <= first
    BY <1>4, <2>2
  <2>4. QED
    BY <1>4, <2>1, <2>3
<1> DEFINE Bad == {i \in first .. Len(s) : val[i] # val[first]}
<1>6. ASSUME Bad # {} PROVE FALSE
  <2>1. Bad \in SUBSET Nat
    BY <1>2, <1>4
  <2>2. PICK m \in Bad : \A i \in Bad : m <= i
    <3> HIDE DEF Bad
    <3>1. QED
      BY <1>6, <2>1, LeastOne
  <2>3. m \in first + 1 .. Len(s) /\ m - 1 \in first .. Len(s) /\ ~(m <= m - 1)
    BY <1>2, <1>4, <2>2
  <2>4. val[m - 1] = val[first]
    BY <2>2, <2>3
  <2>5. val[m] = val[m - 1]
    BY <1>1, <1>5, <2>3
  <2>6. QED
    BY <2>2, <2>4, <2>5
<1>7. val[Len(s)] = val[first]
  <2>1. Len(s) \in first .. Len(s)
    BY <1>2, <1>4
  <2>2. QED
    BY <1>6, <2>1
<1>8. CASE about = {}
  <2>1. w = v
    BY <1>1, <1>4, <1>7, <1>8
  <2>2. QED
    BY <1>8, <2>1
<1>9. CASE about # {}
  <2>1. first \in 1 .. Len(s) /\ s[first].fd = fd
    BY <1>4, <1>9
  <2>2. val[first] = IdAfter(s[first])
    BY <1>1, <2>1
  <2>3. w = IdAfter(s[first])
    BY <1>1, <1>7, <2>2
  <2>4. first = CHOOSE i \in about : \A j \in about : j <= i
    BY <1>9 DEF first
  <2>5. QED
    BY <1>9, <2>3, <2>4
<1>10. QED
  BY <1>8, <1>9

-----------------------------------------------------------------------------
(***************************************************************************)
(* What the channels carry.                                                *)
(***************************************************************************)

LEMMA ChannelTypes ==
  ASSUME TypeOK
  PROVE  /\ recv_queue \in [Channels -> Seq(BlockType)]
         /\ recv_list \in [Channels -> Seq(BlockType)]
         /\ send_queue \in [Channels -> Seq(BlockType)]
         /\ send_list \in [Channels -> Seq(BlockType)]
         /\ \A c \in Channels : Stream(c) \in Seq(BlockType) /\ Back(c) \in Seq(BlockType)
<1>1. /\ recv_queue \in [Channels -> Seq(BlockType)]
      /\ recv_list \in [Channels -> Seq(BlockType)]
      /\ send_queue \in [Channels -> Seq(BlockType)]
      /\ send_list \in [Channels -> Seq(BlockType)]
  BY DEF TypeOK
<1>2. ASSUME NEW c \in Channels PROVE Stream(c) \in Seq(BlockType) /\ Back(c) \in Seq(BlockType)
  BY <1>1, ConcatProperties DEF Stream, Back
<1>3. QED
  BY <1>1, <1>2

\* A push puts a block behind all that is on its way in its channel.
LEMMA RecvPushed ==
  ASSUME TypeOK, NEW c \in Channels, NEW b \in BlockType, NEW safe \in BOOLEAN,
         RecvPush(c, b, safe)
  PROVE  /\ recv_queue' \in [Channels -> Seq(BlockType)]
         /\ recv_list' \in [Channels -> Seq(BlockType)]
         /\ \A d \in Channels : Len(recv_queue'[d]) <= RingCap
         /\ Stream(c)' = Append(Stream(c), b) \/ (~safe /\ Stream(c)' = Stream(c))
         /\ \A d \in Channels \ {c} : Stream(d)' = Stream(d)
<1> DEFINE p == Pushed(recv_queue[c], recv_list[c], b, safe)
<1>1. /\ recv_queue \in [Channels -> Seq(BlockType)] /\ recv_list \in [Channels -> Seq(BlockType)]
      /\ \A d \in Channels : Len(recv_queue[d]) <= RingCap
  BY ChannelTypes DEF TypeOK
<1>2. /\ p.q \in Seq(BlockType) /\ p.l \in Seq(BlockType) /\ Len(p.q) <= RingCap
      /\ p.q \o p.l = Append(Stream(c), b) \/ (~safe /\ p.q \o p.l = Stream(c))
  BY <1>1, PushedAppends DEF Stream
<1>3. recv_queue' = [recv_queue EXCEPT ![c] = p.q] /\ recv_list' = [recv_list EXCEPT ![c] = p.l]
  BY DEF RecvPush
<1> HIDE DEF p
<1>4. recv_queue'[c] = p.q /\ recv_list'[c] = p.l
  BY <1>1, <1>3
<1>5. \A d \in Channels \ {c} : recv_queue'[d] = recv_queue[d] /\ recv_list'[d] = recv_list[d]
  BY <1>1, <1>3
<1>6. /\ recv_queue' \in [Channels -> Seq(BlockType)]
      /\ recv_list' \in [Channels -> Seq(BlockType)]
  BY <1>1, <1>2, <1>3
<1>7. \A d \in Channels : Len(recv_queue'[d]) <= RingCap
  BY <1>1, <1>2, <1>4, <1>5
<1>8. QED
  BY <1>2, <1>4, <1>5, <1>6, <1>7 DEF Stream

LEMMA SendPushed ==
  ASSUME TypeOK, NEW c \in Channels, NEW b \in BlockType, SendPush(c, b)
  PROVE  /\ send_queue' \in [Channels -> Seq(BlockType)]
         /\ send_list' \in [Channels -> Seq(BlockType)]
         /\ \A d \in Channels : Len(send_queue'[d]) <= RingCap
         /\ Back(c)' = Append(Back(c), b)
         /\ \A d \in Channels \ {c} : Back(d)' = Back(d)
<1> DEFINE p == Pushed(send_queue[c], send_list[c], b, TRUE)
<1>1. /\ send_queue \in [Channels -> Seq(BlockType)] /\ send_list \in [Channels -> Seq(BlockType)]
      /\ \A d \in Channels : Len(send_queue[d]) <= RingCap
  BY ChannelTypes DEF TypeOK
<1>2. /\ p.q \in Seq(BlockType) /\ p.l \in Seq(BlockType) /\ Len(p.q) <= RingCap
      /\ p.q \o p.l = Append(Back(c), b)
  <2>1. ASSUME NEW safe \in BOOLEAN
        PROVE  LET r == Pushed(send_queue[c], send_list[c], b, safe)
               IN /\ r.q \in Seq(BlockType) /\ r.l \in Seq(BlockType) /\ Len(r.q) <= RingCap
                  /\ \/ r.q \o r.l = Append(send_queue[c] \o send_list[c], b)
                     \/ ~safe /\ r.q \o r.l = send_queue[c] \o send_list[c]
    <3>1. /\ send_queue[c] \in Seq(BlockType) /\ send_list[c] \in Seq(BlockType)
          /\ Len(send_queue[c]) <= RingCap
      BY <1>1
    <3>2. QED
      BY <3>1, PushedAppends
  <2>2. TRUE \in BOOLEAN /\ TRUE
    OBVIOUS
  <2>3. QED
    BY <2>1, <2>2 DEF Back
<1>3. send_queue' = [send_queue EXCEPT ![c] = p.q] /\ send_list' = [send_list EXCEPT ![c] = p.l]
  BY DEF SendPush
<1> HIDE DEF p
<1>4. send_queue'[c] = p.q /\ send_list'[c] = p.l
  BY <1>1, <1>3
<1>5. \A d \in Channels \ {c} : send_queue'[d] = send_queue[d] /\ send_list'[d] = send_list[d]
  BY <1>1, <1>3
<1>6. /\ send_queue' \in [Channels -> Seq(BlockType)]
      /\ send_list' \in [Channels -> Seq(BlockType)]
  BY <1>1, <1>2, <1>3
<1>7. \A d \in Channels : Len(send_queue'[d]) <= RingCap
  BY <1>1, <1>2, <1>4, <1>5
<1>8. QED
  BY <1>2, <1>4, <1>5, <1>6, <1>7 DEF Back

\* A pull takes the first one.
LEMMA RecvPulled ==
  ASSUME TypeOK, NEW c \in Channels, recv_queue[c] # <<>>, recv_list' = recv_list,
         recv_queue' = [recv_queue EXCEPT ![c] = Tail(@)]
  PROVE  /\ recv_queue' \in [Channels -> Seq(BlockType)]
         /\ \A d \in Channels : Len(recv_queue'[d]) <= RingCap
         /\ Stream(c) # <<>> /\ Head(recv_queue[c]) = Head(Stream(c))
         /\ Head(Stream(c)) \in BlockType
         /\ Stream(c)' = Tail(Stream(c))
         /\ \A d \in Channels \ {c} : Stream(d)' = Stream(d)
<1>1. /\ recv_queue \in [Channels -> Seq(BlockType)] /\ recv_list \in [Channels -> Seq(BlockType)]
      /\ \A d \in Channels : Len(recv_queue[d]) <= RingCap
  BY ChannelTypes DEF TypeOK
<1>2. /\ Tail(recv_queue[c]) \in Seq(BlockType) /\ Head(recv_queue[c]) \in BlockType
      /\ Len(Tail(recv_queue[c])) = Len(recv_queue[c]) - 1 /\ Len(recv_queue[c]) \in Nat
  BY <1>1, HeadTailProperties, LenProperties
<1>3. /\ Stream(c) # <<>> /\ Head(Stream(c)) = Head(recv_queue[c])
      /\ Tail(Stream(c)) = Tail(recv_queue[c]) \o recv_list[c]
  BY <1>1, HeadOfBoth DEF Stream
<1>4. recv_queue'[c] = Tail(recv_queue[c])
  BY <1>1
<1>5. \A d \in Channels \ {c} : recv_queue'[d] = recv_queue[d]
  BY <1>1
<1>6. recv_queue' \in [Channels -> Seq(BlockType)]
  BY <1>1, <1>2
<1>7. \A d \in Channels : Len(recv_queue'[d]) <= RingCap
  <2>1. RingCap \in Nat
    BY ConnWorkAssumption
  <2>2. Len(recv_queue'[c]) <= RingCap
    BY <1>1, <1>2, <1>4, <2>1
  <2>3. QED
    BY <1>1, <1>5, <2>2
<1>8. QED
  BY <1>2, <1>3, <1>4, <1>5, <1>6, <1>7 DEF Stream

LEMMA SendPulled ==
  ASSUME TypeOK, NEW c \in Channels, PullSend(c), send_list' = send_list
  PROVE  /\ send_queue' \in [Channels -> Seq(BlockType)]
         /\ \A d \in Channels : Len(send_queue'[d]) <= RingCap
         /\ Back(c) # <<>> /\ Head(send_queue[c]) = Head(Back(c))
         /\ Head(Back(c)) \in BlockType
         /\ Back(c)' = Tail(Back(c))
         /\ \A d \in Channels \ {c} : Back(d)' = Back(d)
<1>1. /\ send_queue \in [Channels -> Seq(BlockType)] /\ send_list \in [Channels -> Seq(BlockType)]
      /\ \A d \in Channels : Len(send_queue[d]) <= RingCap
  BY ChannelTypes DEF TypeOK
<1>2. send_queue[c] # <<>> /\ send_queue' = [send_queue EXCEPT ![c] = Tail(@)]
  BY DEF PullSend
<1>3. /\ Tail(send_queue[c]) \in Seq(BlockType) /\ Head(send_queue[c]) \in BlockType
      /\ Len(Tail(send_queue[c])) = Len(send_queue[c]) - 1 /\ Len(send_queue[c]) \in Nat
  BY <1>1, <1>2, HeadTailProperties, LenProperties
<1>4. /\ Back(c) # <<>> /\ Head(Back(c)) = Head(send_queue[c])
      /\ Tail(Back(c)) = Tail(send_queue[c]) \o send_list[c]
  BY <1>1, <1>2, HeadOfBoth DEF Back
<1>5. send_queue'[c] = Tail(send_queue[c])
  BY <1>1, <1>2
<1>6. \A d \in Channels \ {c} : send_queue'[d] = send_queue[d]
  BY <1>1, <1>2
<1>7. send_queue' \in [Channels -> Seq(BlockType)]
  BY <1>1, <1>2, <1>3
<1>8. \A d \in Channels : Len(send_queue'[d]) <= RingCap
  <2>1. RingCap \in Nat
    BY ConnWorkAssumption
  <2>2. Len(send_queue'[c]) <= RingCap
    BY <1>1, <1>3, <1>5, <2>1
  <2>3. QED
    BY <1>1, <1>6, <2>2
<1>9. QED
  BY <1>3, <1>4, <1>5, <1>6, <1>7, <1>8 DEF Back

\* The main loops' pruge moves blocks from the list to the queue, and what is
\* on its way stays as it is.
LEMMA TicksKeep ==
  ASSUME TypeOK
  PROVE  /\ ConnTick => /\ recv_queue' \in [Channels -> Seq(BlockType)]
                        /\ recv_list' \in [Channels -> Seq(BlockType)]
                        /\ \A d \in Channels : /\ Len(recv_queue'[d]) <= RingCap
                                               /\ Stream(d)' = Stream(d)
         /\ \A c \in Channels :
              WorkTick(c) => /\ send_queue' \in [Channels -> Seq(BlockType)]
                             /\ send_list' \in [Channels -> Seq(BlockType)]
                             /\ \A d \in Channels : /\ Len(send_queue'[d]) <= RingCap
                                                    /\ Back(d)' = Back(d)
<1>1. /\ recv_queue \in [Channels -> Seq(BlockType)] /\ recv_list \in [Channels -> Seq(BlockType)]
      /\ send_queue \in [Channels -> Seq(BlockType)] /\ send_list \in [Channels -> Seq(BlockType)]
      /\ \A d \in Channels : Len(recv_queue[d]) <= RingCap /\ Len(send_queue[d]) <= RingCap
  BY ChannelTypes DEF TypeOK
<1>2. ASSUME ConnTick
      PROVE  /\ recv_queue' \in [Channels -> Seq(BlockType)]
             /\ recv_list' \in [Channels -> Seq(BlockType)]
             /\ \A d \in Channels : /\ Len(recv_queue'[d]) <= RingCap
                                    /\ Stream(d)' = Stream(d)
  <2>1. \A d \in Channels :
          /\ recv_queue'[d] = Pruged(recv_queue[d], recv_list[d]).q
          /\ recv_list'[d] = Pruged(recv_queue[d], recv_list[d]).l
    BY <1>2 DEF ConnTick
  <2>2. \A d \in Channels :
          /\ recv_queue'[d] \in Seq(BlockType) /\ recv_list'[d] \in Seq(BlockType)
          /\ Len(recv_queue'[d]) <= RingCap
          /\ recv_queue'[d] \o recv_list'[d] = recv_queue[d] \o recv_list[d]
    <3>1. TAKE d \in Channels
    <3>2. /\ recv_queue[d] \in Seq(BlockType) /\ recv_list[d] \in Seq(BlockType)
          /\ Len(recv_queue[d]) <= RingCap
      BY <1>1
    <3>3. LET p == Pruged(recv_queue[d], recv_list[d])
          IN /\ p.q \in Seq(BlockType) /\ p.l \in Seq(BlockType) /\ Len(p.q) <= RingCap
             /\ p.q \o p.l = recv_queue[d] \o recv_list[d]
      BY <3>2, PrugedKeeps
    <3>4. QED
      BY <2>1, <3>3
  <2>3. /\ recv_queue' = [d \in Channels |-> recv_queue'[d]]
        /\ recv_list' = [d \in Channels |-> recv_list'[d]]
    BY <1>2, <2>1 DEF ConnTick
  <2>4. /\ recv_queue' \in [Channels -> Seq(BlockType)]
        /\ recv_list' \in [Channels -> Seq(BlockType)]
    BY <2>2, <2>3
  <2>5. QED
    BY <2>2, <2>4 DEF Stream
<1>3. ASSUME NEW c \in Channels, WorkTick(c)
      PROVE  /\ send_queue' \in [Channels -> Seq(BlockType)]
             /\ send_list' \in [Channels -> Seq(BlockType)]
             /\ \A d \in Channels : /\ Len(send_queue'[d]) <= RingCap
                                    /\ Back(d)' = Back(d)
  <2> DEFINE p == Pruged(send_queue[c], send_list[c])
  <2>1. /\ p.q \in Seq(BlockType) /\ p.l \in Seq(BlockType) /\ Len(p.q) <= RingCap
        /\ p.q \o p.l = Back(c)
    BY <1>1, PrugedKeeps DEF Back
  <2>2. send_queue' = [send_queue EXCEPT ![c] = p.q] /\ send_list' = [send_list EXCEPT ![c] = p.l]
    BY <1>3 DEF WorkTick
  <2> HIDE DEF p
  <2>3. send_queue'[c] = p.q /\ send_list'[c] = p.l
    BY <1>1, <2>2
  <2>4. \A d \in Channels \ {c} : send_queue'[d] = send_queue[d] /\ send_list'[d] = send_list[d]
    BY <1>1, <2>2
  <2>5. /\ send_queue' \in [Channels -> Seq(BlockType)]
        /\ send_list' \in [Channels -> Seq(BlockType)]
    BY <1>1, <2>1, <2>2
  <2>6. \A d \in Channels : Len(send_queue'[d]) <= RingCap /\ Back(d)' = Back(d)
    BY <1>1, <2>1, <2>3, <2>4 DEF Back
  <2>7. QED
    BY <2>5, <2>6
<1>4. QED
  BY <1>2, <1>3

-----------------------------------------------------------------------------
(***************************************************************************)
(* Every step keeps to the types and to what Addresses says.               *)
(***************************************************************************)

\* The type invariant, process by process.
ConnTypes ==
  /\ handlers \in [Fds -> {NoHandler} \cup HandlerType]
  /\ m_id \in -IntMax - 1 .. IntMax
  /\ serialize_num \in Nat
  /\ note \in {NoNote} \cup NoteType
RecvTypes ==
  /\ recv_queue \in [Channels -> Seq(BlockType)] /\ recv_list \in [Channels -> Seq(BlockType)]
  /\ \A c \in Channels : Len(recv_queue[c]) <= RingCap
SendTypes ==
  /\ send_queue \in [Channels -> Seq(BlockType)] /\ send_list \in [Channels -> Seq(BlockType)]
  /\ \A c \in Channels : Len(send_queue[c]) <= RingCap
WorkTypes ==
  /\ g_link_flags \in [Channels -> [Fds -> 0 .. IntMax]]
  /\ hand \in [Channels -> BlockType \cup {NoBlock}]
  /\ ups \in [Channels -> [Fds -> Int]]
HistoryTypes ==
  /\ accepted \in 0 .. MaxConns
  /\ asked \in Seq(Links)
  /\ delivered \in Seq([req : 1 .. MaxReqs, to : Links])
  /\ changes \subseteq 0 .. MaxReqs
UpsetTypes ==
  /\ closes \in 0 .. MaxCloses
  /\ conn_kills \in 0 .. MaxConnKills
  /\ work_kills \in 0 .. MaxWorkKills

LEMMA TypeParts ==
  TypeOK <=> ConnTypes /\ RecvTypes /\ SendTypes /\ WorkTypes /\ HistoryTypes /\ UpsetTypes
BY DEF TypeOK, ConnTypes, RecvTypes, SendTypes, WorkTypes, HistoryTypes, UpsetTypes

LEMMA Bounds ==
  /\ WorkNum \in Nat /\ WorkNum > 1 /\ RingCap \in Nat /\ IntMax \in Nat /\ IntMax > 0
  /\ MaxConns \in Nat /\ MaxReqs \in Nat /\ MaxCloses \in Nat
  /\ MaxConnKills \in Nat /\ MaxWorkKills \in Nat
BY ConnWorkAssumption

\* The worker the next request goes to is one of the channels.
LEMMA SelectsChannel ==
  ASSUME serialize_num \in Nat
  PROVE  SelectChannel \in Channels
<1>1. \A a \in Nat, b \in Nat \ {0} : a % b \in 0 .. b - 1
  BY SMT
<1>2. WorkNum - 1 \in Nat \ {0} /\ WorkNum \in Nat
  BY Bounds
<1> DEFINE n == WorkNum - 1
<1>3. serialize_num % n \in 0 .. n - 1
  <2> HIDE DEF n
  <2>1. n \in Nat \ {0}
    BY <1>2 DEF n
  <2>2. QED
    BY <1>1, <2>1
<1>4. 0 .. n - 1 \subseteq Channels
  BY <1>2 DEF Channels
<1>5. QED
  BY <1>3, <1>4 DEF SelectChannel

\* A loop over the channels starts with a block that carries no request.
LEMMA Notifies ==
  ASSUME NEW type \in {"LOGIN", "CLOSE"}, NEW fd \in Fds, NEW id \in 1 .. IntMax,
         NEW then \in {"open", "fini", "drain"}, Notify(type, fd, id, then),
         handlers'[fd] # NoHandler
  PROVE  /\ note' \in NoteType /\ note' # NoNote /\ note'.next = 0 /\ note'.then = then
         /\ note'.block.type = type /\ note'.block.fd = fd /\ note'.block.id = id
         /\ NoteSound'
<1>1. note' = [block |-> Block(type, fd, id, NoReq), next |-> 0, then |-> then]
  BY DEF Notify
<1>2. Block(type, fd, id, NoReq) \in BlockType
  BY Bounds DEF Block, BlockType, Types, NoReq
<1>3. 0 \in Channels
  BY Bounds DEF Channels
<1>4. note' \in NoteType
  BY <1>1, <1>2, <1>3 DEF NoteType
<1>5. note' # NoNote
  BY <1>4, NothingAssumption
<1>6. note'.next = 0 /\ note'.then = then /\ note'.block = Block(type, fd, id, NoReq)
  BY <1>1
<1>7. QED
  BY <1>4, <1>5, <1>6 DEF NoteSound, Block

\* CONN's handler of a descriptor, if there is one.
LEMMA HandlerAt ==
  ASSUME TypeOK, NEW fd \in Fds, handlers[fd] # NoHandler
  PROVE  /\ handlers[fd] \in HandlerType
         /\ handlers[fd].id \in 1 .. IntMax /\ handlers[fd].link \in Links
         /\ handlers[fd].sending \in BOOLEAN /\ handlers[fd].m_is_closed \in BOOLEAN
<1>1. handlers[fd] \in HandlerType
  BY DEF TypeOK
<1>2. QED
  BY <1>1 DEF HandlerType

\* handle_error makes no handler; it removes one or starts to tell the workers.
LEMMA ErrorHandled ==
  ASSUME TypeOK, Ready, NEW fd \in Fds, handlers[fd] # NoHandler, HandleError(fd)
  PROVE  /\ handlers' \in [Fds -> {NoHandler} \cup HandlerType]
         /\ note' \in {NoNote} \cup NoteType
         /\ NoteSound'
         /\ \A f \in Fds : handlers'[f] # NoHandler => handlers'[f] = handlers[f]
<1>1. handlers \in [Fds -> {NoHandler} \cup HandlerType] /\ note = NoNote
  BY DEF TypeOK, Ready
<1>2. CASE handlers[fd].m_is_closed
  <2>1. handlers' = [handlers EXCEPT ![fd] = NoHandler] /\ note' = note
    BY <1>2 DEF HandleError
  <2>2. QED
    BY <1>1, <2>1 DEF NoteSound
<1>3. CASE ~handlers[fd].m_is_closed
  <2>1. Notify("CLOSE", fd, handlers[fd].id, "fini") /\ handlers' = handlers
    BY <1>3 DEF HandleError
  <2>2. handlers[fd].id \in 1 .. IntMax
    BY HandlerAt
  <2>3. note' \in NoteType /\ NoteSound'
    BY <2>1, <2>2, Notifies
  <2>4. QED
    BY <1>1, <2>1, <2>3
<1>4. QED
  BY <1>2, <1>3

\* The parts together.
LEMMA BaseParts ==
  /\ BaseInv => /\ ConnTypes /\ RecvTypes /\ SendTypes /\ WorkTypes /\ HistoryTypes
                /\ UpsetTypes /\ Addresses
  /\ /\ ConnTypes' /\ RecvTypes' /\ SendTypes' /\ WorkTypes' /\ HistoryTypes' /\ UpsetTypes'
     /\ Len(asked') <= MaxReqs
     /\ CarriedSound' /\ NoteSound' /\ AnswersSound' /\ IdsCount'
     => BaseInv'
<1>1. BaseInv => /\ ConnTypes /\ RecvTypes /\ SendTypes /\ WorkTypes /\ HistoryTypes
                 /\ UpsetTypes /\ Addresses
  BY TypeParts DEF BaseInv
<1>2. /\ ConnTypes' /\ RecvTypes' /\ SendTypes' /\ WorkTypes' /\ HistoryTypes' /\ UpsetTypes'
      => TypeOK'
  BY DEF TypeOK, ConnTypes, RecvTypes, SendTypes, WorkTypes, HistoryTypes, UpsetTypes
<1>3. /\ Len(asked') <= MaxReqs /\ CarriedSound' /\ NoteSound' /\ AnswersSound' /\ IdsCount'
      => Addresses'
  BY DEF Addresses
<1>4. QED
  BY <1>1, <1>2, <1>3 DEF BaseInv

\* What the other side does leaves these parts alone.
LEMMA FrameKeeps ==
  ASSUME BaseInv
  PROVE  /\ UNCHANGED conn => ConnTypes' /\ NoteSound'
         /\ UNCHANGED recvs => RecvTypes' /\ \A c \in Channels : Stream(c)' = Stream(c)
         /\ UNCHANGED sends => SendTypes' /\ \A c \in Channels : Back(c)' = Back(c)
         /\ UNCHANGED worker => WorkTypes'
         /\ UNCHANGED upsets => UpsetTypes'
         /\ UNCHANGED history => HistoryTypes' /\ Len(asked') <= MaxReqs
         /\ UNCHANGED <<asked, delivered, conn_kills>> => AnswersSound'
         /\ UNCHANGED <<handlers, m_id, accepted, conn_kills>> => IdsCount'
         /\ UNCHANGED <<recvs, sends, worker, asked, conn_kills>> => CarriedSound'
<1>1. /\ ConnTypes /\ RecvTypes /\ SendTypes /\ WorkTypes /\ HistoryTypes /\ UpsetTypes
      /\ Addresses
  BY BaseParts
<1>2. UNCHANGED conn => ConnTypes' /\ NoteSound'
  BY <1>1 DEF conn, ConnTypes, NoteSound, Addresses
<1>3. UNCHANGED recvs => RecvTypes' /\ \A c \in Channels : Stream(c)' = Stream(c)
  BY <1>1 DEF recvs, RecvTypes, Stream
<1>4. UNCHANGED sends => SendTypes' /\ \A c \in Channels : Back(c)' = Back(c)
  BY <1>1 DEF sends, SendTypes, Back
<1>5. UNCHANGED worker => WorkTypes'
  BY <1>1 DEF worker, WorkTypes
<1>6. UNCHANGED upsets => UpsetTypes'
  BY <1>1 DEF upsets, UpsetTypes
<1>7. UNCHANGED history => HistoryTypes' /\ Len(asked') <= MaxReqs
  BY <1>1 DEF history, HistoryTypes, Addresses
<1>8. UNCHANGED <<asked, delivered, conn_kills>> => AnswersSound'
  BY <1>1 DEF Addresses, AnswersSound, RepliesToAsker
<1>9. UNCHANGED <<handlers, m_id, accepted, conn_kills>> => IdsCount'
  BY <1>1 DEF Addresses, IdsCount
<1>10. ASSUME UNCHANGED <<recvs, sends, worker, asked, conn_kills>> PROVE CarriedSound'
  <2>1. CarriedSound
    BY <1>1 DEF Addresses
  <2>2. /\ hand' = hand /\ asked' = asked /\ conn_kills' = conn_kills
        /\ \A c \in Channels : Stream(c)' = Stream(c) /\ Back(c)' = Back(c)
    BY <1>3, <1>4, <1>10 DEF worker
  <2>3. QED
    BY <2>1, <2>2 DEF CarriedSound
<1>11. QED
  BY <1>2, <1>3, <1>4, <1>5, <1>6, <1>7, <1>8, <1>9, <1>10

\* A connection is accepted: its id and its number are the next ones.
LEMMA AcceptBase ==
  ASSUME BaseInv, NEW fd \in Fds, Accept(fd) \/ AcceptFails(fd)
  PROVE  BaseInv'
<1>1. /\ ConnTypes /\ HistoryTypes /\ Addresses
  BY BaseParts
<1>2. /\ UNCHANGED <<serialize_num, recvs, sends, worker, asked, delivered, changes,
                     upsets>>
      /\ UNCHANGED conn_kills
      /\ m_id' = NextId /\ accepted' = accepted + 1 /\ accepted < MaxConns
  BY DEF Accept, AcceptFails, upsets
<1>3. /\ RecvTypes' /\ SendTypes' /\ WorkTypes' /\ UpsetTypes' /\ CarriedSound' /\ AnswersSound'
  BY <1>2, FrameKeeps
<1>4. HistoryTypes' /\ Len(asked') <= MaxReqs
  <2>1. accepted' \in 0 .. MaxConns
    BY <1>1, <1>2, Bounds DEF HistoryTypes
  <2>2. asked' = asked /\ delivered' = delivered /\ changes' = changes
    BY <1>2
  <2>3. HistoryTypes'
    <3>1. /\ asked \in Seq(Links) /\ changes \subseteq 0 .. MaxReqs
          /\ delivered \in Seq([req : 1 .. MaxReqs, to : Links])
      BY <1>1 DEF HistoryTypes
    <3>2. /\ asked' \in Seq(Links) /\ changes' \subseteq 0 .. MaxReqs
          /\ delivered' \in Seq([req : 1 .. MaxReqs, to : Links])
      BY <2>2, <3>1
    <3>3. QED
      BY <2>1, <3>2 DEF HistoryTypes
  <2>4. Len(asked) <= MaxReqs
    BY <1>1 DEF Addresses
  <2>5. Len(asked') <= MaxReqs
    BY <2>2, <2>4
  <2>6. QED
    BY <2>3, <2>5
<1>5. /\ m_id' \in -IntMax - 1 .. IntMax
      /\ LinkId(NextId) \in 1 .. IntMax
      /\ IdsLast /\ conn_kills = 0 => m_id' = accepted + 1 /\ LinkId(NextId) = accepted + 1
  <2>1. /\ accepted \in 0 .. MaxConns /\ m_id \in -IntMax - 1 .. IntMax
        /\ IdsLast /\ conn_kills = 0 => m_id = accepted
    BY <1>1 DEF ConnTypes, HistoryTypes, Addresses, IdsCount
  <2>2. IntMax \in Nat \ {0} /\ MaxConns \in Nat
    BY Bounds
  <2>3. /\ NextId \in -IntMax - 1 .. IntMax
        /\ LinkId(NextId) \in 1 .. IntMax
    BY <2>1, <2>2 DEF NextId, LinkId
  <2>4. ASSUME IdsLast, conn_kills = 0
        PROVE  NextId = accepted + 1 /\ LinkId(NextId) = accepted + 1
    BY <1>2, <2>1, <2>2, <2>4 DEF IdsLast, NextId, LinkId
  <2>5. QED
    BY <1>2, <2>3, <2>4
<1>6. accepted + 1 \in Links
  BY <1>1, <1>2, Bounds DEF HistoryTypes, Links
<1>7. CASE Accept(fd)
  <2> DEFINE h == [id |-> LinkId(NextId), link |-> accepted + 1,
                   sending |-> FALSE, m_is_closed |-> FALSE]
  <2>1. handlers' = [handlers EXCEPT ![fd] = h] /\ Notify("LOGIN", fd, LinkId(NextId), "open")
    BY <1>7 DEF Accept
  <2>2. h \in HandlerType /\ h.id = LinkId(NextId) /\ h.link = accepted + 1
    BY <1>5, <1>6 DEF HandlerType
  <2> HIDE DEF h
  <2>3. note' \in NoteType /\ NoteSound'
    <3>1. handlers'[fd] = h /\ h # NoHandler
      BY <1>1, <2>1, <2>2, NothingAssumption DEF ConnTypes
    <3>2. QED
      BY <1>5, <2>1, <3>1, Notifies
  <2>4. ConnTypes'
    BY <1>1, <1>2, <1>5, <2>1, <2>2, <2>3 DEF ConnTypes
  <2>5. IdsCount'
    BY <1>1, <1>2, <1>5, <2>1, <2>2 DEF ConnTypes, Addresses, IdsCount
  <2>6. QED
    BY <1>3, <1>4, <2>3, <2>4, <2>5, BaseParts
<1>8. CASE AcceptFails(fd)
  <2>1. handlers' = handlers /\ note' = note
    BY <1>8 DEF AcceptFails
  <2>2. ConnTypes' /\ NoteSound'
    BY <1>1, <1>2, <1>5, <2>1 DEF ConnTypes, Addresses, NoteSound
  <2>3. IdsCount'
    BY <1>1, <1>2, <1>5, <2>1 DEF ConnTypes, Addresses, IdsCount
  <2>4. QED
    BY <1>3, <1>4, <2>2, <2>3, BaseParts
<1>9. QED
  BY <1>7, <1>8

\* Handlers that stay or go keep the ids as they are.
LEMMA IdsKept ==
  ASSUME BaseInv, UNCHANGED <<m_id, accepted, conn_kills>>,
         \A f \in Fds : handlers'[f] # NoHandler =>
           /\ handlers[f] # NoHandler
           /\ handlers'[f].id = handlers[f].id /\ handlers'[f].link = handlers[f].link
  PROVE  IdsCount'
BY DEF BaseInv, Addresses, IdsCount

\* A turn of the loop over the channels puts a notification behind the rest.
LEMMA NotifyNextBase ==
  ASSUME BaseInv, NotifyNext
  PROVE  BaseInv'
<1>1. /\ ConnTypes /\ RecvTypes /\ HistoryTypes /\ UpsetTypes /\ Addresses /\ TypeOK
  BY BaseParts DEF BaseInv
<1>2. /\ UNCHANGED <<m_id, serialize_num, sends, worker, history, upsets>>
      /\ UNCHANGED <<asked, delivered, conn_kills, accepted, hand>>
      /\ note # NoNote /\ RecvPush(note.next, note.block, TRUE)
  BY DEF NotifyNext, NotifyOne, Ready, history, upsets, worker
<1>3. note \in NoteType /\ note.block \in BlockType /\ note.block.fd \in Fds
      /\ note.next \in Channels /\ note.then \in {"open", "fini", "drain"}
      /\ note.block.type # "PROTO" /\ note.block.req = NoReq
      /\ handlers[note.block.fd] # NoHandler
  BY <1>1, <1>2 DEF ConnTypes, NoteType, BlockType, Addresses, NoteSound
<1>4. /\ SendTypes' /\ WorkTypes' /\ UpsetTypes' /\ HistoryTypes' /\ Len(asked') <= MaxReqs
      /\ AnswersSound' /\ \A c \in Channels : Back(c)' = Back(c)
  BY <1>2, FrameKeeps
<1>5. /\ recv_queue' \in [Channels -> Seq(BlockType)]
      /\ recv_list' \in [Channels -> Seq(BlockType)]
      /\ \A d \in Channels : Len(recv_queue'[d]) <= RingCap
      /\ \A d \in Channels : \/ Stream(d)' = Append(Stream(d), note.block)
                             \/ Stream(d)' = Stream(d)
  <2> DEFINE c == note.next  b == note.block
  <2>1. c \in Channels /\ b \in BlockType /\ RecvPush(c, b, TRUE)
    BY <1>2, <1>3
  <2> HIDE DEF c, b
  <2>2. QED
    BY <1>1, <2>1, RecvPushed DEF b
<1>6. RecvTypes'
  BY <1>5 DEF RecvTypes
<1>7. CarriedSound'
  <2>1. Sound(note.block, asked, conn_kills)
    BY <1>3 DEF Sound
  <2>2. ASSUME NEW d \in Channels PROVE AllSound(Stream(d)', asked, conn_kills)
    <3>1. AllSound(Stream(d), asked, conn_kills) /\ Stream(d) \in Seq(BlockType)
      BY <1>1, ChannelTypes DEF Addresses, CarriedSound
    <3>2. AllSound(Append(Stream(d), note.block), asked, conn_kills)
      BY <1>3, <2>1, <3>1, AppendReqs
    <3>3. QED
      BY <1>5, <3>1, <3>2
  <2>3. QED
    BY <1>1, <1>2, <1>4, <2>2 DEF CarriedSound, Addresses
<1>8. CASE note.next + 1 < WorkNum
  <2>1. note' = [note EXCEPT !.next = @ + 1] /\ handlers' = handlers
    BY <1>8 DEF NotifyNext
  <2>2. note.next + 1 \in Channels
    BY <1>3, <1>8, Bounds DEF Channels
  <2>3. note' \in NoteType /\ note'.block = note.block
    BY <1>3, <2>1, <2>2 DEF NoteType
  <2>4. ConnTypes' /\ NoteSound'
    BY <1>1, <1>2, <1>3, <2>1, <2>3 DEF ConnTypes, NoteSound
  <2>5. IdsCount'
    BY <1>2, <2>1, FrameKeeps
  <2>6. QED
    BY <1>4, <1>6, <1>7, <2>4, <2>5, BaseParts
<1>9. CASE ~(note.next + 1 < WorkNum)
  <2>1. note' = NoNote /\ NoteSound'
    BY <1>9 DEF NotifyNext, NoteSound
  <2>2. \/ handlers' = handlers
        \/ handlers' = [handlers EXCEPT ![note.block.fd] = NoHandler]
        \/ handlers' = [handlers EXCEPT ![note.block.fd].m_is_closed = TRUE]
    BY <1>3, <1>9 DEF NotifyNext
  <2>3. handlers[note.block.fd] \in HandlerType
    BY <1>1, <1>2, <1>3 DEF ConnTypes, Addresses, NoteSound
  <2>4. \A f \in Fds :
          \/ handlers'[f] = handlers[f]
          \/ handlers'[f] = NoHandler
          \/ f = note.block.fd /\ handlers'[f] = [handlers[f] EXCEPT !.m_is_closed = TRUE]
    BY <1>1, <1>3, <2>2 DEF ConnTypes
  <2>5. [handlers[note.block.fd] EXCEPT !.m_is_closed = TRUE] \in HandlerType
    BY <2>3 DEF HandlerType
  <2>6. handlers' \in [Fds -> {NoHandler} \cup HandlerType]
    BY <1>1, <1>3, <2>2, <2>5 DEF ConnTypes
  <2>7. ConnTypes'
    BY <1>1, <1>2, <2>1, <2>6 DEF ConnTypes
  <2>8. IdsCount'
    <3>1. ASSUME NEW f \in Fds, handlers'[f] # NoHandler
          PROVE  /\ handlers[f] # NoHandler
                 /\ handlers'[f].id = handlers[f].id /\ handlers'[f].link = handlers[f].link
      <4>1. CASE handlers'[f] = handlers[f]
        BY <3>1, <4>1
      <4>2. CASE f = note.block.fd /\ handlers'[f] = [handlers[f] EXCEPT !.m_is_closed = TRUE]
        <5>1. handlers[f] # NoHandler /\ handlers[f] \in HandlerType
          BY <2>3, <4>2, NothingAssumption
        <5>2. QED
          BY <4>2, <5>1 DEF HandlerType
      <4>3. QED
        BY <2>4, <3>1, <4>1, <4>2
    <3>2. QED
      BY <1>2, <3>1, IdsKept
  <2>9. QED
    BY <1>4, <1>6, <1>7, <2>1, <2>7, <2>8, BaseParts
<1>10. QED
  BY <1>8, <1>9

\* A request that is read is asked by the connection whose id it carries.
LEMMA RequestBase ==
  ASSUME BaseInv, NEW fd \in Fds, Request(fd)
  PROVE  BaseInv'
<1>1. /\ ConnTypes /\ HistoryTypes /\ Addresses /\ TypeOK
  BY BaseParts DEF BaseInv
<1> DEFINE b == Block("PROTO", fd, handlers[fd].id, Len(asked) + 1)
           c == SelectChannel
<1>2. /\ handlers[fd] # NoHandler /\ Len(asked) < MaxReqs
      /\ asked' = Append(asked, handlers[fd].link)
      /\ serialize_num' = serialize_num + 1
      /\ RecvPush(c, b, FALSE)
      /\ UNCHANGED <<handlers, m_id, note, sends, worker, accepted, delivered, changes, upsets>>
      /\ UNCHANGED <<hand, conn_kills>>
  BY DEF Request, upsets, worker
<1>3. /\ handlers[fd].id \in 1 .. IntMax /\ handlers[fd].link \in Links
  BY <1>1, <1>2, HandlerAt
<1>4. /\ Len(asked) \in Nat /\ asked' \in Seq(Links) /\ Len(asked') = Len(asked) + 1
      /\ asked'[Len(asked) + 1] = handlers[fd].link
      /\ \A i \in 1 .. Len(asked) : asked'[i] = asked[i]
  BY <1>1, <1>2, <1>3, AppendProperties, LenProperties DEF HistoryTypes
<1>5. /\ b \in BlockType /\ b.type = "PROTO" /\ b.req = Len(asked) + 1
      /\ b.id = handlers[fd].id
  BY <1>2, <1>3, <1>4, Bounds DEF Block, BlockType, Types
<1>6. c \in Channels
  BY <1>1, SelectsChannel DEF ConnTypes
<1>7. Sound(b, asked', conn_kills)
  <2>1. b.req \in 1 .. Len(asked')
    BY <1>4, <1>5
  <2>2. IdsLast /\ conn_kills = 0 => b.id = asked'[b.req]
    BY <1>1, <1>2, <1>4, <1>5 DEF Addresses, IdsCount
  <2> HIDE DEF b
  <2>3. QED
    BY <1>5, <2>1, <2>2 DEF Sound
<1> HIDE DEF b, c
<1>8. /\ recv_queue' \in [Channels -> Seq(BlockType)]
      /\ recv_list' \in [Channels -> Seq(BlockType)]
      /\ \A d \in Channels : Len(recv_queue'[d]) <= RingCap
      /\ \A d \in Channels : Stream(d)' = Append(Stream(d), b) \/ Stream(d)' = Stream(d)
  BY <1>1, <1>2, <1>5, <1>6, RecvPushed
<1>9. /\ SendTypes' /\ WorkTypes' /\ UpsetTypes' /\ IdsCount'
      /\ \A d \in Channels : Back(d)' = Back(d)
  BY <1>2, FrameKeeps
<1>10. RecvTypes' /\ ConnTypes' /\ HistoryTypes' /\ NoteSound' /\ Len(asked') <= MaxReqs
  BY <1>1, <1>2, <1>4, <1>8, Bounds
     DEF RecvTypes, ConnTypes, HistoryTypes, NoteSound, Addresses
<1>11. CarriedSound'
  <2>1. asked \in Seq(Links) /\ conn_kills \in Nat
    BY <1>1 DEF TypeOK
  <2>2. /\ \A s : AllSound(s, asked, conn_kills) => AllSound(s, asked', conn_kills)
        /\ \A x : Sound(x, asked, conn_kills) => Sound(x, asked', conn_kills)
    BY <1>2, <1>3, <2>1, SoundStays
  <2>3. ASSUME NEW d \in Channels
        PROVE  /\ AllSound(Stream(d)', asked', conn_kills)
               /\ AllSound(Back(d), asked', conn_kills)
    <3>1. /\ AllSound(Stream(d), asked, conn_kills) /\ AllSound(Back(d), asked, conn_kills)
          /\ Stream(d) \in Seq(BlockType) /\ Back(d) \in Seq(BlockType)
      BY <1>1, ChannelTypes DEF Addresses, CarriedSound
    <3>2. AllSound(Stream(d), asked', conn_kills) /\ AllSound(Back(d), asked', conn_kills)
      BY <2>2, <3>1
    <3>3. AllSound(Append(Stream(d), b), asked', conn_kills)
      BY <1>5, <1>7, <3>1, <3>2, AppendReqs
    <3>4. QED
      BY <1>8, <3>2, <3>3
  <2>4. \A d \in Channels : hand[d] # NoBlock => Sound(hand[d], asked', conn_kills)
    BY <1>1, <2>2 DEF Addresses, CarriedSound
  <2>5. QED
    BY <1>2, <1>9, <2>3, <2>4 DEF CarriedSound
<1>12. AnswersSound'
  <2>1. /\ \A i \in 1 .. Len(delivered) : delivered[i].req \in 1 .. Len(asked)
        /\ IdsLast /\ conn_kills = 0 => RepliesToAsker
    BY <1>1 DEF Addresses, AnswersSound
  <2>2. \A i \in 1 .. Len(asked) : i \in 1 .. Len(asked')
    BY <1>4
  <2>3. IdsLast /\ conn_kills = 0 => RepliesToAsker'
    BY <1>2, <1>4, <2>1 DEF RepliesToAsker
  <2>4. QED
    BY <1>2, <2>1, <2>2, <2>3 DEF AnswersSound
<1>13. QED
  BY <1>9, <1>10, <1>11, <1>12, BaseParts

\* A connection ends, or all was sent on it.
LEMMA GoneBase ==
  ASSUME BaseInv, NEW fd \in Fds, ClientGone(fd) \/ Flush(fd)
  PROVE  BaseInv'
<1>1. ConnTypes /\ Addresses /\ TypeOK
  BY BaseParts DEF BaseInv
<1>2. /\ UNCHANGED <<m_id, serialize_num, recvs, sends, worker, history, upsets>>
      /\ UNCHANGED <<accepted, asked, delivered, conn_kills>>
      /\ Ready /\ handlers[fd] # NoHandler
  BY DEF ClientGone, Flush, history, upsets
<1>3. /\ RecvTypes' /\ SendTypes' /\ WorkTypes' /\ HistoryTypes' /\ UpsetTypes'
      /\ Len(asked') <= MaxReqs /\ CarriedSound' /\ AnswersSound'
  BY <1>2, FrameKeeps
<1>4. CASE HandleError(fd)
  <2>1. /\ handlers' \in [Fds -> {NoHandler} \cup HandlerType]
        /\ note' \in {NoNote} \cup NoteType
        /\ NoteSound'
        /\ \A f \in Fds : handlers'[f] # NoHandler => handlers'[f] = handlers[f]
    BY <1>1, <1>2, <1>4, ErrorHandled
  <2>2. ConnTypes'
    BY <1>1, <1>2, <2>1 DEF ConnTypes
  <2>3. IdsCount'
    BY <1>2, <2>1, IdsKept
  <2>4. QED
    BY <1>3, <2>1, <2>2, <2>3, BaseParts
<1>5. CASE ~HandleError(fd)
  <2>1. handlers' = [handlers EXCEPT ![fd].sending = FALSE] /\ note' = note /\ note = NoNote
    BY <1>2, <1>5 DEF ClientGone, Flush, Ready
  <2>2. handlers[fd] \in HandlerType
    BY <1>1, <1>2, HandlerAt
  <2> DEFINE h == [handlers[fd] EXCEPT !.sending = FALSE]
  <2>3. h \in HandlerType /\ h.id = handlers[fd].id /\ h.link = handlers[fd].link
    BY <2>2 DEF HandlerType
  <2>4. handlers' = [handlers EXCEPT ![fd] = h]
    BY <2>1
  <2> HIDE DEF h
  <2>5. ConnTypes' /\ NoteSound'
    BY <1>1, <1>2, <2>1, <2>3, <2>4 DEF ConnTypes, NoteSound
  <2>6. IdsCount'
    <3>1. \A f \in Fds : handlers'[f] # NoHandler =>
            /\ handlers[f] # NoHandler
            /\ handlers'[f].id = handlers[f].id /\ handlers'[f].link = handlers[f].link
      BY <1>1, <1>2, <2>3, <2>4 DEF ConnTypes
    <3>2. QED
      BY <1>2, <3>1, IdsKept
  <2>7. QED
    BY <1>3, <2>5, <2>6, BaseParts
<1>6. QED
  BY <1>4, <1>5

\* Taking the first block away from a worker's queue leaves sound blocks.
LEMMA PullSound ==
  ASSUME BaseInv, NEW c \in Channels, PullSend(c), UNCHANGED <<recvs, send_list, worker>>,
         UNCHANGED <<asked, conn_kills>>
  PROVE  /\ SendTypes' /\ CarriedSound'
         /\ Head(send_queue[c]) \in BlockType /\ Sound(Head(send_queue[c]), asked, conn_kills)
<1>1. TypeOK /\ Addresses
  BY DEF BaseInv
<1>2. /\ send_queue' \in [Channels -> Seq(BlockType)]
      /\ \A d \in Channels : Len(send_queue'[d]) <= RingCap
      /\ Back(c) # <<>> /\ Head(send_queue[c]) = Head(Back(c))
      /\ Head(Back(c)) \in BlockType
      /\ Back(c)' = Tail(Back(c))
      /\ \A d \in Channels \ {c} : Back(d)' = Back(d)
  BY <1>1, SendPulled
<1>3. Back(c) \in Seq(BlockType) /\ AllSound(Back(c), asked, conn_kills)
  BY <1>1, ChannelTypes DEF Addresses, CarriedSound
<1>4. /\ AllSound(Tail(Back(c)), asked, conn_kills)
      /\ Sound(Head(Back(c)), asked, conn_kills)
  BY <1>2, <1>3, TailReqs
<1>5. \A d \in Channels : Stream(d)' = Stream(d)
  BY DEF recvs, Stream
<1>6. \A d \in Channels : AllSound(Back(d)', asked, conn_kills)
  BY <1>1, <1>2, <1>4 DEF Addresses, CarriedSound
<1>7. CarriedSound'
  BY <1>1, <1>5, <1>6 DEF Addresses, CarriedSound, worker
<1>8. SendTypes'
  BY <1>1, <1>2 DEF SendTypes, TypeOK
<1>9. QED
  BY <1>2, <1>4, <1>7, <1>8

\* CONN takes a block from a worker: a reply whose id is that of the
\* connection on the descriptor is a reply to that connection.
LEMMA SendEventBase ==
  ASSUME BaseInv, NEW c \in Channels, SendEvent(c)
  PROVE  BaseInv'
<1> DEFINE b == Head(send_queue[c])
<1>1. ConnTypes /\ HistoryTypes /\ Addresses /\ TypeOK
  BY BaseParts DEF BaseInv
<1>2. /\ PullSend(c) /\ Ready
      /\ UNCHANGED <<m_id, serialize_num, recvs, send_list, worker, accepted, asked, changes,
                     upsets>>
      /\ UNCHANGED conn_kills
  BY DEF SendEvent, Discard, Deliver, DeliverFails, Shut, PullSend, history, upsets, conn
<1>3. SendTypes' /\ CarriedSound' /\ b \in BlockType /\ Sound(b, asked, conn_kills)
  BY <1>2, PullSound
<1>4. RecvTypes' /\ WorkTypes' /\ UpsetTypes'
  BY <1>2, FrameKeeps
<1>5. b.fd \in Fds /\ b.id \in 1 .. IntMax
  BY <1>3 DEF BlockType
<1>6. CASE UNCHANGED history
  <2>1. HistoryTypes' /\ Len(asked') <= MaxReqs /\ AnswersSound'
    BY <1>2, <1>6, FrameKeeps DEF history
  <2>2. CASE Discard(c)
    <3>1. UNCHANGED conn
      BY <2>2 DEF Discard
    <3>2. ConnTypes' /\ NoteSound' /\ IdsCount'
      BY <1>2, <3>1, FrameKeeps DEF conn
    <3>3. QED
      BY <1>3, <1>4, <2>1, <3>2, BaseParts
  <2>3. CASE DeliverFails(c)
    <3>1. HandleError(b.fd) /\ handlers[b.fd] # NoHandler
      BY <2>3 DEF DeliverFails, Addressed
    <3> HIDE DEF b
    <3>2. /\ handlers' \in [Fds -> {NoHandler} \cup HandlerType]
          /\ note' \in {NoNote} \cup NoteType
          /\ NoteSound'
          /\ \A f \in Fds : handlers'[f] # NoHandler => handlers'[f] = handlers[f]
      BY <1>1, <1>2, <1>5, <3>1, ErrorHandled
    <3>3. ConnTypes' /\ IdsCount'
      BY <1>1, <1>2, <3>2, IdsKept DEF ConnTypes
    <3>4. QED
      BY <1>3, <1>4, <2>1, <3>2, <3>3, BaseParts
  <2>4. CASE Shut(c)
    <3> DEFINE then == IF handlers[b.fd].sending THEN "drain" ELSE "fini"
    <3>1. Notify("CLOSE", b.fd, b.id, then) /\ handlers' = handlers /\ handlers[b.fd] # NoHandler
      BY <2>4 DEF Shut, Addressed
    <3>2. then \in {"open", "fini", "drain"}
      OBVIOUS
    <3> HIDE DEF b, then
    <3>3. note' \in NoteType /\ NoteSound'
      BY <1>5, <3>1, <3>2, Notifies
    <3>4. ConnTypes'
      BY <1>1, <1>2, <3>1, <3>3 DEF ConnTypes
    <3>5. IdsCount'
      BY <1>2, <3>1, FrameKeeps
    <3>6. QED
      BY <1>3, <1>4, <2>1, <3>3, <3>4, <3>5, BaseParts
  <2>5. CASE Deliver(c)
    <3>1. delivered' = delivered
      BY <1>6 DEF history
    <3>2. delivered' = Append(delivered, [req |-> b.req, to |-> handlers[b.fd].link])
      BY <2>5 DEF Deliver
    <3>3. QED
      BY <1>1, <3>1, <3>2, AppendProperties, LenProperties DEF HistoryTypes
  <2>6. QED
    BY <2>2, <2>3, <2>4, <2>5 DEF SendEvent
<1>7. CASE Deliver(c)
  <2> DEFINE answer == [req |-> b.req, to |-> handlers[b.fd].link]
  <2>1. /\ Addressed(b) /\ b.type = "PROTO" /\ note' = note
        /\ delivered' = Append(delivered, answer)
    BY <1>7 DEF Deliver
  <2>2. PICK sending \in {TRUE, handlers[b.fd].sending} :
          handlers' = [handlers EXCEPT ![b.fd].sending = sending]
    BY <1>7 DEF Deliver
  <2> HIDE DEF b
  <2>3. handlers[b.fd] # NoHandler /\ handlers[b.fd].id = b.id
    BY <2>1 DEF Addressed
  <2>4. /\ handlers[b.fd] \in HandlerType /\ handlers[b.fd].link \in Links
        /\ handlers[b.fd].sending \in BOOLEAN
    BY <1>1, <1>5, <2>3, HandlerAt
  <2> DEFINE h == [handlers[b.fd] EXCEPT !.sending = sending]
  <2>5. h \in HandlerType /\ h.id = handlers[b.fd].id /\ h.link = handlers[b.fd].link
    <3>1. sending \in BOOLEAN
      BY <2>4
    <3>2. QED
      BY <2>4, <3>1 DEF HandlerType
  <2>6. handlers' = [handlers EXCEPT ![b.fd] = h]
    BY <2>2
  <2> HIDE DEF h
  <2>7. note = NoNote
    BY <1>2 DEF Ready
  <2>8. ConnTypes' /\ NoteSound'
    BY <1>1, <1>2, <1>5, <2>1, <2>5, <2>6, <2>7 DEF ConnTypes, NoteSound
  <2>9. IdsCount'
    <3>1. \A f \in Fds : handlers'[f] # NoHandler =>
            /\ handlers[f] # NoHandler
            /\ handlers'[f].id = handlers[f].id /\ handlers'[f].link = handlers[f].link
      BY <1>1, <1>5, <2>3, <2>5, <2>6 DEF ConnTypes
    <3>2. QED
      BY <1>2, <3>1, IdsKept
  <2>10. b.req \in 1 .. Len(asked) /\ (IdsLast /\ conn_kills = 0 => b.id = asked[b.req])
    BY <1>3, <2>1 DEF Sound
  <2>11. answer \in [req : 1 .. MaxReqs, to : Links] /\ answer.req = b.req
         /\ answer.to = handlers[b.fd].link
    <3>1. b.req \in 1 .. MaxReqs
      BY <1>1, <2>10, Bounds, LenProperties DEF Addresses, HistoryTypes
    <3>2. QED
      BY <2>4, <3>1
  <2> HIDE DEF answer
  <2>12. /\ delivered' \in Seq([req : 1 .. MaxReqs, to : Links])
         /\ Len(delivered') = Len(delivered) + 1 /\ Len(delivered) \in Nat
         /\ delivered'[Len(delivered) + 1] = answer
         /\ \A i \in 1 .. Len(delivered) : delivered'[i] = delivered[i]
    BY <1>1, <2>1, <2>11, AppendProperties, LenProperties DEF HistoryTypes
  <2>13. HistoryTypes' /\ Len(asked') <= MaxReqs
    BY <1>1, <1>2, <2>12 DEF HistoryTypes, Addresses
  <2>14. \A i \in 1 .. Len(delivered') :
           i \in 1 .. Len(delivered) \/ delivered'[i] = answer
    BY <2>12
  <2>15. AnswersSound'
    <3>1. \A i \in 1 .. Len(delivered') : delivered'[i].req \in 1 .. Len(asked)
      BY <1>1, <2>10, <2>11, <2>12, <2>14 DEF Addresses, AnswersSound
    <3>2. ASSUME IdsLast, conn_kills = 0
          PROVE  \A i \in 1 .. Len(delivered') : delivered'[i].to = asked[delivered'[i].req]
      <4>1. answer.to = asked[answer.req]
        BY <1>1, <1>5, <2>3, <2>10, <2>11, <3>2 DEF Addresses, IdsCount
      <4>2. \A i \in 1 .. Len(delivered) : delivered[i].to = asked[delivered[i].req]
        BY <1>1, <3>2 DEF Addresses, AnswersSound, RepliesToAsker
      <4>3. QED
        BY <2>12, <2>14, <4>1, <4>2
    <3>3. QED
      BY <1>2, <3>1, <3>2 DEF AnswersSound, RepliesToAsker
  <2>16. QED
    BY <1>3, <1>4, <2>8, <2>9, <2>13, <2>15, BaseParts
<1>8. QED
  BY <1>6, <1>7 DEF SendEvent, Discard, DeliverFails, Shut

\* The main loops' pruge.
LEMMA TickBase ==
  ASSUME BaseInv, ConnTick \/ \E c \in Channels : WorkTick(c)
  PROVE  BaseInv'
<1>1. TypeOK /\ Addresses /\ RecvTypes /\ SendTypes
  BY BaseParts DEF BaseInv
<1>2. /\ UNCHANGED <<conn, worker, history, upsets>>
      /\ UNCHANGED <<handlers, m_id, accepted, asked, delivered, conn_kills, hand>>
  BY DEF ConnTick, WorkTick, conn, history, upsets, worker
<1>3. /\ ConnTypes' /\ WorkTypes' /\ HistoryTypes' /\ UpsetTypes'
      /\ Len(asked') <= MaxReqs /\ NoteSound' /\ AnswersSound' /\ IdsCount'
  BY <1>2, FrameKeeps
<1>4. /\ RecvTypes' /\ SendTypes'
      /\ \A d \in Channels : Stream(d)' = Stream(d) /\ Back(d)' = Back(d)
  <2>1. CASE ConnTick
    <3>1. UNCHANGED sends
      BY <2>1 DEF ConnTick
    <3>2. QED
      BY <1>1, <2>1, <3>1, TicksKeep, FrameKeeps DEF RecvTypes
  <2>2. CASE \E c \in Channels : WorkTick(c)
    <3>1. UNCHANGED recvs
      BY <2>2 DEF WorkTick
    <3>2. QED
      BY <1>1, <2>2, <3>1, TicksKeep, FrameKeeps DEF SendTypes
  <2>3. QED
    BY <2>1, <2>2
<1>5. CarriedSound'
  BY <1>1, <1>2, <1>4 DEF CarriedSound, Addresses
<1>6. QED
  BY <1>3, <1>4, <1>5, BaseParts

\* What CONN held back is lost when it is killed, what is in the queues stays.
LEMMA ConnRestarted ==
  ASSUME TypeOK, ConnRestart, NEW c \in Channels
  PROVE  /\ Stream(c)' = recv_queue[c]
         /\ Reqs(Stream(c)') \subseteq Reqs(Stream(c))
         /\ Distinct(Stream(c)) => Distinct(Stream(c)')
         /\ \A a, k : AllSound(Stream(c), a, k) => AllSound(Stream(c)', a, k)
<1>1. recv_queue[c] \in Seq(BlockType) /\ recv_list[c] \in Seq(BlockType)
  BY ChannelTypes
<1>2. recv_queue' = recv_queue /\ recv_list'[c] = <<>>
  BY DEF ConnRestart
<1>3. Stream(c)' = recv_queue[c]
  <2>1. Stream(c)' = recv_queue[c] \o <<>>
    BY <1>2 DEF Stream
  <2>2. QED
    BY <1>1, <2>1, ConcatEmptySeq
<1>4. QED
  BY <1>1, <1>3, FrontReqs DEF Stream

LEMMA ConnRestartBase ==
  ASSUME BaseInv, ConnRestart
  PROVE  BaseInv'
<1>1. TypeOK /\ Addresses /\ RecvTypes /\ UpsetTypes
  BY BaseParts DEF BaseInv
<1>2. /\ UNCHANGED <<recv_queue, sends, worker, history, closes, work_kills>>
      /\ UNCHANGED <<asked, delivered, accepted, hand>>
      /\ conn_kills' = conn_kills + 1 /\ conn_kills < MaxConnKills
      /\ handlers' = [fd \in Fds |-> NoHandler] /\ m_id' = 0 /\ serialize_num' = 0
      /\ note' = NoNote /\ recv_list' = [c \in Channels |-> <<>>]
  BY DEF ConnRestart, history, worker
<1>3. /\ SendTypes' /\ WorkTypes' /\ HistoryTypes' /\ Len(asked') <= MaxReqs
      /\ \A c \in Channels : Back(c)' = Back(c)
  BY <1>2, FrameKeeps
<1>4. UpsetTypes' /\ conn_kills' # 0
  BY <1>1, <1>2, Bounds DEF UpsetTypes
<1>5. ConnTypes' /\ NoteSound' /\ IdsCount'
  BY <1>2, <1>4, Bounds DEF ConnTypes, NoteSound, IdsCount
<1>6. RecvTypes'
  BY <1>1, <1>2 DEF RecvTypes
<1>7. AnswersSound'
  BY <1>1, <1>2, <1>4 DEF Addresses, AnswersSound
<1>8. CarriedSound'
  <2>1. /\ \A b : Sound(b, asked, conn_kills) => Sound(b, asked, conn_kills')
        /\ \A s : AllSound(s, asked, conn_kills) => AllSound(s, asked, conn_kills')
    BY <1>4 DEF Sound, AllSound
  <2>2. ASSUME NEW c \in Channels
        PROVE  /\ AllSound(Stream(c)', asked, conn_kills')
               /\ AllSound(Back(c), asked, conn_kills')
               /\ hand[c] # NoBlock => Sound(hand[c], asked, conn_kills')
    <3>1. /\ AllSound(Stream(c), asked, conn_kills) /\ AllSound(Back(c), asked, conn_kills)
          /\ hand[c] # NoBlock => Sound(hand[c], asked, conn_kills)
      BY <1>1 DEF Addresses, CarriedSound
    <3>2. AllSound(Stream(c)', asked, conn_kills)
      BY <1>1, <3>1, ConnRestarted
    <3>3. QED
      BY <2>1, <3>1, <3>2
  <2>3. QED
    BY <1>2, <1>3, <2>2 DEF CarriedSound
<1>9. QED
  BY <1>3, <1>4, <1>5, <1>6, <1>7, <1>8, BaseParts

\* A worker pulls the first block.
LEMMA WorkPullBase ==
  ASSUME BaseInv, NEW c \in Channels, WorkPull(c)
  PROVE  BaseInv'
<1>1. TypeOK /\ Addresses /\ RecvTypes /\ WorkTypes
  BY BaseParts DEF BaseInv
<1>2. /\ recv_queue[c] # <<>> /\ hand' = [hand EXCEPT ![c] = Head(recv_queue[c])]
      /\ recv_queue' = [recv_queue EXCEPT ![c] = Tail(@)] /\ recv_list' = recv_list
      /\ UNCHANGED <<conn, sends, g_link_flags, ups, history, upsets>>
      /\ UNCHANGED <<handlers, m_id, accepted, asked, delivered, conn_kills>>
  BY DEF WorkPull, conn, history, upsets
<1>3. /\ recv_queue' \in [Channels -> Seq(BlockType)]
      /\ \A d \in Channels : Len(recv_queue'[d]) <= RingCap
      /\ Stream(c) # <<>> /\ Head(recv_queue[c]) = Head(Stream(c))
      /\ Head(Stream(c)) \in BlockType
      /\ Stream(c)' = Tail(Stream(c))
      /\ \A d \in Channels \ {c} : Stream(d)' = Stream(d)
  BY <1>1, <1>2, RecvPulled
<1>4. /\ ConnTypes' /\ SendTypes' /\ HistoryTypes' /\ UpsetTypes'
      /\ Len(asked') <= MaxReqs /\ NoteSound' /\ AnswersSound' /\ IdsCount'
      /\ \A d \in Channels : Back(d)' = Back(d)
  BY <1>2, FrameKeeps
<1>5. RecvTypes' /\ WorkTypes'
  BY <1>1, <1>2, <1>3 DEF RecvTypes, WorkTypes
<1>6. CarriedSound'
  <2>1. Stream(c) \in Seq(BlockType) /\ AllSound(Stream(c), asked, conn_kills)
    BY <1>1, ChannelTypes DEF Addresses, CarriedSound
  <2>2. /\ AllSound(Tail(Stream(c)), asked, conn_kills)
        /\ Sound(Head(Stream(c)), asked, conn_kills)
    BY <1>3, <2>1, TailReqs
  <2>3. hand'[c] = Head(Stream(c)) /\ \A d \in Channels \ {c} : hand'[d] = hand[d]
    BY <1>1, <1>2, <1>3 DEF WorkTypes
  <2>4. QED
    BY <1>1, <1>2, <1>3, <1>4, <2>2, <2>3 DEF Addresses, CarriedSound
<1>7. QED
  BY <1>4, <1>5, <1>6, BaseParts

\* The block in a worker's hand.
LEMMA InHand ==
  ASSUME BaseInv, NEW c \in Channels, hand[c] # NoBlock
  PROVE  /\ hand[c] \in BlockType /\ hand[c].fd \in Fds /\ hand[c].id \in 1 .. IntMax
         /\ hand[c].req \in 0 .. MaxReqs /\ hand[c].type \in Types
         /\ Sound(hand[c], asked, conn_kills)
<1>1. hand[c] \in BlockType
  BY DEF BaseInv, TypeOK
<1>2. QED
  BY <1>1 DEF BlockType, BaseInv, Addresses, CarriedSound

\* A worker handles a block without an answer: link_up_cli, link_down_cli, or
\* a MASTER_CHANGE that succeeds.
LEMMA WorkLinkBase ==
  ASSUME BaseInv, NEW c \in Channels, WorkLogin(c) \/ WorkProtoSilent(c) \/ WorkClose(c)
  PROVE  BaseInv'
<1>1. Addresses /\ WorkTypes /\ HistoryTypes
  BY BaseParts
<1>2. /\ UNCHANGED <<conn, recvs, sends, upsets>>
      /\ UNCHANGED <<handlers, m_id, accepted, asked, delivered, conn_kills>>
      /\ changes' \in {changes, changes \cup {hand[c].req}}
      /\ hand[c] # NoBlock /\ hand' = [hand EXCEPT ![c] = NoBlock]
  BY DEF WorkLogin, WorkProtoSilent, WorkClose, conn, history, upsets, Holds, Release
<1>3. /\ ConnTypes' /\ RecvTypes' /\ SendTypes' /\ UpsetTypes'
      /\ NoteSound' /\ AnswersSound' /\ IdsCount'
      /\ \A d \in Channels : Stream(d)' = Stream(d) /\ Back(d)' = Back(d)
  BY <1>2, FrameKeeps
<1>4. hand[c].fd \in Fds /\ hand[c].id \in 1 .. IntMax /\ hand[c].req \in 0 .. MaxReqs
  BY <1>2, InHand
<1>5. HistoryTypes' /\ Len(asked') <= MaxReqs
  BY <1>1, <1>2, <1>4 DEF HistoryTypes, Addresses
<1>6. /\ g_link_flags' \in [Channels -> [Fds -> 0 .. IntMax]]
      /\ ups' \in [Channels -> [Fds -> Int]]
  <2>1. \A n \in Int : n + 1 \in Int /\ n - 1 \in Int
    OBVIOUS
  <2>2. 0 \in 0 .. IntMax /\ hand[c].id \in 0 .. IntMax
    BY <1>4, Bounds
  <2>3. ups[c][hand[c].fd] \in Int
    BY <1>1, <1>4 DEF WorkTypes
  <2>4. CASE WorkLogin(c)
    <3>1. /\ g_link_flags' = [g_link_flags EXCEPT ![c][hand[c].fd] = hand[c].id]
          /\ ups' = [ups EXCEPT ![c][hand[c].fd] = @ + 1]
      BY <2>4 DEF WorkLogin
    <3>2. QED
      BY <1>1, <1>4, <2>1, <2>2, <2>3, <3>1 DEF WorkTypes
  <2>5. CASE WorkClose(c)
    <3>1. CASE g_link_flags[c][hand[c].fd] # 0
      <4>1. /\ g_link_flags' = [g_link_flags EXCEPT ![c][hand[c].fd] = 0]
            /\ ups' = [ups EXCEPT ![c][hand[c].fd] = @ - 1]
        BY <2>5, <3>1 DEF WorkClose
      <4>2. QED
        BY <1>1, <1>4, <2>1, <2>2, <2>3, <4>1 DEF WorkTypes
    <3>2. CASE g_link_flags[c][hand[c].fd] = 0
      <4>1. g_link_flags' = g_link_flags /\ ups' = ups
        BY <2>5, <3>2 DEF WorkClose
      <4>2. QED
        BY <1>1, <4>1 DEF WorkTypes
    <3>3. QED
      BY <3>1, <3>2
  <2>6. CASE WorkProtoSilent(c)
    <3>1. ups' = ups /\ g_link_flags' = [g_link_flags EXCEPT ![c][hand[c].fd] = hand[c].id]
      BY <2>6 DEF WorkProtoSilent
    <3>2. QED
      BY <1>1, <1>4, <2>2, <3>1 DEF WorkTypes
  <2>7. QED
    BY <2>4, <2>5, <2>6
<1>7. WorkTypes' /\ \A d \in Channels : hand'[d] = NoBlock \/ hand'[d] = hand[d]
  BY <1>1, <1>2, <1>6 DEF WorkTypes
<1>8. CarriedSound'
  BY <1>1, <1>2, <1>3, <1>7 DEF Addresses, CarriedSound
<1>9. QED
  BY <1>3, <1>7, <1>8, <1>5, BaseParts

\* A worker handles a request and answers it, or closes the connection.
LEMMA WorkProtoBase ==
  ASSUME BaseInv, NEW c \in Channels, WorkProto(c) \/ WorkProtoClose(c)
  PROVE  BaseInv'
<1>1. TypeOK /\ Addresses /\ WorkTypes /\ UpsetTypes
  BY BaseParts DEF BaseInv
<1>2. /\ UNCHANGED <<conn, recvs, ups, history, conn_kills, work_kills>>
      /\ UNCHANGED <<handlers, m_id, accepted, asked, delivered, conn_kills>>
      /\ hand[c] # NoBlock /\ hand[c].type = "PROTO"
      /\ hand' = [hand EXCEPT ![c] = NoBlock]
  BY DEF WorkProto, WorkProtoClose, conn, history, upsets, Holds, Release
<1>3. /\ ConnTypes' /\ RecvTypes' /\ HistoryTypes'
      /\ Len(asked') <= MaxReqs /\ NoteSound' /\ AnswersSound' /\ IdsCount'
      /\ \A d \in Channels : Stream(d)' = Stream(d)
  BY <1>2, FrameKeeps
<1>4. /\ hand[c].fd \in Fds /\ hand[c].id \in 1 .. IntMax /\ hand[c].req \in 0 .. MaxReqs
      /\ Sound(hand[c], asked, conn_kills)
  BY <1>2, InHand
<1>5. PICK b \in BlockType : SendPush(c, b) /\ Sound(b, asked, conn_kills)
  <2>1. CASE WorkProto(c)
    <3> DEFINE b == Block("PROTO", hand[c].fd, hand[c].id, hand[c].req)
    <3>1. b \in BlockType
      BY <1>4 DEF Block, BlockType, Types
    <3>2. Sound(b, asked, conn_kills)
      BY <1>2, <1>4 DEF Sound, Block
    <3>3. SendPush(c, b)
      BY <2>1 DEF WorkProto
    <3> HIDE DEF b
    <3>4. QED
      BY <3>1, <3>2, <3>3
  <2>2. CASE WorkProtoClose(c)
    <3> DEFINE b == Block("CLOSE", hand[c].fd, hand[c].id, NoReq)
    <3>1. b \in BlockType
      BY <1>4, Bounds DEF Block, BlockType, Types, NoReq
    <3>2. Sound(b, asked, conn_kills)
      BY DEF Sound, Block
    <3>3. SendPush(c, b)
      BY <2>2 DEF WorkProtoClose
    <3> HIDE DEF b
    <3>4. QED
      BY <3>1, <3>2, <3>3
  <2>3. QED
    BY <2>1, <2>2
<1>6. /\ send_queue' \in [Channels -> Seq(BlockType)]
      /\ send_list' \in [Channels -> Seq(BlockType)]
      /\ \A d \in Channels : Len(send_queue'[d]) <= RingCap
      /\ Back(c)' = Append(Back(c), b)
      /\ \A d \in Channels \ {c} : Back(d)' = Back(d)
  BY <1>1, <1>5, SendPushed
<1>7. SendTypes'
  BY <1>6 DEF SendTypes
<1>8. g_link_flags' \in [Channels -> [Fds -> 0 .. IntMax]]
  <2>1. 0 \in 0 .. IntMax /\ hand[c].id \in 0 .. IntMax
    BY <1>4, Bounds
  <2>2. PICK f \in 0 .. IntMax :
          g_link_flags' = [g_link_flags EXCEPT ![c][hand[c].fd] = f]
    BY <2>1 DEF WorkProto, WorkProtoClose
  <2>3. QED
    BY <1>1, <2>2 DEF WorkTypes
<1>9. WorkTypes' /\ \A d \in Channels : hand'[d] = NoBlock \/ hand'[d] = hand[d]
  BY <1>1, <1>2, <1>8 DEF WorkTypes
<1>10. UpsetTypes'
  BY <1>1, <1>2, Bounds DEF UpsetTypes, WorkProto, WorkProtoClose, upsets
<1>11. CarriedSound'
  <2>1. Back(c) \in Seq(BlockType) /\ AllSound(Back(c), asked, conn_kills)
    BY <1>1, ChannelTypes DEF Addresses, CarriedSound
  <2>2. AllSound(Back(c)', asked, conn_kills)
    BY <1>5, <1>6, <2>1, AppendReqs
  <2>3. QED
    BY <1>1, <1>2, <1>3, <1>6, <1>9, <2>2 DEF Addresses, CarriedSound
<1>12. QED
  BY <1>3, <1>7, <1>9, <1>10, <1>11, BaseParts

\* What a worker held back is lost when it is killed.
LEMMA WorkRestarted ==
  ASSUME TypeOK, NEW c \in Channels, WorkRestart(c)
  PROVE  /\ send_list' \in [Channels -> Seq(BlockType)]
         /\ Reqs(Back(c)') \subseteq Reqs(Back(c))
         /\ Distinct(Back(c)) => Distinct(Back(c)')
         /\ \A a, k : AllSound(Back(c), a, k) => AllSound(Back(c)', a, k)
         /\ \A d \in Channels \ {c} : Back(d)' = Back(d)
<1>1. /\ send_list \in [Channels -> Seq(BlockType)]
      /\ send_queue[c] \in Seq(BlockType) /\ send_list[c] \in Seq(BlockType)
  BY ChannelTypes
<1>2. send_queue' = send_queue /\ send_list' = [send_list EXCEPT ![c] = <<>>]
  BY DEF WorkRestart
<1>3. send_list'[c] = <<>> /\ \A d \in Channels \ {c} : send_list'[d] = send_list[d]
  BY <1>1, <1>2
<1>4. send_list' \in [Channels -> Seq(BlockType)]
  <2>1. <<>> \in Seq(BlockType)
    BY EmptySeq
  <2>2. QED
    BY <1>1, <1>2, <2>1
<1>5. Back(c)' = send_queue[c]
  <2>1. Back(c)' = send_queue[c] \o <<>>
    BY <1>2, <1>3 DEF Back
  <2>2. QED
    BY <1>1, <2>1, ConcatEmptySeq
<1>6. \A d \in Channels \ {c} : Back(d)' = Back(d)
  BY <1>2, <1>3 DEF Back
<1>7. /\ Reqs(send_queue[c]) \subseteq Reqs(Back(c))
      /\ Distinct(Back(c)) => Distinct(send_queue[c])
      /\ \A a, k : AllSound(Back(c), a, k) => AllSound(send_queue[c], a, k)
  BY <1>1, FrontReqs DEF Back
<1>8. QED
  BY <1>4, <1>5, <1>6, <1>7

LEMMA WorkRestartBase ==
  ASSUME BaseInv, NEW c \in Channels, WorkRestart(c)
  PROVE  BaseInv'
<1>1. TypeOK /\ Addresses /\ WorkTypes /\ UpsetTypes /\ SendTypes
  BY BaseParts DEF BaseInv
<1>2. /\ UNCHANGED <<conn, recvs, send_queue, history, closes, conn_kills>>
      /\ UNCHANGED <<handlers, m_id, accepted, asked, delivered>>
      /\ work_kills < MaxWorkKills /\ work_kills' = work_kills + 1
      /\ g_link_flags' = [g_link_flags EXCEPT ![c] = [fd \in Fds |-> 0]]
      /\ ups' = [ups EXCEPT ![c] = [fd \in Fds |-> 0]]
      /\ hand' = [hand EXCEPT ![c] = NoBlock]
  BY DEF WorkRestart, conn, history, upsets, Release
<1>3. /\ ConnTypes' /\ RecvTypes' /\ HistoryTypes'
      /\ Len(asked') <= MaxReqs /\ NoteSound' /\ AnswersSound' /\ IdsCount'
      /\ \A d \in Channels : Stream(d)' = Stream(d)
  BY <1>2, FrameKeeps
<1>4. UpsetTypes'
  BY <1>1, <1>2, Bounds DEF UpsetTypes
<1>5. WorkTypes' /\ \A d \in Channels : hand'[d] = NoBlock \/ hand'[d] = hand[d]
  <2>1. [fd \in Fds |-> 0] \in [Fds -> 0 .. IntMax] /\ [fd \in Fds |-> 0] \in [Fds -> Int]
    BY Bounds
  <2>2. QED
    BY <1>1, <1>2, <2>1 DEF WorkTypes
<1>6. SendTypes'
  BY <1>1, <1>2, WorkRestarted DEF SendTypes
<1>7. \A d \in Channels : AllSound(Back(d)', asked, conn_kills)
  BY <1>1, WorkRestarted DEF Addresses, CarriedSound
<1>8. CarriedSound'
  BY <1>1, <1>2, <1>3, <1>5, <1>7 DEF Addresses, CarriedSound
<1>9. QED
  BY <1>3, <1>4, <1>5, <1>6, <1>8, BaseParts

LEMMA BaseStep ==
  ASSUME BaseInv, [Next]_vars
  PROVE  BaseInv'
<1>1. ASSUME NEW fd \in Fds,
             Accept(fd) \/ AcceptFails(fd) \/ Request(fd) \/ ClientGone(fd) \/ Flush(fd)
      PROVE  BaseInv'
  BY <1>1, AcceptBase, RequestBase, GoneBase
<1>2. CASE NotifyNext
  BY <1>2, NotifyNextBase
<1>3. CASE ConnTick
  BY <1>3, TickBase
<1>4. CASE ConnRestart
  BY <1>4, ConnRestartBase
<1>5. ASSUME NEW c \in Channels,
             \/ SendEvent(c) \/ WorkPull(c) \/ WorkHandle(c) \/ WorkTick(c) \/ WorkRestart(c)
      PROVE  BaseInv'
  BY <1>5, SendEventBase, WorkPullBase, WorkLinkBase, WorkProtoBase, TickBase, WorkRestartBase
     DEF WorkHandle
<1>6. CASE UNCHANGED vars
  <2>1. /\ UNCHANGED <<conn, recvs, sends, worker, history, upsets>>
        /\ UNCHANGED <<handlers, m_id, accepted, asked, delivered, conn_kills>>
    BY <1>6 DEF vars, conn, history, upsets
  <2>2. /\ ConnTypes' /\ RecvTypes' /\ SendTypes' /\ WorkTypes' /\ HistoryTypes' /\ UpsetTypes'
        /\ Len(asked') <= MaxReqs /\ NoteSound' /\ AnswersSound' /\ IdsCount' /\ CarriedSound'
    BY <2>1, FrameKeeps
  <2>3. QED
    BY <2>2, BaseParts
<1>7. QED
  BY <1>1, <1>2, <1>3, <1>4, <1>5, <1>6 DEF Next

\* At the start there is nothing anywhere.
LEMMA BaseInit ==
  ASSUME Init
  PROVE  /\ BaseInv
         /\ \A c \in Channels : Stream(c) = <<>> /\ Back(c) = <<>> /\ hand[c] = NoBlock
<1>1. <<>> \in Seq(BlockType) /\ <<>> \in Seq(Links) /\ Len(<<>>) = 0
      /\ <<>> \in Seq([req : 1 .. MaxReqs, to : Links])
  BY EmptySeq
<1>2. <<>> \o <<>> = <<>>
  BY <1>1, ConcatEmptySeq
<1>3. \A c \in Channels : Stream(c) = <<>> /\ Back(c) = <<>> /\ hand[c] = NoBlock
  BY <1>2 DEF Init, Stream, Back
<1>4. ConnTypes
  BY Bounds DEF Init, ConnTypes
<1>5. RecvTypes /\ SendTypes
  BY <1>1, Bounds DEF Init, RecvTypes, SendTypes
<1>6. WorkTypes /\ HistoryTypes /\ UpsetTypes
  BY <1>1, Bounds DEF Init, WorkTypes, HistoryTypes, UpsetTypes
<1>7. AnswersSound /\ IdsCount /\ NoteSound /\ Len(asked) <= MaxReqs
  BY <1>1, Bounds DEF Init, AnswersSound, RepliesToAsker, IdsCount, NoteSound
<1>8. CarriedSound
  BY <1>1, <1>3 DEF CarriedSound, AllSound
<1>9. QED
  BY <1>3, <1>4, <1>5, <1>6, <1>7, <1>8, TypeParts DEF BaseInv, Addresses

-----------------------------------------------------------------------------
(***************************************************************************)
(* A request is in one place at a time.                                    *)
(***************************************************************************)

\* A channel in which requests only vanish, ...
LEMMA ChannelKeeps ==
  ASSUME NEW c \in Channels, OnePlace(c),
         Reqs(Stream(c)') \subseteq Reqs(Stream(c)), Distinct(Stream(c)'),
         Reqs(Back(c)') \subseteq Reqs(Back(c)), Distinct(Back(c)'),
         hand'[c] = hand[c] \/ hand'[c] = NoBlock
  PROVE  OnePlace(c)' /\ Pending(c)' \subseteq Pending(c)
<1>1. HandReqs(c)' \subseteq HandReqs(c)
  BY DEF HandReqs
<1>2. QED
  BY <1>1 DEF OnePlace, Pending

\* ... in particular one that is left alone, ...
LEMMA ChannelLeft ==
  ASSUME NEW c \in Channels, OnePlace(c), Stream(c)' = Stream(c), Back(c)' = Back(c),
         hand'[c] = hand[c] \/ hand'[c] = NoBlock
  PROVE  OnePlace(c)' /\ Pending(c)' \subseteq Pending(c)
BY ChannelKeeps DEF OnePlace

\* ... keeps what is unique unique.
LEMMA RequestsStay ==
  ASSUME BaseInv, Unique, UNCHANGED <<asked, delivered>>,
         \A c \in Channels : OnePlace(c)' /\ Pending(c)' \subseteq Pending(c)
  PROVE  Unique'
<1>1. Done' = Done /\ AnsweredOnce'
  BY DEF Done, AnsweredOnce, Unique
<1>2. ASSUME NEW c \in Channels
      PROVE  /\ OnePlace(c)'
             /\ Pending(c)' \cap Done = {}
             /\ Pending(c)' \subseteq 1 .. Len(asked)
             /\ \A d \in Channels \ {c} : Pending(c)' \cap Pending(d)' = {}
  BY DEF Unique
<1>3. QED
  BY <1>1, <1>2 DEF Unique

\* CONN pushes a block without a request to a channel.
LEMMA NotifyNextUnique ==
  ASSUME UniqueInv, NotifyNext
  PROVE  Unique'
<1>1. /\ BaseInv /\ TypeOK /\ Unique /\ note # NoNote
      /\ RecvPush(note.next, note.block, TRUE)
      /\ UNCHANGED <<sends, worker, history, asked, delivered, hand>>
  BY DEF UniqueInv, BaseInv, NotifyNext, NotifyOne, Ready, history, worker
<1> DEFINE b == note.block  e == note.next
<1>2. b \in BlockType /\ e \in Channels /\ b.req = NoReq
  BY <1>1 DEF TypeOK, NoteType, BaseInv, Addresses, NoteSound
<1>3. RecvPush(e, b, TRUE)
  BY <1>1
<1> HIDE DEF b, e
<1>4. \A d \in Channels : Stream(d)' = Append(Stream(d), b) \/ Stream(d)' = Stream(d)
  BY <1>1, <1>2, <1>3, RecvPushed
<1>5. \A d \in Channels : Back(d)' = Back(d)
  BY <1>1, FrameKeeps
<1>6. ASSUME NEW d \in Channels PROVE OnePlace(d)' /\ Pending(d)' \subseteq Pending(d)
  <2>1. OnePlace(d) /\ Stream(d) \in Seq(BlockType)
    BY <1>1, ChannelTypes DEF Unique
  <2>2. b.req \notin Reqs(Stream(d))
    BY <1>2 DEF Reqs
  <2>3. Reqs(Append(Stream(d), b)) = Reqs(Stream(d)) /\ Distinct(Append(Stream(d), b))
    <3>1. {b.req} \ {NoReq} = {}
      BY <1>2
    <3>2. /\ Reqs(Append(Stream(d), b)) = Reqs(Stream(d)) \cup ({b.req} \ {NoReq})
          /\ Distinct(Append(Stream(d), b))
      BY <1>2, <2>1, <2>2, AppendReqs DEF OnePlace
    <3>3. QED
      BY <3>1, <3>2
  <2>4. Reqs(Stream(d)') \subseteq Reqs(Stream(d)) /\ Distinct(Stream(d)')
    BY <1>4, <2>1, <2>3 DEF OnePlace
  <2>5. Reqs(Back(d)') \subseteq Reqs(Back(d)) /\ Distinct(Back(d)')
    BY <1>5, <2>1 DEF OnePlace
  <2>6. QED
    BY <1>1, <2>1, <2>4, <2>5, ChannelKeeps
<1>7. QED
  BY <1>1, <1>6, RequestsStay

\* A request that is read is a new one.
LEMMA RequestUnique ==
  ASSUME UniqueInv, NEW fd \in Fds, Request(fd)
  PROVE  Unique'
<1> DEFINE b == Block("PROTO", fd, handlers[fd].id, Len(asked) + 1)
           n == Len(asked) + 1
<1>1. /\ BaseInv /\ TypeOK /\ Unique
      /\ handlers[fd] # NoHandler /\ Len(asked) < MaxReqs
      /\ asked' = Append(asked, handlers[fd].link)
      /\ RecvPush(SelectChannel, b, FALSE)
      /\ UNCHANGED <<sends, worker, delivered, hand>>
  BY DEF UniqueInv, BaseInv, Request, worker
<1>2. PICK e \in Channels : e = SelectChannel
  BY <1>1, SelectsChannel DEF TypeOK
<1>3. asked \in Seq(Links) /\ handlers[fd].id \in 1 .. IntMax /\ handlers[fd].link \in Links
  BY <1>1, HandlerAt DEF TypeOK
<1>4. Len(asked) \in Nat /\ Len(asked') = n
  BY <1>1, <1>3, AppendProperties, LenProperties
<1>5. b \in BlockType /\ b.req = n
  BY <1>1, <1>3, <1>4, Bounds DEF Block, BlockType, Types
<1>6. n \notin 1 .. Len(asked) /\ n \in 1 .. Len(asked') /\ n # NoReq
      /\ 1 .. Len(asked) \subseteq 1 .. Len(asked')
  BY <1>4 DEF NoReq
<1> HIDE DEF b, n
<1>7. /\ Stream(e)' = Append(Stream(e), b) \/ Stream(e)' = Stream(e)
      /\ \A d \in Channels \ {e} : Stream(d)' = Stream(d)
  BY <1>1, <1>2, <1>5, RecvPushed
<1>8. \A d \in Channels : Back(d)' = Back(d) /\ HandReqs(d)' = HandReqs(d)
  BY <1>1, FrameKeeps DEF HandReqs
<1>9. \A d \in Channels : OnePlace(d) /\ n \notin Pending(d)
  BY <1>1, <1>6 DEF Unique
<1>10. Reqs(Stream(e)') \subseteq Reqs(Stream(e)) \cup {n} /\ Distinct(Stream(e)')
  <2>1. Stream(e) \in Seq(BlockType) /\ Distinct(Stream(e)) /\ n \notin Reqs(Stream(e))
    BY <1>1, <1>2, <1>9, ChannelTypes DEF OnePlace, Pending
  <2>2. Reqs(Append(Stream(e), b)) \subseteq Reqs(Stream(e)) \cup {n}
        /\ Distinct(Append(Stream(e), b))
    BY <1>5, <2>1, AppendReqs
  <2>3. QED
    BY <1>7, <2>1, <2>2
<1>11. OnePlace(e)' /\ Pending(e)' \subseteq Pending(e) \cup {n}
  BY <1>2, <1>8, <1>9, <1>10 DEF OnePlace, Pending
<1>12. \A d \in Channels \ {e} : OnePlace(d)' /\ Pending(d)' = Pending(d)
  BY <1>7, <1>8, <1>9 DEF OnePlace, Pending
<1>13. Done' = Done /\ AnsweredOnce'
  BY <1>1 DEF Done, AnsweredOnce, Unique
<1>14. ASSUME NEW c \in Channels
       PROVE  /\ OnePlace(c)'
              /\ Pending(c)' \cap Done = {}
              /\ Pending(c)' \subseteq 1 .. Len(asked')
              /\ \A d \in Channels \ {c} : Pending(c)' \cap Pending(d)' = {}
  <2>1. n \notin Done
    BY <1>1, <1>6 DEF Unique
  <2>2. QED
    BY <1>1, <1>6, <1>9, <1>11, <1>12, <2>1 DEF Unique
<1>15. Done \subseteq 1 .. Len(asked')
  BY <1>1, <1>6 DEF Unique
<1>16. QED
  BY <1>13, <1>14, <1>15 DEF Unique

\* What CONN takes from a worker's queue.
LEMMA TakenUnique ==
  ASSUME UniqueInv, NEW c \in Channels, PullSend(c), UNCHANGED <<recvs, send_list, worker>>
  PROVE  /\ \A d \in Channels : OnePlace(d)' /\ Pending(d)' \subseteq Pending(d)
         /\ Head(send_queue[c]).req \notin Pending(c)'
         /\ Head(send_queue[c]).req # NoReq => Head(send_queue[c]).req \in Pending(c)
<1>1. BaseInv /\ TypeOK /\ Unique
  BY DEF UniqueInv, BaseInv
<1> DEFINE r == Head(send_queue[c]).req
<1>2. /\ Back(c) # <<>> /\ Head(send_queue[c]) = Head(Back(c))
      /\ Back(c)' = Tail(Back(c))
      /\ \A d \in Channels \ {c} : Back(d)' = Back(d)
  BY <1>1, SendPulled
<1>3. \A d \in Channels : OnePlace(d) /\ Back(d) \in Seq(BlockType)
  BY <1>1, ChannelTypes DEF Unique
<1>4. /\ Reqs(Back(c)) = Reqs(Back(c)') \cup ({r} \ {NoReq})
      /\ Distinct(Back(c)') /\ r \notin Reqs(Back(c)')
  BY <1>2, <1>3, TailReqs DEF OnePlace
<1> HIDE DEF r
<1>5. \A d \in Channels : Stream(d)' = Stream(d) /\ hand'[d] = hand[d]
                          /\ HandReqs(d)' = HandReqs(d)
  BY <1>1, FrameKeeps DEF worker, HandReqs
<1>6. ASSUME NEW d \in Channels PROVE OnePlace(d)' /\ Pending(d)' \subseteq Pending(d)
  <2>1. CASE d = c
    BY <1>3, <1>4, <1>5, <2>1, ChannelKeeps DEF OnePlace
  <2>2. CASE d # c
    BY <1>2, <1>3, <1>5, <2>2, ChannelLeft
  <2>3. QED
    BY <2>1, <2>2
<1>7. r \notin Pending(c)'
  <2>1. CASE r = NoReq
    BY <2>1 DEF Pending, Reqs, HandReqs
  <2>2. CASE r # NoReq
    <3>1. r \in Reqs(Back(c))
      BY <1>4, <2>2
    <3>2. r \notin Reqs(Stream(c)) /\ r \notin HandReqs(c)
      BY <1>3, <3>1 DEF OnePlace
    <3>3. QED
      BY <1>4, <1>5, <3>2 DEF Pending
  <2>3. QED
    BY <2>1, <2>2
<1>8. r # NoReq => r \in Pending(c)
  BY <1>4 DEF Pending
<1>9. QED
  BY <1>6, <1>7, <1>8 DEF r

\* CONN gives an answer that was on its way, and takes it away by that.
LEMMA SendEventUnique ==
  ASSUME UniqueInv, NEW c \in Channels, SendEvent(c)
  PROVE  Unique'
<1>1. /\ BaseInv /\ TypeOK /\ Unique
      /\ PullSend(c) /\ UNCHANGED <<recvs, send_list, worker, asked, conn_kills>>
  BY DEF UniqueInv, BaseInv, SendEvent, Discard, Deliver, DeliverFails, Shut, history, upsets
<1> DEFINE r == Head(send_queue[c]).req
<1>2. /\ \A d \in Channels : OnePlace(d)' /\ Pending(d)' \subseteq Pending(d)
      /\ r \notin Pending(c)'
      /\ r # NoReq => r \in Pending(c)
  BY <1>1, TakenUnique
<1>3. CASE delivered' = delivered
  BY <1>1, <1>2, <1>3, RequestsStay
<1>4. CASE Deliver(c)
  <2> DEFINE b == Head(send_queue[c])
             answer == [req |-> r, to |-> handlers[b.fd].link]
  <2>1. b.type = "PROTO" /\ delivered' = Append(delivered, answer)
    BY <1>4 DEF Deliver
  <2>2. Sound(b, asked, conn_kills)
    BY <1>1, PullSound
  <2>3. r \in 1 .. Len(asked)
    BY <2>1, <2>2 DEF Sound
  <2>4. r # NoReq
    BY <1>1, <2>3, LenProperties DEF TypeOK, NoReq
  <2>5. answer.req = r
    OBVIOUS
  <2> HIDE DEF answer, r, b
  <2>6. /\ Len(delivered') = Len(delivered) + 1 /\ Len(delivered) \in Nat
        /\ delivered'[Len(delivered) + 1].req = r
        /\ \A i \in 1 .. Len(delivered) : delivered'[i] = delivered[i]
    <3>1. delivered \in Seq([req : 1 .. MaxReqs, to : Links])
      BY <1>1 DEF TypeOK
    <3>2. delivered \in Seq([req : 1 .. MaxReqs, to : Links] \cup {answer})
          /\ answer \in [req : 1 .. MaxReqs, to : Links] \cup {answer}
      BY <3>1, SeqMonotonic
    <3> DEFINE S == [req : 1 .. MaxReqs, to : Links] \cup {answer}
    <3> HIDE DEF S
    <3>3. delivered \in Seq(S) /\ answer \in S
      BY <3>2 DEF S
    <3>4. QED
      BY <2>1, <2>5, <3>3, AppendProperties, LenProperties
  <2>7. \A i \in 1 .. Len(delivered') :
          \/ i \in 1 .. Len(delivered) /\ delivered'[i] = delivered[i]
          \/ i = Len(delivered) + 1 /\ delivered'[i].req = r
    BY <2>6
  <2>8. r \notin Done /\ r \in Pending(c)
    BY <1>1, <1>2, <2>4 DEF Unique
  <2>9. Done' = Done \cup {r}
    <3>1. Done' \subseteq Done \cup {r}
      BY <2>7 DEF Done
    <3>2. Done \subseteq Done'
      <4>1. \A i \in 1 .. Len(delivered) : i \in 1 .. Len(delivered')
        BY <2>6
      <4>2. QED
        BY <2>6, <4>1 DEF Done
    <3>3. r \in Done'
      <4>1. Len(delivered) + 1 \in 1 .. Len(delivered')
        BY <2>6
      <4>2. QED
        BY <2>6, <4>1 DEF Done
    <3>4. QED
      BY <3>1, <3>2, <3>3
  <2>10. AnsweredOnce'
    <3>1. \A i \in 1 .. Len(delivered) : delivered[i].req # r
      BY <2>8 DEF Done
    <3>2. ASSUME NEW i \in 1 .. Len(delivered'), NEW j \in 1 .. Len(delivered'),
                 delivered'[i].req = delivered'[j].req
          PROVE  i = j
      BY <1>1, <2>6, <2>7, <3>1, <3>2 DEF Unique, AnsweredOnce
    <3>3. QED
      BY <3>2 DEF AnsweredOnce
  <2>11. \A d \in Channels : r \notin Pending(d)'
    BY <1>1, <1>2, <2>8 DEF Unique
  <2>12. ASSUME NEW d \in Channels
         PROVE  /\ OnePlace(d)'
                /\ Pending(d)' \cap Done' = {}
                /\ Pending(d)' \subseteq 1 .. Len(asked)
                /\ \A e \in Channels \ {d} : Pending(d)' \cap Pending(e)' = {}
    BY <1>1, <1>2, <2>9, <2>11 DEF Unique
  <2>13. Done' \subseteq 1 .. Len(asked)
    BY <1>1, <2>3, <2>9 DEF Unique
  <2>14. QED
    BY <1>1, <2>10, <2>12, <2>13 DEF Unique
<1>5. QED
  BY <1>3, <1>4 DEF SendEvent, Discard, DeliverFails, Shut, history

\* A worker takes a request into its hand ...
LEMMA WorkPullUnique ==
  ASSUME UniqueInv, NEW c \in Channels, WorkPull(c)
  PROVE  Unique'
<1>1. /\ BaseInv /\ TypeOK /\ Unique
      /\ hand[c] = NoBlock /\ recv_queue[c] # <<>>
      /\ hand' = [hand EXCEPT ![c] = Head(recv_queue[c])]
      /\ recv_queue' = [recv_queue EXCEPT ![c] = Tail(@)] /\ recv_list' = recv_list
      /\ UNCHANGED <<sends, asked, delivered>>
  BY DEF UniqueInv, BaseInv, WorkPull, history
<1>2. /\ Stream(c) # <<>> /\ Head(recv_queue[c]) = Head(Stream(c))
      /\ Head(Stream(c)) \in BlockType
      /\ Stream(c)' = Tail(Stream(c))
      /\ \A d \in Channels \ {c} : Stream(d)' = Stream(d)
  BY <1>1, RecvPulled
<1>3. \A d \in Channels : /\ OnePlace(d) /\ Stream(d) \in Seq(BlockType)
                          /\ Back(d)' = Back(d)
  BY <1>1, ChannelTypes, FrameKeeps DEF Unique
<1> DEFINE r == Head(Stream(c)).req
<1>4. /\ Reqs(Stream(c)) = Reqs(Stream(c)') \cup ({r} \ {NoReq})
      /\ Distinct(Stream(c)') /\ r \notin Reqs(Stream(c)')
  BY <1>2, <1>3, TailReqs DEF OnePlace
<1>5. hand'[c] = Head(Stream(c)) /\ \A d \in Channels \ {c} : hand'[d] = hand[d]
  BY <1>1, <1>2 DEF TypeOK
<1>6. HandReqs(c)' = {r} \ {NoReq} /\ HandReqs(c) = {}
  BY <1>1, <1>2, <1>5, NothingAssumption DEF HandReqs
<1> HIDE DEF r
<1>7. OnePlace(c)' /\ Pending(c)' \subseteq Pending(c)
  BY <1>3, <1>4, <1>6 DEF OnePlace, Pending
<1>8. \A d \in Channels \ {c} : OnePlace(d)' /\ Pending(d)' \subseteq Pending(d)
  BY <1>2, <1>3, <1>5, ChannelLeft
<1>9. QED
  BY <1>1, <1>7, <1>8, RequestsStay

\* ... and its answer into the queue, in one step with which it is no more there.
LEMMA WorkProtoUnique ==
  ASSUME UniqueInv, NEW c \in Channels, WorkProto(c) \/ WorkProtoClose(c)
  PROVE  Unique'
<1>1. /\ BaseInv /\ TypeOK /\ Unique
      /\ hand[c] # NoBlock /\ hand[c].type = "PROTO"
      /\ hand' = [hand EXCEPT ![c] = NoBlock]
      /\ UNCHANGED <<recvs, asked, delivered>>
  BY DEF UniqueInv, BaseInv, WorkProto, WorkProtoClose, Holds, Release, history
<1>2. /\ hand[c].fd \in Fds /\ hand[c].id \in 1 .. IntMax /\ hand[c].req \in 0 .. MaxReqs
  BY <1>1, InHand
<1>3. PICK b \in BlockType : SendPush(c, b) /\ (b.req = hand[c].req \/ b.req = NoReq)
  <2> DEFINE reply == Block("PROTO", hand[c].fd, hand[c].id, hand[c].req)
             shut == Block("CLOSE", hand[c].fd, hand[c].id, NoReq)
  <2>1. /\ reply \in BlockType /\ reply.req = hand[c].req
        /\ shut \in BlockType /\ shut.req = NoReq
    BY <1>2, Bounds DEF Block, BlockType, Types, NoReq
  <2>2. SendPush(c, reply) \/ SendPush(c, shut)
    BY DEF WorkProto, WorkProtoClose
  <2> HIDE DEF reply, shut
  <2>3. QED
    BY <2>1, <2>2
<1>4. /\ Back(c)' = Append(Back(c), b)
      /\ \A d \in Channels \ {c} : Back(d)' = Back(d)
  BY <1>1, <1>3, SendPushed
<1>5. \A d \in Channels : /\ OnePlace(d) /\ Back(d) \in Seq(BlockType)
                          /\ Stream(d)' = Stream(d)
  BY <1>1, ChannelTypes, FrameKeeps DEF Unique
<1>6. hand'[c] = NoBlock /\ \A d \in Channels \ {c} : hand'[d] = hand[d]
  BY <1>1 DEF TypeOK
<1>7. HandReqs(c)' = {} /\ HandReqs(c) = {hand[c].req} \ {NoReq}
  BY <1>1, <1>6 DEF HandReqs
<1>8. b.req \notin Reqs(Back(c)) /\ {b.req} \ {NoReq} \subseteq HandReqs(c)
  BY <1>3, <1>5, <1>7 DEF OnePlace, Reqs
<1>9. /\ Reqs(Back(c)') = Reqs(Back(c)) \cup ({b.req} \ {NoReq})
      /\ Distinct(Back(c)')
  BY <1>4, <1>5, <1>8, AppendReqs DEF OnePlace
<1>10. OnePlace(c)' /\ Pending(c)' \subseteq Pending(c)
  BY <1>5, <1>7, <1>8, <1>9 DEF OnePlace, Pending
<1>11. \A d \in Channels \ {c} : OnePlace(d)' /\ Pending(d)' \subseteq Pending(d)
  BY <1>4, <1>5, <1>6, ChannelLeft
<1>12. QED
  BY <1>1, <1>10, <1>11, RequestsStay

LEMMA UniqueStep ==
  ASSUME UniqueInv, [Next]_vars
  PROVE  UniqueInv'
<1>1. BaseInv /\ TypeOK /\ Unique /\ BaseInv'
  BY BaseStep DEF UniqueInv, BaseInv
<1>2. \A d \in Channels : OnePlace(d)
  BY <1>1 DEF Unique
<1> SUFFICES Unique'
  BY <1>1 DEF UniqueInv
<1>3. ASSUME UNCHANGED <<recvs, sends, asked, delivered>>,
             \A d \in Channels : hand'[d] = hand[d] \/ hand'[d] = NoBlock
      PROVE  Unique'
  <2>1. \A d \in Channels : Stream(d)' = Stream(d) /\ Back(d)' = Back(d)
    BY <1>1, <1>3, FrameKeeps
  <2>2. QED
    BY <1>1, <1>2, <1>3, <2>1, ChannelLeft, RequestsStay
<1>4. ASSUME NEW fd \in Fds, Accept(fd) \/ AcceptFails(fd) \/ ClientGone(fd) \/ Flush(fd)
      PROVE  Unique'
  BY <1>3, <1>4 DEF Accept, AcceptFails, ClientGone, Flush, history, worker
<1>5. CASE ConnTick \/ \E c \in Channels : WorkTick(c)
  <2>1. /\ UNCHANGED <<asked, delivered, hand>>
        /\ UNCHANGED recvs \/ ConnTick
        /\ UNCHANGED sends \/ \E c \in Channels : WorkTick(c)
    BY <1>5 DEF ConnTick, WorkTick, history, worker
  <2>2. \A d \in Channels : Stream(d)' = Stream(d)
    BY <1>1, <2>1, TicksKeep, FrameKeeps
  <2>3. \A d \in Channels : Back(d)' = Back(d)
    BY <1>1, <2>1, TicksKeep, FrameKeeps
  <2>4. QED
    BY <1>1, <1>2, <2>1, <2>2, <2>3, ChannelLeft, RequestsStay
<1>6. CASE ConnRestart
  <2>1. UNCHANGED <<sends, asked, delivered, hand>>
    BY <1>6 DEF ConnRestart, history, worker
  <2>2. \A d \in Channels : Back(d)' = Back(d)
    BY <1>1, <2>1, FrameKeeps
  <2>3. ASSUME NEW d \in Channels PROVE OnePlace(d)' /\ Pending(d)' \subseteq Pending(d)
    <3>1. Reqs(Stream(d)') \subseteq Reqs(Stream(d)) /\ Distinct(Stream(d)')
      BY <1>1, <1>2, <1>6, ConnRestarted DEF OnePlace
    <3>2. QED
      BY <1>2, <2>1, <2>2, <3>1, ChannelKeeps DEF OnePlace
  <2>4. QED
    BY <1>1, <2>1, <2>3, RequestsStay
<1>7. ASSUME NEW c \in Channels, WorkLogin(c) \/ WorkProtoSilent(c) \/ WorkClose(c)
      PROVE  Unique'
  <2>1. /\ UNCHANGED <<recvs, sends, asked, delivered>>
        /\ hand' = [hand EXCEPT ![c] = NoBlock]
    BY <1>7 DEF WorkLogin, WorkProtoSilent, WorkClose, Release, history
  <2>2. \A d \in Channels : hand'[d] = hand[d] \/ hand'[d] = NoBlock
    BY <1>1, <2>1 DEF TypeOK
  <2>3. QED
    BY <1>3, <2>1, <2>2
<1>8. ASSUME NEW c \in Channels, WorkRestart(c)
      PROVE  Unique'
  <2>1. /\ UNCHANGED <<recvs, asked, delivered>>
        /\ hand' = [hand EXCEPT ![c] = NoBlock]
    BY <1>8 DEF WorkRestart, Release, history
  <2>2. \A d \in Channels : /\ hand'[d] = hand[d] \/ hand'[d] = NoBlock
                            /\ Stream(d)' = Stream(d)
    BY <1>1, <2>1, FrameKeeps DEF TypeOK
  <2>3. ASSUME NEW d \in Channels PROVE OnePlace(d)' /\ Pending(d)' \subseteq Pending(d)
    <3>1. Reqs(Back(d)') \subseteq Reqs(Back(d)) /\ Distinct(Back(d)')
      BY <1>1, <1>2, <1>8, WorkRestarted DEF OnePlace
    <3>2. QED
      BY <1>2, <2>2, <3>1, ChannelKeeps DEF OnePlace
  <2>4. QED
    BY <1>1, <2>1, <2>3, RequestsStay
<1>9. CASE UNCHANGED vars
  BY <1>3, <1>9 DEF vars, history, worker
<1>10. ASSUME NEW fd \in Fds, Request(fd) PROVE Unique'
  BY <1>10, RequestUnique
<1>11. CASE NotifyNext
  BY <1>11, NotifyNextUnique
<1>12. ASSUME NEW c \in Channels, SendEvent(c) \/ WorkPull(c) PROVE Unique'
  BY <1>12, SendEventUnique, WorkPullUnique
<1>13. ASSUME NEW c \in Channels, WorkProto(c) \/ WorkProtoClose(c) PROVE Unique'
  BY <1>13, WorkProtoUnique
<1>14. QED
  BY <1>4, <1>5, <1>6, <1>7, <1>8, <1>9, <1>10, <1>11, <1>12, <1>13 DEF Next, WorkHandle

\* No request is answered twice: a block is pulled before it is handled, and a
\* worker that is killed in between does not put it back.
THEOREM OnlyOneAnswer == Spec => []AnsweredOnce
<1>1. Init => UniqueInv
  <2> SUFFICES ASSUME Init PROVE UniqueInv
    OBVIOUS
  <2>1. BaseInv /\ \A c \in Channels : Stream(c) = <<>> /\ Back(c) = <<>> /\ hand[c] = NoBlock
    BY BaseInit
  <2>2. Reqs(<<>>) = {} /\ Distinct(<<>>)
    BY DEF Reqs, Distinct
  <2>3. \A c \in Channels : OnePlace(c) /\ Pending(c) = {}
    BY <2>1, <2>2 DEF OnePlace, Pending, HandReqs
  <2>4. Done = {} /\ AnsweredOnce
    BY DEF Init, Done, AnsweredOnce
  <2>5. QED
    BY <2>1, <2>3, <2>4 DEF UniqueInv, Unique
<1>2. UniqueInv /\ [Next]_vars => UniqueInv'
  BY UniqueStep
<1>3. UniqueInv => AnsweredOnce
  BY DEF UniqueInv, Unique
<1>4. QED
  BY <1>1, <1>2, <1>3, PTL DEF Spec

\* While CONN is not killed and its ids have not run out, a reply goes to the
\* connection that asked, and every variable keeps to its range.
THEOREM ReplyGoesToAsker ==
  ASSUME IdsLast
  PROVE  Spec => []RepliesToAskerUnlessRestarted
<1>1. Init => BaseInv
  BY BaseInit
<1>2. BaseInv /\ [Next]_vars => BaseInv'
  BY BaseStep
<1>3. BaseInv => RepliesToAskerUnlessRestarted
  BY DEF BaseInv, Addresses, AnswersSound, RepliesToAskerUnlessRestarted
<1>4. QED
  BY <1>1, <1>2, <1>3, PTL DEF Spec

-----------------------------------------------------------------------------
(***************************************************************************)
(* The workers follow CONN.                                                *)
(***************************************************************************)

\* A sequence of replies stays one.
LEMMA RepliesKept ==
  ASSUME NEW s \in Seq(BlockType), Replies(s)
  PROVE  /\ \A b \in BlockType : b.type = "PROTO" => Replies(Append(s, b))
         /\ s # <<>> => Replies(Tail(s)) /\ Head(s).type = "PROTO"
<1>1. ASSUME NEW b \in BlockType, b.type = "PROTO" PROVE Replies(Append(s, b))
  <2> DEFINE t == Append(s, b)
  <2>1. /\ Len(t) = Len(s) + 1 /\ Len(s) \in Nat
        /\ \A i \in 1 .. Len(s) : t[i] = s[i]
        /\ t[Len(s) + 1] = b
    BY AppendProperties, LenProperties
  <2> HIDE DEF t
  <2>2. \A i \in 1 .. Len(t) :
          (i \in 1 .. Len(s) /\ t[i] = s[i]) \/ (i = Len(s) + 1 /\ t[i] = b)
    BY <2>1
  <2>3. Replies(t)
    BY <1>1, <2>2 DEF Replies
  <2>4. QED
    BY <2>3 DEF t
<1>2. ASSUME s # <<>> PROVE Replies(Tail(s)) /\ Head(s).type = "PROTO"
  <2> DEFINE t == Tail(s)
  <2>1. /\ Len(t) = Len(s) - 1 /\ Head(s) = s[1] /\ Len(s) \in Nat \ {0}
        /\ \A i \in 1 .. Len(t) : t[i] = s[i + 1]
    BY <1>2, HeadTailProperties, EmptySeq
  <2> HIDE DEF t
  <2>2. 1 \in 1 .. Len(s) /\ \A i \in 1 .. Len(t) : i + 1 \in 1 .. Len(s)
    BY <2>1
  <2>3. Replies(t) /\ Head(s).type = "PROTO"
    BY <2>1, <2>2 DEF Replies
  <2>4. QED
    BY <2>3 DEF t
<1>3. QED
  BY <1>1, <1>2

\* What a worker has to handle: the block h in its hand, if there is one, then
\* the stream of queue q and list l.
AllOf(h, q, l) == (IF h = NoBlock THEN <<>> ELSE <<h>>) \o q \o l

LEMMA HandFirst ==
  ASSUME NEW h \in BlockType \cup {NoBlock}, NEW q \in Seq(BlockType), NEW l \in Seq(BlockType)
  PROVE  /\ AllOf(h, q, l) \in Seq(BlockType)
         /\ h = NoBlock => AllOf(h, q, l) = q \o l
         /\ h # NoBlock => /\ <<h>> \in Seq(BlockType)
                           /\ AllOf(h, q, l) = <<h>> \o (q \o l)
                           /\ AllOf(h, q, l) # <<>> /\ Head(AllOf(h, q, l)) = h
                           /\ Tail(AllOf(h, q, l)) = q \o l
<1> DEFINE all == AllOf(h, q, l)  s == q \o l
<1>1. s \in Seq(BlockType)
  BY ConcatProperties
<1>2. CASE h = NoBlock
  <2>1. all = (<<>> \o q) \o l
    BY <1>2 DEF AllOf
  <2>2. <<>> \o q = q
    BY ConcatEmptySeq
  <2>3. QED
    BY <1>1, <1>2, <2>1, <2>2
<1>3. CASE h # NoBlock
  <2> DEFINE hs == <<h>>
  <2>1. hs \in Seq(BlockType) /\ hs # <<>> /\ Head(hs) = h /\ Tail(hs) = <<>>
    BY <1>3
  <2>2. all = (hs \o q) \o l
    BY <1>3 DEF AllOf
  <2> HIDE DEF hs, all
  <2>3. all = hs \o s
    BY <2>1, <2>2, Associative
  <2> HIDE DEF s
  <2>4. hs \o s \in Seq(BlockType)
    BY <1>1, <2>1, ConcatProperties
  <2>5. hs \o s # <<>> /\ Head(hs \o s) = h /\ Tail(hs \o s) = <<>> \o s
    <3>1. hs \in Seq(BlockType) /\ s \in Seq(BlockType) /\ hs # <<>>
      BY <1>1, <2>1
    <3>2. hs \o s # <<>> /\ Head(hs \o s) = Head(hs) /\ Tail(hs \o s) = Tail(hs) \o s
      BY <3>1, HeadOfBoth
    <3>3. QED
      BY <2>1, <3>2
  <2>6. <<>> \o s = s
    BY <1>1, ConcatEmptySeq
  <2>7. /\ all \in Seq(BlockType) /\ hs \in Seq(BlockType) /\ all = hs \o s
        /\ all # <<>> /\ Head(all) = h /\ Tail(all) = s
    BY <2>1, <2>3, <2>4, <2>5, <2>6
  <2>8. QED
    BY <1>3, <2>7 DEF all, s, hs
<1>4. QED
  BY <1>2, <1>3

\* A push puts a block behind all a worker has to handle, a pull changes
\* nothing about that, and handling takes the first one away.
LEMMA ToHandleSteps ==
  ASSUME BaseInv, BaseInv', NEW c \in Channels
  PROVE  /\ UNCHANGED <<Stream(c), hand[c]>> => ToHandle(c)' = ToHandle(c)
         /\ \A b \in BlockType :
              Stream(c)' = Append(Stream(c), b) /\ hand'[c] = hand[c] =>
                ToHandle(c)' = Append(ToHandle(c), b)
         /\ WorkPull(c) => ToHandle(c)' = ToHandle(c)
         /\ hand[c] # NoBlock /\ hand'[c] = NoBlock /\ Stream(c)' = Stream(c) =>
              ToHandle(c)' = Tail(ToHandle(c))
<1>1. /\ TypeOK /\ Stream(c) \in Seq(BlockType)
      /\ hand[c] \in BlockType \cup {NoBlock} /\ hand'[c] \in BlockType \cup {NoBlock}
      /\ recv_queue[c] \in Seq(BlockType) /\ recv_list[c] \in Seq(BlockType)
      /\ recv_queue'[c] \in Seq(BlockType) /\ recv_list'[c] \in Seq(BlockType)
  BY ChannelTypes DEF BaseInv, TypeOK
<1>2. /\ hand[c] = NoBlock => ToHandle(c) = Stream(c)
      /\ hand[c] # NoBlock => /\ <<hand[c]>> \in Seq(BlockType)
                              /\ ToHandle(c) = <<hand[c]>> \o Stream(c)
                              /\ Tail(ToHandle(c)) = Stream(c)
  <2>1. ToHandle(c) = AllOf(hand[c], recv_queue[c], recv_list[c])
    BY DEF ToHandle, AllOf
  <2> DEFINE q == recv_queue[c]  l == recv_list[c]  h == hand[c]
  <2>2. Stream(c) = q \o l /\ q \in Seq(BlockType) /\ l \in Seq(BlockType)
        /\ h \in BlockType \cup {NoBlock} /\ ToHandle(c) = AllOf(h, q, l)
    BY <1>1, <2>1 DEF Stream
  <2> HIDE DEF q, l, h
  <2>3. /\ h = NoBlock => AllOf(h, q, l) = q \o l
        /\ h # NoBlock => /\ <<h>> \in Seq(BlockType)
                          /\ AllOf(h, q, l) = <<h>> \o (q \o l)
                          /\ Tail(AllOf(h, q, l)) = q \o l
    BY <2>2, HandFirst
  <2>4. /\ h = NoBlock => ToHandle(c) = Stream(c)
        /\ h # NoBlock => /\ <<h>> \in Seq(BlockType)
                          /\ ToHandle(c) = <<h>> \o Stream(c)
                          /\ Tail(ToHandle(c)) = Stream(c)
    BY <2>2, <2>3
  <2>5. QED
    BY <2>4 DEF h
<1>3. /\ hand'[c] = NoBlock => ToHandle(c)' = Stream(c)'
      /\ hand'[c] # NoBlock => ToHandle(c)' = <<hand'[c]>> \o Stream(c)'
  <2>1. ToHandle(c)' = AllOf(hand'[c], recv_queue'[c], recv_list'[c])
    BY DEF ToHandle, AllOf
  <2>2. QED
    BY <1>1, <2>1, HandFirst DEF Stream
<1>4. UNCHANGED <<Stream(c), hand[c]>> => ToHandle(c)' = ToHandle(c)
  BY <1>2, <1>3
<1>5. ASSUME NEW b \in BlockType, Stream(c)' = Append(Stream(c), b), hand'[c] = hand[c]
      PROVE  ToHandle(c)' = Append(ToHandle(c), b)
  <2>1. CASE hand[c] = NoBlock
    BY <1>2, <1>3, <1>5, <2>1
  <2>2. CASE hand[c] # NoBlock
    <3> DEFINE h == <<hand[c]>>
    <3>1. /\ h \in Seq(BlockType) /\ ToHandle(c) = h \o Stream(c)
          /\ ToHandle(c)' = h \o Append(Stream(c), b)
      BY <1>2, <1>3, <1>5, <2>2
    <3> HIDE DEF h
    <3>2. <<b>> \in Seq(BlockType) /\ Append(Stream(c), b) = Stream(c) \o <<b>>
      BY <1>1, AppendIsConcat
    <3>3. h \o (Stream(c) \o <<b>>) = (h \o Stream(c)) \o <<b>>
      BY <1>1, <3>1, <3>2, Associative
    <3>4. h \o Stream(c) \in Seq(BlockType)
      BY <1>1, <3>1, ConcatProperties
    <3>5. (h \o Stream(c)) \o <<b>> = Append(h \o Stream(c), b)
      BY <3>4, AppendIsConcat
    <3>6. QED
      BY <3>1, <3>2, <3>3, <3>5
  <2>3. QED
    BY <2>1, <2>2
<1>6. ASSUME WorkPull(c) PROVE ToHandle(c)' = ToHandle(c)
  <2>1. /\ hand[c] = NoBlock /\ recv_queue[c] # <<>>
        /\ hand' = [hand EXCEPT ![c] = Head(recv_queue[c])]
        /\ recv_queue' = [recv_queue EXCEPT ![c] = Tail(@)] /\ recv_list' = recv_list
    BY <1>6 DEF WorkPull
  <2>2. /\ Stream(c) # <<>> /\ Head(recv_queue[c]) = Head(Stream(c))
        /\ Head(Stream(c)) \in BlockType
        /\ Stream(c)' = Tail(Stream(c))
    BY <1>1, <2>1, RecvPulled
  <2>3. hand'[c] = Head(Stream(c)) /\ hand'[c] # NoBlock
    BY <1>1, <2>1, <2>2, NothingAssumption DEF TypeOK
  <2>4. ToHandle(c)' = <<Head(Stream(c))>> \o Tail(Stream(c))
    BY <1>3, <2>2, <2>3
  <2>5. <<Head(Stream(c))>> \o Tail(Stream(c)) = Stream(c)
    BY <1>1, <2>2, HeadTailProperties
  <2>6. QED
    BY <1>2, <2>1, <2>4, <2>5
<1>7. hand[c] # NoBlock /\ hand'[c] = NoBlock /\ Stream(c)' = Stream(c) =>
        ToHandle(c)' = Tail(ToHandle(c))
  BY <1>2, <1>3
<1>8. QED
  BY <1>4, <1>5, <1>6, <1>7

\* What FollowInv says in a run without upsets.
LEMMA FollowParts ==
  ASSUME FollowInv, Undisturbed
  PROVE  /\ BaseInv /\ TypeOK /\ NoteRight /\ NoteSound
         /\ \A c \in Channels :
              /\ InStep(c) /\ Stream(c) \in Seq(BlockType) /\ Back(c) \in Seq(BlockType)
              /\ ToHandle(c) \in Seq(BlockType)
         /\ \A c \in Channels, fd \in Fds :
              ups[c][fd] = IF g_link_flags[c][fd] = 0 THEN 0 ELSE 1
<1>1. /\ BaseInv /\ TypeOK /\ NoteRight /\ LinksPaired /\ NoteSound
      /\ \A c \in Channels : InStep(c)
  BY DEF FollowInv, BaseInv, Following, Addresses
<1>2. upsets = <<0, 0, 0>>
  BY DEF Undisturbed, upsets
<1>3. \A c \in Channels : Stream(c) \in Seq(BlockType) /\ Back(c) \in Seq(BlockType)
  BY <1>1, ChannelTypes
<1>4. ASSUME NEW c \in Channels PROVE ToHandle(c) \in Seq(BlockType)
  <2>1. hand[c] \in BlockType \cup {NoBlock}
        /\ recv_queue[c] \in Seq(BlockType) /\ recv_list[c] \in Seq(BlockType)
    BY <1>1, ChannelTypes DEF TypeOK
  <2>2. ToHandle(c) = AllOf(hand[c], recv_queue[c], recv_list[c])
    BY DEF ToHandle, AllOf
  <2>3. AllOf(hand[c], recv_queue[c], recv_list[c]) \in Seq(BlockType)
    <3>1. PICK h, q, l : h = hand[c] /\ q = recv_queue[c] /\ l = recv_list[c]
      OBVIOUS
    <3>2. h \in BlockType \cup {NoBlock} /\ q \in Seq(BlockType) /\ l \in Seq(BlockType)
      BY <2>1, <3>1
    <3>3. AllOf(h, q, l) \in Seq(BlockType)
      BY <3>2, HandFirst
    <3>4. QED
      BY <3>1, <3>3
  <2>4. QED
    BY <2>2, <2>3
<1>5. \A c \in Channels, fd \in Fds : ups[c][fd] = IF g_link_flags[c][fd] = 0 THEN 0 ELSE 1
  BY <1>1, <1>2 DEF LinksPaired
<1>6. QED
  BY <1>1, <1>3, <1>4, <1>5

\* Steps that neither push a block to a worker nor let one handle a block.
LEMMA FollowKeeps ==
  ASSUME FollowInv, UNCHANGED <<upsets, g_link_flags, ups>>,
         Undisturbed =>
           /\ \A c \in Channels :
                /\ ToHandle(c)' = ToHandle(c) /\ Replies(Back(c)')
                /\ \A fd \in Fds : Told(c, fd)' = Told(c, fd)
           /\ NoteRight'
  PROVE  Following'
<1>1. SUFFICES ASSUME Undisturbed PROVE (\A c \in Channels : InStep(c))' /\ LinksPaired'
  <2>1. Undisturbed' = Undisturbed
    BY DEF Undisturbed, upsets
  <2>2. QED
    BY <1>1, <2>1 DEF Following
<1>2. ASSUME NEW c \in Channels PROVE InStep(c)'
  <2>1. InStep(c)
    BY <1>1, FollowParts
  <2>2. ASSUME NEW fd \in Fds
        PROVE  Chained(ToHandle(c)', fd, g_link_flags'[c][fd], Told(c, fd)')
    <3>1. Chained(ToHandle(c), fd, g_link_flags[c][fd], Told(c, fd))
      BY <2>1 DEF InStep
    <3>2. ToHandle(c)' = ToHandle(c) /\ g_link_flags' = g_link_flags
          /\ Told(c, fd)' = Told(c, fd)
      BY <1>1
    <3>3. QED
      BY <3>1, <3>2
  <2>3. Replies(Back(c)')
    BY <1>1
  <2>4. QED
    BY <2>2, <2>3 DEF InStep
<1>3. LinksPaired'
  BY DEF FollowInv, Following, LinksPaired, Undisturbed, upsets
<1>4. QED
  BY <1>2, <1>3

\* What CONN has told while it is not telling anything.
LEMMA ToldReady ==
  ASSUME Ready, NEW c \in Channels, NEW fd \in Fds
  PROVE  Told(c, fd) = IF handlers[fd] = NoHandler \/ handlers[fd].m_is_closed THEN 0
                       ELSE handlers[fd].id
BY DEF Told, Ready

\* It has told nothing about a new connection, ...
LEMMA AcceptFollows ==
  ASSUME FollowInv, BaseInv', NEW fd \in Fds, Accept(fd) \/ AcceptFails(fd)
  PROVE  Following'
<1>1. /\ UNCHANGED <<recvs, sends, worker, upsets, hand, g_link_flags, ups>> /\ Ready
      /\ handlers[fd] = NoHandler
  BY DEF Accept, AcceptFails, worker
<1>2. ASSUME Undisturbed
      PROVE  /\ \A c \in Channels :
                  /\ ToHandle(c)' = ToHandle(c) /\ Replies(Back(c)')
                  /\ \A f \in Fds : Told(c, f)' = Told(c, f)
             /\ NoteRight'
  <2>1. /\ BaseInv /\ BaseInv' /\ TypeOK /\ NoteRight /\ \A c \in Channels : Replies(Back(c))
    BY <1>2, FollowParts DEF InStep
  <2>2. \A c \in Channels : Stream(c)' = Stream(c) /\ Back(c)' = Back(c)
    BY <1>1, <2>1, FrameKeeps
  <2>3. \A c \in Channels : ToHandle(c)' = ToHandle(c)
    BY <1>1, <2>1, <2>2, ToHandleSteps
  <2>4. CASE AcceptFails(fd)
    <3>1. handlers' = handlers /\ note' = note
      BY <2>4 DEF AcceptFails
    <3>2. NoteRight' /\ \A c \in Channels, f \in Fds : Told(c, f)' = Told(c, f)
      BY <2>1, <3>1 DEF NoteRight, Told
    <3>3. QED
      BY <2>1, <2>2, <2>3, <3>2
  <2>5. CASE Accept(fd)
    <3> DEFINE h == [id |-> LinkId(NextId), link |-> accepted + 1,
                     sending |-> FALSE, m_is_closed |-> FALSE]
    <3>1. /\ handlers' = [handlers EXCEPT ![fd] = h]
          /\ note' = [block |-> Block("LOGIN", fd, LinkId(NextId), NoReq), next |-> 0,
                      then |-> "open"]
      BY <2>5 DEF Accept, Notify
    <3>2. h.id = LinkId(NextId) /\ ~h.m_is_closed
      OBVIOUS
    <3>3. /\ note'.block.type = "LOGIN" /\ note'.block.fd = fd
          /\ note'.block.id = LinkId(NextId) /\ note'.next = 0 /\ note'.then = "open"
      BY <3>1 DEF Block
    <3> HIDE DEF h
    <3>4. handlers'[fd] = h /\ \A f \in Fds \ {fd} : handlers'[f] = handlers[f]
      BY <2>1, <3>1 DEF TypeOK
    <3>5. NoteRight'
      BY <2>1, <3>2, <3>3, <3>4 DEF NoteRight
    <3>6. note' # NoNote
      <4>1. h \in HandlerType /\ h # NoHandler
        <5>1. LinkId(NextId) \in 1 .. IntMax
          BY <2>1, Bounds DEF TypeOK, NextId, LinkId
        <5>2. accepted + 1 \in Links
          BY <2>1, <2>5, Bounds DEF Accept, TypeOK, Links
        <5>3. h \in HandlerType
          BY <5>1, <5>2 DEF h, HandlerType
        <5>4. QED
          BY <5>3, NothingAssumption
      <4>2. Notify("LOGIN", fd, LinkId(NextId), "open")
        BY <2>5 DEF Accept
      <4>3. LinkId(NextId) \in 1 .. IntMax
        BY <3>2, <4>1 DEF HandlerType
      <4>4. QED
        BY <3>4, <4>1, <4>2, <4>3, Notifies
    <3>7. ASSUME NEW c \in Channels, NEW f \in Fds PROVE Told(c, f)' = Told(c, f)
      <4>1. Told(c, f) = IF handlers[f] = NoHandler \/ handlers[f].m_is_closed THEN 0
                         ELSE handlers[f].id
        BY <1>1, ToldReady
      <4>2. CASE f = fd
        <5>1. 0 <= c
          BY Bounds DEF Channels
        <5>2. QED
          BY <1>1, <3>3, <3>6, <4>1, <4>2, <5>1 DEF Told
      <4>3. CASE f # fd
        BY <3>3, <3>4, <3>6, <4>1, <4>3 DEF Told
      <4>4. QED
        BY <4>2, <4>3
    <3>8. QED
      BY <2>1, <2>2, <2>3, <3>5, <3>7
  <2>6. QED
    BY <2>4, <2>5
<1>3. QED
  BY <1>1, <1>2, FollowKeeps

\* ... nothing yet about the end of one, ...
LEMMA ErrorTold ==
  ASSUME FollowInv, Undisturbed, Ready, NEW fd \in Fds, handlers[fd] # NoHandler, HandleError(fd)
  PROVE  NoteRight' /\ \A c \in Channels, f \in Fds : Told(c, f)' = Told(c, f)
<1>1. TypeOK /\ NoteRight
  BY FollowParts
<1>2. ~handlers[fd].m_is_closed
  BY <1>1 DEF NoteRight
<1>3. Notify("CLOSE", fd, handlers[fd].id, "fini") /\ handlers' = handlers
  BY <1>2 DEF HandleError
<1>4. handlers[fd].id \in 1 .. IntMax
  BY <1>1, HandlerAt
<1>5. /\ note' # NoNote /\ note'.next = 0 /\ note'.then = "fini"
      /\ note'.block.type = "CLOSE" /\ note'.block.fd = fd
      /\ note'.block.id = handlers[fd].id
  BY <1>3, <1>4, Notifies
<1>6. NoteRight'
  BY <1>1, <1>3, <1>5 DEF NoteRight
<1>7. ASSUME NEW c \in Channels, NEW f \in Fds PROVE Told(c, f)' = Told(c, f)
  <2>1. Told(c, f) = IF handlers[f] = NoHandler \/ handlers[f].m_is_closed THEN 0
                     ELSE handlers[f].id
    BY ToldReady
  <2>2. 0 <= c
    BY Bounds DEF Channels
  <2>3. CASE f = fd
    BY <1>2, <1>5, <2>1, <2>2, <2>3 DEF Told
  <2>4. CASE f # fd
    BY <1>3, <1>5, <2>1, <2>4 DEF Told
  <2>5. QED
    BY <2>3, <2>4
<1>8. QED
  BY <1>6, <1>7

\* ... and nothing when it has sent something.
LEMMA SendingTold ==
  ASSUME FollowInv, Undisturbed, NEW fd \in Fds, handlers[fd] # NoHandler, NEW sending \in BOOLEAN,
         handlers' = [handlers EXCEPT ![fd].sending = sending], note' = note
  PROVE  NoteRight' /\ \A c \in Channels, f \in Fds : Told(c, f)' = Told(c, f)
<1>1. TypeOK /\ NoteRight
  BY FollowParts
<1> DEFINE h == [handlers[fd] EXCEPT !.sending = sending]
<1>2. handlers[fd] \in HandlerType
  BY <1>1, HandlerAt
<1>3. /\ h.id = handlers[fd].id /\ h.m_is_closed = handlers[fd].m_is_closed
  BY <1>2 DEF HandlerType
<1>4. handlers' = [handlers EXCEPT ![fd] = h]
  OBVIOUS
<1>5. h # NoHandler
  <2>1. h \in HandlerType
    BY <1>2 DEF HandlerType
  <2> HIDE DEF h
  <2>2. QED
    BY <2>1, NothingAssumption
<1> HIDE DEF h
<1>6. handlers'[fd] = h /\ \A f \in Fds \ {fd} : handlers'[f] = handlers[f]
  BY <1>1, <1>4 DEF TypeOK
<1>7. NoteRight'
  BY <1>1, <1>3, <1>5, <1>6 DEF NoteRight
<1>8. ASSUME NEW c \in Channels, NEW f \in Fds PROVE Told(c, f)' = Told(c, f)
  BY <1>3, <1>5, <1>6, <1>8 DEF Told
<1>9. QED
  BY <1>7, <1>8

\* A connection ends or has sent everything.
LEMMA GoneFollows ==
  ASSUME FollowInv, BaseInv', NEW fd \in Fds, ClientGone(fd) \/ Flush(fd)
  PROVE  Following'
<1>1. /\ UNCHANGED <<recvs, sends, worker, upsets, hand, g_link_flags, ups>> /\ Ready
      /\ handlers[fd] # NoHandler
  BY DEF ClientGone, Flush, worker
<1>2. ASSUME Undisturbed
      PROVE  /\ \A c \in Channels :
                  /\ ToHandle(c)' = ToHandle(c) /\ Replies(Back(c)')
                  /\ \A f \in Fds : Told(c, f)' = Told(c, f)
             /\ NoteRight'
  <2>1. /\ BaseInv /\ TypeOK /\ NoteRight /\ \A c \in Channels : Replies(Back(c))
    BY <1>2, FollowParts DEF InStep
  <2>2. \A c \in Channels : Stream(c)' = Stream(c) /\ Back(c)' = Back(c)
    BY <1>1, <2>1, FrameKeeps
  <2>3. \A c \in Channels : ToHandle(c)' = ToHandle(c)
    BY <1>1, <2>1, <2>2, ToHandleSteps
  <2>4. NoteRight' /\ \A c \in Channels, f \in Fds : Told(c, f)' = Told(c, f)
    <3>1. CASE HandleError(fd)
      BY <1>1, <1>2, <3>1, ErrorTold
    <3>2. CASE ~HandleError(fd)
      <4>1. handlers' = [handlers EXCEPT ![fd].sending = FALSE] /\ note' = note
        BY <3>2 DEF ClientGone, Flush
      <4>2. FALSE \in BOOLEAN
        OBVIOUS
      <4>3. QED
        BY <1>1, <1>2, <4>1, <4>2, SendingTold
    <3>3. QED
      BY <3>1, <3>2
  <2>5. QED
    BY <2>1, <2>2, <2>3, <2>4
<1>3. QED
  BY <1>1, <1>2, FollowKeeps

\* CONN takes a reply; a worker has sent nothing else.
LEMMA SendEventFollows ==
  ASSUME FollowInv, BaseInv', NEW c \in Channels, SendEvent(c)
  PROVE  Following'
<1> DEFINE b == Head(send_queue[c])
<1>1. /\ UNCHANGED <<recvs, worker, upsets, hand, g_link_flags, ups, send_list>> /\ Ready
      /\ PullSend(c)
  BY DEF SendEvent, Discard, Deliver, DeliverFails, Shut, PullSend, worker
<1>2. ASSUME Undisturbed
      PROVE  /\ \A d \in Channels :
                  /\ ToHandle(d)' = ToHandle(d) /\ Replies(Back(d)')
                  /\ \A f \in Fds : Told(d, f)' = Told(d, f)
             /\ NoteRight'
  <2>1. /\ BaseInv /\ TypeOK /\ NoteRight
        /\ \A d \in Channels : Replies(Back(d)) /\ Back(d) \in Seq(BlockType)
    BY <1>2, FollowParts DEF InStep
  <2>2. /\ Back(c) # <<>> /\ b = Head(Back(c)) /\ b \in BlockType
        /\ Back(c)' = Tail(Back(c))
        /\ \A d \in Channels \ {c} : Back(d)' = Back(d)
    BY <1>1, <2>1, SendPulled
  <2>3. Replies(Back(c)') /\ b.type = "PROTO"
    BY <2>1, <2>2, RepliesKept
  <2>4. \A d \in Channels : Replies(Back(d)')
    BY <2>1, <2>2, <2>3
  <2>5. \A d \in Channels : ToHandle(d)' = ToHandle(d)
    BY <1>1, <2>1, FrameKeeps, ToHandleSteps
  <2>6. b.fd \in Fds
    BY <2>2 DEF BlockType
  <2>7. NoteRight' /\ \A d \in Channels, f \in Fds : Told(d, f)' = Told(d, f)
    <3>1. CASE Discard(c)
      BY <2>1, <3>1 DEF Discard, conn, NoteRight, Told
    <3>2. CASE Deliver(c)
      <4>1. PICK sending \in {TRUE, handlers[b.fd].sending} :
              handlers' = [handlers EXCEPT ![b.fd].sending = sending]
        BY <3>2 DEF Deliver
      <4>2. handlers[b.fd] # NoHandler /\ note' = note
        BY <3>2 DEF Deliver, Addressed
      <4> HIDE DEF b
      <4>3. sending \in BOOLEAN
        BY <2>1, <2>6, <4>1, <4>2, HandlerAt
      <4>4. QED
        BY <1>2, <2>6, <4>1, <4>2, <4>3, SendingTold
    <3>3. CASE DeliverFails(c)
      <4>1. HandleError(b.fd) /\ handlers[b.fd] # NoHandler
        BY <3>3 DEF DeliverFails, Addressed
      <4> HIDE DEF b
      <4>2. QED
        BY <1>1, <1>2, <2>6, <4>1, ErrorTold
    <3>4. CASE Shut(c)
      BY <2>3, <3>4 DEF Shut
    <3>5. QED
      BY <3>1, <3>2, <3>3, <3>4 DEF SendEvent
  <2>8. QED
    BY <2>4, <2>5, <2>7
<1>3. QED
  BY <1>1, <1>2, FollowKeeps

\* Moving blocks from the lists to the queues, or one to a hand.
LEMMA MovesFollow ==
  ASSUME FollowInv, BaseInv',
         ConnTick \/ (\E c \in Channels : WorkTick(c) \/ WorkPull(c)) \/ UNCHANGED vars
  PROVE  Following'
<1>1. UNCHANGED <<conn, handlers, note, upsets, g_link_flags, ups>>
  BY DEF ConnTick, WorkTick, WorkPull, vars, worker, conn
<1>2. ASSUME Undisturbed
      PROVE  /\ \A d \in Channels :
                  /\ ToHandle(d)' = ToHandle(d) /\ Replies(Back(d)')
                  /\ \A f \in Fds : Told(d, f)' = Told(d, f)
             /\ NoteRight'
  <2>1. /\ BaseInv /\ TypeOK /\ NoteRight
        /\ \A d \in Channels : Replies(Back(d)) /\ Back(d) \in Seq(BlockType)
    BY <1>2, FollowParts DEF InStep
  <2>2. NoteRight' /\ \A d \in Channels, f \in Fds : Told(d, f)' = Told(d, f)
    BY <1>1, <2>1 DEF NoteRight, Told
  <2>3. CASE ConnTick \/ UNCHANGED vars
    <3>1. UNCHANGED <<sends, hand>>
      BY <2>3 DEF ConnTick, vars, worker
    <3>2. \A d \in Channels : Stream(d)' = Stream(d) /\ Back(d)' = Back(d)
      BY <2>1, <2>3, <3>1, TicksKeep, FrameKeeps DEF vars
    <3>3. QED
      BY <2>1, <2>2, <3>1, <3>2, ToHandleSteps
  <2>4. ASSUME NEW c \in Channels, WorkTick(c)
        PROVE  \A d \in Channels : ToHandle(d)' = ToHandle(d) /\ Replies(Back(d)')
    <3>1. UNCHANGED <<recvs, hand>>
      BY <2>4 DEF WorkTick, worker
    <3>2. \A d \in Channels : Stream(d)' = Stream(d) /\ Back(d)' = Back(d)
      BY <2>1, <2>4, <3>1, TicksKeep, FrameKeeps
    <3>3. QED
      BY <2>1, <3>1, <3>2, ToHandleSteps
  <2>5. ASSUME NEW c \in Channels, WorkPull(c)
        PROVE  \A d \in Channels : ToHandle(d)' = ToHandle(d) /\ Replies(Back(d)')
    <3>1. /\ UNCHANGED sends /\ recv_queue[c] # <<>> /\ recv_list' = recv_list
          /\ recv_queue' = [recv_queue EXCEPT ![c] = Tail(@)]
          /\ hand' = [hand EXCEPT ![c] = Head(recv_queue[c])]
      BY <2>5 DEF WorkPull
    <3>2. \A d \in Channels \ {c} : Stream(d)' = Stream(d) /\ hand'[d] = hand[d]
      BY <2>1, <3>1, RecvPulled DEF TypeOK
    <3>3. \A d \in Channels \ {c} : ToHandle(d)' = ToHandle(d)
      BY <2>1, <3>2, ToHandleSteps
    <3>4. ToHandle(c)' = ToHandle(c)
      BY <2>1, <2>5, ToHandleSteps
    <3>5. QED
      BY <2>1, <3>1, <3>3, <3>4, FrameKeeps
  <2>6. QED
    BY <2>2, <2>3, <2>4, <2>5
<1>3. QED
  BY <1>1, <1>2, FollowKeeps

\* CONN pushes a block to one worker, and by that has told it something.
LEMMA PushFollows ==
  ASSUME FollowInv, BaseInv', Undisturbed, UNCHANGED <<sends, worker, upsets>>,
         NEW e \in Channels, NEW b \in BlockType,
         Stream(e)' = Append(Stream(e), b),
         \A d \in Channels \ {e} : Stream(d)' = Stream(d),
         Told(e, b.fd) = IdBefore(b), Told(e, b.fd)' = IdAfter(b),
         \A c \in Channels, fd \in Fds :
           (c = e /\ fd = b.fd) \/ Told(c, fd)' = Told(c, fd),
         NoteRight'
  PROVE  Following'
<1>1. /\ BaseInv /\ TypeOK
      /\ \A c \in Channels : InStep(c) /\ ToHandle(c) \in Seq(BlockType)
  BY FollowParts
<1>2. /\ UNCHANGED <<hand, g_link_flags, ups>> /\ \A c \in Channels : Back(c)' = Back(c)
  BY <1>1, FrameKeeps DEF worker
<1>3. ToHandle(e)' = Append(ToHandle(e), b)
  BY <1>1, <1>2, ToHandleSteps
<1>4. \A c \in Channels \ {e} : ToHandle(c)' = ToHandle(c)
  BY <1>1, <1>2, ToHandleSteps
<1>5. ASSUME NEW c \in Channels PROVE InStep(c)'
  <2>1. ASSUME NEW fd \in Fds
        PROVE  Chained(ToHandle(c)', fd, g_link_flags[c][fd], Told(c, fd)')
    <3>1. Chained(ToHandle(c), fd, g_link_flags[c][fd], Told(c, fd))
      BY <1>1 DEF InStep
    <3>2. CASE c # e
      BY <1>4, <3>1, <3>2
    <3>3. CASE c = e
      <4> DEFINE v == g_link_flags[e][fd]  w == Told(e, fd)  s == ToHandle(e)
      <4>1. s \in Seq(BlockType) /\ Chained(s, fd, v, w) /\ (b.fd = fd => w = IdBefore(b))
        BY <1>1, <3>1, <3>3
      <4> HIDE DEF v, w, s
      <4>2. Chained(Append(s, b), fd, v, IF b.fd = fd THEN IdAfter(b) ELSE w)
        BY <4>1, ChainAppend
      <4>3. Told(e, fd)' = IF b.fd = fd THEN IdAfter(b) ELSE w
        BY DEF w
      <4>4. QED
        BY <1>3, <3>3, <4>2, <4>3 DEF s, v
    <3>4. QED
      BY <3>2, <3>3
  <2>2. Replies(Back(c)')
    BY <1>1, <1>2 DEF InStep
  <2>3. QED
    BY <1>2, <2>1, <2>2 DEF InStep
<1>6. LinksPaired'
  BY <1>2 DEF FollowInv, Following, LinksPaired, Undisturbed, upsets
<1>7. QED
  BY <1>5, <1>6 DEF Following

\* A request that goes to a worker has the id it was told.
LEMMA RequestFollows ==
  ASSUME FollowInv, BaseInv', NEW fd \in Fds, Request(fd)
  PROVE  Following'
<1>1. /\ Ready /\ handlers[fd] # NoHandler /\ ~handlers[fd].m_is_closed
      /\ Len(asked) < MaxReqs
      /\ RecvPush(SelectChannel, Block("PROTO", fd, handlers[fd].id, Len(asked) + 1), FALSE)
      /\ UNCHANGED <<handlers, note, sends, worker, upsets, hand, g_link_flags, ups>>
  BY DEF Request, worker
<1>2. CASE ~Undisturbed
  BY <1>1, <1>2, FollowKeeps
<1>3. CASE Undisturbed
  <2>1. /\ BaseInv /\ TypeOK /\ NoteRight /\ \A c \in Channels : Replies(Back(c))
    BY <1>3, FollowParts DEF InStep
  <2>2. PICK e \in Channels : e = SelectChannel
    BY <2>1, SelectsChannel DEF TypeOK
  <2>3. PICK b \in BlockType : b = Block("PROTO", fd, handlers[fd].id, Len(asked) + 1)
    <3>1. Len(asked) \in Nat /\ handlers[fd].id \in 1 .. IntMax
      BY <1>1, <2>1, HandlerAt, LenProperties DEF TypeOK
    <3>2. QED
      BY <1>1, <3>1, Bounds DEF Block, BlockType, Types
  <2>4. b.fd = fd /\ IdBefore(b) = handlers[fd].id /\ IdAfter(b) = handlers[fd].id
    BY <2>3 DEF Block, IdBefore, IdAfter
  <2>5. /\ Stream(e)' = Append(Stream(e), b) \/ Stream(e)' = Stream(e)
        /\ \A d \in Channels \ {e} : Stream(d)' = Stream(d)
    BY <1>1, <2>1, <2>2, <2>3, RecvPushed
  <2>6. NoteRight' /\ \A c \in Channels, f \in Fds : Told(c, f)' = Told(c, f)
    BY <1>1, <2>1 DEF NoteRight, Told
  <2>7. Told(e, fd) = handlers[fd].id
    BY <1>1, ToldReady
  <2>8. CASE Stream(e)' = Append(Stream(e), b)
    <3>1. Told(e, b.fd) = IdBefore(b) /\ Told(e, b.fd)' = IdAfter(b)
      BY <2>4, <2>6, <2>7
    <3>2. QED
      BY <1>1, <1>3, <2>3, <2>5, <2>6, <2>8, <3>1, PushFollows
  <2>9. CASE Stream(e)' = Stream(e)
    <3>1. \A d \in Channels : Stream(d)' = Stream(d) /\ Back(d)' = Back(d)
      BY <1>1, <2>1, <2>5, <2>9, FrameKeeps
    <3>2. \A d \in Channels : ToHandle(d)' = ToHandle(d)
      BY <1>1, <2>1, <3>1, ToHandleSteps
    <3>3. QED
      BY <1>1, <2>1, <2>6, <3>1, <3>2, FollowKeeps
  <2>10. QED
    BY <2>5, <2>8, <2>9
<1>4. QED
  BY <1>2, <1>3

\* A turn of the loop tells one worker what the loop is about.
LEMMA NotifyNextFollows ==
  ASSUME FollowInv, BaseInv', NotifyNext
  PROVE  Following'
<1>1. /\ note # NoNote /\ RecvPush(note.next, note.block, TRUE)
      /\ UNCHANGED <<sends, worker, upsets, hand, g_link_flags, ups>>
  BY DEF NotifyNext, NotifyOne, Ready, worker
<1>2. CASE ~Undisturbed
  BY <1>1, <1>2, FollowKeeps
<1>3. CASE Undisturbed
  <2>1. BaseInv /\ TypeOK /\ NoteRight /\ NoteSound
    BY <1>3, FollowParts
  <2>2. PICK b \in BlockType, e \in Channels : b = note.block /\ e = note.next
    BY <1>1, <2>1 DEF TypeOK, NoteType
  <2>3. RecvPush(e, b, TRUE) /\ TRUE \in BOOLEAN
    BY <1>1, <2>2
  <2>4. /\ Stream(e)' = Append(Stream(e), b)
        /\ \A d \in Channels \ {e} : Stream(d)' = Stream(d)
    <3>1. ASSUME NEW safe \in BOOLEAN, safe = TRUE
          PROVE  /\ Stream(e)' = Append(Stream(e), b) \/ (~safe /\ Stream(e)' = Stream(e))
                 /\ \A d \in Channels \ {e} : Stream(d)' = Stream(d)
      BY <2>1, <2>3, <3>1, RecvPushed
    <3>2. QED
      BY <2>3, <3>1
  <2>5. /\ note \in NoteType /\ b.fd \in Fds /\ b.id \in 1 .. IntMax
        /\ handlers[b.fd] # NoHandler /\ handlers[b.fd].id = b.id
        /\ ~handlers[b.fd].m_is_closed
        /\ \/ b.type = "LOGIN" /\ note.then = "open"
           \/ b.type = "CLOSE" /\ note.then = "fini"
    BY <1>1, <2>1, <2>2 DEF TypeOK, BlockType, NoteRight, NoteSound
  <2>6. e \in 0 .. WorkNum - 1 /\ WorkNum \in Nat /\ \A c \in Channels : c \in 0 .. WorkNum - 1
    BY Bounds DEF Channels
  <2>7. Told(e, b.fd) = IdBefore(b)
    BY <1>1, <2>2, <2>5, <2>6 DEF Told, IdBefore
  <2>8. CASE e + 1 < WorkNum
    <3>1. note' = [note EXCEPT !.next = @ + 1] /\ handlers' = handlers
      BY <2>2, <2>8 DEF NotifyNext
    <3>2. /\ note'.block = b /\ note'.next = e + 1 /\ note'.then = note.then
      BY <2>2, <2>5, <3>1 DEF NoteType
    <3>3. note' # NoNote
      <4>1. e + 1 \in Channels
        BY <2>6, <2>8 DEF Channels
      <4>2. note' \in NoteType
        BY <2>2, <2>5, <3>1, <4>1 DEF NoteType
      <4>3. QED
        BY <4>2, NothingAssumption
    <3>4. NoteRight'
      BY <1>1, <2>1, <2>2, <3>1, <3>2 DEF NoteRight
    <3>5. Told(e, b.fd)' = IdAfter(b)
      BY <2>5, <2>6, <3>2, <3>3 DEF Told, IdAfter
    <3>6. ASSUME NEW c \in Channels, NEW fd \in Fds, ~(c = e /\ fd = b.fd)
          PROVE  Told(c, fd)' = Told(c, fd)
      <4>1. CASE fd # b.fd
        BY <2>2, <3>1, <3>2, <4>1 DEF Told
      <4>2. CASE fd = b.fd
        <5>1. (e <= c) <=> (e + 1 <= c)
          BY <2>6, <3>6, <4>2
        <5>2. QED
          BY <1>1, <2>2, <3>2, <3>3, <4>2, <5>1 DEF Told
      <4>3. QED
        BY <4>1, <4>2
    <3>7. QED
      BY <1>1, <1>3, <2>4, <2>7, <3>4, <3>5, <3>6, PushFollows
  <2>9. CASE ~(e + 1 < WorkNum)
    <3>1. /\ note' = NoNote
          /\ note.then = "open" => handlers' = handlers
          /\ note.then = "fini" => handlers' = [handlers EXCEPT ![b.fd] = NoHandler]
      BY <2>2, <2>9 DEF NotifyNext
    <3>2. \A fd \in Fds : fd # b.fd => handlers'[fd] = handlers[fd]
      BY <2>1, <2>5, <3>1 DEF TypeOK
    <3>3. /\ b.type = "LOGIN" => handlers'[b.fd] = handlers[b.fd]
          /\ b.type # "LOGIN" => handlers'[b.fd] = NoHandler
      BY <2>1, <2>5, <3>1 DEF TypeOK
    <3>4. NoteRight'
      BY <2>1, <2>5, <3>1, <3>2, <3>3 DEF NoteRight
    <3>5. \A c \in Channels : Told(c, b.fd)' = IdAfter(b)
      BY <2>5, <3>1, <3>3 DEF Told, IdAfter
    <3>6. ASSUME NEW c \in Channels, NEW fd \in Fds, ~(c = e /\ fd = b.fd)
          PROVE  Told(c, fd)' = Told(c, fd)
      <4>1. CASE fd # b.fd
        BY <2>2, <3>1, <3>2, <4>1 DEF Told
      <4>2. CASE fd = b.fd
        <5>1. ~(e <= c)
          BY <2>6, <2>9, <3>6, <4>2
        <5>2. Told(c, b.fd) = IdAfter(b)
          BY <1>1, <2>2, <2>5, <5>1 DEF Told, IdAfter
        <5>3. QED
          BY <3>5, <4>2, <5>2
      <4>3. QED
        BY <4>1, <4>2
    <3>7. QED
      BY <1>1, <1>3, <2>4, <2>7, <3>4, <3>5, <3>6, PushFollows
  <2>10. QED
    BY <2>8, <2>9
<1>4. QED
  BY <1>2, <1>3

\* A worker handles the first block, and knows what that says.
LEMMA WorkFollows ==
  ASSUME FollowInv, BaseInv', NEW c \in Channels,
         WorkLogin(c) \/ WorkProto(c) \/ WorkProtoSilent(c) \/ WorkClose(c)
  PROVE  Following'
<1> DEFINE b == hand[c]
<1>1. /\ UNCHANGED <<conn, handlers, note, recvs, upsets>>
      /\ b # NoBlock /\ hand' = [hand EXCEPT ![c] = NoBlock]
  BY DEF WorkLogin, WorkProto, WorkProtoSilent, WorkClose, Holds, Release, conn
<1>2. SUFFICES ASSUME Undisturbed
               PROVE  /\ \A d \in Channels : InStep(d)'
                      /\ LinksPaired'
                      /\ NoteRight'
  <2>1. Undisturbed' = Undisturbed
    BY <1>1 DEF Undisturbed, upsets
  <2>2. QED
    BY <1>2, <2>1 DEF Following
<1>3. /\ BaseInv /\ TypeOK /\ NoteRight
      /\ \A d \in Channels : /\ InStep(d) /\ Back(d) \in Seq(BlockType)
                             /\ ToHandle(d) \in Seq(BlockType)
      /\ \A d \in Channels, fd \in Fds :
           ups[d][fd] = IF g_link_flags[d][fd] = 0 THEN 0 ELSE 1
  BY <1>2, FollowParts
<1>4. NoteRight' /\ \A d \in Channels, f \in Fds : Told(d, f)' = Told(d, f)
  BY <1>1, <1>3 DEF NoteRight, Told
<1>5. /\ \A d \in Channels : Stream(d)' = Stream(d)
      /\ hand'[c] = NoBlock /\ \A d \in Channels \ {c} : hand'[d] = hand[d]
  BY <1>1, <1>3, FrameKeeps DEF TypeOK
<1>6. /\ ToHandle(c)' = Tail(ToHandle(c))
      /\ \A d \in Channels \ {c} : ToHandle(d)' = ToHandle(d)
  BY <1>1, <1>3, <1>5, ToHandleSteps
<1>7. /\ b \in BlockType /\ b.fd \in Fds /\ b.id \in 1 .. IntMax /\ b.req \in 0 .. MaxReqs
  BY <1>1, <1>3, InHand
<1>8. ToHandle(c) # <<>> /\ Head(ToHandle(c)) = b
  <2> DEFINE q == recv_queue[c]  l == recv_list[c]
  <2>1. q \in Seq(BlockType) /\ l \in Seq(BlockType) /\ ToHandle(c) = AllOf(b, q, l)
    BY <1>3, ChannelTypes DEF ToHandle, AllOf
  <2> HIDE DEF q, l, b
  <2>2. b \in BlockType \cup {NoBlock} /\ b # NoBlock
    BY <1>1, <1>7
  <2>3. AllOf(b, q, l) # <<>> /\ Head(AllOf(b, q, l)) = b
    BY <2>1, <2>2, HandFirst
  <2>4. QED
    BY <2>1, <2>3
<1> HIDE DEF b
<1>9. ASSUME NEW fd \in Fds
      PROVE  /\ b.fd = fd => g_link_flags[c][fd] = IdBefore(b)
             /\ Chained(ToHandle(c)', fd,
                        IF b.fd = fd THEN IdAfter(b) ELSE g_link_flags[c][fd], Told(c, fd))
  <2> DEFINE v == g_link_flags[c][fd]  w == Told(c, fd)  s == ToHandle(c)
  <2>1. Chained(s, fd, v, w) /\ s \in Seq(BlockType) /\ s # <<>> /\ Head(s) = b
    BY <1>3, <1>8 DEF InStep
  <2>2. ToHandle(c)' = Tail(s)
    BY <1>6
  <2> HIDE DEF v, w, s
  <2>3. /\ b.fd = fd => v = IdBefore(b)
        /\ Chained(Tail(s), fd, IF b.fd = fd THEN IdAfter(b) ELSE v, w)
    BY <2>1, ChainTail
  <2>4. QED
    BY <2>2, <2>3 DEF v, w
<1>10. g_link_flags[c][b.fd] = IdBefore(b)
  BY <1>7, <1>9
<1>11. ups[c][b.fd] = IF IdBefore(b) = 0 THEN 0 ELSE 1
  BY <1>3, <1>7, <1>10
<1>12. /\ g_link_flags' = [g_link_flags EXCEPT ![c][b.fd] = IdAfter(b)]
       /\ ups' = [ups EXCEPT ![c][b.fd] = IF IdAfter(b) = 0 THEN 0 ELSE 1]
  <2>1. b.id # 0
    BY <1>7
  <2>2. CASE WorkLogin(c)
    <3>1. /\ b.type = "LOGIN"
          /\ g_link_flags' = [g_link_flags EXCEPT ![c][b.fd] = b.id]
          /\ ups' = [ups EXCEPT ![c][b.fd] = ups[c][b.fd] + 1]
      BY <1>3, <1>7, <2>2 DEF WorkLogin, Holds, b, TypeOK
    <3>2. IdBefore(b) = 0 /\ IdAfter(b) = b.id
      BY <3>1 DEF IdBefore, IdAfter
    <3>3. QED
      BY <1>11, <2>1, <3>1, <3>2
  <2>3. CASE WorkProto(c) \/ WorkProtoSilent(c)
    <3>1. /\ b.type = "PROTO"
          /\ g_link_flags' = [g_link_flags EXCEPT ![c][b.fd] = b.id]
          /\ ups' = ups
      BY <2>3 DEF WorkProto, WorkProtoSilent, Holds, b
    <3>2. IdBefore(b) = b.id /\ IdAfter(b) = b.id
      BY <3>1 DEF IdBefore, IdAfter
    <3>3. ups = [ups EXCEPT ![c][b.fd] = ups[c][b.fd]]
      BY <1>3, <1>7 DEF TypeOK
    <3>4. QED
      BY <1>11, <2>1, <3>1, <3>2, <3>3
  <2>4. CASE WorkClose(c)
    <3>1. b.type = "CLOSE" /\ IdBefore(b) = b.id /\ IdAfter(b) = 0
      BY <2>4 DEF WorkClose, Holds, b, IdBefore, IdAfter
    <3>2. g_link_flags[c][b.fd] # 0
      BY <1>10, <2>1, <3>1
    <3>3. /\ g_link_flags' = [g_link_flags EXCEPT ![c][b.fd] = 0]
          /\ ups' = [ups EXCEPT ![c][b.fd] = ups[c][b.fd] - 1]
      BY <1>3, <1>7, <2>4, <3>2 DEF WorkClose, b, TypeOK
    <3>4. ups[c][b.fd] - 1 = 0
      BY <1>11, <2>1, <3>1
    <3>5. QED
      BY <3>1, <3>3, <3>4
  <2>5. QED
    BY <2>2, <2>3, <2>4
<1>13. \A d \in Channels, fd \in Fds :
         /\ g_link_flags'[d][fd] = IF d = c /\ fd = b.fd THEN IdAfter(b)
                                   ELSE g_link_flags[d][fd]
         /\ ups'[d][fd] = IF d = c /\ fd = b.fd THEN IF IdAfter(b) = 0 THEN 0 ELSE 1
                          ELSE ups[d][fd]
  BY <1>3, <1>7, <1>12 DEF TypeOK
<1>14. LinksPaired'
  <2>1. ASSUME NEW d \in Channels, NEW fd \in Fds
        PROVE  ups'[d][fd] = IF g_link_flags'[d][fd] = 0 THEN 0 ELSE 1
    <3>1. ups[d][fd] = IF g_link_flags[d][fd] = 0 THEN 0 ELSE 1
      BY <1>3, <2>1
    <3>2. /\ g_link_flags'[d][fd] = IF d = c /\ fd = b.fd THEN IdAfter(b)
                                    ELSE g_link_flags[d][fd]
          /\ ups'[d][fd] = IF d = c /\ fd = b.fd THEN IF IdAfter(b) = 0 THEN 0 ELSE 1
                           ELSE ups[d][fd]
      BY <1>13, <2>1
    <3>3. QED
      BY <3>1, <3>2
  <2>2. QED
    BY <2>1 DEF LinksPaired
<1>15. ASSUME NEW d \in Channels PROVE InStep(d)'
  <2>1. ASSUME NEW fd \in Fds
        PROVE  Chained(ToHandle(d)', fd, g_link_flags'[d][fd], Told(d, fd)')
    <3>1. CASE d = c
      BY <1>4, <1>9, <1>13, <3>1
    <3>2. CASE d # c
      <4>1. Chained(ToHandle(d), fd, g_link_flags[d][fd], Told(d, fd))
        BY <1>3 DEF InStep
      <4>2. ToHandle(d)' = ToHandle(d) /\ g_link_flags'[d][fd] = g_link_flags[d][fd]
            /\ Told(d, fd)' = Told(d, fd)
        BY <1>4, <1>6, <1>13, <3>2
      <4>3. QED
        BY <4>1, <4>2
    <3>3. QED
      BY <3>1, <3>2
  <2>2. Replies(Back(d)')
    <3>1. Replies(Back(d))
      BY <1>3 DEF InStep
    <3>2. CASE WorkProto(c)
      <4> DEFINE r == Block("PROTO", b.fd, b.id, b.req)
      <4>1. SendPush(c, r)
        BY <3>2 DEF WorkProto, b
      <4>2. r \in BlockType /\ r.type = "PROTO"
        BY <1>7 DEF Block, BlockType, Types
      <4> HIDE DEF r
      <4>3. /\ Back(c)' = Append(Back(c), r)
            /\ \A x \in Channels \ {c} : Back(x)' = Back(x)
        BY <1>3, <4>1, <4>2, SendPushed
      <4>4. QED
        BY <1>3, <3>1, <4>2, <4>3, RepliesKept
    <3>3. CASE WorkLogin(c) \/ WorkProtoSilent(c) \/ WorkClose(c)
      <4>1. UNCHANGED sends
        BY <3>3 DEF WorkLogin, WorkProtoSilent, WorkClose
      <4>2. QED
        BY <1>3, <3>1, <4>1, FrameKeeps
    <3>4. QED
      BY <3>2, <3>3
  <2>3. QED
    BY <2>1, <2>2 DEF InStep
<1>16. QED
  BY <1>4, <1>14, <1>15

LEMMA FollowStep ==
  ASSUME FollowInv, [Next]_vars
  PROVE  FollowInv'
<1>1. BaseInv'
  BY BaseStep DEF FollowInv
<1> SUFFICES Following'
  BY <1>1 DEF FollowInv
<1>2. ASSUME NEW fd \in Fds,
             Accept(fd) \/ AcceptFails(fd) \/ Request(fd) \/ ClientGone(fd) \/ Flush(fd)
      PROVE  Following'
  BY <1>1, <1>2, AcceptFollows, RequestFollows, GoneFollows
<1>3. CASE NotifyNext
  BY <1>1, <1>3, NotifyNextFollows DEF FollowInv
<1>4. ASSUME NEW c \in Channels,
             \/ SendEvent(c) \/ WorkLogin(c) \/ WorkProto(c) \/ WorkProtoSilent(c)
             \/ WorkClose(c)
      PROVE  Following'
  BY <1>1, <1>4, SendEventFollows, WorkFollows
<1>5. CASE ConnTick \/ (\E c \in Channels : WorkTick(c) \/ WorkPull(c)) \/ UNCHANGED vars
  BY <1>1, <1>5, MovesFollow DEF FollowInv
<1>6. ASSUME ConnRestart \/ \E c \in Channels : WorkProtoClose(c) \/ WorkRestart(c)
      PROVE  Following'
  <2>1. closes \in Nat /\ conn_kills \in Nat /\ work_kills \in Nat
    BY DEF FollowInv, BaseInv, TypeOK
  <2>2. \/ closes' = closes + 1
        \/ conn_kills' = conn_kills + 1
        \/ work_kills' = work_kills + 1
    BY <1>6 DEF ConnRestart, WorkProtoClose, WorkRestart
  <2>3. ~Undisturbed'
    BY <2>1, <2>2 DEF Undisturbed
  <2>4. QED
    BY <2>3 DEF Following
<1>7. QED
  BY <1>2, <1>3, <1>4, <1>5, <1>6 DEF Next, WorkHandle

LEMMA FollowInit ==
  ASSUME Init
  PROVE  FollowInv
<1>1. BaseInv /\ \A c \in Channels : Stream(c) = <<>> /\ Back(c) = <<>> /\ hand[c] = NoBlock
  BY BaseInit
<1>2. ASSUME NEW c \in Channels PROVE InStep(c)
  <2>1. ToHandle(c) = <<>>
    <3>1. ToHandle(c) = <<>> \o <<>> \o <<>>
      BY DEF Init, ToHandle
    <3>2. QED
      BY <3>1
  <2>2. Replies(Back(c))
    BY <1>1 DEF Replies
  <2>3. ASSUME NEW fd \in Fds PROVE g_link_flags[c][fd] = 0 /\ Told(c, fd) = 0
    BY DEF Init, Told
  <2>4. 0 \in 0 .. IntMax
    BY Bounds
  <2>5. QED
    BY <2>1, <2>2, <2>3, <2>4, ChainEmpty DEF InStep
<1>3. NoteRight /\ LinksPaired
  BY DEF Init, NoteRight, LinksPaired
<1>4. QED
  BY <1>1, <1>2, <1>3 DEF FollowInv, Following

\* While nobody is killed and the plugin closes nothing, every worker ends up
\* with CONN's view of every connection.
THEOREM WorkersFollow == Spec => []FlagsFollow
<1>1. Init => FollowInv
  BY FollowInit
<1>2. FollowInv /\ [Next]_vars => FollowInv'
  BY FollowStep
<1>3. FollowInv => FlagsFollow
  <2>1. SUFFICES ASSUME FollowInv, upsets = <<0, 0, 0>>, NEW c \in Channels, NEW fd \in Fds
                 PROVE  FlagToBe(c, fd) = Told(c, fd)
    BY DEF FlagsFollow
  <2>2. Undisturbed
    BY <2>1 DEF Undisturbed, upsets
  <2> DEFINE s == ToHandle(c)  v == g_link_flags[c][fd]  w == Told(c, fd)
             about == {i \in 1 .. Len(s) : s[i].fd = fd}
  <2>3. s \in Seq(BlockType) /\ Chained(s, fd, v, w)
    BY <2>1, <2>2, FollowParts DEF InStep
  <2>4. FlagToBe(c, fd) =
          IF about = {} THEN v ELSE IdAfter(s[CHOOSE i \in about : \A j \in about : j <= i])
    BY DEF FlagToBe, IdAfter
  <2> HIDE DEF s, v, w
  <2>5. w = IF about = {} THEN v ELSE IdAfter(s[CHOOSE i \in about : \A j \in about : j <= i])
    BY <2>3, ChainEnd
  <2>6. QED
    BY <2>4, <2>5 DEF w
<1>4. QED
  BY <1>1, <1>2, <1>3, PTL DEF Spec

\* ... and the plugin of each worker hears of a connection once when it comes
\* and once when it goes.
THEOREM CallbacksInPairs == Spec => []LinksPaired
<1>1. FollowInv => LinksPaired
  <2>1. SUFFICES ASSUME FollowInv, upsets = <<0, 0, 0>> PROVE LinksPaired
    BY DEF LinksPaired
  <2>2. Undisturbed
    BY <2>1 DEF Undisturbed, upsets
  <2>3. QED
    BY <2>1, <2>2 DEF FollowInv, Following
<1>2. QED
  BY <1>1, FollowInit, FollowStep, PTL DEF Spec
=============================================================================
