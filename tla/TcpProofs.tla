----------------------------- MODULE TcpProofs ------------------------------
(***************************************************************************)
(* Whatever the size of the buffers, the limit and the packages sent: what *)
(* is held for a client that does not read is bounded, since send_pkg may  *)
(* pass the limit by the buffers of one package and by no more; and the    *)
(* client gets the packages whole and in order.                            *)
(*                                                                         *)
(* A c_tcp_socket that receives as well as sends still sends as TcpSend    *)
(* does, and so keeps to its bounds; its receive buffer always has room    *)
(* when recv is called; and the packages it hands on are those the client  *)
(* sent.  This holds whatever the sizes, the lengths at the head of        *)
(* packages, and the places at which TCP cuts them.                        *)
(*                                                                         *)
(* Of a worker's links: handle_event never calls through an empty slot     *)
(* while there is memory, and the plugin hears of each link in order, for  *)
(* any number of descriptors, links, packages and faults, and whatever the *)
(* plugin does in its callbacks.                                           *)
(***************************************************************************)
EXTENDS Tcp, FiniteSetTheorems, SequenceTheorems, WellFoundedInduction, TLAPS

-----------------------------------------------------------------------------
(* TcpSend by itself. *)

\* What TypeOK and ListBounded need to be inductive: a list that begins again
\* is sent from its first byte.
FromTheStart == m_send_list = <<>> /\ at # "gone" => m_send_pos = 0

IInv == TypeOK /\ ListBounded /\ FromTheStart

-----------------------------------------------------------------------------
(***************************************************************************)
(* The number of buffers that n bytes take.                                *)
(***************************************************************************)

\* It is the least number whose buffers hold n bytes.
LEMMA BuffersBounds ==
  ASSUME NEW n \in Nat
  PROVE  /\ Buffers(n) \in Nat
         /\ n <= BufLen * Buffers(n)
         /\ BufLen * Buffers(n) < n + BufLen
<1>1. BufLen \in Nat \ {0} /\ n + BufLen - 1 \in Nat
  BY TcpSendAssumption
<1>2. ASSUME NEW a \in Nat, NEW b \in Nat \ {0}
      PROVE  a \div b \in Nat /\ b * (a \div b) <= a /\ a < b * (a \div b) + b
  BY SMT
<1>3. /\ (n + BufLen - 1) \div BufLen \in Nat
      /\ BufLen * ((n + BufLen - 1) \div BufLen) <= n + BufLen - 1
      /\ n + BufLen - 1 < BufLen * ((n + BufLen - 1) \div BufLen) + BufLen
  BY <1>1, <1>2
<1>4. QED
  BY <1>1, <1>3 DEF Buffers

\* Numbers of buffers compare as the bytes they hold.
LEMMA BuffersCompare ==
  ASSUME NEW p \in Int, NEW q \in Int, BufLen * p < BufLen * q + BufLen
  PROVE  p <= q
<1>1. SUFFICES ASSUME p >= q + 1 PROVE FALSE
  OBVIOUS
<1>2. BufLen \in Nat \ {0}
  BY TcpSendAssumption
<1>3. BufLen * p >= BufLen * (q + 1)
  BY <1>1, <1>2, SMT
<1>4. BufLen * (q + 1) = BufLen * q + BufLen
  BY <1>2, SMT
<1>5. BufLen * p \in Int /\ BufLen * q \in Int
  BY <1>2, SMT
<1>6. QED
  BY <1>2, <1>3, <1>4, <1>5, SMT

\* More bytes never take fewer buffers.
LEMMA BuffersMonotone ==
  ASSUME NEW m \in Nat, NEW n \in Nat, m <= n
  PROVE  Buffers(m) <= Buffers(n)
<1>1. BufLen \in Nat \ {0}
  BY TcpSendAssumption
<1>2. BufLen * Buffers(m) < m + BufLen /\ n <= BufLen * Buffers(n)
  BY BuffersBounds
<1>3. Buffers(m) \in Nat /\ Buffers(n) \in Nat
  BY BuffersBounds
<1>4. BufLen * Buffers(m) \in Int /\ BufLen * Buffers(n) \in Int
  BY <1>1, <1>3, SMT
<1>5. BufLen * Buffers(m) < BufLen * Buffers(n) + BufLen
  BY <1>1, <1>2, <1>4, SMT
<1>6. QED
  BY <1>3, <1>5, BuffersCompare

\* A buffer more holds BufLen bytes more.
LEMMA BuffersMore ==
  ASSUME NEW n \in Nat
  PROVE  Buffers(n + BufLen) = Buffers(n) + 1
<1>1. BufLen \in Nat \ {0} /\ n + BufLen \in Nat
  BY TcpSendAssumption
<1> DEFINE p == Buffers(n)  q == Buffers(n + BufLen)
<1>2. p \in Nat /\ n <= BufLen * p /\ BufLen * p < n + BufLen
  BY BuffersBounds
<1>3. q \in Nat /\ n + BufLen <= BufLen * q /\ BufLen * q < n + BufLen + BufLen
  BY <1>1, BuffersBounds
<1>4. BufLen * (p + 1) = BufLen * p + BufLen
  BY <1>1, <1>2, SMT
<1>5. BufLen * p \in Int /\ BufLen * q \in Int
  BY <1>1, <1>2, <1>3, SMT
<1> HIDE DEF p, q
<1>6. BufLen * (p + 1) < BufLen * q + BufLen
  BY <1>1, <1>2, <1>3, <1>4, <1>5, SMT
<1>7. BufLen * q < BufLen * (p + 1) + BufLen
  BY <1>1, <1>2, <1>3, <1>4, <1>5, SMT
<1>8. p + 1 <= q /\ q <= p + 1
  BY <1>2, <1>3, <1>6, <1>7, BuffersCompare
<1>9. QED
  BY <1>2, <1>3, <1>8 DEF p, q

\* No bytes take no buffer, and as many as fit into one take one.
LEMMA BuffersFew ==
  /\ Buffers(0) = 0
  /\ \A n \in 1 .. BufLen : Buffers(n) = 1
<1>1. BufLen \in Nat \ {0}
  BY TcpSendAssumption
<1>2. ASSUME NEW n \in Nat, NEW k \in Nat, BufLen * Buffers(n) < BufLen * k + BufLen,
             BufLen * k < BufLen * Buffers(n) + BufLen
      PROVE  Buffers(n) = k
  <2>1. Buffers(n) \in Nat
    BY BuffersBounds
  <2>2. Buffers(n) <= k /\ k <= Buffers(n)
    BY <1>2, <2>1, BuffersCompare
  <2>3. QED
    BY <2>1, <2>2
<1>3. Buffers(0) = 0
  <2>1. BufLen * 0 = 0 /\ Buffers(0) \in Nat
    BY <1>1, BuffersBounds, SMT
  <2>2. 0 <= BufLen * Buffers(0) /\ BufLen * Buffers(0) < 0 + BufLen
    BY BuffersBounds
  <2>3. BufLen * Buffers(0) \in Int
    BY <1>1, <2>1, SMT
  <2>4. QED
    BY <1>1, <1>2, <2>1, <2>2, <2>3
<1>4. ASSUME NEW n \in 1 .. BufLen PROVE Buffers(n) = 1
  <2>1. BufLen * 1 = BufLen /\ n \in Nat
    BY <1>1, SMT
  <2>2. n <= BufLen * Buffers(n) /\ BufLen * Buffers(n) < n + BufLen
    BY <2>1, BuffersBounds
  <2>3. BufLen * Buffers(n) \in Int
    BY <1>1, <2>1, BuffersBounds, SMT
  <2>4. QED
    BY <1>1, <1>2, <2>1, <2>2, <2>3
<1>5. QED
  BY <1>3, <1>4

\* The bytes of a package that fill the last buffer cost none, and the others
\* as many as they take alone.
LEMMA BuffersFilled ==
  ASSUME NEW last \in 1 .. BufLen, NEW len \in Nat, NEW n \in Nat,
         n = IF BufLen - last < len THEN BufLen - last ELSE len
  PROVE  Buffers(len + last) = 1 + Buffers(len - n)
<1>1. BufLen \in Nat \ {0}
  BY TcpSendAssumption
<1>2. CASE BufLen - last < len
  <2>1. len - n \in Nat /\ len + last = (len - n) + BufLen
    BY <1>1, <1>2
  <2>2. Buffers((len - n) + BufLen) = Buffers(len - n) + 1
    BY <2>1, BuffersMore
  <2>3. Buffers(len - n) \in Nat
    BY <2>1, BuffersBounds
  <2>4. QED
    BY <2>1, <2>2, <2>3
<1>3. CASE ~(BufLen - last < len)
  <2>1. len + last \in 1 .. BufLen /\ len - n = 0
    BY <1>1, <1>3
  <2>2. QED
    BY <2>1, BuffersFew
<1>4. QED
  BY <1>2, <1>3

-----------------------------------------------------------------------------
(***************************************************************************)
(* Lists made into one sequence.  FlattenSeq is defined by recursion, and  *)
(* what is said of it for every list rests on the least counterexample.    *)
(***************************************************************************)

\* A set of natural numbers has a least one: what an induction rests on.
LEMMA LeastOne ==
  ASSUME NEW T \in SUBSET Nat, T # {}
  PROVE  \E m \in T : \A n \in T : m <= n
<1> DEFINE Less == OpToRel(<, Nat)
<1>1. IsWellFoundedOn(Less, Nat)
  BY NatLessThanWellFounded
<1>2. \A m, n \in Nat : m < n => <<m, n>> \in Less
  BY DEF OpToRel
<1> HIDE DEF Less
<1>3. PICK m \in T : \A n \in T : <<n, m>> \notin Less
  BY <1>1, WFMin
<1>4. \A n \in T : ~(n < m)
  BY <1>2, <1>3
<1>5. QED
  BY <1>4

\* f[i] is what the first i members of the list l make put end to end: what the
\* recursive function of FlattenSeq stands for.
Joins(f, l) ==
  f = [i \in 1 .. Len(l) |-> IF i = 1 THEN l[i] ELSE f[i - 1] \o l[i]]

\* There is such a function.
LEMMA JoinsExists ==
  ASSUME NEW S, NEW l \in Seq(S)
  PROVE  \E f : Joins(f, l)
<1> DEFINE Upto(f, n) == f = [i \in 1 .. n |-> IF i = 1 THEN l[i] ELSE f[i - 1] \o l[i]]
           Bad == {n \in Nat : ~\E f : Upto(f, n)}
<1>1. Len(l) \in Nat
  BY LenProperties
<1>2. SUFFICES ASSUME Bad # {} PROVE FALSE
  BY <1>1 DEF Joins
<1>3. PICK n \in Bad : \A k \in Bad : n <= k
  <2>1. Bad \in SUBSET Nat
    OBVIOUS
  <2> HIDE DEF Bad
  <2>2. QED
    BY <1>2, <2>1, LeastOne
<1>4. n \in Nat /\ ~\E f : Upto(f, n)
  OBVIOUS
<1>5. CASE n = 0
  <2> DEFINE f == [i \in 1 .. 0 |-> l[1]]
  <2>1. Upto(f, 0)
    OBVIOUS
  <2>2. QED
    BY <1>4, <1>5, <2>1
<1>6. CASE n # 0
  <2>1. n - 1 \in Nat /\ ~(n <= n - 1)
    BY <1>4, <1>6
  <2>2. PICK f : Upto(f, n - 1)
    BY <1>3, <2>1
  <2> DEFINE g == [i \in 1 .. n |-> IF i < n THEN f[i]
                                    ELSE IF n = 1 THEN l[n] ELSE f[n - 1] \o l[n]]
  <2>3. ASSUME NEW i \in 1 .. n PROVE g[i] = IF i = 1 THEN l[i] ELSE g[i - 1] \o l[i]
    <3>1. CASE i < n
      <4>1. /\ i \in 1 .. n - 1 /\ g[i] = f[i]
            /\ i # 1 => i - 1 \in 1 .. n /\ g[i - 1] = f[i - 1]
        BY <1>4, <3>1
      <4>2. f[i] = IF i = 1 THEN l[i] ELSE f[i - 1] \o l[i]
        BY <2>2, <4>1
      <4>3. QED
        BY <4>1, <4>2
    <3>2. CASE i = n
      <4>1. i # 1 => i - 1 \in 1 .. n /\ i - 1 < n
        BY <1>4, <3>2
      <4>2. QED
        BY <3>2, <4>1
    <3>3. QED
      BY <1>4, <3>1, <3>2
  <2>4. Upto(g, n)
    <3>1. g = [i \in 1 .. n |-> g[i]]
      OBVIOUS
    <3> HIDE DEF g
    <3>2. QED
      BY <2>3, <3>1
  <2>5. QED
    BY <1>4, <2>4
<1>7. QED
  BY <1>5, <1>6

\* What FlattenSeq makes of a list.
LEMMA FlattenJoins ==
  ASSUME NEW S, NEW l \in Seq(S), l # <<>>
  PROVE  \E f : Joins(f, l) /\ FlattenSeq(l) = f[Len(l)]
<1> DEFINE f == CHOOSE f : Joins(f, l)
<1>1. Joins(f, l)
  BY JoinsExists
<1>2. Len(l) # 0
  BY EmptySeq
<1>3. FlattenSeq(l) = f[Len(l)]
  BY <1>2 DEF FlattenSeq, Joins
<1>4. QED
  BY <1>1, <1>3

\* It is one function: two lists that begin alike are made into what begins alike.
LEMMA JoinsAgree ==
  ASSUME NEW l, NEW k, Len(l) \in Nat, Len(k) \in Nat, NEW n \in Nat, n <= Len(l), n <= Len(k),
         \A i \in 1 .. n : l[i] = k[i],
         NEW f, NEW g, Joins(f, l), Joins(g, k)
  PROVE  \A i \in 1 .. n : f[i] = g[i]
<1> DEFINE Bad == {i \in 1 .. n : f[i] # g[i]}
<1>1. SUFFICES ASSUME Bad # {} PROVE FALSE
  OBVIOUS
<1>2. PICK i \in Bad : \A j \in Bad : i <= j
  <2>1. Bad \in SUBSET Nat
    OBVIOUS
  <2> HIDE DEF Bad
  <2>2. QED
    BY <1>1, <2>1, LeastOne
<1>3. i \in 1 .. n /\ i \in 1 .. Len(l) /\ i \in 1 .. Len(k) /\ f[i] # g[i] /\ l[i] = k[i]
  OBVIOUS
<1>4. /\ f[i] = IF i = 1 THEN l[i] ELSE f[i - 1] \o l[i]
      /\ g[i] = IF i = 1 THEN k[i] ELSE g[i - 1] \o k[i]
  BY <1>3 DEF Joins
<1>5. i # 1
  BY <1>3, <1>4
<1>6. i - 1 \in 1 .. n /\ ~(i <= i - 1)
  BY <1>3, <1>5
<1>7. f[i - 1] = g[i - 1]
  BY <1>2, <1>6
<1>8. QED
  BY <1>3, <1>4, <1>5, <1>7

\* A member more changes nothing of what comes before.
LEMMA JoinsLonger ==
  \A l, k, f, g :
    /\ Joins(f, l) /\ Joins(g, k)
    /\ Len(l) \in Nat \ {0} /\ Len(k) = Len(l) + 1
    /\ \A i \in 1 .. Len(l) : l[i] = k[i]
    => f[Len(l)] = g[Len(l)]
<1> SUFFICES ASSUME NEW l, NEW k, NEW f, NEW g, Joins(f, l), Joins(g, k),
                    Len(l) \in Nat \ {0}, Len(k) = Len(l) + 1,
                    \A i \in 1 .. Len(l) : l[i] = k[i]
             PROVE  f[Len(l)] = g[Len(l)]
  OBVIOUS
<1>1. \A i \in 1 .. Len(l) : f[i] = g[i]
  <2>1. PICK n : n = Len(l)
    OBVIOUS
  <2>2. /\ n \in Nat /\ n <= Len(l) /\ n <= Len(k) /\ Len(l) \in Nat /\ Len(k) \in Nat
        /\ \A i \in 1 .. n : l[i] = k[i]
    BY <2>1
  <2>3. \A i \in 1 .. n : f[i] = g[i]
    BY <2>2, JoinsAgree, SMTT(20)
  <2>4. QED
    BY <2>1, <2>3
<1>2. QED
  BY <1>1

\* Nothing is made of nothing.
LEMMA FlattenEmpty == FlattenSeq(<<>>) = <<>>
BY EmptySeq DEF FlattenSeq

\* One more member goes to the end.
LEMMA FlattenAppend ==
  ASSUME NEW S, NEW l \in Seq(Seq(S)), NEW e \in Seq(S)
  PROVE  FlattenSeq(Append(l, e)) = FlattenSeq(l) \o e
<1>1. PICK k : k = Append(l, e)
  OBVIOUS
<1>2. /\ k \in Seq(Seq(S)) /\ k # <<>>
      /\ Len(k) = Len(l) + 1
      /\ \A i \in 1 .. Len(l) : k[i] = l[i]
      /\ k[Len(l) + 1] = e
  BY <1>1, AppendProperties
<1>3. PICK g : Joins(g, k) /\ FlattenSeq(k) = g[Len(k)]
  BY <1>2, FlattenJoins
<1>4. Len(l) \in Nat /\ Len(k) \in Nat /\ Len(k) \in 1 .. Len(k)
  BY <1>2, LenProperties
<1>5. g[Len(k)] = IF Len(k) = 1 THEN e ELSE g[Len(l)] \o e
  <2>1. \A i \in 1 .. Len(k) : g[i] = IF i = 1 THEN k[i] ELSE g[i - 1] \o k[i]
    BY <1>3 DEF Joins
  <2>2. g[Len(k)] = IF Len(k) = 1 THEN k[Len(k)] ELSE g[Len(k) - 1] \o k[Len(k)]
    BY <1>4, <2>1
  <2>3. k[Len(k)] = e /\ Len(k) - 1 = Len(l)
    BY <1>2, <1>4
  <2>4. QED
    BY <2>2, <2>3
<1>6. CASE l = <<>>
  <2>1. Len(l) = 0 /\ FlattenSeq(l) = <<>>
    BY <1>6, EmptySeq, FlattenEmpty
  <2>2. <<>> \o e = e
    BY ConcatEmptySeq
  <2>3. QED
    BY <1>1, <1>2, <1>3, <1>5, <2>1, <2>2
<1>7. CASE l # <<>>
  <2>1. PICK f : Joins(f, l) /\ FlattenSeq(l) = f[Len(l)]
    BY <1>7, FlattenJoins
  <2>2. Len(l) \in Nat \ {0}
    BY <1>7, EmptySeq
  <2>3. Joins(f, l) /\ Joins(g, k) /\ Len(k) = Len(l) + 1 /\ \A i \in 1 .. Len(l) : l[i] = k[i]
    BY <1>2, <1>3, <2>1
  <2>4. f[Len(l)] = g[Len(l)]
    BY <2>2, <2>3, JoinsLonger
  <2>5. Len(k) # 1 /\ f[Len(l)] = g[Len(l)]
    BY <1>2, <1>4, <2>2, <2>4
  <2>6. QED
    BY <1>1, <1>3, <1>5, <2>1, <2>5
<1>8. QED
  BY <1>6, <1>7

\* To append to what comes behind is to append to the whole.
LEMMA AppendBehind ==
  ASSUME NEW S, NEW l \in Seq(S), NEW k \in Seq(S), NEW e \in S
  PROVE  l \o Append(k, e) = Append(l \o k, e) /\ l \o k \in Seq(S)
<1>1. Append(k, e) = k \o <<e>> /\ <<e>> \in Seq(S)
  BY AppendIsConcat
<1>2. l \o k \in Seq(S)
  BY ConcatProperties
<1>3. (l \o k) \o <<e>> = l \o (k \o <<e>>)
  BY <1>1, ConcatAssociative
<1>4. Append(l \o k, e) = (l \o k) \o <<e>>
  BY <1>2, AppendIsConcat
<1>5. QED
  BY <1>1, <1>2, <1>3, <1>4

\* Bytes are made of lists of bytes, and two lists one behind the other are made
\* into what they are made into, one behind the other.
LEMMA FlattenConcat ==
  ASSUME NEW S, NEW l \in Seq(Seq(S)), FlattenSeq(l) \in Seq(S)
  PROVE  \A k \in Seq(Seq(S)) :
           FlattenSeq(k) \in Seq(S) /\ FlattenSeq(l \o k) = FlattenSeq(l) \o FlattenSeq(k)
<1> DEFINE P(k) == /\ FlattenSeq(k) \in Seq(S)
                   /\ FlattenSeq(l \o k) = FlattenSeq(l) \o FlattenSeq(k)
           Bad == {n \in Nat : \E k \in Seq(Seq(S)) : Len(k) = n /\ ~P(k)}
<1>1. P(<<>>)
  BY FlattenEmpty, EmptySeq, ConcatEmptySeq
<1>2. ASSUME NEW k \in Seq(Seq(S)), NEW e \in Seq(S), P(k) PROVE P(Append(k, e))
  <2>1. /\ FlattenSeq(Append(k, e)) = FlattenSeq(k) \o e
        /\ FlattenSeq(k) \o e \in Seq(S)
    BY <1>2, FlattenAppend, ConcatProperties
  <2>2. l \o Append(k, e) = Append(l \o k, e) /\ l \o k \in Seq(Seq(S))
    BY AppendBehind
  <2>3. FlattenSeq(Append(l \o k, e)) = FlattenSeq(l \o k) \o e
    BY <2>2, FlattenAppend
  <2>4. (FlattenSeq(l) \o FlattenSeq(k)) \o e = FlattenSeq(l) \o (FlattenSeq(k) \o e)
    <3>1. PICK a \in Seq(S), b \in Seq(S) : a = FlattenSeq(l) /\ b = FlattenSeq(k)
      BY <1>2
    <3>2. (a \o b) \o e = a \o (b \o e)
      BY ConcatAssociative, SMTT(20)
    <3>3. QED
      BY <3>1, <3>2
  <2>5. QED
    BY <1>2, <2>1, <2>2, <2>3, <2>4
<1> HIDE DEF P
<1>3. SUFFICES ASSUME Bad # {} PROVE FALSE
  <2>1. \A k \in Seq(Seq(S)) : Len(k) \in Nat
    BY LenProperties
  <2>2. QED
    BY <2>1 DEF P
<1>4. PICK n \in Bad : \A m \in Bad : n <= m
  <2>1. Bad \in SUBSET Nat
    OBVIOUS
  <2> HIDE DEF Bad
  <2>2. QED
    BY <1>3, <2>1, LeastOne
<1>5. PICK k \in Seq(Seq(S)) : Len(k) = n /\ ~P(k)
  OBVIOUS
<1>6. PICK h \in Seq(Seq(S)), e \in Seq(S) : k = Append(h, e)
  <2>1. k # <<>>
    BY <1>1, <1>5
  <2>2. QED
    BY <2>1, SequenceEmptyOrAppend
<1>7. Len(h) \in Nat /\ ~(n <= Len(h))
  BY <1>5, <1>6, LenProperties, AppendProperties
<1>8. P(h)
  BY <1>4, <1>7
<1>9. QED
  BY <1>2, <1>5, <1>6, <1>8

\* Members of Seq(S) are made into a member of Seq(S).
LEMMA FlattenType ==
  ASSUME NEW S, NEW l \in Seq(Seq(S))
  PROVE  FlattenSeq(l) \in Seq(S)
<1>1. <<>> \in Seq(Seq(S)) /\ FlattenSeq(<<>>) \in Seq(S)
  BY FlattenEmpty, EmptySeq
<1>2. \A k \in Seq(Seq(S)) : FlattenSeq(k) \in Seq(S)
  BY <1>1, FlattenConcat
<1>3. QED
  BY <1>2

\* A list of one member is made into that member.
LEMMA FlattenOne ==
  ASSUME NEW S, NEW e \in Seq(S)
  PROVE  <<e>> \in Seq(Seq(S)) /\ FlattenSeq(<<e>>) = e
<1>1. <<>> \in Seq(Seq(S))
  BY EmptySeq
<1>2. FlattenSeq(Append(<<>>, e)) = <<>> \o e
  BY <1>1, FlattenEmpty, FlattenAppend
<1>3. <<>> \o e = e
  BY ConcatEmptySeq
<1>4. Append(<<>>, e) = <<e>>
  BY <1>1
<1>5. QED
  BY <1>2, <1>3, <1>4

\* The first member of a list comes first, and the last one last.
LEMMA FlattenEnds ==
  ASSUME NEW S, NEW l \in Seq(Seq(S)), l # <<>>
  PROVE  /\ FlattenSeq(l) = Head(l) \o FlattenSeq(Tail(l))
         /\ FlattenSeq(l) = FlattenSeq(Front(l)) \o Last(l)
         /\ Head(l) \in Seq(S) /\ Tail(l) \in Seq(Seq(S))
         /\ Last(l) \in Seq(S) /\ Front(l) \in Seq(Seq(S))
<1>1. Head(l) \in Seq(S) /\ Tail(l) \in Seq(Seq(S))
  BY HeadTailProperties
<1>2. l = <<Head(l)>> \o Tail(l)
  OBVIOUS
<1>3. FlattenSeq(l) = Head(l) \o FlattenSeq(Tail(l))
  <2>1. <<Head(l)>> \in Seq(Seq(S)) /\ FlattenSeq(<<Head(l)>>) = Head(l)
    BY <1>1, FlattenOne
  <2>2. FlattenSeq(<<Head(l)>> \o Tail(l)) = FlattenSeq(<<Head(l)>>) \o FlattenSeq(Tail(l))
    BY <1>1, <2>1, FlattenConcat
  <2>3. QED
    BY <1>2, <2>1, <2>2
<1>4. PICK h \in Seq(Seq(S)), e \in Seq(S) : l = Append(h, e)
  BY SequenceEmptyOrAppend
<1>5. Front(l) = h /\ Last(l) = e
  <2>1. /\ Len(l) = Len(h) + 1 /\ l[Len(h) + 1] = e /\ Len(h) \in Nat
        /\ \A i \in 1 .. Len(h) : l[i] = h[i]
    BY <1>4, AppendProperties, LenProperties
  <2>2. PICK n \in Nat : n = Len(h) /\ Len(l) = n + 1
    BY <2>1
  <2>3. /\ Front(l) = SubSeq(l, 1, n)
        /\ \A i \in 1 .. n : l[i] \in Seq(S)
    BY <2>2, ElementOfSeq DEF Front
  <2>4. /\ SubSeq(l, 1, n) \in Seq(Seq(S)) /\ Len(SubSeq(l, 1, n)) = n
        /\ \A i \in 1 .. n : SubSeq(l, 1, n)[i] = l[i]
    <3>1. /\ SubSeq(l, 1, n) \in Seq(Seq(S))
          /\ Len(SubSeq(l, 1, n)) = IF 1 <= n THEN n - 1 + 1 ELSE 0
          /\ \A i \in 1 .. n - 1 + 1 : SubSeq(l, 1, n)[i] = l[1 + i - 1]
      BY <2>3, SubSeqProperties
    <3>2. n - 1 + 1 = n /\ \A i \in 1 .. n : 1 + i - 1 = i
      OBVIOUS
    <3>3. QED
      BY <2>2, <3>1, <3>2
  <2>5. SubSeq(l, 1, n) = h
    BY <2>1, <2>2, <2>4, SeqEqual
  <2>6. QED
    BY <2>1, <2>2, <2>3, <2>5 DEF Last
<1>6. FlattenSeq(l) = FlattenSeq(Front(l)) \o Last(l)
  BY <1>4, <1>5, FlattenAppend
<1>7. QED
  BY <1>1, <1>3, <1>4, <1>5, <1>6

-----------------------------------------------------------------------------
(***************************************************************************)
(* Bytes cut into buffers.                                                 *)
(***************************************************************************)

\* A function on 1 .. n is a sequence of length n.
LEMMA FunctionIsSeq ==
  ASSUME NEW S, NEW n \in Nat, NEW f \in [1 .. n -> S]
  PROVE  f \in Seq(S) /\ Len(f) = n
<1>1. f \in Seq(S)
  BY IsASeq
<1>2. QED
  BY <1>1, LenProperties

\* A package of length len is that many bytes.
LEMMA PkgBytesType ==
  ASSUME NEW i \in 1 .. MaxPkgs, NEW len \in Lens
  PROVE  /\ PkgBytes(i, len) \in Seq(Bytes)
         /\ Len(PkgBytes(i, len)) = len
<1>1. len \in Nat /\ 1 .. len \subseteq 1 .. MaxLen
  BY TcpSendAssumption
<1>2. PkgBytes(i, len) \in [1 .. len -> Bytes]
  BY <1>1 DEF PkgBytes, Bytes
<1>3. QED
  BY <1>1, <1>2, FunctionIsSeq

\* A part of a sequence.
LEMMA PartType ==
  ASSUME NEW S, NEW s \in Seq(S), NEW m \in Nat \ {0}, NEW n \in 0 .. Len(s)
  PROVE  /\ SubSeq(s, m, n) \in Seq(S)
         /\ Len(SubSeq(s, m, n)) = IF m <= n THEN n - m + 1 ELSE 0
<1>1. \A i \in m .. n : s[i] \in S
  BY LenProperties, ElementOfSeq
<1>2. QED
  BY <1>1, SubSeqProperties

\* No buffer is empty, and none holds more than fits into it.
BufferList(l) ==
  /\ l \in Seq(Seq(Bytes))
  /\ \A i \in 1 .. Len(l) : Len(l[i]) \in 1 .. BufLen

\* Bytes cut into buffers make a list of as many buffers as they take.
LEMMA ChunksType ==
  ASSUME NEW s \in Seq(Bytes)
  PROVE  BufferList(Chunks(s)) /\ Len(Chunks(s)) = Buffers(Len(s))
<1>1. BufLen \in Nat \ {0} /\ Len(s) \in Nat
  BY TcpSendAssumption, LenProperties
<1> DEFINE n == Buffers(Len(s))
           from(i) == (i - 1) * BufLen + 1
           to(i) == IF i * BufLen < Len(s) THEN i * BufLen ELSE Len(s)
           part(i) == SubSeq(s, from(i), to(i))
<1>2. n \in Nat /\ BufLen * n < Len(s) + BufLen
  BY <1>1, BuffersBounds
<1>3. ASSUME NEW i \in 1 .. n
      PROVE  part(i) \in Seq(Bytes) /\ Len(part(i)) \in 1 .. BufLen
  <2>1. i * BufLen \in Nat /\ (i - 1) * BufLen \in Nat /\ BufLen * n \in Nat
    BY <1>1, <1>2, SMT
  <2>2. (i - 1) * BufLen = i * BufLen - BufLen
    BY <1>1, SMT
  <2>3. i * BufLen <= BufLen * n
    BY <1>1, <1>2, SMT
  <2>4. from(i) \in Nat \ {0} /\ to(i) \in 0 .. Len(s) /\ from(i) <= to(i)
    BY <1>1, <1>2, <2>1, <2>2, <2>3, SMT
  <2>5. to(i) - from(i) + 1 \in 1 .. BufLen
    BY <1>1, <2>1, <2>2, <2>4, SMT
  <2> HIDE DEF from, to
  <2>6. QED
    BY <2>4, <2>5, PartType
<1>4. Chunks(s) = [i \in 1 .. n |-> part(i)]
  BY DEF Chunks
<1> HIDE DEF n, part
<1>5. Chunks(s) \in [1 .. n -> Seq(Bytes)]
  BY <1>3, <1>4
<1>6. Chunks(s) \in Seq(Seq(Bytes)) /\ Len(Chunks(s)) = n
  BY <1>2, <1>5, FunctionIsSeq
<1>7. \A i \in 1 .. n : Len(Chunks(s)[i]) \in 1 .. BufLen
  BY <1>3, <1>4
<1>8. QED
  BY <1>6, <1>7 DEF BufferList, n

\* A list without its last element.
LEMMA FrontType ==
  ASSUME NEW S, NEW l \in Seq(S), l # <<>>
  PROVE  /\ Front(l) \in Seq(S)
         /\ Len(Front(l)) = Len(l) - 1
         /\ \A i \in 1 .. Len(l) - 1 : Front(l)[i] = l[i]
<1>1. Len(l) \in Nat \ {0}
  BY EmptySeq
<1>2. PICK m : m = Len(l) - 1
  OBVIOUS
<1>3. /\ m \in Nat
      /\ \A i \in 1 .. m : l[i] \in S
      /\ m - 1 + 1 = m
      /\ \A i \in 1 .. m : 1 + i - 1 = i
      /\ Front(l) = SubSeq(l, 1, m)
  BY <1>1, <1>2, ElementOfSeq DEF Front
<1>4. /\ SubSeq(l, 1, m) \in Seq(S)
      /\ Len(SubSeq(l, 1, m)) = IF 1 <= m THEN m - 1 + 1 ELSE 0
      /\ \A i \in 1 .. m - 1 + 1 : SubSeq(l, 1, m)[i] = l[1 + i - 1]
  BY <1>3, SubSeqProperties
<1>5. Len(SubSeq(l, 1, m)) = m
  BY <1>3, <1>4
<1>6. \A i \in 1 .. m : SubSeq(l, 1, m)[i] = l[i]
  BY <1>3, <1>4
<1>7. QED
  BY <1>2, <1>3, <1>4, <1>5, <1>6

\* l is the list a, the element e and the list b.
IsJoin(l, a, e, b) ==
  /\ Len(l) = Len(a) + 1 + Len(b)
  /\ \A i \in 1 .. Len(a) : l[i] = a[i]
  /\ l[Len(a) + 1] = e
  /\ \A i \in 1 .. Len(b) : l[Len(a) + 1 + i] = b[i]

\* A list, one element and another list.
LEMMA JoinedType ==
  ASSUME NEW S, NEW a \in Seq(S), NEW e \in S, NEW b \in Seq(S)
  PROVE  (a \o <<e>>) \o b \in Seq(S) /\ IsJoin((a \o <<e>>) \o b, a, e, b)
<1> DEFINE c == a \o <<e>>
<1>1. Len(a) \in Nat /\ Len(b) \in Nat
  BY LenProperties
<1>2. c = Append(a, e)
  BY AppendIsConcat
<1>3. /\ c \in Seq(S)
      /\ Len(c) = Len(a) + 1
      /\ \A i \in 1 .. Len(a) : c[i] = a[i]
      /\ c[Len(a) + 1] = e
  BY <1>2, AppendProperties
<1> HIDE DEF c
<1>4. /\ c \o b \in Seq(S)
      /\ Len(c \o b) = Len(c) + Len(b)
      /\ \A i \in 1 .. Len(c) + Len(b) :
           (c \o b)[i] = IF i <= Len(c) THEN c[i] ELSE b[i - Len(c)]
  BY <1>3, ConcatProperties
<1>5. \A i \in 1 .. Len(a) : (c \o b)[i] = a[i]
  BY <1>1, <1>3, <1>4
<1>6. (c \o b)[Len(a) + 1] = e
  BY <1>1, <1>3, <1>4
<1>7. ASSUME NEW i \in 1 .. Len(b) PROVE (c \o b)[Len(a) + 1 + i] = b[i]
  <2>1. /\ Len(a) + 1 + i \in 1 .. Len(c) + Len(b)
        /\ ~(Len(a) + 1 + i <= Len(c))
        /\ Len(a) + 1 + i - Len(c) = i
    BY <1>1, <1>3
  <2>2. QED
    BY <1>4, <2>1
<1>8. QED
  BY <1>1, <1>3, <1>4, <1>5, <1>6, <1>7 DEF c, IsJoin

\* How many bytes of a package go into the buffer that is last in the list.
Taken(last, len) == IF BufLen - last < len THEN BufLen - last ELSE len

\* They fit into it, and the others take the buffers the package adds.
LEMMA TakenType ==
  ASSUME NEW last \in 1 .. BufLen, NEW len \in Nat
  PROVE  /\ Taken(last, len) \in 0 .. len
         /\ last + Taken(last, len) \in last .. BufLen
         /\ Buffers(len + last) = 1 + Buffers(len - Taken(last, len))
<1>1. BufLen \in Nat \ {0}
  BY TcpSendAssumption
<1>2. Taken(last, len) \in 0 .. len /\ last + Taken(last, len) \in last .. BufLen
  BY <1>1 DEF Taken
<1>3. Taken(last, len) \in Nat
  BY <1>2
<1>4. QED
  BY <1>2, <1>3, BuffersFilled DEF Taken

\* The list grows by the buffers of what the last one has no room for, and its
\* first buffer loses nothing.
LEMMA AppendedType ==
  ASSUME NEW s \in Seq(Bytes), BufferList(m_send_list), m_send_list # <<>>
  PROVE  /\ BufferList(Appended(s))
         /\ Len(Appended(s)) =
              Len(m_send_list) + Buffers(Len(s) + Len(Last(m_send_list))) - 1
         /\ Appended(s) # <<>>
         /\ Len(Head(m_send_list)) <= Len(Head(Appended(s)))
<1>1. PICK l : l = m_send_list
  OBVIOUS
<1>2. /\ l \in Seq(Seq(Bytes)) /\ l # <<>>
      /\ \A i \in 1 .. Len(l) : Len(l[i]) \in 1 .. BufLen
  BY <1>1 DEF BufferList
<1>3. PICK k : k = Len(l)
  OBVIOUS
<1>4. BufLen \in Nat \ {0} /\ Len(s) \in Nat /\ k \in Nat \ {0}
  BY <1>2, <1>3, TcpSendAssumption, LenProperties, EmptySeq
<1>5. PICK last : last = Last(l)
  OBVIOUS
<1>6. last = l[k]
  BY <1>3, <1>5 DEF Last
<1>7. last \in Seq(Bytes) /\ Len(last) \in 1 .. BufLen
  BY <1>2, <1>3, <1>4, <1>6, ElementOfSeq
<1>8. PICK n : n = Taken(Len(last), Len(s))
  OBVIOUS
<1>9. /\ n \in 0 .. Len(s)
      /\ Len(last) + n \in Len(last) .. BufLen
      /\ Buffers(Len(s) + Len(last)) = 1 + Buffers(Len(s) - n)
  BY <1>4, <1>7, <1>8, TakenType
<1>10. SubSeq(s, 1, n) \in Seq(Bytes) /\ Len(SubSeq(s, 1, n)) = n
  <2>1. Len(SubSeq(s, 1, n)) = IF 1 <= n THEN n - 1 + 1 ELSE 0
    BY <1>4, <1>9, PartType
  <2>2. QED
    BY <1>4, <1>9, <2>1, PartType
<1>11. PICK more : more = Chunks(SubSeq(s, n + 1, Len(s)))
  OBVIOUS
<1>12. BufferList(more) /\ Len(more) = Buffers(Len(s) - n) /\ Len(more) \in Nat
  <2>1. n + 1 \in Nat \ {0} /\ Len(s) \in 0 .. Len(s) /\ Len(s) - n \in Nat
    BY <1>4, <1>9
  <2>2. /\ SubSeq(s, n + 1, Len(s)) \in Seq(Bytes)
        /\ Len(SubSeq(s, n + 1, Len(s))) =
             IF n + 1 <= Len(s) THEN Len(s) - (n + 1) + 1 ELSE 0
    BY <2>1, PartType
  <2>3. Len(SubSeq(s, n + 1, Len(s))) = Len(s) - n
    BY <1>4, <1>9, <2>2
  <2>4. QED
    BY <1>11, <2>1, <2>2, <2>3, ChunksType, BuffersBounds
<1>13. PICK filled : filled = last \o SubSeq(s, 1, n)
  OBVIOUS
<1>14. filled \in Seq(Bytes) /\ Len(filled) = Len(last) + n
  BY <1>7, <1>10, <1>13, ConcatProperties
<1>15. PICK f : f = Front(l)
  OBVIOUS
<1>16. f \in Seq(Seq(Bytes)) /\ Len(f) = k - 1 /\ \A i \in 1 .. k - 1 : f[i] = l[i]
  BY <1>2, <1>3, <1>15, FrontType
<1>17. PICK a : a = Appended(s)
  OBVIOUS
<1>18. a = f \o <<filled>> \o more
  BY <1>1, <1>5, <1>8, <1>11, <1>13, <1>15, <1>17 DEF Appended, Taken
<1>19. /\ a \in Seq(Seq(Bytes))
       /\ Len(a) = k + Len(more)
       /\ \A i \in 1 .. k - 1 : a[i] = l[i]
       /\ a[k] = filled
       /\ \A i \in 1 .. Len(more) : a[k + i] = more[i]
  <2>1. more \in Seq(Seq(Bytes)) /\ k - 1 + 1 = k
    BY <1>4, <1>12 DEF BufferList
  <2>2. /\ a \in Seq(Seq(Bytes))
        /\ Len(a) = Len(f) + 1 + Len(more)
        /\ \A i \in 1 .. Len(f) : a[i] = f[i]
        /\ a[Len(f) + 1] = filled
        /\ \A i \in 1 .. Len(more) : a[Len(f) + 1 + i] = more[i]
    <3>1. filled \in Seq(Bytes) /\ f \in Seq(Seq(Bytes)) /\ more \in Seq(Seq(Bytes))
      BY <1>14, <1>16, <2>1
    <3>2. /\ (f \o <<filled>>) \o more \in Seq(Seq(Bytes))
          /\ IsJoin((f \o <<filled>>) \o more, f, filled, more)
      BY <3>1, JoinedType
    <3>3. QED
      BY <1>18, <3>2 DEF IsJoin
  <2>3. Len(f) + 1 = k
    BY <1>16, <2>1
  <2>4. QED
    BY <1>16, <2>2, <2>3
<1>20. ASSUME NEW i \in 1 .. Len(a) PROVE Len(a[i]) \in 1 .. BufLen
  <2>1. CASE i \in 1 .. k - 1
    <3>1. i \in 1 .. Len(l)
      BY <1>3, <1>4, <2>1
    <3>2. Len(l[i]) \in 1 .. BufLen
      BY <1>2, <3>1
    <3>3. QED
      BY <1>19, <2>1, <3>2
  <2>2. CASE i = k
    BY <1>4, <1>7, <1>9, <1>14, <1>19, <2>2
  <2>3. CASE i > k
    <3>1. i - k \in 1 .. Len(more) /\ i = k + (i - k)
      BY <1>4, <1>12, <1>19, <2>3
    <3>2. a[i] = more[i - k]
      BY <1>19, <3>1
    <3>3. QED
      BY <1>12, <3>1, <3>2 DEF BufferList
  <2>4. QED
    BY <1>4, <1>12, <1>19, <2>1, <2>2, <2>3
<1>21. Head(l) = l[1] /\ Len(a) \in Nat \ {0} /\ a # <<>> /\ Head(a) = a[1]
  <2>1. Len(a) \in Nat \ {0}
    BY <1>4, <1>12, <1>19
  <2>2. a # <<>>
    BY <2>1, EmptySeq
  <2>3. QED
    BY <1>2, <1>19, <2>1, <2>2
<1>22. Len(l[1]) <= Len(a[1])
  <2>1. CASE k = 1
    BY <1>6, <1>7, <1>9, <1>14, <1>19, <2>1
  <2>2. CASE k # 1
    <3>1. a[1] = l[1]
      BY <1>4, <1>19, <2>2
    <3>2. Len(l[1]) \in Nat
      BY <1>2, <1>3, <1>4
    <3>3. QED
      BY <3>1, <3>2
  <2>3. QED
    BY <2>1, <2>2
<1>23. Len(a) = k + Buffers(Len(s) + Len(last)) - 1
  BY <1>4, <1>9, <1>12, <1>19
<1>24. BufferList(Appended(s))
  BY <1>17, <1>19, <1>20 DEF BufferList
<1>25. QED
  BY <1>1, <1>3, <1>5, <1>17, <1>21, <1>22, <1>23, <1>24

\* Where one puts the brackets does not matter.
LEMMA Rebracketed ==
  \A a, b, c \in Seq(Bytes) : (a \o b) \o c = a \o (b \o c)
BY ConcatAssociative

\* What of s comes behind its first p members.
After(s, p) == SubSeq(s, p + 1, Len(s))

\* A sequence cut in two is both parts end to end.
LEMMA CutInTwo ==
  ASSUME NEW S, NEW s \in Seq(S), NEW n \in 0 .. Len(s)
  PROVE  /\ SubSeq(s, 1, n) \in Seq(S) /\ After(s, n) \in Seq(S)
         /\ Len(SubSeq(s, 1, n)) = n /\ Len(After(s, n)) = Len(s) - n
         /\ SubSeq(s, 1, n) \o After(s, n) = s
<1>1. Len(s) \in Nat /\ n \in Nat
  BY LenProperties
<1>2. SubSeq(s, 1, n) \in Seq(S) /\ Len(SubSeq(s, 1, n)) = n
  <2>1. SubSeq(s, 1, n) \in Seq(S) /\ Len(SubSeq(s, 1, n)) = IF 1 <= n THEN n - 1 + 1 ELSE 0
    BY PartType
  <2>2. (IF 1 <= n THEN n - 1 + 1 ELSE 0) = n
    BY <1>1
  <2>3. QED
    BY <2>1, <2>2
<1>3. After(s, n) \in Seq(S) /\ Len(After(s, n)) = Len(s) - n
  <2>1. n + 1 \in Nat \ {0} /\ Len(s) \in 0 .. Len(s)
    BY <1>1
  <2>2. /\ After(s, n) \in Seq(S)
        /\ Len(After(s, n)) = IF n + 1 <= Len(s) THEN Len(s) - (n + 1) + 1 ELSE 0
    BY <2>1, PartType DEF After
  <2>3. (IF n + 1 <= Len(s) THEN Len(s) - (n + 1) + 1 ELSE 0) = Len(s) - n
    BY <1>1
  <2>4. QED
    BY <2>2, <2>3
<1>4. SubSeq(s, 1, n) \o SubSeq(s, n + 1, Len(s)) = SubSeq(s, 1, Len(s))
  <2>1. 1 \in 1 .. Len(s) + 1 /\ n \in 1 - 1 .. Len(s) /\ Len(s) \in n .. Len(s)
    BY <1>1
  <2>2. QED
    BY <2>1, ConcatAdjacentSubSeq
<1>5. QED
  BY <1>2, <1>3, <1>4, SubSeqFull DEF After

\* Behind p members of r, what comes behind r is whole.
LEMMA AfterConcat ==
  ASSUME NEW S, NEW r \in Seq(S), NEW t \in Seq(S), NEW p \in 0 .. Len(r)
  PROVE  After(r \o t, p) = After(r, p) \o t
<1>1. Len(r) \in Nat /\ Len(t) \in Nat /\ p \in Nat
  BY LenProperties
<1> DEFINE a == SubSeq(r, 1, p)  b == After(r, p)
<1>2. a \in Seq(S) /\ b \in Seq(S) /\ Len(a) = p /\ a \o b = r
  BY CutInTwo
<1>3. PICK w : w = r \o t
  OBVIOUS
<1>4. /\ w \in Seq(S) /\ Len(w) = Len(r) + Len(t)
      /\ \A i \in 1 .. Len(r) + Len(t) : w[i] = IF i <= Len(r) THEN r[i] ELSE t[i - Len(r)]
  BY <1>3, ConcatProperties
<1>5. p \in 0 .. Len(w)
  BY <1>1, <1>4
<1>6. /\ SubSeq(w, 1, p) \in Seq(S) /\ Len(SubSeq(w, 1, p)) = p
      /\ After(w, p) \in Seq(S) /\ SubSeq(w, 1, p) \o After(w, p) = w
  BY <1>4, <1>5, CutInTwo
<1>7. SubSeq(w, 1, p) = a
  <2>1. /\ \A i \in 1 .. p : w[i] \in S /\ w[i] = r[i]
        /\ \A i \in 1 .. p : r[i] \in S
    <3>1. \A i \in 1 .. Len(r) : r[i] \in S
      BY ElementOfSeq
    <3>2. QED
      BY <1>1, <1>4, <3>1
  <2>2. /\ \A i \in 1 .. p - 1 + 1 : SubSeq(w, 1, p)[i] = w[1 + i - 1]
        /\ \A i \in 1 .. p - 1 + 1 : SubSeq(r, 1, p)[i] = r[1 + i - 1]
    BY <1>1, <2>1, SubSeqProperties
  <2>3. p - 1 + 1 = p /\ \A i \in 1 .. p : 1 + i - 1 = i
    BY <1>1
  <2>4. \A i \in 1 .. p : SubSeq(w, 1, p)[i] = a[i]
    BY <2>1, <2>2, <2>3
  <2> HIDE DEF a
  <2>5. QED
    BY <1>2, <1>6, <2>4, SeqEqual
<1> HIDE DEF a, b
<1>8. (a \o b) \o t = a \o (b \o t)
  <2>1. a \in Seq(S) /\ b \in Seq(S) /\ t \in Seq(S)
    BY <1>2
  <2>2. QED
    BY <2>1, ConcatAssociative
<1>9. a \o After(w, p) = a \o (b \o t)
  BY <1>2, <1>3, <1>6, <1>7, <1>8
<1>10. b \o t \in Seq(S)
  BY <1>2, ConcatProperties
<1>11. After(w, p) = b \o t
  BY <1>2, <1>6, <1>9, <1>10, ConcatSimplifications
<1>12. QED
  BY <1>3, <1>11 DEF b

\* Bytes cut into buffers are those bytes.
LEMMA ChunksFlat ==
  ASSUME NEW s \in Seq(Bytes)
  PROVE  FlattenSeq(Chunks(s)) = s
<1> DEFINE n == Buffers(Len(s))
           to(i) == IF i * BufLen < Len(s) THEN i * BufLen ELSE Len(s)
           Cut(i) == FlattenSeq(SubSeq(Chunks(s), 1, i)) = SubSeq(s, 1, to(i))
           Bad == {i \in 0 .. n : ~Cut(i)}
<1>1. BufLen \in Nat \ {0} /\ Len(s) \in Nat
  BY TcpSendAssumption, LenProperties
<1>2. n \in Nat /\ Len(s) <= BufLen * n /\ BufLen * n < Len(s) + BufLen
  BY <1>1, BuffersBounds
<1>3. PICK c : c = Chunks(s)
  OBVIOUS
<1>4. c \in Seq(Seq(Bytes)) /\ Len(c) = n
  BY <1>3, ChunksType DEF BufferList
<1>5. \A i \in 1 .. n : c[i] = SubSeq(s, (i - 1) * BufLen + 1, to(i))
  BY <1>3 DEF Chunks
<1> HIDE DEF n
<1>6. ASSUME NEW i \in 1 .. n
      PROVE  /\ (i - 1) * BufLen \in Nat /\ (i - 1) * BufLen < Len(s)
             /\ to(i) \in (i - 1) * BufLen .. Len(s) /\ to(i - 1) = (i - 1) * BufLen
  <2>1. i * BufLen \in Nat /\ (i - 1) * BufLen \in Nat /\ BufLen * n \in Nat
    BY <1>1, <1>2, SMT
  <2>2. (i - 1) * BufLen = i * BufLen - BufLen
    BY <1>1, SMT
  <2>3. i * BufLen <= BufLen * n
    BY <1>1, <1>2, SMT
  <2>4. (i - 1) * BufLen < Len(s)
    BY <1>1, <1>2, <2>1, <2>2, <2>3, SMT
  <2>5. QED
    BY <1>1, <2>1, <2>2, <2>4, SMT
<1>7. to(0) = 0 /\ to(n) = Len(s)
  <2>1. 0 * BufLen = 0 /\ n * BufLen = BufLen * n
    BY <1>1, <1>2, SMT
  <2>2. BufLen * n \in Nat
    BY <1>1, <1>2, SMT
  <2>3. QED
    BY <1>1, <1>2, <2>1, <2>2
<1> HIDE DEF to
<1>8. Cut(0)
  <2>1. SubSeq(Chunks(s), 1, 0) = <<>> /\ SubSeq(s, 1, 0) = <<>>
    BY SubSeqEmpty
  <2>2. QED
    BY <1>7, <2>1, FlattenEmpty
<1>9. ASSUME NEW i \in 1 .. n, Cut(i - 1) PROVE Cut(i)
  <2>1. PICK k \in Nat : /\ k = (i - 1) * BufLen /\ k < Len(s)
                        /\ to(i) \in k .. Len(s) /\ to(i - 1) = k
    BY <1>6
  <2>2. i \in 1 .. Len(c) /\ i \in Nat /\ 1 \in 1 .. Len(c) /\ i \in 1 .. i
    BY <1>2, <1>4
  <2>3. /\ SubSeq(c, 1, i) = SubSeq(c, 1, i - 1) \o <<c[i]>>
        /\ SubSeq(c, 1, i - 1) \in Seq(Seq(Bytes))
        /\ c[i] \in Seq(Bytes)
    <3>1. i \in 1 .. Len(c) /\ c[i] \in Seq(Bytes) /\ i - 1 \in 0 .. Len(c) /\ 1 \in Nat \ {0}
      BY <1>4, <2>2, ElementOfSeq
    <3>2. SubSeq(c, 1, i) = SubSeq(c, 1, i - 1) \o <<c[i]>>
      BY <1>4, <2>2, SubSeqRecursiveSecond
    <3>3. QED
      BY <1>4, <3>1, <3>2, PartType
  <2>4. SubSeq(c, 1, i) = Append(SubSeq(c, 1, i - 1), c[i])
    BY <2>3, AppendIsConcat
  <2>5. FlattenSeq(SubSeq(c, 1, i)) = FlattenSeq(SubSeq(c, 1, i - 1)) \o c[i]
    BY <2>3, <2>4, FlattenAppend
  <2>6. FlattenSeq(SubSeq(c, 1, i - 1)) = SubSeq(s, 1, k) /\ c[i] = SubSeq(s, k + 1, to(i))
    BY <1>3, <1>5, <1>9, <2>1
  <2>7. SubSeq(s, 1, k) \o SubSeq(s, k + 1, to(i)) = SubSeq(s, 1, to(i))
    <3>1. 1 \in 1 .. Len(s) + 1 /\ k \in 1 - 1 .. Len(s) /\ to(i) \in k .. Len(s)
      BY <1>1, <2>1
    <3>2. QED
      BY <3>1, ConcatAdjacentSubSeq
  <2>8. QED
    BY <1>3, <2>5, <2>6, <2>7
<1> HIDE DEF Cut
<1>10. SUFFICES Bad = {}
  <2>1. Bad = {} => Cut(n)
    BY <1>2
  <2>2. SubSeq(c, 1, n) = c /\ SubSeq(s, 1, Len(s)) = s
    BY <1>4, SubSeqFull
  <2>3. QED
    BY <1>3, <1>7, <2>1, <2>2 DEF Cut
<1>11. SUFFICES ASSUME Bad # {} PROVE FALSE
  OBVIOUS
<1>12. PICK i \in Bad : \A j \in Bad : i <= j
  <2>1. Bad \in SUBSET Nat
    BY <1>2
  <2> HIDE DEF Bad
  <2>2. QED
    BY <1>11, <2>1, LeastOne
<1>13. i \in 0 .. n /\ ~Cut(i) /\ i # 0
  BY <1>8
<1>14. i \in 1 .. n /\ i - 1 \in 0 .. n /\ ~(i <= i - 1)
  BY <1>2, <1>13
<1>15. Cut(i - 1)
  BY <1>12, <1>14
<1>16. QED
  BY <1>9, <1>13, <1>14, <1>15

\* What is put behind the list comes behind what is in it.
LEMMA AppendedFlat ==
  ASSUME NEW s \in Seq(Bytes), BufferList(m_send_list), m_send_list # <<>>
  PROVE  FlattenSeq(Appended(s)) = FlattenSeq(m_send_list) \o s
<1>1. PICK l : l = m_send_list
  OBVIOUS
<1>2. /\ l \in Seq(Seq(Bytes)) /\ l # <<>>
      /\ \A i \in 1 .. Len(l) : Len(l[i]) \in 1 .. BufLen
  BY <1>1 DEF BufferList
<1>3. /\ FlattenSeq(l) = FlattenSeq(Front(l)) \o Last(l)
      /\ Last(l) \in Seq(Bytes) /\ Front(l) \in Seq(Seq(Bytes))
  BY <1>2, FlattenEnds
<1>4. PICK f, last : f = Front(l) /\ last = Last(l)
  OBVIOUS
<1>5. Len(last) \in 1 .. BufLen /\ Len(s) \in Nat
  <2>1. Len(l) \in 1 .. Len(l)
    BY <1>2, EmptySeq
  <2>2. QED
    BY <1>2, <1>4, <2>1, LenProperties DEF Last
<1>6. PICK n : n = Taken(Len(last), Len(s))
  OBVIOUS
<1>7. n \in 0 .. Len(s)
  BY <1>5, <1>6, TakenType
<1>8. PICK p, q : p = SubSeq(s, 1, n) /\ q = After(s, n)
  OBVIOUS
<1>9. p \in Seq(Bytes) /\ q \in Seq(Bytes) /\ p \o q = s
  BY <1>7, <1>8, CutInTwo
<1>10. PICK more : more = Chunks(q)
  OBVIOUS
<1>11. more \in Seq(Seq(Bytes)) /\ FlattenSeq(more) = q
  BY <1>9, <1>10, ChunksType, ChunksFlat DEF BufferList
<1>12. PICK g : g = FlattenSeq(f)
  OBVIOUS
<1>13. /\ f \in Seq(Seq(Bytes)) /\ last \in Seq(Bytes) /\ g \in Seq(Bytes)
       /\ FlattenSeq(l) = g \o last
  BY <1>3, <1>4, <1>12, FlattenType
<1>14. Appended(s) = f \o <<last \o p>> \o more
  BY <1>1, <1>4, <1>6, <1>8, <1>10 DEF Appended, Taken, After
<1>15. /\ last \o p \in Seq(Bytes)
       /\ f \o <<last \o p>> \in Seq(Seq(Bytes))
       /\ FlattenSeq(f \o <<last \o p>>) = g \o (last \o p)
  <2>1. last \o p \in Seq(Bytes)
    BY <1>9, <1>13, ConcatProperties
  <2>2. PICK e : e = last \o p
    OBVIOUS
  <2>3. Append(f, e) = f \o <<e>> /\ Append(f, e) \in Seq(Seq(Bytes))
    BY <1>13, <2>1, <2>2, AppendIsConcat, AppendProperties
  <2>4. FlattenSeq(Append(f, e)) = FlattenSeq(f) \o e
    BY <1>13, <2>1, <2>2, FlattenAppend
  <2>5. QED
    BY <1>12, <2>1, <2>2, <2>3, <2>4
<1>16. FlattenSeq(Appended(s)) = (g \o (last \o p)) \o q
  <2>1. PICK h : h = f \o <<last \o p>>
    OBVIOUS
  <2>2. h \in Seq(Seq(Bytes)) /\ FlattenSeq(h) \in Seq(Bytes)
    BY <1>15, <2>1, FlattenType
  <2>3. FlattenSeq(h \o more) = FlattenSeq(h) \o FlattenSeq(more)
    BY <1>11, <2>2, FlattenConcat
  <2>4. QED
    BY <1>11, <1>14, <1>15, <2>1, <2>3
<1>17. (g \o (last \o p)) \o q = (g \o last) \o s
  <2>1. g \o (last \o p) = (g \o last) \o p
    <3>1. g \in Seq(Bytes) /\ last \in Seq(Bytes) /\ p \in Seq(Bytes)
      BY <1>9, <1>13
    <3>2. QED
      BY <3>1, Rebracketed
  <2>2. PICK e : e = g \o last
    OBVIOUS
  <2>3. e \in Seq(Bytes)
    BY <1>13, <2>2, ConcatProperties
  <2>4. (e \o p) \o q = e \o (p \o q)
    <3>1. e \in Seq(Bytes) /\ p \in Seq(Bytes) /\ q \in Seq(Bytes)
      BY <1>9, <2>3
    <3>2. QED
      BY <3>1, Rebracketed
  <2>5. QED
    BY <1>9, <2>1, <2>2, <2>4
<1>18. QED
  BY <1>1, <1>13, <1>16, <1>17

-----------------------------------------------------------------------------
(***************************************************************************)
(* Every step keeps the invariant.                                         *)
(***************************************************************************)

\* The constants of the bound are numbers.
LEMMA BoundType == Buffers(MaxLen) \in Nat /\ Limit \in Nat \ {0} /\ BufLen \in Nat \ {0}
  BY TcpSendAssumption, BuffersBounds

\* The invariant holds before the first package.
LEMMA InitInv == Init => IInv
<1> SUFFICES ASSUME Init PROVE IInv
  OBVIOUS
<1>1. MaxPkgs \in Nat
  BY TcpSendAssumption
<1>2. TypeOK
  <2>1. <<>> \in Seq(Seq(Bytes)) /\ <<>> \in Seq(Bytes)
    BY EmptySeq
  <2>2. m_send_list = <<>> /\ wire = <<>> /\ accepted = <<>>
    BY DEF Init
  <2>3. m_send_list \in Seq(Seq(Bytes)) /\ wire \in Seq(Bytes) /\ accepted \in Seq(Seq(Bytes))
    BY <2>1, <2>2
  <2>4. \A i \in 1 .. Len(m_send_list) : Len(m_send_list[i]) \in 1 .. BufLen
    <3>1. Len(m_send_list) = 0
      BY <2>2, EmptySeq
    <3>2. QED
      BY <3>1
  <2>5. interest \in BOOLEAN /\ m_is_closed \in BOOLEAN
    BY Zenon DEF Init
  <2>6. m_send_pos \in Nat /\ at \in {"epoll", "output", "gone"} /\ tried \in 0 .. MaxPkgs
    <3>1. m_send_pos = 0 /\ at = "epoll" /\ tried = 0
      BY DEF Init
    <3>2. QED
      BY <1>1, <3>1
  <2>7. QED
    BY <2>2, <2>3, <2>4, <2>5, <2>6 DEF TypeOK
<1>3. ListBounded
  BY BoundType DEF Init, ListBounded
<1>4. QED
  BY <1>2, <1>3 DEF Init, IInv, FromTheStart

\* A package that waits behind others.
LEMMA SendQueuedInv ==
  ASSUME IInv, NEW len \in Lens, SendQueued(len)
  PROVE  IInv'
<1> USE DEF IInv, SendQueued, Call
<1>1. BufferList(m_send_list) /\ m_send_list # <<>>
  BY DEF TypeOK, BufferList
<1>2. PICK last : last = Len(Last(m_send_list))
  OBVIOUS
<1>3. last \in 1 .. BufLen
  <2>1. Len(m_send_list) \in 1 .. Len(m_send_list)
    BY <1>1, EmptySeq DEF BufferList
  <2>2. QED
    BY <1>1, <1>2, <2>1 DEF BufferList, Last
<1>4. PICK pkg : pkg = PkgBytes(tried + 1, len)
  OBVIOUS
<1>5. tried + 1 \in 1 .. MaxPkgs /\ tried' \in 0 .. MaxPkgs
  BY TcpSendAssumption DEF TypeOK
<1>6. pkg \in Seq(Bytes) /\ Len(pkg) = len
  BY <1>4, <1>5, PkgBytesType
<1>7. /\ BufferList(m_send_list')
      /\ Len(m_send_list') = Len(m_send_list) + Buffers(len + last) - 1
      /\ m_send_list' # <<>>
      /\ Len(Head(m_send_list)) <= Len(Head(m_send_list'))
  <2>1. m_send_list' = Appended(pkg)
    BY <1>4
  <2>2. /\ BufferList(Appended(pkg))
        /\ Len(Appended(pkg)) = Len(m_send_list) + Buffers(Len(pkg) + Len(Last(m_send_list))) - 1
        /\ Appended(pkg) # <<>>
        /\ Len(Head(m_send_list)) <= Len(Head(Appended(pkg)))
    BY <1>1, <1>6, AppendedType
  <2>3. QED
    BY <1>2, <1>6, <2>1, <2>2
<1>8. Buffers(len + last) - 1 <= Buffers(MaxLen) /\ Buffers(len + last) \in Nat
  <2>1. MaxLen \in Nat /\ len \in 1 .. MaxLen
    BY TcpSendAssumption
  <2>2. len + last \in Nat /\ MaxLen + BufLen \in Nat /\ len + last <= MaxLen + BufLen
    BY <1>3, <2>1, BoundType
  <2>3. Buffers(len + last) <= Buffers(MaxLen + BufLen)
    BY <2>2, BuffersMonotone
  <2>4. Buffers(MaxLen + BufLen) = Buffers(MaxLen) + 1
    BY <2>1, BuffersMore
  <2>5. Buffers(len + last) \in Nat
    BY <2>2, BuffersBounds
  <2>6. QED
    BY <2>3, <2>4, <2>5, BoundType
<1>9. m_send_pos < Len(Head(m_send_list'))
  <2>1. Len(Head(m_send_list)) \in Nat /\ Len(Head(m_send_list')) \in Nat
    <3>1. Head(m_send_list) \in Seq(Bytes) /\ Head(m_send_list') \in Seq(Bytes)
      BY <1>1, <1>7, HeadTailProperties DEF BufferList
    <3>2. QED
      BY <3>1, LenProperties
  <2>2. m_send_pos < Len(Head(m_send_list)) /\ m_send_pos \in Nat
    BY <1>1 DEF TypeOK
  <2>3. Len(Head(m_send_list)) <= Len(Head(m_send_list'))
    BY <1>7
  <2>4. QED
    BY <2>1, <2>2, <2>3
<1>10. accepted' \in Seq(Seq(Bytes))
  BY <1>4, <1>6, AppendProperties DEF TypeOK
<1>11. TypeOK'
  BY <1>5, <1>7, <1>9, <1>10 DEF TypeOK, BufferList
<1>12. ListBounded'
  <2>1. m_send_list_size' = m_send_list_size + Buffers(len + last) - 1
    BY <1>2
  <2>2. m_send_list_size \in Nat /\ m_send_list_size <= Limit - 1
    BY <1>1, BoundType, LenProperties DEF ListBounded, Full, BufferList
  <2>3. QED
    BY <1>7, <1>8, <2>1, <2>2, BoundType DEF ListBounded
<1>13. FromTheStart'
  BY <1>7 DEF FromTheStart
<1>14. QED
  BY <1>11, <1>12, <1>13

\* A package that the kernel takes a part of.
LEMMA SendNowInv ==
  ASSUME IInv, NEW len \in Lens, NEW n \in 0 .. len, SendNow(len, n)
  PROVE  IInv'
<1> USE DEF IInv, SendNow, Call
<1>1. PICK pkg : pkg = PkgBytes(tried + 1, len)
  OBVIOUS
<1>2. tried + 1 \in 1 .. MaxPkgs /\ tried' \in 0 .. MaxPkgs
  BY TcpSendAssumption DEF TypeOK
<1>3. pkg \in Seq(Bytes) /\ Len(pkg) = len /\ MaxLen \in Nat /\ len \in 1 .. MaxLen
  BY <1>1, <1>2, PkgBytesType, TcpSendAssumption
<1>4. SubSeq(pkg, 1, n) \in Seq(Bytes)
  BY <1>3, PartType
<1>5. SubSeq(pkg, n + 1, len) \in Seq(Bytes) /\ Len(SubSeq(pkg, n + 1, len)) = len - n
  <2>1. n + 1 \in Nat \ {0} /\ len \in 0 .. Len(pkg)
    BY <1>3
  <2>2. /\ SubSeq(pkg, n + 1, len) \in Seq(Bytes)
        /\ Len(SubSeq(pkg, n + 1, len)) = IF n + 1 <= len THEN len - (n + 1) + 1 ELSE 0
    BY <1>3, <2>1, PartType
  <2>3. QED
    BY <1>3, <2>2
<1>6. BufferList(m_send_list') /\ Len(m_send_list') = Buffers(len - n)
  BY <1>1, <1>5, ChunksType
<1>7. wire' \in Seq(Bytes)
  BY <1>1, <1>4, ConcatProperties DEF TypeOK
<1>8. accepted' \in Seq(Seq(Bytes))
  BY <1>1, <1>3, AppendProperties DEF TypeOK
<1>9. m_send_pos' = 0
  BY DEF FromTheStart
<1>10. m_send_list' # <<>> => m_send_pos' < Len(Head(m_send_list'))
  <2>1. SUFFICES ASSUME m_send_list' # <<>> PROVE 0 < Len(Head(m_send_list'))
    BY <1>9
  <2>2. 1 \in 1 .. Len(m_send_list') /\ Head(m_send_list') = m_send_list'[1]
    BY <1>6, <2>1, EmptySeq DEF BufferList
  <2>3. QED
    BY <1>6, <2>2, BoundType DEF BufferList
<1>11. interest' \in BOOLEAN
  BY DEF TypeOK
<1>12. TypeOK'
  BY <1>2, <1>6, <1>7, <1>8, <1>9, <1>10, <1>11 DEF TypeOK, BufferList
<1>13. ListBounded'
  <2>1. m_send_list_size = 0
    BY EmptySeq DEF ListBounded
  <2>2. len - n \in Nat /\ len - n <= MaxLen
    BY <1>3
  <2>3. Buffers(len - n) \in Nat /\ Buffers(len - n) <= Buffers(MaxLen)
    BY <1>3, <2>2, BuffersBounds, BuffersMonotone
  <2>4. QED
    BY <1>6, <2>1, <2>3, BoundType DEF ListBounded
<1>14. FromTheStart'
  BY <1>9 DEF FromTheStart
<1>15. QED
  BY <1>12, <1>13, <1>14

\* A package that the kernel takes a part of, with no memory for the rest.
LEMMA SendCutOffInv ==
  ASSUME IInv, NEW len \in Lens, NEW n \in 0 .. len, SendCutOff(len, n)
  PROVE  IInv'
<1> USE DEF IInv, SendCutOff, Call
<1>1. PICK pkg : pkg = PkgBytes(tried + 1, len)
  OBVIOUS
<1>2. tried + 1 \in 1 .. MaxPkgs /\ tried' \in 0 .. MaxPkgs
  BY TcpSendAssumption DEF TypeOK
<1>3. pkg \in Seq(Bytes) /\ Len(pkg) = len /\ MaxLen \in Nat /\ len \in 1 .. MaxLen
  BY <1>1, <1>2, PkgBytesType, TcpSendAssumption
<1>4. SubSeq(pkg, 1, n) \in Seq(Bytes)
  BY <1>3, PartType
<1>5. wire' \in Seq(Bytes)
  BY <1>1, <1>4, ConcatProperties DEF TypeOK
<1>6. accepted' \in Seq(Seq(Bytes))
  BY <1>1, <1>3, AppendProperties DEF TypeOK
<1>7. TypeOK'
  BY <1>2, <1>5, <1>6 DEF TypeOK
<1>8. QED
  BY <1>7 DEF ListBounded, FromTheStart

\* The connection ends.
LEMMA GoneInv ==
  ASSUME IInv, Gone, tried' \in 0 .. MaxPkgs
  PROVE  IInv'
<1>1. TypeOK'
  BY EmptySeq DEF IInv, Gone, TypeOK
<1>2. ListBounded'
  BY BoundType, EmptySeq DEF Gone, ListBounded
<1>3. QED
  BY <1>1, <1>2 DEF IInv, Gone, FromTheStart

\* A turn of the loop that sends.
LEMMA OutputInv ==
  ASSUME IInv, NEW n \in 1 .. BufLen, Output(n)
  PROVE  IInv'
<1> USE DEF IInv, Output
<1>1. PICK first : first = Head(m_send_list)
  OBVIOUS
<1>2. /\ m_send_list \in Seq(Seq(Bytes)) /\ m_send_list # <<>>
      /\ first \in Seq(Bytes) /\ Len(first) \in Nat /\ m_send_pos \in Nat
      /\ n \in Nat \ {0} /\ m_send_pos + n <= Len(first)
  BY <1>1, HeadTailProperties, LenProperties, BoundType DEF TypeOK, ToSend
<1>3. wire' \in Seq(Bytes)
  <2>1. SubSeq(first, m_send_pos + 1, m_send_pos + n) \in Seq(Bytes)
    <3>1. m_send_pos + 1 \in Nat \ {0} /\ m_send_pos + n \in 0 .. Len(first)
      BY <1>2
    <3>2. QED
      BY <1>2, <3>1, PartType
  <2>2. QED
    BY <1>1, <2>1, ConcatProperties DEF TypeOK
<1>4. CASE n = ToSend
  <2>1. /\ m_send_list' \in Seq(Seq(Bytes))
        /\ Len(m_send_list') = Len(m_send_list) - 1
        /\ \A i \in 1 .. Len(m_send_list') : m_send_list'[i] = m_send_list[i + 1]
    BY <1>2, <1>4, HeadTailProperties
  <2>2. Len(m_send_list) \in Nat \ {0} /\ Len(m_send_list') \in Nat
    BY <1>2, <2>1, EmptySeq
  <2>3. \A i \in 1 .. Len(m_send_list') : Len(m_send_list'[i]) \in 1 .. BufLen
    <3>1. TAKE i \in 1 .. Len(m_send_list')
    <3>2. i + 1 \in 1 .. Len(m_send_list)
      BY <2>1, <2>2
    <3>3. QED
      BY <2>1, <3>2 DEF TypeOK
  <2>4. m_send_list' # <<>> => m_send_pos' < Len(Head(m_send_list'))
    <3>1. SUFFICES ASSUME m_send_list' # <<>> PROVE 0 < Len(Head(m_send_list'))
      BY <1>4
    <3>2. 1 \in 1 .. Len(m_send_list') /\ Head(m_send_list') = m_send_list'[1]
      BY <2>1, <3>1, EmptySeq
    <3>3. QED
      BY <2>3, <3>2, BoundType
  <2>5. TypeOK'
    BY <1>3, <1>4, <2>1, <2>3, <2>4 DEF TypeOK
  <2>6. ListBounded'
    BY <1>4, <2>1, <2>2, BoundType DEF ListBounded
  <2>7. QED
    BY <1>4, <2>5, <2>6 DEF FromTheStart
<1>5. CASE n # ToSend
  <2>1. m_send_list' = m_send_list /\ m_send_list_size' = m_send_list_size
        /\ m_send_pos' = m_send_pos + n
    BY <1>5
  <2>2. m_send_pos' \in Nat /\ m_send_pos' < Len(Head(m_send_list'))
    BY <1>1, <1>2, <1>5, <2>1 DEF ToSend
  <2>3. TypeOK'
    BY <1>3, <2>1, <2>2 DEF TypeOK
  <2>4. QED
    BY <1>2, <2>1, <2>3 DEF ListBounded, FromTheStart
<1>6. QED
  BY <1>4, <1>5

\* Every action keeps the invariant.
LEMMA NextInv == IInv /\ [Next]_vars => IInv'
<1> SUFFICES ASSUME IInv, [Next]_vars PROVE IInv'
  OBVIOUS
<1>1. \A t \in 0 .. MaxPkgs : t < MaxPkgs => t + 1 \in 0 .. MaxPkgs
  BY TcpSendAssumption
<1>2. ASSUME NEW len \in Lens, SendFull(len) PROVE IInv'
  BY <1>1, <1>2
  DEF SendFull, Call, IInv, TypeOK, ListBounded, FromTheStart
<1>3. ASSUME NEW len \in Lens, SendQueued(len) PROVE IInv'
  BY <1>3, SendQueuedInv
<1>4. ASSUME NEW len \in Lens, NEW n \in 0 .. len, SendNow(len, n) PROVE IInv'
  BY <1>4, SendNowInv
<1>5. CASE SendFails
  BY <1>1, <1>5, GoneInv DEF SendFails, Call, IInv, TypeOK
<1>6. CASE ClientGone
  BY <1>6, GoneInv DEF ClientGone, IInv, TypeOK
<1>7. CASE Writable
  BY <1>7 DEF Writable, IInv, TypeOK, ListBounded, FromTheStart
<1>8. ASSUME NEW n \in 1 .. BufLen, Output(n) PROVE IInv'
  BY <1>8, OutputInv
<1>9. CASE OutputAgain
  BY <1>9 DEF OutputAgain, IInv, TypeOK, ListBounded, FromTheStart
<1>10. CASE OutputDone
  <2>1. CASE m_is_closed
    BY <1>10, <2>1, GoneInv DEF OutputDone, IInv, TypeOK
  <2>2. CASE ~m_is_closed
    BY <1>10, <2>2 DEF OutputDone, IInv, TypeOK, ListBounded, FromTheStart
  <2>3. QED
    BY <2>1, <2>2
<1>11. CASE Shut
  <2>1. CASE m_send_list = <<>>
    BY <1>11, <2>1, GoneInv DEF Shut, IInv, TypeOK
  <2>2. CASE m_send_list # <<>>
    BY <1>11, <2>2 DEF Shut, IInv, TypeOK, ListBounded, FromTheStart
  <2>3. QED
    BY <2>1, <2>2
<1>12. CASE UNCHANGED vars
  BY <1>12 DEF vars, IInv, TypeOK, ListBounded, FromTheStart
<1>13. ASSUME NEW len \in Lens, NEW n \in 0 .. len, SendCutOff(len, n) PROVE IInv'
  BY <1>13, SendCutOffInv
<1>14. QED
  BY <1>2, <1>3, <1>4, <1>5, <1>6, <1>7, <1>8, <1>9, <1>10, <1>11, <1>12, <1>13 DEF Next

-----------------------------------------------------------------------------
\* The invariant holds in every behaviour.
LEMMA Inductive == Spec => []IInv
  BY InitInv, NextInv, PTL DEF Spec

\* No buffer is empty or holds more than fits into it, and m_send_pos stays
\* inside the first one (send_pkg, handle_output).
THEOREM SendTypes == Spec => []TypeOK
<1>1. IInv => TypeOK
  BY DEF IInv
<1>2. QED
  BY <1>1, Inductive, PTL

\* m_send_list_size is the number of buffers, and a client that does not read
\* costs Limit - 1 buffers and those of one package at the most.
THEOREM SendBounded == Spec => []ListBounded
<1>1. IInv => ListBounded
  BY DEF IInv
<1>2. QED
  BY <1>1, Inductive, PTL

-----------------------------------------------------------------------------
(***************************************************************************)
(* The bytes the client gets.                                              *)
(***************************************************************************)

\* What of the list l is unsent when p bytes of its first buffer are sent.
Rest(l, p) == IF l = <<>> THEN <<>> ELSE After(FlattenSeq(l), p)

\* The rest of the first buffer, and the buffers behind it.
LEMMA RestOf ==
  ASSUME NEW l \in Seq(Seq(Bytes)), NEW p \in Nat, l # <<>>, p <= Len(Head(l))
  PROVE  /\ Head(l) \in Seq(Bytes) /\ FlattenSeq(Tail(l)) \in Seq(Bytes)
         /\ FlattenSeq(l) \in Seq(Bytes) /\ p \in 0 .. Len(FlattenSeq(l))
         /\ After(Head(l), p) \in Seq(Bytes) /\ p \in 0 .. Len(Head(l))
         /\ Rest(l, p) = After(Head(l), p) \o FlattenSeq(Tail(l))
         /\ Rest(l, p) \in Seq(Bytes)
<1>1. PICK h, t : h = Head(l) /\ t = FlattenSeq(Tail(l))
  OBVIOUS
<1>2. h \in Seq(Bytes) /\ t \in Seq(Bytes) /\ FlattenSeq(l) = h \o t
  BY <1>1, FlattenEnds, FlattenType
<1>3. /\ h \o t \in Seq(Bytes) /\ Len(h \o t) = Len(h) + Len(t)
      /\ Len(h) \in Nat /\ Len(t) \in Nat
  BY <1>2, ConcatProperties, LenProperties
<1>4. p \in 0 .. Len(h) /\ p \in 0 .. Len(h \o t)
  BY <1>1, <1>3
<1>5. After(h \o t, p) = After(h, p) \o t
  BY <1>2, <1>4, AfterConcat
<1>6. After(h, p) \in Seq(Bytes)
  BY <1>2, <1>4, CutInTwo
<1>7. After(h, p) \o t \in Seq(Bytes)
  BY <1>2, <1>6, ConcatProperties
<1>8. Rest(l, p) = After(h, p) \o t
  BY <1>2, <1>5 DEF Rest
<1>9. QED
  BY <1>1, <1>2, <1>3, <1>4, <1>6, <1>7, <1>8

\* When the list is all of s it is unsent from the first byte.
LEMMA RestAll ==
  ASSUME NEW l \in Seq(Seq(Bytes))
  PROVE  Rest(l, 0) = FlattenSeq(l)
<1>1. CASE l = <<>>
  BY <1>1, FlattenEmpty DEF Rest
<1>2. CASE l # <<>>
  <2>1. FlattenSeq(l) \in Seq(Bytes)
    BY FlattenType
  <2>2. After(FlattenSeq(l), 0) = FlattenSeq(l)
    BY <2>1, SubSeqFull DEF After
  <2>3. QED
    BY <1>2, <2>2 DEF Rest
<1>3. QED
  BY <1>1, <1>2

\* A sequence begins with its first part.
LEMMA BeginsWith ==
  ASSUME NEW S, NEW a \in Seq(S), NEW b \in Seq(S)
  PROVE  IsPrefix(a, a \o b)
<1>1. Len(a) \in Nat /\ Len(b) \in Nat /\ Len(a \o b) = Len(a) + Len(b)
  BY LenProperties, ConcatProperties
<1>2. SubSeq(a, 1, Len(a)) = SubSeq(a \o b, 1, Len(a))
  <2>1. CASE Len(a) = 0
    <3>1. SubSeq(a, 1, 0) = <<>> /\ SubSeq(a \o b, 1, 0) = <<>>
      BY SubSeqEmpty
    <3>2. QED
      BY <2>1, <3>1
  <2>2. CASE Len(a) # 0
    <3>1. 1 \in 1 .. Len(a) /\ Len(a) \in 1 .. Len(a)
      BY <1>1, <2>2
    <3>2. QED
      BY <3>1, SubSeqOfConcat1
  <2>3. QED
    BY <2>1, <2>2
<1>3. QED
  BY <1>1, <1>2 DEF IsPrefix

StreamInv == IInv /\ StreamIntact

\* Unsent, before and after a step.
LEMMA UnsentRest ==
  /\ Unsent = Rest(m_send_list, m_send_pos)
  /\ Unsent' = Rest(m_send_list', m_send_pos')
BY DEF Unsent, Rest, After

\* A package that waits behind others comes behind them in the stream.
LEMMA SendQueuedStream ==
  ASSUME StreamInv, NEW len \in Lens, SendQueued(len)
  PROVE  StreamIntact'
<1>1. /\ IInv /\ TypeOK /\ at = "epoll" /\ at' = "epoll" /\ m_send_list # <<>>
      /\ wire' = wire /\ m_send_pos' = m_send_pos
      /\ tried < MaxPkgs
  BY DEF StreamInv, IInv, SendQueued, Call
<1>2. PICK pkg : pkg = PkgBytes(tried + 1, len)
  OBVIOUS
<1>3. tried + 1 \in 1 .. MaxPkgs
  BY <1>1, TcpSendAssumption DEF TypeOK
<1>4. pkg \in Seq(Bytes)
  BY <1>2, <1>3, PkgBytesType
<1>5. m_send_list' = Appended(pkg) /\ accepted' = Append(accepted, pkg)
  BY <1>2 DEF SendQueued
<1>6. PICK l, k, p, w, acc : l = m_send_list /\ k = m_send_list' /\ p = m_send_pos /\ w = wire
                             /\ acc = accepted
  OBVIOUS
<1>7. /\ l \in Seq(Seq(Bytes)) /\ l # <<>> /\ BufferList(l) /\ p \in Nat /\ p < Len(Head(l))
      /\ w \in Seq(Bytes) /\ acc \in Seq(Seq(Bytes))
  BY <1>1, <1>6 DEF TypeOK, BufferList
<1>8. FlattenSeq(k) = FlattenSeq(l) \o pkg /\ k # <<>>
  BY <1>4, <1>5, <1>6, <1>7, AppendedFlat, AppendedType
<1>9. /\ FlattenSeq(l) \in Seq(Bytes) /\ p \in 0 .. Len(FlattenSeq(l))
      /\ Rest(l, p) \in Seq(Bytes)
  <2>1. Head(l) \in Seq(Bytes) /\ Len(Head(l)) \in Nat
    BY <1>7, HeadTailProperties, LenProperties
  <2>2. p <= Len(Head(l))
    BY <1>7, <2>1
  <2>3. QED
    BY <1>7, <2>2, RestOf
<1>10. Rest(k, p) = Rest(l, p) \o pkg
  <2>1. After(FlattenSeq(l) \o pkg, p) = After(FlattenSeq(l), p) \o pkg
    BY <1>4, <1>9, AfterConcat
  <2>2. QED
    BY <1>7, <1>8, <2>1 DEF Rest
<1>11. FlattenSeq(Append(acc, pkg)) = FlattenSeq(acc) \o pkg
  BY <1>4, <1>7, FlattenAppend
<1>12. w \o Rest(l, p) = FlattenSeq(acc)
  BY <1>1, <1>6, UnsentRest DEF StreamInv, StreamIntact
<1>13. (w \o Rest(l, p)) \o pkg = w \o (Rest(l, p) \o pkg)
  BY <1>4, <1>7, <1>9, Rebracketed
<1>14. w \o Rest(k, p) = FlattenSeq(Append(acc, pkg))
  BY <1>10, <1>11, <1>12, <1>13
<1>15. wire' \o Unsent' = FlattenSeq(accepted')
  BY <1>1, <1>5, <1>6, <1>14, UnsentRest
<1>16. QED
  BY <1>1, <1>15 DEF StreamIntact

\* A package the kernel takes a part of is first in the stream, and the rest of it
\* is what waits.
LEMMA SendNowStream ==
  ASSUME StreamInv, NEW len \in Lens, NEW n \in 0 .. len, SendNow(len, n)
  PROVE  StreamIntact'
<1>1. /\ IInv /\ TypeOK /\ at = "epoll" /\ at' = "epoll" /\ m_send_list = <<>>
      /\ m_send_pos' = m_send_pos /\ tried < MaxPkgs
  BY DEF StreamInv, IInv, SendNow, Call
<1>2. PICK pkg : pkg = PkgBytes(tried + 1, len)
  OBVIOUS
<1>3. tried + 1 \in 1 .. MaxPkgs
  BY <1>1, TcpSendAssumption DEF TypeOK
<1>4. pkg \in Seq(Bytes) /\ Len(pkg) = len
  BY <1>2, <1>3, PkgBytesType
<1>5. PICK a, b : a = SubSeq(pkg, 1, n) /\ b = After(pkg, n)
  OBVIOUS
<1>6. a \in Seq(Bytes) /\ b \in Seq(Bytes) /\ a \o b = pkg
  BY <1>4, <1>5, CutInTwo
<1>7. wire' = wire \o a /\ m_send_list' = Chunks(b) /\ accepted' = Append(accepted, pkg)
  BY <1>2, <1>4, <1>5 DEF SendNow, After
<1>8. m_send_pos' = 0
  BY <1>1 DEF IInv, FromTheStart
<1>9. Unsent' = b
  <2>1. Chunks(b) \in Seq(Seq(Bytes)) /\ FlattenSeq(Chunks(b)) = b
    BY <1>6, ChunksType, ChunksFlat DEF BufferList
  <2>2. Rest(Chunks(b), 0) = b
    BY <2>1, RestAll
  <2>3. QED
    BY <1>7, <1>8, <2>2, UnsentRest
<1>10. PICK w, acc : w = wire /\ acc = accepted
  OBVIOUS
<1>11. w \in Seq(Bytes) /\ acc \in Seq(Seq(Bytes))
  BY <1>1, <1>10 DEF TypeOK
<1>12. FlattenSeq(acc) = w
  <2>1. w \o <<>> = w
    BY <1>11, ConcatEmptySeq
  <2>2. Unsent = <<>>
    BY <1>1 DEF Unsent
  <2>3. QED
    BY <1>1, <1>10, <2>1, <2>2 DEF StreamInv, StreamIntact
<1>13. FlattenSeq(Append(acc, pkg)) = w \o pkg
  BY <1>4, <1>11, <1>12, FlattenAppend
<1>14. (w \o a) \o b = w \o (a \o b)
  <2>1. w \in Seq(Bytes) /\ a \in Seq(Bytes) /\ b \in Seq(Bytes)
    BY <1>6, <1>11
  <2>2. QED
    BY <2>1, Rebracketed
<1>15. wire' \o Unsent' = FlattenSeq(accepted')
  BY <1>6, <1>7, <1>9, <1>10, <1>13, <1>14
<1>16. QED
  BY <1>1, <1>15 DEF StreamIntact

\* When there is no memory for the rest, the part is still the beginning of the package.
LEMMA SendCutOffStream ==
  ASSUME StreamInv, NEW len \in Lens, NEW n \in 0 .. len, SendCutOff(len, n)
  PROVE  StreamIntact'
<1>1. /\ IInv /\ TypeOK /\ at = "epoll" /\ at' = "gone" /\ m_send_list = <<>>
      /\ tried < MaxPkgs
  BY DEF StreamInv, IInv, SendCutOff, Call
<1>2. PICK pkg, w, acc : pkg = PkgBytes(tried + 1, len) /\ w = wire /\ acc = accepted
  OBVIOUS
<1>3. tried + 1 \in 1 .. MaxPkgs
  BY <1>1, TcpSendAssumption DEF TypeOK
<1>4. pkg \in Seq(Bytes) /\ Len(pkg) = len
  BY <1>2, <1>3, PkgBytesType
<1>5. PICK a, b : a = SubSeq(pkg, 1, n) /\ b = After(pkg, n)
  OBVIOUS
<1>6. a \in Seq(Bytes) /\ b \in Seq(Bytes) /\ a \o b = pkg
  BY <1>4, <1>5, CutInTwo
<1>7. wire' = w \o a /\ accepted' = Append(acc, pkg)
  BY <1>2, <1>5 DEF SendCutOff
<1>8. w \in Seq(Bytes) /\ acc \in Seq(Seq(Bytes))
  BY <1>1, <1>2 DEF TypeOK
<1>9. FlattenSeq(acc) = w
  <2>1. w \o <<>> = w
    BY <1>8, ConcatEmptySeq
  <2>2. Unsent = <<>>
    BY <1>1 DEF Unsent
  <2>3. QED
    BY <1>1, <1>2, <2>1, <2>2 DEF StreamInv, StreamIntact
<1>10. FlattenSeq(Append(acc, pkg)) = w \o pkg
  BY <1>4, <1>8, <1>9, FlattenAppend
<1>11. (w \o a) \o b = w \o (a \o b)
  BY <1>6, <1>8, Rebracketed
<1>12. w \o a \in Seq(Bytes)
  BY <1>6, <1>8, ConcatProperties
<1>13. IsPrefix(w \o a, (w \o a) \o b)
  BY <1>6, <1>12, BeginsWith
<1>14. IsPrefix(wire', FlattenSeq(accepted'))
  BY <1>6, <1>7, <1>10, <1>11, <1>13
<1>15. QED
  BY <1>1, <1>14 DEF StreamIntact

\* What the kernel takes in handle_output comes next in the stream.
LEMMA OutputStream ==
  ASSUME StreamInv, NEW n \in 1 .. BufLen, Output(n)
  PROVE  StreamIntact'
<1>1. /\ IInv /\ TypeOK /\ at = "output" /\ at' = "output" /\ m_send_list # <<>>
      /\ accepted' = accepted /\ n \in Nat
  BY BoundType DEF StreamInv, IInv, Output
<1>2. PICK l, p, w, h, t : /\ l = m_send_list /\ p = m_send_pos /\ w = wire
                           /\ h = Head(l) /\ t = FlattenSeq(Tail(l))
  OBVIOUS
<1>3. /\ l \in Seq(Seq(Bytes)) /\ l # <<>> /\ p \in Nat /\ w \in Seq(Bytes)
      /\ h \in Seq(Bytes) /\ Len(h) \in Nat
  BY <1>1, <1>2, HeadTailProperties, LenProperties DEF TypeOK
<1>4. p + n \in 0 .. Len(h) /\ p + n \in Nat /\ p <= Len(h)
  BY <1>1, <1>2, <1>3 DEF Output, ToSend
<1>5. /\ t \in Seq(Bytes)
      /\ Rest(l, p) = After(h, p) \o t
      /\ Rest(l, p + n) = After(h, p + n) \o t
      /\ After(h, p + n) \in Seq(Bytes)
  <2>1. t \in Seq(Bytes) /\ Rest(l, p) = After(h, p) \o t
    BY <1>2, <1>3, <1>4, RestOf
  <2>2. PICK m \in Nat : m = p + n
    BY <1>4
  <2>3. Rest(l, m) = After(h, m) \o t /\ After(h, m) \in Seq(Bytes)
    <3>1. m <= Len(Head(l))
      BY <1>2, <1>3, <1>4, <2>2
    <3>2. QED
      BY <1>2, <1>3, <3>1, RestOf
  <2>4. QED
    BY <2>1, <2>2, <2>3
<1>6. PICK x : x = SubSeq(h, p + 1, p + n)
  OBVIOUS
<1>7. x \in Seq(Bytes) /\ After(h, p) = x \o After(h, p + n)
  <2>1. /\ p + 1 \in Nat \ {0} /\ p + n \in 0 .. Len(h)
        /\ p + 1 \in 1 .. Len(h) + 1 /\ p + n \in (p + 1) - 1 .. Len(h)
        /\ Len(h) \in p + n .. Len(h)
    BY <1>3, <1>4
  <2>2. x \in Seq(Bytes)
    BY <1>3, <1>6, <2>1, PartType
  <2>3. SubSeq(h, p + 1, p + n) \o SubSeq(h, p + n + 1, Len(h)) = SubSeq(h, p + 1, Len(h))
    BY <1>3, <2>1, ConcatAdjacentSubSeq
  <2>4. QED
    BY <1>6, <2>2, <2>3 DEF After
<1>8. wire' = w \o x
  BY <1>2, <1>6 DEF Output
<1>9. Unsent' = After(h, p + n) \o t
  <2>1. CASE n = ToSend
    <3>1. m_send_list' = Tail(l) /\ m_send_pos' = 0 /\ p + n = Len(h)
      BY <1>1, <1>2, <1>3, <2>1 DEF Output, ToSend
    <3>2. Rest(Tail(l), 0) = t
      BY <1>2, <1>3, HeadTailProperties, RestAll
    <3>3. After(h, p + n) = <<>>
      BY <1>3, <3>1, SubSeqEmpty DEF After
    <3>4. <<>> \o t = t
      BY <1>5, ConcatEmptySeq
    <3>5. QED
      BY <3>1, <3>2, <3>3, <3>4, UnsentRest
  <2>2. CASE n # ToSend
    <3>1. m_send_list' = l /\ m_send_pos' = p + n
      BY <1>2, <2>2 DEF Output
    <3>2. QED
      BY <1>5, <3>1, UnsentRest
  <2>3. QED
    BY <2>1, <2>2
<1>10. PICK y : y = After(h, p + n)
  OBVIOUS
<1>11. (w \o x) \o (y \o t) = w \o ((x \o y) \o t)
  <2>1. w \in Seq(Bytes) /\ x \in Seq(Bytes) /\ y \in Seq(Bytes) /\ t \in Seq(Bytes)
    BY <1>3, <1>5, <1>7, <1>10
  <2>2. y \o t \in Seq(Bytes)
    BY <2>1, ConcatProperties
  <2>3. (w \o x) \o (y \o t) = w \o (x \o (y \o t))
    BY <2>1, <2>2, Rebracketed, SMTT(20)
  <2>4. (x \o y) \o t = x \o (y \o t)
    BY <2>1, Rebracketed
  <2>5. QED
    BY <2>3, <2>4
<1>12. w \o Rest(l, p) = FlattenSeq(accepted)
  BY <1>1, <1>2, UnsentRest DEF StreamInv, StreamIntact
<1>13. wire' \o Unsent' = FlattenSeq(accepted')
  BY <1>1, <1>5, <1>7, <1>8, <1>9, <1>10, <1>11, <1>12
<1>14. QED
  BY <1>1, <1>13 DEF StreamIntact

\* A connection that ends leaves the client with the beginning of the stream.
LEMMA GoneStream ==
  ASSUME StreamInv, Gone, at # "gone"
  PROVE  StreamIntact'
<1>1. /\ IInv /\ TypeOK /\ at' = "gone" /\ wire' = wire /\ accepted' = accepted
  BY DEF StreamInv, IInv, Gone
<1>2. wire \in Seq(Bytes) /\ Unsent \in Seq(Bytes)
  <2>1. CASE m_send_list = <<>>
    BY <1>1, <2>1, EmptySeq DEF Unsent, TypeOK
  <2>2. CASE m_send_list # <<>>
    <3>1. PICK l, p : l = m_send_list /\ p = m_send_pos
      OBVIOUS
    <3>2. /\ l \in Seq(Seq(Bytes)) /\ l # <<>> /\ p \in Nat /\ p < Len(Head(l))
          /\ Head(l) \in Seq(Bytes) /\ Len(Head(l)) \in Nat
      BY <1>1, <2>2, <3>1, HeadTailProperties, LenProperties DEF TypeOK
    <3>3. p <= Len(Head(l))
      BY <3>2
    <3>4. Rest(l, p) \in Seq(Bytes)
      BY <3>2, <3>3, RestOf
    <3>5. QED
      BY <1>1, <3>1, <3>4, UnsentRest DEF TypeOK
  <2>3. QED
    BY <2>1, <2>2
<1>3. wire \o Unsent = FlattenSeq(accepted)
  BY DEF StreamInv, StreamIntact
<1>4. IsPrefix(wire, wire \o Unsent)
  BY <1>2, BeginsWith
<1>5. QED
  BY <1>1, <1>3, <1>4 DEF StreamIntact

\* Before the first package there is nothing.
LEMMA StreamInit == Init => StreamInv
<1> SUFFICES ASSUME Init PROVE StreamInv
  OBVIOUS
<1>1. <<>> \o <<>> = <<>>
  BY EmptySeq, ConcatEmptySeq
<1>2. StreamIntact
  BY <1>1, FlattenEmpty DEF Init, StreamIntact, Unsent
<1>3. QED
  BY <1>2, InitInv DEF StreamInv

\* Every action keeps the stream whole.
LEMMA StreamNext == StreamInv /\ [Next]_vars => StreamInv'
<1> SUFFICES ASSUME StreamInv, [Next]_vars PROVE StreamIntact'
  BY NextInv DEF StreamInv
<1>1. ASSUME UNCHANGED <<m_send_list, m_send_pos, accepted, wire>>,
             (at' = "gone") = (at = "gone")
      PROVE  StreamIntact'
  <2>1. Unsent' = Unsent
    BY <1>1, UnsentRest
  <2>2. QED
    BY <1>1, <2>1 DEF StreamInv, StreamIntact
<1>2. ASSUME NEW len \in Lens, SendFull(len) PROVE StreamIntact'
  BY <1>1, <1>2 DEF SendFull
<1>3. ASSUME NEW len \in Lens, SendQueued(len) PROVE StreamIntact'
  BY <1>3, SendQueuedStream
<1>4. ASSUME NEW len \in Lens, NEW n \in 0 .. len, SendNow(len, n) PROVE StreamIntact'
  BY <1>4, SendNowStream
<1>5. CASE SendFails
  BY <1>5, GoneStream DEF SendFails, Call
<1>6. CASE ClientGone
  BY <1>6, GoneStream DEF ClientGone
<1>7. CASE Writable
  BY <1>1, <1>7 DEF Writable
<1>8. ASSUME NEW n \in 1 .. BufLen, Output(n) PROVE StreamIntact'
  BY <1>8, OutputStream
<1>9. CASE OutputAgain
  BY <1>1, <1>9 DEF OutputAgain
<1>10. CASE OutputDone
  <2>1. CASE m_is_closed
    BY <1>10, <2>1, GoneStream DEF OutputDone
  <2>2. CASE ~m_is_closed
    BY <1>1, <1>10, <2>2 DEF OutputDone
  <2>3. QED
    BY <2>1, <2>2
<1>11. CASE Shut
  <2>1. CASE m_send_list = <<>>
    BY <1>11, <2>1, GoneStream DEF Shut
  <2>2. CASE m_send_list # <<>>
    BY <1>1, <1>11, <2>2 DEF Shut
  <2>3. QED
    BY <2>1, <2>2
<1>12. CASE UNCHANGED vars
  BY <1>1, <1>12 DEF vars
<1>13. ASSUME NEW len \in Lens, NEW n \in 0 .. len, SendCutOff(len, n) PROVE StreamIntact'
  BY <1>13, SendCutOffStream
<1>14. QED
  BY <1>2, <1>3, <1>4, <1>5, <1>6, <1>7, <1>8, <1>9, <1>10, <1>11, <1>12, <1>13 DEF Next

\* The client gets the accepted packages whole, each once and in the order in which
\* they were accepted, however much the kernel takes at a time (send_pkg, handle_output).
THEOREM SendsWhole == Spec => []StreamIntact
<1>1. Spec => []StreamInv
  BY StreamInit, StreamNext, PTL DEF Spec
<1>2. StreamInv => StreamIntact
  BY DEF StreamInv
<1>3. QED
  BY <1>1, <1>2, PTL

-----------------------------------------------------------------------------
(* A socket that receives as well: sending. *)

\* A step of handle_input leaves what is to be sent alone or ends it.
LEMMA ReceivingSends ==
  ASSUME at = "epoll", EndsSending
  PROVE  [Next]_vars
<1>1. CASE in_at' = "gone"
  <2>1. ClientGone
    BY <1>1 DEF EndsSending, ClientGone
  <2>2. QED
    BY <2>1 DEF Next
<1>2. CASE in_at' # "gone"
  BY <1>2 DEF EndsSending
<1>3. QED
  BY <1>1, <1>2

LEMMA SocketStepSends == [SocketNext]_socket_vars => [Next]_vars
<1> SUFFICES ASSUME [SocketNext]_socket_vars PROVE [Next]_vars
  OBVIOUS
<1>1. CASE ClientSends
  BY <1>1 DEF ClientSends
<1>2. CASE Receive \/ ReceiveEnds
  BY <1>2, ReceivingSends DEF Receive, ReceiveEnds
<1>3. CASE HandleOutput \/ OutputSome \/ OutputNone \/ OutputEnds
  BY <1>3 DEF HandleOutput, OutputSome, OutputNone, OutputEnds, Next
<1>4. CASE SendPkg
  BY <1>4 DEF SendPkg, Next
<1>5. CASE Closes
  BY <1>5 DEF Closes, Next
<1>6. CASE UNCHANGED socket_vars
  BY <1>6 DEF socket_vars
<1>7. QED
  BY <1>1, <1>2, <1>3, <1>4, <1>5, <1>6 DEF SocketNext

\* What is sent on a c_tcp_socket does not depend on what is received: together with
\* handle_input, send_pkg, handle_output and shut behave as TcpSend says.
THEOREM SocketSends == SocketSpec => Spec
<1>1. SocketInit => Init
  BY DEF SocketInit
<1>2. QED
  BY <1>1, SocketStepSends, PTL DEF SocketSpec, Spec

\* m_send_list_size is the number of buffers, and a client that does not read costs
\* Limit - 1 buffers and those of one package at the most, whatever it sends meanwhile.
THEOREM SocketBounded == SocketSpec => []ListBounded
BY SocketSends, SendBounded, PTL

\* A client gets what is sent to it whole, each package once and in order, whatever it
\* sends meanwhile.
THEOREM SocketSendsWhole == SocketSpec => []StreamIntact
BY SocketSends, SendsWhole, PTL

-----------------------------------------------------------------------------
(* Receiving. *)

\* Bytes of the packages sent so far.
SentBytes == (1 .. Len(sent)) \X Nat

\* A byte leads to the length of its package; handle_input keeps its place in what has
\* been received, which is in the buffer; and where the loop is left behind, or about to
\* be, there is room for another byte.  (What a memcpy garbled is not followed.)
SocketInv ==
  /\ sent \in Seq(Nat)
  /\ net \in Seq(SentBytes)
  /\ m_recv_buf_size \in BufSize .. MaxPkgLen
  /\ in_at # "garbled" =>
       /\ buf \in Seq(SentBytes)
       /\ pos \in 0 .. Len(buf)
       /\ Len(buf) <= m_recv_buf_size
  /\ in_at = "epoll" => Len(buf) < m_recv_buf_size
  /\ in_at = "MOVE" => Len(buf) - pos < m_recv_buf_size

LEMMA Constants ==
  /\ HeadLen \in Nat \ {0} /\ BufSize \in Nat /\ MaxPkgLen \in Nat
  /\ HeadLen <= BufSize /\ BufSize <= MaxPkgLen
  /\ LensRecv \subseteq Nat
BY TcpRecvAssumption DEF R!TcpRecvAssumption

LEMMA SocketInvInit == SocketInit => SocketInv
<1> SUFFICES ASSUME SocketInit PROVE SocketInv
  OBVIOUS
<1>1. /\ sent = <<>> /\ net = <<>> /\ buf = <<>> /\ pos = 0
      /\ m_recv_buf_size = BufSize /\ in_at = "epoll"
  BY DEF SocketInit, R!Init
<1>2. QED
  BY <1>1, Constants, EmptySeq DEF SocketInv

\* The bytes sent before are bytes sent when one package more is.
LEMMA SentBytesGrow ==
  ASSUME SocketInv, NEW len \in Nat, sent' = Append(sent, len)
  PROVE  /\ sent' \in Seq(Nat)
         /\ SentBytes \subseteq SentBytes'
         /\ Len(sent) + 1 \in 1 .. Len(sent)'
<1>1. sent \in Seq(Nat)
  BY DEF SocketInv
<1>2. sent' \in Seq(Nat) /\ Len(sent') = Len(sent) + 1
  BY <1>1, AppendProperties
<1>3. 1 .. Len(sent) \subseteq 1 .. Len(sent')
  BY <1>1, <1>2, LenProperties
<1>4. QED
  BY <1>1, <1>2, <1>3, LenProperties DEF SentBytes

LEMMA SeqMonotone ==
  ASSUME NEW S, NEW T, S \subseteq T, NEW s \in Seq(S)
  PROVE  s \in Seq(T)
BY ElementOfSeq, LenProperties, IsASeq

LEMMA ClientSendsInv ==
  ASSUME SocketInv, NEW len \in LensRecv, R!Send(len)
  PROVE  SocketInv'
<1>1. len \in Nat
  BY Constants
<1>2. /\ sent' \in Seq(Nat)
      /\ SentBytes \subseteq SentBytes'
      /\ Len(sent) + 1 \in 1 .. Len(sent)'
  BY <1>1, SentBytesGrow DEF R!Send
<1>3. R!PkgBytes(Len(sent) + 1, len) \in Seq(SentBytes')
  <2>1. {Len(sent) + 1} \X Nat \subseteq SentBytes'
    BY <1>2 DEF SentBytes
  <2>2. PICK n \in Nat : n = IF len \in HeadLen .. MaxPkgLen THEN len ELSE HeadLen
    BY <1>1, Constants
  <2>3. \A k \in 1 .. n : <<Len(sent) + 1, k>> \in SentBytes'
    BY <2>1
  <2>4. [k \in 1 .. n |-> <<Len(sent) + 1, k>>] \in Seq(SentBytes')
    BY <2>3, IsASeq
  <2>5. QED
    BY <2>2, <2>4 DEF R!PkgBytes
<1>4. net' \in Seq(SentBytes')
  <2>1. net \in Seq(SentBytes')
    BY <1>2, SeqMonotone DEF SocketInv
  <2>2. QED
    BY <1>3, <2>1, ConcatProperties DEF R!Send
<1>5. in_at # "garbled" => buf \in Seq(SentBytes')
  BY <1>2, SeqMonotone DEF SocketInv
<1>6. QED
  BY <1>2, <1>4, <1>5 DEF SocketInv, R!Send

LEMMA RecvInv ==
  ASSUME SocketInv, NEW n \in 1 .. MaxPkgLen, R!Recv(n)
  PROVE  SocketInv'
<1>1. /\ net \in Seq(SentBytes) /\ buf \in Seq(SentBytes)
      /\ m_recv_buf_size \in Nat /\ m_recv_buf_size > 0
      /\ n \in 1 .. Len(net) /\ n <= m_recv_buf_size - Len(buf)
  BY Constants DEF SocketInv, R!Recv, R!Room
<1>2. Len(net) \in Nat /\ Len(buf) \in Nat
  BY <1>1, LenProperties
<1>3. SubSeq(net, 1, n) \in Seq(SentBytes) /\ Len(SubSeq(net, 1, n)) = n
  BY <1>1, <1>2, SubSeqProperties
<1>4. SubSeq(net, n + 1, Len(net)) \in Seq(SentBytes)
  BY <1>1, <1>2, SubSeqProperties
<1>5. /\ buf \o SubSeq(net, 1, n) \in Seq(SentBytes)
      /\ Len(buf \o SubSeq(net, 1, n)) = Len(buf) + n
  BY <1>1, <1>3, ConcatProperties
<1>6. SentBytes' = SentBytes
  BY DEF SentBytes, R!Recv
<1>7. CASE m_is_closed
  BY <1>1, <1>4, <1>6, <1>7, EmptySeq DEF SocketInv, R!Recv
<1>8. CASE ~m_is_closed
  <2>1. /\ UNCHANGED <<sent, m_recv_buf_size>> /\ in_at' = "READ" /\ pos' = 0
        /\ net' = SubSeq(net, n + 1, Len(net)) /\ buf' = buf \o SubSeq(net, 1, n)
    BY <1>8 DEF R!Recv
  <2>2. Len(buf') \in Nat /\ Len(buf') <= m_recv_buf_size
    BY <1>1, <1>2, <1>5, <2>1
  <2>3. QED
    BY <1>4, <1>5, <1>6, <2>1, <2>2 DEF SocketInv
<1>9. QED
  BY <1>7, <1>8

\* get_pkg_len_cli reads a length the client has sent.
LEMMA PkgLenType ==
  ASSUME SocketInv, in_at = "READ"
  PROVE  R!PkgLen \in Nat
<1>1. sent \in Seq(Nat) /\ buf \in Seq(SentBytes) /\ pos \in 0 .. Len(buf)
  BY DEF SocketInv
<1>2. CASE Len(buf) - pos < HeadLen
  BY <1>2 DEF R!PkgLen
<1>3. CASE ~(Len(buf) - pos < HeadLen)
  <2>1. pos + 1 \in 1 .. Len(buf)
    BY <1>1, <1>3, Constants, LenProperties
  <2>2. buf[pos + 1] \in SentBytes
    BY <1>1, <2>1, ElementOfSeq
  <2>3. sent[buf[pos + 1][1]] \in Nat
    BY <1>1, <2>2, ElementOfSeq DEF SentBytes
  <2>4. QED
    BY <1>3, <2>3 DEF R!PkgLen
<1>4. QED
  BY <1>2, <1>3

\* One turn of the READ loop: what it leaves behind is shorter than the buffer, since
\* something has been handed on, or the buffer was not full, or it has grown.
LEMMA ReadInv ==
  ASSUME SocketInv, R!NeedHead \/ R!Grow \/ R!Package \/ R!Incomplete
  PROVE  SocketInv'
<1>1. /\ in_at = "READ" /\ UNCHANGED <<sent, net, buf>>
      /\ buf \in Seq(SentBytes) /\ pos \in 0 .. Len(buf) /\ Len(buf) <= m_recv_buf_size
      /\ m_recv_buf_size \in BufSize .. MaxPkgLen
  BY DEF SocketInv, R!NeedHead, R!Grow, R!Package, R!Incomplete, R!GotoMOVE
<1>2. R!PkgLen \in Nat /\ Len(buf) \in Nat /\ SentBytes' = SentBytes
  BY <1>1, PkgLenType, LenProperties DEF SentBytes
<1>3. /\ m_recv_buf_size' \in BufSize .. MaxPkgLen
      /\ pos' \in 0 .. Len(buf)
      /\ Len(buf) <= m_recv_buf_size'
      /\ in_at' \in {"READ", "MOVE", "gone"}
      /\ in_at' = "MOVE" => Len(buf) - pos' < m_recv_buf_size'
  <2>1. CASE R!NeedHead
    BY <1>1, <1>2, <2>1, Constants DEF R!NeedHead, R!GotoMOVE
  <2>2. CASE R!Grow
    BY <1>1, <1>2, <2>2, Constants DEF R!Grow
  <2>3. CASE R!Package
    BY <1>1, <1>2, <2>3, Constants DEF R!Package, R!Complete
  <2>4. CASE R!Incomplete
    BY <1>1, <1>2, <2>4, Constants DEF R!Incomplete, R!Complete, R!GotoMOVE
  <2>5. QED
    BY <2>1, <2>2, <2>3, <2>4
<1>4. QED
  BY <1>1, <1>2, <1>3 DEF SocketInv

LEMMA MoveInv ==
  ASSUME SocketInv, R!Move
  PROVE  SocketInv'
<1>1. /\ in_at = "MOVE" /\ UNCHANGED <<sent, net, m_recv_buf_size>> /\ pos' = 0
      /\ buf \in Seq(SentBytes) /\ pos \in 0 .. Len(buf)
      /\ Len(buf) - pos < m_recv_buf_size
      /\ m_recv_buf_size \in Nat
  BY Constants DEF SocketInv, R!Move
<1>2. SentBytes' = SentBytes
  BY <1>1 DEF SentBytes
<1>3. CASE in_at' = "garbled"
  BY <1>1, <1>2, <1>3 DEF SocketInv
<1>4. CASE in_at' # "garbled"
  <2>1. in_at' = "epoll" /\ buf' = SubSeq(buf, pos + 1, Len(buf))
    BY <1>4 DEF R!Move, R!MoveRest
  <2>2. buf' \in Seq(SentBytes) /\ Len(buf') = Len(buf) - pos
    BY <1>1, <2>1, LenProperties, SubSeqProperties
  <2>3. QED
    BY <1>1, <1>2, <2>1, <2>2, LenProperties DEF SocketInv
<1>5. QED
  BY <1>3, <1>4

\* An end changes nothing that is received, and neither does anything sent.
LEMMA EndInv ==
  ASSUME SocketInv,
         UNCHANGED <<sent, net, buf, m_recv_buf_size, pos>>,
         in_at' = in_at \/ (in_at # "garbled" /\ in_at' = "gone")
  PROVE  SocketInv'
BY DEF SocketInv, SentBytes

LEMMA SocketStepInv == SocketInv /\ [SocketNext]_socket_vars => SocketInv'
<1> SUFFICES ASSUME SocketInv, [SocketNext]_socket_vars PROVE SocketInv'
  OBVIOUS
<1>1. CASE ClientSends
  BY <1>1, ClientSendsInv DEF ClientSends
<1>2. CASE Receive
  <2>1. CASE \E n \in 1 .. MaxPkgLen : R!Recv(n)
    BY <2>1, RecvInv
  <2>2. CASE R!NeedHead \/ R!Grow \/ R!Package \/ R!Incomplete
    BY <2>2, ReadInv
  <2>3. CASE R!Move
    BY <2>3, MoveInv
  <2>4. CASE R!LenError \/ R!BigHead
    BY <2>4, EndInv DEF R!LenError, R!BigHead, R!Gone
  <2>5. QED
    BY <1>2, <2>1, <2>2, <2>3, <2>4 DEF Receive, R!HandleInput
<1>3. CASE ReceiveEnds
  BY <1>3, EndInv DEF ReceiveEnds, R!RecvClosed, R!GrowNoMemory, R!Gone
<1>4. CASE \/ HandleOutput \/ OutputSome \/ OutputNone \/ OutputEnds
           \/ SendPkg \/ Closes
  <2>1. EndsReceiving
    BY <1>4 DEF HandleOutput, OutputSome, OutputNone, OutputEnds, SendPkg, Closes
  <2>2. in_at' = in_at \/ (in_at # "garbled" /\ in_at' = "gone")
    BY <2>1 DEF EndsReceiving
  <2>3. UNCHANGED <<sent, net, buf, m_recv_buf_size, pos>>
    BY <2>1 DEF EndsReceiving
  <2>4. QED
    BY <2>2, <2>3, EndInv
<1>5. CASE UNCHANGED socket_vars
  <2>1. in_at' = in_at /\ UNCHANGED <<sent, net, buf, m_recv_buf_size, pos>>
    BY <1>5 DEF socket_vars, recv_vars
  <2>2. QED
    BY <2>1, EndInv
<1>6. QED
  BY <1>1, <1>2, <1>3, <1>4, <1>5 DEF SocketNext

\* recv is never called without room for a byte, which it would answer with 0, taken by
\* handle_input for the client's closing: for any size of the buffer, whatever lengths
\* the client writes, however its bytes are cut, and whatever is sent in between.
THEOREM SocketRoom == SocketSpec => []RoomToRecv
<1>1. SocketInv => RoomToRecv
  BY DEF SocketInv, RoomToRecv, R!RoomToRecv
<1>2. QED
  BY <1>1, SocketInvInit, SocketStepInv, PTL DEF SocketSpec

-----------------------------------------------------------------------------
(* What is received. *)


\* The packages of the lengths s.
Pkgs(s) == [i \in 1 .. Len(s) |-> R!PkgBytes(i, s[i])]

\* TcpRecv makes bytes of a list of packages in the same way.
LEMMA SameFlatten == ASSUME NEW l PROVE R!FlattenSeq(l) = FlattenSeq(l)
BY DEF R!FlattenSeq, FlattenSeq

\* Where one puts the brackets does not matter.
LEMMA RecvRebracketed ==
  \A a, b, c \in Seq(R!Bytes) : (a \o b) \o c = a \o (b \o c)
BY ConcatAssociative

\* A package is its bytes in order, as many as its length says if it is one.
LEMMA PkgType ==
  ASSUME NEW i \in 1 .. MaxRecv, NEW len \in LensRecv
  PROVE  /\ R!PkgBytes(i, len) \in Seq(R!Bytes)
         /\ Len(R!PkgBytes(i, len)) \in Nat \ {0}
         /\ R!PkgBytes(i, len)[1] = <<i, 1>>
         /\ len # 0 /\ len <= MaxPkgLen =>
              len \in HeadLen .. MaxPkgLen /\ Len(R!PkgBytes(i, len)) = len
<1>1. PICK n : n = IF len \in HeadLen .. MaxPkgLen THEN len ELSE HeadLen
  OBVIOUS
<1>2. n \in Nat \ {0} /\ n <= MaxPkgLen /\ len \in Nat
  BY <1>1, Constants
<1>3. \A k \in 1 .. n : k \in 1 .. MaxPkgLen
  BY <1>2, Constants
<1>4. \A k \in 1 .. n : <<i, k>> \in R!Bytes
  BY <1>3 DEF R!Bytes
<1>5. [k \in 1 .. n |-> <<i, k>>] \in [1 .. n -> R!Bytes]
  BY <1>4
<1>6. /\ [k \in 1 .. n |-> <<i, k>>] \in Seq(R!Bytes)
      /\ Len([k \in 1 .. n |-> <<i, k>>]) = n
  BY <1>2, <1>5, FunctionIsSeq
<1>7. R!PkgBytes(i, len) = [k \in 1 .. n |-> <<i, k>>]
  BY <1>1 DEF R!PkgBytes
<1>8. [k \in 1 .. n |-> <<i, k>>][1] = <<i, 1>>
  BY <1>2
<1>9. len # 0 /\ len <= MaxPkgLen => len \in HeadLen .. MaxPkgLen /\ n = len
  BY <1>1, Constants, TcpRecvAssumption DEF R!TcpRecvAssumption
<1>10. QED
  BY <1>2, <1>6, <1>7, <1>8, <1>9

\* The packages are sequences of bytes.
LEMMA PkgsType ==
  ASSUME NEW s \in Seq(LensRecv), Len(s) <= MaxRecv
  PROVE  /\ Pkgs(s) \in Seq(Seq(R!Bytes)) /\ Len(Pkgs(s)) = Len(s)
         /\ \A i \in 1 .. Len(s) : Pkgs(s)[i] = R!PkgBytes(i, s[i])
<1>1. Len(s) \in Nat /\ MaxRecv \in Nat
  BY LenProperties, TcpRecvAssumption DEF R!TcpRecvAssumption
<1>2. \A i \in 1 .. Len(s) : s[i] \in LensRecv /\ i \in 1 .. MaxRecv
  BY <1>1, ElementOfSeq
<1>3. \A i \in 1 .. Len(s) : R!PkgBytes(i, s[i]) \in Seq(R!Bytes)
  BY <1>2, PkgType
<1>4. Pkgs(s) \in [1 .. Len(s) -> Seq(R!Bytes)]
  BY <1>3 DEF Pkgs
<1>5. Pkgs(s) \in Seq(Seq(R!Bytes)) /\ Len(Pkgs(s)) = Len(s)
  BY <1>1, <1>4, FunctionIsSeq
<1>6. QED
  BY <1>5 DEF Pkgs

\* A package more comes behind the others.
LEMMA PkgsAppend ==
  ASSUME NEW s \in Seq(LensRecv), NEW len \in LensRecv, Len(s) + 1 <= MaxRecv
  PROVE  /\ Append(s, len) \in Seq(LensRecv) /\ Len(Append(s, len)) = Len(s) + 1
         /\ \A i \in 1 .. Len(s) : Append(s, len)[i] = s[i]
         /\ Pkgs(Append(s, len)) = Append(Pkgs(s), R!PkgBytes(Len(s) + 1, len))
<1>1. PICK t : t = Append(s, len)
  OBVIOUS
<1>2. PICK n \in Nat : n = Len(s)
  BY LenProperties
<1>3. /\ t \in Seq(LensRecv) /\ Len(t) = n + 1 /\ t[n + 1] = len
      /\ \A i \in 1 .. n : t[i] = s[i]
  BY <1>1, <1>2, AppendProperties
<1>4. /\ Pkgs(t) \in Seq(Seq(R!Bytes)) /\ Len(Pkgs(t)) = n + 1
      /\ \A i \in 1 .. n + 1 : Pkgs(t)[i] = R!PkgBytes(i, t[i])
  BY <1>2, <1>3, PkgsType
<1>5. PICK p : p = Pkgs(s)
  OBVIOUS
<1>6. /\ p \in Seq(Seq(R!Bytes)) /\ Len(p) = n
      /\ \A i \in 1 .. n : p[i] = R!PkgBytes(i, s[i])
  <2>1. Len(s) <= MaxRecv
    BY <1>2, TcpRecvAssumption DEF R!TcpRecvAssumption
  <2>2. QED
    BY <1>2, <1>5, <2>1, PkgsType
<1>7. PICK e : e = R!PkgBytes(n + 1, len)
  OBVIOUS
<1>8. e \in Seq(R!Bytes)
  <2>1. n + 1 \in 1 .. MaxRecv
    BY <1>2, TcpRecvAssumption DEF R!TcpRecvAssumption
  <2>2. QED
    BY <1>7, <2>1, PkgType
<1>9. /\ Append(p, e) \in Seq(Seq(R!Bytes)) /\ Len(Append(p, e)) = n + 1
      /\ \A i \in 1 .. n : Append(p, e)[i] = p[i]
      /\ Append(p, e)[n + 1] = e
  BY <1>6, <1>8, AppendProperties
<1>10. \A i \in 1 .. n + 1 : Pkgs(t)[i] = Append(p, e)[i]
  <2>1. TAKE i \in 1 .. n + 1
  <2>2. CASE i \in 1 .. n
    BY <1>3, <1>4, <1>6, <1>9, <2>2
  <2>3. CASE i = n + 1
    BY <1>3, <1>4, <1>7, <1>9, <2>3
  <2>4. i \in 1 .. n \/ i = n + 1
    OBVIOUS
  <2>5. QED
    BY <2>2, <2>3, <2>4
<1>11. Pkgs(t) = Append(p, e)
  BY <1>4, <1>9, <1>10, SeqEqual
<1>12. QED
  BY <1>1, <1>2, <1>3, <1>5, <1>7, <1>11

\* What a sequence begins with is its first part.
LEMMA FirstPart ==
  ASSUME NEW S, NEW s \in Seq(S), NEW g \in Seq(S), Len(g) <= Len(s),
         \A i \in 1 .. Len(g) : g[i] = s[i]
  PROVE  SubSeq(s, 1, Len(g)) = g
<1>1. PICK k \in Nat : k = Len(g)
  BY LenProperties
<1>2. Len(s) \in Nat /\ k <= Len(s)
  BY <1>1, LenProperties
<1>3. \A i \in 1 .. k : s[i] \in S
  BY <1>2, ElementOfSeq
<1>4. /\ SubSeq(s, 1, k) \in Seq(S) /\ Len(SubSeq(s, 1, k)) = IF 1 <= k THEN k - 1 + 1 ELSE 0
      /\ \A i \in 1 .. k - 1 + 1 : SubSeq(s, 1, k)[i] = s[1 + i - 1]
  BY <1>3, SubSeqProperties
<1>5. k - 1 + 1 = k /\ (IF 1 <= k THEN k - 1 + 1 ELSE 0) = k /\ \A i \in 1 .. k : 1 + i - 1 = i
  OBVIOUS
<1>6. Len(SubSeq(s, 1, k)) = Len(g) /\ \A i \in 1 .. k : SubSeq(s, 1, k)[i] = g[i]
  BY <1>1, <1>4, <1>5
<1>7. QED
  BY <1>1, <1>4, <1>6, SeqEqual

\* s are the lengths sent, g the packages handed on, r the bytes in the buffer behind
\* them and t those under way.  The buffer goes on with the next package.
LEMMA NextPackage ==
  ASSUME NEW s \in Seq(LensRecv), Len(s) <= MaxRecv, NEW g \in Seq(Seq(R!Bytes)),
         Len(g) <= Len(s), \A i \in 1 .. Len(g) : g[i] = R!PkgBytes(i, s[i]),
         NEW r \in Seq(R!Bytes), NEW t \in Seq(R!Bytes), r # <<>>,
         (FlattenSeq(g) \o r) \o t = FlattenSeq(Pkgs(s))
  PROVE  /\ Len(g) + 1 \in 1 .. Len(s)
         /\ r[1] = <<Len(g) + 1, 1>>
         /\ LET len == s[Len(g) + 1] IN
            len # 0 /\ len <= MaxPkgLen /\ len <= Len(r) =>
              SubSeq(r, 1, len) = R!PkgBytes(Len(g) + 1, len)
<1>1. PICK k \in Nat, n \in Nat : k = Len(g) /\ n = Len(s)
  BY LenProperties
<1>2. PICK p : p = Pkgs(s)
  OBVIOUS
<1>3. /\ p \in Seq(Seq(R!Bytes)) /\ Len(p) = n
      /\ \A i \in 1 .. n : p[i] = R!PkgBytes(i, s[i])
  BY <1>1, <1>2, PkgsType
<1>4. PICK f, q : f = FlattenSeq(g) /\ q = After(p, k)
  OBVIOUS
<1>5. q \in Seq(Seq(R!Bytes)) /\ Len(q) = n - k /\ g \o q = p
  <2>1. k \in 0 .. Len(p) /\ Len(g) <= Len(p)
    BY <1>1, <1>3
  <2>2. \A i \in 1 .. Len(g) : g[i] = p[i]
    BY <1>1, <1>3
  <2>3. SubSeq(p, 1, Len(g)) = g
    BY <1>3, <2>1, <2>2, FirstPart
  <2>4. After(p, k) \in Seq(Seq(R!Bytes)) /\ Len(After(p, k)) = Len(p) - k
        /\ SubSeq(p, 1, k) \o After(p, k) = p
    BY <1>3, <2>1, CutInTwo
  <2>5. QED
    BY <1>1, <1>3, <1>4, <2>3, <2>4
<1>6. f \in Seq(R!Bytes) /\ FlattenSeq(q) \in Seq(R!Bytes) /\ FlattenSeq(p) = f \o FlattenSeq(q)
  <2>1. f \in Seq(R!Bytes) /\ FlattenSeq(q) \in Seq(R!Bytes)
    BY <1>4, <1>5, FlattenType
  <2>2. FlattenSeq(g \o q) = FlattenSeq(g) \o FlattenSeq(q)
    BY <1>4, <1>5, <2>1, FlattenConcat
  <2>3. QED
    BY <1>4, <1>5, <2>1, <2>2
<1>7. r \o t = FlattenSeq(q)
  <2>1. r \o t \in Seq(R!Bytes)
    BY ConcatProperties
  <2>2. (f \o r) \o t = f \o (r \o t)
    BY <1>6, RecvRebracketed
  <2>3. f \o (r \o t) = f \o FlattenSeq(q)
    BY <1>2, <1>4, <1>6, <2>2
  <2>4. QED
    BY <1>6, <2>1, <2>3, ConcatSimplifications
<1>8. q # <<>>
  <2>1. SUFFICES ASSUME q = <<>> PROVE FALSE
    OBVIOUS
  <2>2. r \o t = <<>>
    BY <1>7, <2>1, FlattenEmpty
  <2>3. QED
    BY <2>2, ConcatEqualIffEmpty
<1>9. Len(q) \in Nat \ {0}
  BY <1>5, <1>8, EmptySeq
<1>10. k + 1 \in 1 .. n /\ n \in k + 1 .. n
  <2>1. k \in Nat /\ n \in Nat /\ n - k \in Nat \ {0}
    BY <1>5, <1>9
  <2>2. QED
    BY <2>1
<1>11. PICK h, z, len : h = Head(q) /\ z = FlattenSeq(Tail(q)) /\ len = s[k + 1]
  OBVIOUS
<1>12. h = R!PkgBytes(k + 1, len) /\ len \in LensRecv
  <2>1. h = p[k + 1]
    BY <1>3, <1>4, <1>10, <1>11, HeadTailOfSubSeq DEF After
  <2>2. s[k + 1] \in LensRecv
    BY <1>1, <1>10, ElementOfSeq
  <2>3. QED
    BY <1>3, <1>10, <1>11, <2>1, <2>2
<1>13. /\ h \in Seq(R!Bytes) /\ Len(h) \in Nat \ {0} /\ h[1] = <<k + 1, 1>>
       /\ len # 0 /\ len <= MaxPkgLen => len \in HeadLen .. MaxPkgLen /\ Len(h) = len
  <2>1. k + 1 \in 1 .. MaxRecv
    BY <1>1, <1>10, TcpRecvAssumption DEF R!TcpRecvAssumption
  <2>2. QED
    BY <1>12, <2>1, PkgType
<1>14. z \in Seq(R!Bytes) /\ r \o t = h \o z
  BY <1>5, <1>7, <1>8, <1>11, FlattenEnds, FlattenType
<1>15. Len(r) \in Nat \ {0}
  BY EmptySeq
<1>16. r[1] = h[1]
  <2>1. /\ \A i \in 1 .. Len(r) + Len(t) : (r \o t)[i] = IF i <= Len(r) THEN r[i] ELSE t[i - Len(r)]
        /\ Len(t) \in Nat
    BY ConcatProperties, LenProperties
  <2>2. /\ \A i \in 1 .. Len(h) + Len(z) : (h \o z)[i] = IF i <= Len(h) THEN h[i] ELSE z[i - Len(h)]
        /\ Len(z) \in Nat
    BY <1>13, <1>14, ConcatProperties, LenProperties
  <2>3. (r \o t)[1] = r[1]
    BY <1>15, <2>1
  <2>4. (h \o z)[1] = h[1]
    BY <1>13, <2>2
  <2>5. QED
    BY <1>14, <2>3, <2>4
<1>17. ASSUME len # 0, len <= MaxPkgLen, len <= Len(r)
       PROVE  SubSeq(r, 1, len) = h
  <2>1. Len(h) = len /\ 1 \in 1 .. Len(r) /\ len \in 1 .. Len(r) /\ 1 \in 1 .. Len(h) /\ len \in 1 .. Len(h)
    BY <1>13, <1>15, <1>17
  <2>2. SubSeq(r \o t, 1, len) = SubSeq(r, 1, len)
    BY <2>1, SubSeqOfConcat1
  <2>3. SubSeq(h \o z, 1, len) = SubSeq(h, 1, len)
    BY <1>13, <1>14, <2>1, SubSeqOfConcat1
  <2>4. SubSeq(h, 1, len) = h
    BY <1>13, <2>1, SubSeqFull
  <2>5. QED
    BY <1>14, <2>2, <2>3, <2>4
<1>18. QED
  BY <1>1, <1>10, <1>11, <1>12, <1>13, <1>16, <1>17

-----------------------------------------------------------------------------
\* What is sent, handed on, in the buffer and under way is in step.
Handed ==
  /\ Len(got) <= Len(sent)
  /\ \A i \in 1 .. Len(got) : got[i] = R!PkgBytes(i, sent[i])

Stream == (FlattenSeq(got) \o After(buf, pos)) \o net

InStep == ~m_is_closed /\ in_at # "garbled" => Stream = FlattenSeq(Pkgs(sent))

\* What PackagesIntact needs to be inductive: the loop begins at the first byte, and
\* never runs for a connection that is to be closed.
PackInv ==
  /\ SocketInv
  /\ R!TypeOK
  /\ in_at = "epoll" => pos = 0
  /\ m_is_closed => in_at \in {"epoll", "gone", "garbled"}
  /\ Len(sent) <= MaxRecv
  /\ Handed
  /\ InStep

LEMMA PackIntact == PackInv => PackagesIntact
<1> SUFFICES ASSUME PackInv PROVE PackagesIntact
  OBVIOUS
<1>1. R!TypeOK /\ Handed /\ InStep
  BY DEF PackInv
<1>2. /\ Len(got) <= Len(sent)
      /\ \A i \in 1 .. Len(got) : got[i] = R!PkgBytes(i, sent[i])
  BY <1>1 DEF Handed
<1>3. ~m_is_closed /\ in_at # "garbled" =>
        R!FlattenSeq(got) \o SubSeq(buf, pos + 1, Len(buf)) \o net
          = R!FlattenSeq([i \in 1 .. Len(sent) |-> R!PkgBytes(i, sent[i])])
  BY <1>1, SameFlatten DEF InStep, Stream, Pkgs, After
<1>4. R!PackagesIntact
  BY <1>2, <1>3 DEF R!PackagesIntact
<1>5. QED
  BY <1>1, <1>4 DEF PackagesIntact

\* The types that matter, and what of the buffer is not handed on yet.
LEMMA PackTypes ==
  ASSUME PackInv
  PROVE  /\ sent \in Seq(LensRecv) /\ net \in Seq(R!Bytes) /\ buf \in Seq(R!Bytes)
         /\ got \in Seq(Seq(R!Bytes)) /\ FlattenSeq(got) \in Seq(R!Bytes)
         /\ pos \in 0 .. Len(buf) /\ Len(buf) \in Nat /\ Len(net) \in Nat
         /\ After(buf, pos) \in Seq(R!Bytes)
         /\ Len(After(buf, pos)) = Len(buf) - pos
<1>1. /\ sent \in Seq(LensRecv) /\ net \in Seq(R!Bytes) /\ buf \in Seq(R!Bytes)
      /\ got \in Seq(Seq(R!Bytes)) /\ pos \in 0 .. Len(buf)
  BY DEF PackInv, R!TypeOK
<1>2. FlattenSeq(got) \in Seq(R!Bytes) /\ Len(buf) \in Nat /\ Len(net) \in Nat
  BY <1>1, FlattenType, LenProperties
<1>3. After(buf, pos) \in Seq(R!Bytes) /\ Len(After(buf, pos)) = Len(buf) - pos
  BY <1>1, CutInTwo
<1>4. QED
  BY <1>1, <1>2, <1>3

\* Nothing is sent yet.
LEMMA PackInit == SocketInit => PackInv
<1> SUFFICES ASSUME SocketInit PROVE PackInv
  OBVIOUS
<1>1. /\ sent = <<>> /\ net = <<>> /\ buf = <<>> /\ pos = 0 /\ got = <<>>
      /\ m_recv_buf_size = BufSize /\ in_at = "epoll"
  BY DEF SocketInit, R!Init
<1>2. m_is_closed = FALSE
  BY Zenon DEF SocketInit, Init
<1>3. SocketInv
  BY SocketInvInit
<1>4. /\ Len(<<>>) = 0 /\ <<>> \in Seq(LensRecv) /\ <<>> \in Seq(R!Bytes)
      /\ <<>> \in Seq(Seq(R!Bytes)) /\ MaxRecv \in Nat
  BY EmptySeq, TcpRecvAssumption DEF R!TcpRecvAssumption
<1>5. R!TypeOK
  <2>1. m_is_closed \in BOOLEAN
    BY <1>2, Zenon
  <2>2. /\ sent \in Seq(LensRecv) /\ net \in Seq(R!Bytes) /\ buf \in Seq(R!Bytes)
        /\ got \in Seq(Seq(R!Bytes)) /\ Len(buf) = 0
    BY <1>1, <1>4
  <2>3. m_recv_buf_size \in BufSize .. MaxPkgLen /\ Len(buf) <= m_recv_buf_size
        /\ pos \in 0 .. Len(buf) /\ in_at \in {"epoll", "READ", "MOVE", "gone", "garbled"}
    BY <1>1, <2>2, Constants
  <2>4. QED
    BY <2>1, <2>2, <2>3, Zenon DEF R!TypeOK
<1>6. Pkgs(<<>>) = <<>> /\ After(<<>>, 0) = <<>>
  <2>1. PICK s : s = <<>>
    OBVIOUS
  <2>2. s \in Seq(LensRecv) /\ Len(s) = 0 /\ Len(s) <= MaxRecv
    BY <1>4, <2>1
  <2>3. Pkgs(s) \in Seq(Seq(R!Bytes)) /\ Len(Pkgs(s)) = 0
    BY <2>2, PkgsType
  <2>4. Pkgs(s) = <<>>
    BY <2>3, EmptySeq
  <2>5. After(<<>>, 0) = <<>>
    BY <1>4, SubSeqEmpty DEF After
  <2>6. QED
    BY <2>1, <2>4, <2>5
<1>7. InStep
  <2>1. <<>> \o <<>> = <<>>
    BY <1>4, ConcatEmptySeq
  <2>2. QED
    BY <1>1, <1>6, <2>1, FlattenEmpty DEF InStep, Stream
<1>8. Handed
  BY <1>1, <1>4 DEF Handed
<1>9. QED
  BY <1>1, <1>2, <1>3, <1>4, <1>5, <1>7, <1>8 DEF PackInv

\* Nothing is received, and what may end is the connection.
LEMMA PackSame ==
  ASSUME PackInv, SocketInv', UNCHANGED <<sent, net, buf, m_recv_buf_size, pos, got>>,
         in_at' \in {in_at, "gone"}, m_is_closed' \in BOOLEAN,
         m_is_closed /\ in_at # "epoll" => m_is_closed',
         m_is_closed' /\ ~m_is_closed => in_at' \in {"epoll", "gone", "garbled"},
         m_is_closed => m_is_closed',
         in_at = "garbled" => in_at' = "garbled"
  PROVE  PackInv'
<1>1. R!TypeOK'
  BY DEF PackInv, R!TypeOK
<1>2. Handed' /\ InStep'
  BY DEF PackInv, Handed, InStep, Stream
<1>3. QED
  BY <1>1, <1>2 DEF PackInv

LEMMA PackUnchanged ==
  ASSUME PackInv, SocketInv',
         UNCHANGED <<sent, net, buf, m_recv_buf_size, pos, got, in_at, m_is_closed>>
  PROVE  PackInv'
<1>1. R!TypeOK'
  BY DEF PackInv, R!TypeOK
<1>2. Handed' /\ InStep'
  BY DEF PackInv, Handed, InStep, Stream
<1>3. QED
  BY <1>1, <1>2 DEF PackInv

\* handle_input ends the connection.
LEMMA PackEnd ==
  ASSUME PackInv, SocketInv', in_at \in {"epoll", "READ"}, R!Gone
  PROVE  PackInv'
<1>1. in_at' = "gone" /\ UNCHANGED <<sent, net, buf, m_recv_buf_size, m_is_closed, pos, got>>
  BY DEF R!Gone
<1>2. m_is_closed \in BOOLEAN
  BY DEF PackInv, R!TypeOK
<1>3. QED
  BY <1>1, <1>2, PackSame

\* A package that is sent is under way.
LEMMA PackSend ==
  ASSUME PackInv, SocketInv', NEW len \in LensRecv, R!Send(len)
  PROVE  PackInv'
<1>1. /\ Len(sent) < MaxRecv /\ sent' = Append(sent, len)
      /\ net' = net \o R!PkgBytes(Len(sent) + 1, len)
      /\ UNCHANGED <<buf, m_recv_buf_size, m_is_closed, in_at, pos, got>>
  BY DEF R!Send
<1>2. PICK s, n : s = sent /\ n = Len(s)
  OBVIOUS
<1>3. s \in Seq(LensRecv) /\ n \in Nat /\ n + 1 <= MaxRecv /\ n + 1 \in 1 .. MaxRecv
  BY <1>1, <1>2, PackTypes, LenProperties, TcpRecvAssumption DEF R!TcpRecvAssumption
<1>4. /\ sent' \in Seq(LensRecv) /\ Len(sent') = n + 1
      /\ \A i \in 1 .. n : sent'[i] = s[i]
      /\ Pkgs(sent') = Append(Pkgs(s), R!PkgBytes(n + 1, len))
  BY <1>1, <1>2, <1>3, PkgsAppend
<1>5. PICK e : e = R!PkgBytes(n + 1, len)
  OBVIOUS
<1>6. e \in Seq(R!Bytes)
  BY <1>3, <1>5, PkgType
<1>7. net' = net \o e /\ net' \in Seq(R!Bytes)
  BY <1>1, <1>2, <1>5, <1>6, PackTypes, ConcatProperties
<1>8. R!TypeOK'
  BY <1>1, <1>4, <1>7 DEF PackInv, R!TypeOK
<1>9. Handed'
  BY <1>1, <1>2, <1>3, <1>4 DEF PackInv, Handed
<1>10. InStep'
  <2>1. SUFFICES ASSUME ~m_is_closed, in_at # "garbled"
                 PROVE  Stream' = FlattenSeq(Pkgs(sent'))
    BY <1>1 DEF InStep
  <2>2. PICK a, t : a = FlattenSeq(got) \o After(buf, pos) /\ t = net
    OBVIOUS
  <2>3. a \in Seq(R!Bytes) /\ t \in Seq(R!Bytes)
    BY <2>2, PackTypes, ConcatProperties
  <2>4. a \o t = FlattenSeq(Pkgs(s))
    BY <1>2, <2>1, <2>2 DEF PackInv, InStep, Stream
  <2>5. (a \o t) \o e = a \o (t \o e)
    BY <1>6, <2>3, RecvRebracketed
  <2>6. FlattenSeq(Append(Pkgs(s), e)) = FlattenSeq(Pkgs(s)) \o e
    <3>1. Len(s) <= MaxRecv
      BY <1>2, <1>3, TcpRecvAssumption DEF R!TcpRecvAssumption
    <3>2. Pkgs(s) \in Seq(Seq(R!Bytes))
      BY <1>3, <3>1, PkgsType
    <3>3. QED
      BY <1>6, <3>2, FlattenAppend
  <2>7. Stream' = a \o (t \o e)
    BY <1>1, <1>7, <2>2 DEF Stream
  <2>8. QED
    BY <1>4, <1>5, <2>4, <2>5, <2>6, <2>7
<1>11. QED
  BY <1>1, <1>3, <1>4, <1>8, <1>9, <1>10 DEF PackInv

\* What recv delivers goes from the network to the end of the buffer.
LEMMA PackRecv ==
  ASSUME PackInv, SocketInv', NEW n \in 1 .. MaxPkgLen, R!Recv(n)
  PROVE  PackInv'
<1>1. /\ in_at = "epoll" /\ n <= Len(net) /\ pos = 0 /\ pos' = 0
      /\ net' = SubSeq(net, n + 1, Len(net))
      /\ UNCHANGED <<sent, m_recv_buf_size, m_is_closed, got>>
  BY DEF R!Recv, PackInv
<1>2. PICK b, t, x, y : /\ b = buf /\ t = net
                        /\ x = SubSeq(net, 1, n) /\ y = After(net, n)
  OBVIOUS
<1>3. b \in Seq(R!Bytes) /\ t \in Seq(R!Bytes)
  BY <1>2, PackTypes
<1>4. x \in Seq(R!Bytes) /\ y \in Seq(R!Bytes) /\ x \o y = t /\ net' = y
  <2>1. n \in 0 .. Len(t)
    BY <1>1, <1>2, <1>3, LenProperties, Constants
  <2>2. QED
    BY <1>1, <1>2, <1>3, <2>1, CutInTwo DEF After
<1>5. /\ IF m_is_closed THEN buf' = <<>> /\ in_at' = "epoll" ELSE buf' = b \o x /\ in_at' = "READ"
      /\ buf' \in Seq(R!Bytes) /\ Len(buf') \in Nat
  <2>1. IF m_is_closed THEN buf' = <<>> /\ in_at' = "epoll" ELSE buf' = b \o x /\ in_at' = "READ"
    BY <1>2 DEF R!Recv
  <2>2. b \o x \in Seq(R!Bytes) /\ <<>> \in Seq(R!Bytes)
    BY <1>3, <1>4, ConcatProperties, EmptySeq
  <2>3. QED
    BY <2>1, <2>2, LenProperties
<1>6. R!TypeOK'
  <2>1. m_recv_buf_size' \in BufSize .. MaxPkgLen /\ Len(buf') <= m_recv_buf_size'
    BY <1>5 DEF SocketInv
  <2>2. in_at' \in {"epoll", "READ"} /\ pos' \in 0 .. Len(buf')
    BY <1>1, <1>5
  <2>3. QED
    BY <1>1, <1>4, <1>5, <2>1, <2>2 DEF PackInv, R!TypeOK
<1>7. Handed'
  BY <1>1 DEF PackInv, Handed
<1>8. InStep'
  <2>1. SUFFICES ASSUME ~m_is_closed
                 PROVE  Stream' = FlattenSeq(Pkgs(sent))
    BY <1>1 DEF InStep
  <2>2. PICK f : f = FlattenSeq(got)
    OBVIOUS
  <2>3. f \in Seq(R!Bytes) /\ b \o x \in Seq(R!Bytes) /\ f \o b \in Seq(R!Bytes)
    BY <1>3, <1>4, <2>2, PackTypes, ConcatProperties
  <2>4. After(b, 0) = b /\ After(b \o x, 0) = b \o x
    BY <1>3, <2>3, SubSeqFull DEF After
  <2>5. (f \o b) \o t = FlattenSeq(Pkgs(sent))
    BY <1>1, <1>2, <2>1, <2>2, <2>4 DEF PackInv, InStep, Stream
  <2>6. Stream' = (f \o (b \o x)) \o y
    BY <1>1, <1>4, <1>5, <2>1, <2>2, <2>4 DEF Stream
  <2>7. f \in Seq(R!Bytes) /\ b \in Seq(R!Bytes) /\ x \in Seq(R!Bytes)
    BY <1>3, <1>4, <2>3
  <2>8. f \o (b \o x) = (f \o b) \o x
    BY <2>7, RecvRebracketed
  <2>9. f \o b \in Seq(R!Bytes) /\ x \in Seq(R!Bytes) /\ y \in Seq(R!Bytes)
    BY <1>4, <2>3
  <2>10. ((f \o b) \o x) \o y = (f \o b) \o (x \o y)
    BY <2>9, RecvRebracketed
  <2>11. QED
    BY <1>4, <2>5, <2>6, <2>8, <2>10
<1>9. QED
  BY <1>1, <1>5, <1>6, <1>7, <1>8 DEF PackInv

\* A part of what comes behind a place, and the rest.
LEMMA PartBehind ==
  ASSUME NEW S, NEW s \in Seq(S), NEW p \in 0 .. Len(s), NEW n \in 1 .. Len(s) - p
  PROVE  /\ After(s, p)[1] = s[p + 1]
         /\ SubSeq(s, p + 1, p + n) = SubSeq(After(s, p), 1, n)
         /\ SubSeq(s, p + 1, p + n) \in Seq(S)
         /\ SubSeq(s, p + 1, p + n) \o After(s, p + n) = After(s, p)
<1>1. Len(s) \in Nat /\ p \in Nat /\ n \in Nat \ {0} /\ p + n <= Len(s)
  BY LenProperties
<1>2. \A i \in p + 1 .. Len(s) : s[i] \in S
  BY <1>1, ElementOfSeq
<1>3. After(s, p)[1] = s[p + 1]
  <2>1. \A i \in 1 .. Len(s) - (p + 1) + 1 : SubSeq(s, p + 1, Len(s))[i] = s[p + 1 + i - 1]
    BY <1>1, <1>2, SubSeqProperties
  <2>2. 1 \in 1 .. Len(s) - (p + 1) + 1 /\ p + 1 + 1 - 1 = p + 1
    BY <1>1
  <2>3. SubSeq(s, p + 1, Len(s))[1] = s[p + 1 + 1 - 1]
    BY <2>1, <2>2
  <2>4. QED
    BY <2>2, <2>3 DEF After
<1>4. SubSeq(s, p + 1, p + n) = SubSeq(After(s, p), 1, n)
  <2>1. /\ p + 1 \in 1 .. Len(s) /\ Len(s) \in 1 .. Len(s)
        /\ 1 \in 1 .. Len(s) - (p + 1) + 1 /\ n \in 1 .. Len(s) - (p + 1) + 1
    BY <1>1
  <2>2. SubSeq(SubSeq(s, p + 1, Len(s)), 1, n) = SubSeq(s, (p + 1) + 1 - 1, (p + 1) + n - 1)
    BY <2>1, SubSeqOfSubSeq
  <2>3. (p + 1) + 1 - 1 = p + 1 /\ (p + 1) + n - 1 = p + n
    BY <1>1
  <2>4. QED
    BY <2>2, <2>3 DEF After
<1>5. SubSeq(s, p + 1, p + n) \in Seq(S)
  <2>1. \A i \in p + 1 .. p + n : s[i] \in S
    BY <1>1, <1>2
  <2>2. QED
    BY <1>1, <2>1, SubSeqProperties
<1>6. SubSeq(s, p + 1, p + n) \o SubSeq(s, p + n + 1, Len(s)) = SubSeq(s, p + 1, Len(s))
  <2>1. /\ p + 1 \in 1 .. Len(s) + 1 /\ p + n \in (p + 1) - 1 .. Len(s)
        /\ Len(s) \in p + n .. Len(s)
    BY <1>1
  <2>2. QED
    BY <2>1, ConcatAdjacentSubSeq
<1>7. QED
  BY <1>3, <1>4, <1>5, <1>6 DEF After

\* A turn of the loop that hands nothing on leaves the bytes where they are.
LEMMA PackRead ==
  ASSUME PackInv, SocketInv', R!NeedHead \/ R!Grow \/ R!Incomplete
  PROVE  PackInv'
<1>1. /\ in_at = "READ" /\ in_at' = "MOVE"
      /\ UNCHANGED <<sent, net, buf, m_is_closed, pos, got>>
  BY DEF R!NeedHead, R!Grow, R!Incomplete, R!GotoMOVE
<1>2. m_recv_buf_size' \in BufSize .. MaxPkgLen /\ Len(buf') <= m_recv_buf_size'
  BY <1>1 DEF SocketInv
<1>3. R!TypeOK'
  BY <1>1, <1>2 DEF PackInv, R!TypeOK
<1>4. Handed' /\ InStep'
  BY <1>1 DEF PackInv, Handed, InStep, Stream
<1>5. QED
  BY <1>1, <1>3, <1>4 DEF PackInv

\* What is handed on is the next package, and the bytes behind it are next.
LEMMA PackPackage ==
  ASSUME PackInv, SocketInv', R!Package
  PROVE  PackInv'
<1>1. PICK len : len = R!PkgLen
  OBVIOUS
<1>2. /\ in_at = "READ" /\ len <= MaxPkgLen /\ len # 0 /\ len + pos <= Len(buf)
      /\ got' = Append(got, SubSeq(buf, pos + 1, pos + len))
      /\ pos' = pos + len
      /\ in_at' \in {"READ", "MOVE", "gone"}
      /\ UNCHANGED <<sent, net, buf, m_recv_buf_size, m_is_closed>>
  BY <1>1 DEF R!Package, R!Complete
<1>3. len \in Nat
  BY <1>1, <1>2, PkgLenType DEF PackInv
<1>4. PICK s, g, b, p, t, r : /\ s = sent /\ g = got /\ b = buf /\ p = pos /\ t = net
                              /\ r = After(buf, pos)
  OBVIOUS
<1>5. /\ s \in Seq(LensRecv) /\ g \in Seq(Seq(R!Bytes)) /\ b \in Seq(R!Bytes)
      /\ t \in Seq(R!Bytes) /\ r \in Seq(R!Bytes)
      /\ p \in 0 .. Len(b) /\ Len(b) \in Nat /\ Len(r) = Len(b) - p
  BY <1>4, PackTypes
<1>6. len \in 1 .. Len(b) - p /\ len <= Len(r) /\ ~(Len(b) - p < HeadLen)
  <2>1. ~(Len(b) - p < HeadLen)
    BY <1>1, <1>2, <1>4 DEF R!PkgLen
  <2>2. QED
    BY <1>2, <1>3, <1>4, <1>5, <2>1
<1>7. PICK x, y : x = SubSeq(b, p + 1, p + len) /\ y = After(b, p + len)
  OBVIOUS
<1>8. /\ r[1] = b[p + 1] /\ x = SubSeq(r, 1, len)
      /\ x \in Seq(R!Bytes) /\ x \o y = r
  <2>1. b \in Seq(R!Bytes) /\ p \in 0 .. Len(b) /\ len \in 1 .. Len(b) - p
    BY <1>5, <1>6
  <2>2. /\ After(b, p)[1] = b[p + 1]
        /\ SubSeq(b, p + 1, p + len) = SubSeq(After(b, p), 1, len)
        /\ SubSeq(b, p + 1, p + len) \in Seq(R!Bytes)
        /\ SubSeq(b, p + 1, p + len) \o After(b, p + len) = After(b, p)
    BY <2>1, PartBehind
  <2>3. r = After(b, p)
    BY <1>4
  <2>4. QED
    BY <1>7, <2>2, <2>3
<1>9. y \in Seq(R!Bytes)
  <2>1. p + len \in 0 .. Len(b)
    BY <1>5, <1>6
  <2>2. QED
    BY <1>5, <1>7, <2>1, CutInTwo
<1>10. PICK f : f = FlattenSeq(g)
  OBVIOUS
<1>11. f \in Seq(R!Bytes)
  BY <1>5, <1>10, FlattenType
<1>12. ~m_is_closed /\ (f \o r) \o t = FlattenSeq(Pkgs(s))
  <2>1. ~m_is_closed
    BY <1>2 DEF PackInv
  <2>2. QED
    BY <1>2, <1>4, <1>10, <2>1 DEF PackInv, InStep, Stream
<1>13. /\ Len(s) <= MaxRecv /\ Len(g) <= Len(s)
       /\ \A i \in 1 .. Len(g) : g[i] = R!PkgBytes(i, s[i])
  BY <1>4 DEF PackInv, Handed
<1>14. r # <<>>
  <2>1. Len(r) # 0
    BY <1>5, <1>6
  <2>2. QED
    BY <2>1, EmptySeq
<1>15. /\ Len(g) + 1 \in 1 .. Len(s)
       /\ r[1] = <<Len(g) + 1, 1>>
       /\ s[Len(g) + 1] # 0 /\ s[Len(g) + 1] <= MaxPkgLen /\ s[Len(g) + 1] <= Len(r) =>
            SubSeq(r, 1, s[Len(g) + 1]) = R!PkgBytes(Len(g) + 1, s[Len(g) + 1])
  BY <1>5, <1>10, <1>12, <1>13, <1>14, NextPackage
<1>16. len = s[Len(g) + 1]
  <2>1. len = s[b[p + 1][1]]
    BY <1>1, <1>4, <1>6 DEF R!PkgLen
  <2>2. b[p + 1][1] = Len(g) + 1
    BY <1>8, <1>15
  <2>3. QED
    BY <2>1, <2>2
<1>17. x = R!PkgBytes(Len(g) + 1, len)
  BY <1>2, <1>6, <1>8, <1>15, <1>16
<1>18. /\ got' = Append(g, x) /\ got' \in Seq(Seq(R!Bytes)) /\ Len(got') = Len(g) + 1
       /\ \A i \in 1 .. Len(g) : got'[i] = g[i]
       /\ got'[Len(g) + 1] = x
  <2>1. got' = Append(g, x)
    BY <1>2, <1>4, <1>7
  <2>2. g \in Seq(Seq(R!Bytes)) /\ x \in Seq(R!Bytes)
    BY <1>5, <1>8
  <2>3. /\ Append(g, x) \in Seq(Seq(R!Bytes)) /\ Len(Append(g, x)) = Len(g) + 1
        /\ \A i \in 1 .. Len(g) : Append(g, x)[i] = g[i]
        /\ Append(g, x)[Len(g) + 1] = x
    BY <2>2, AppendProperties
  <2>4. QED
    BY <2>1, <2>3
<1>19. R!TypeOK'
  <2>1. pos' \in 0 .. Len(buf)
    BY <1>2, <1>4, <1>5, <1>6
  <2>2. QED
    BY <1>2, <1>18, <2>1 DEF PackInv, R!TypeOK
<1>20. Handed'
  <2>1. Len(g) \in Nat /\ Len(s) \in Nat
    BY <1>5, LenProperties
  <2>2. \A i \in 1 .. Len(g) + 1 : got'[i] = R!PkgBytes(i, s[i])
    <3>1. TAKE i \in 1 .. Len(g) + 1
    <3>2. CASE i \in 1 .. Len(g)
      BY <1>13, <1>18, <3>2
    <3>3. CASE i = Len(g) + 1
      BY <1>16, <1>17, <1>18, <3>3
    <3>4. i \in 1 .. Len(g) \/ i = Len(g) + 1
      BY <2>1
    <3>5. QED
      BY <3>2, <3>3, <3>4
  <2>3. Len(got') <= Len(s)
    BY <1>15, <1>18, <2>1
  <2>4. QED
    BY <1>2, <1>4, <1>18, <2>2, <2>3 DEF Handed
<1>21. InStep'
  <2>1. FlattenSeq(got') = f \o x
    BY <1>5, <1>8, <1>10, <1>18, FlattenAppend
  <2>2. (f \o x) \o y = f \o (x \o y)
    BY <1>8, <1>9, <1>11, RecvRebracketed
  <2>3. Stream' = ((f \o x) \o y) \o t
    BY <1>2, <1>4, <1>7, <2>1 DEF Stream
  <2>4. QED
    BY <1>2, <1>4, <1>8, <1>12, <2>2, <2>3 DEF InStep
<1>22. QED
  BY <1>2, <1>13, <1>19, <1>20, <1>21, <1>4 DEF PackInv

\* What is left goes to the front, byte for byte or garbled.
LEMMA PackMove ==
  ASSUME PackInv, SocketInv', R!Move
  PROVE  PackInv'
<1>1. /\ in_at = "MOVE" /\ pos' = 0
      /\ UNCHANGED <<sent, net, m_recv_buf_size, m_is_closed, got>>
  BY DEF R!Move
<1>2. PICK b, p, m : b = buf /\ p = pos /\ m = m_recv_buf_size
  OBVIOUS
<1>3. /\ b \in Seq(R!Bytes) /\ p \in 0 .. Len(b) /\ Len(b) \in Nat
      /\ m \in Nat /\ Len(b) <= m
      /\ After(b, p) \in Seq(R!Bytes) /\ Len(After(b, p)) = Len(b) - p
  BY <1>2, PackTypes, Constants DEF PackInv, R!TypeOK
<1>4. Handed' /\ ~m_is_closed'
  BY <1>1 DEF PackInv, Handed
<1>5. CASE buf' = SubSeq(buf, pos + 1, Len(buf)) /\ in_at' = "epoll"
  <2>1. buf' = After(b, p)
    BY <1>2, <1>5 DEF After
  <2>2. buf' \in Seq(R!Bytes) /\ Len(buf') \in Nat /\ Len(buf') <= m
    BY <1>3, <2>1
  <2>3. After(buf', 0) = buf'
    BY <2>2, SubSeqFull DEF After
  <2>4. R!TypeOK'
    BY <1>1, <1>2, <1>5, <2>2 DEF PackInv, R!TypeOK
  <2>5. Stream' = Stream
    BY <1>1, <1>2, <2>1, <2>3 DEF Stream
  <2>6. InStep'
    BY <1>1, <2>5 DEF PackInv, InStep
  <2>7. QED
    BY <1>1, <1>4, <2>4, <2>6 DEF PackInv
<1>6. CASE p # 0 /\ Len(b) - p > p /\ buf' = R!CopiedDown(Len(b) - p) /\ in_at' = "garbled"
  <2>1. PICK rest : rest = Len(b) - p
    OBVIOUS
  <2>2. rest \in Nat /\ p \in Nat \ {0} /\ p + rest = Len(b)
    BY <1>3, <1>6, <2>1
  <2>3. \A k \in 1 .. rest : b[k + p * (((rest - k) \div p) + 1)] \in R!Bytes
    <3>1. TAKE k \in 1 .. rest
    <3>2. PICK d : d = (rest - k) \div p
      OBVIOUS
    <3>3. d \in Nat /\ p * d <= rest - k
      BY <2>2, <3>2
    <3>4. p * (d + 1) = p * d + p /\ p * d \in Nat
      BY <2>2, <3>3
    <3>5. k + p * (d + 1) \in 1 .. Len(b)
      BY <2>2, <3>3, <3>4
    <3>6. b[k + p * (d + 1)] \in R!Bytes
      BY <1>3, <3>5, ElementOfSeq
    <3>7. QED
      BY <3>2, <3>6
  <2>4. PICK c : c = [k \in 1 .. rest |-> b[k + p * (((rest - k) \div p) + 1)]]
    OBVIOUS
  <2>5. c \in [1 .. rest -> R!Bytes]
    BY <2>3, <2>4
  <2>6. c \in Seq(R!Bytes) /\ Len(c) = rest
    BY <2>2, <2>5, FunctionIsSeq
  <2>7. buf' = c
    BY <1>2, <1>6, <2>1, <2>4 DEF R!CopiedDown
  <2>8. buf' \in Seq(R!Bytes) /\ Len(buf') \in Nat /\ Len(buf') <= m
    BY <1>3, <2>2, <2>6, <2>7
  <2>9. R!TypeOK'
    BY <1>1, <1>2, <1>6, <2>8 DEF PackInv, R!TypeOK
  <2>10. InStep'
    BY <1>6 DEF InStep
  <2>11. QED
    BY <1>1, <1>4, <1>6, <2>9, <2>10 DEF PackInv
<1>7. QED
  BY <1>2, <1>5, <1>6 DEF R!Move, R!MoveRest

\* Whatever send_pkg, handle_output and shut do, no handle_input is under way.
LEMMA PackSending ==
  ASSUME PackInv, SocketInv',
         \/ HandleOutput \/ OutputSome \/ OutputNone \/ OutputEnds
         \/ SendPkg \/ Closes
  PROVE  PackInv'
<1>1. Between /\ EndsReceiving
  BY DEF HandleOutput, OutputSome, OutputNone, OutputEnds, SendPkg, Closes
<1>2. m_is_closed' \in BOOLEAN /\ (m_is_closed => m_is_closed')
  <2>1. m_is_closed' \in {m_is_closed, TRUE}
    <3>1. CASE HandleOutput
      BY <3>1, Zenon DEF HandleOutput, Writable
    <3>2. CASE OutputSome
      BY <3>2, Zenon DEF OutputSome, Output
    <3>3. CASE OutputNone
      BY <3>3, Zenon DEF OutputNone, OutputAgain
    <3>4. CASE OutputEnds
      BY <3>4, Zenon DEF OutputEnds, OutputDone, Gone
    <3>5. CASE SendPkg
      BY <3>5, Zenon DEF SendPkg, SendFull, SendQueued, SendNow, SendCutOff,
                          SendFails, Gone
    <3>6. CASE Closes
      BY <3>6, Zenon DEF Closes, Shut, ClientGone, Gone
    <3>7. QED
      BY <3>1, <3>2, <3>3, <3>4, <3>5, <3>6
  <2>2. m_is_closed \in BOOLEAN
    BY DEF PackInv, R!TypeOK
  <2>3. CASE m_is_closed' = m_is_closed
    BY <2>2, <2>3
  <2>4. CASE m_is_closed' = TRUE
    BY <2>4
  <2>5. QED
    BY <2>1, <2>3, <2>4
<1>3. in_at \in {"epoll", "garbled"}
  BY <1>1 DEF Between
<1>4. /\ UNCHANGED <<sent, net, buf, m_recv_buf_size, pos, got>>
      /\ in_at' \in {in_at, "gone"} /\ in_at' \in {"epoll", "gone", "garbled"}
      /\ in_at = "garbled" => in_at' = "garbled"
  BY <1>1, <1>3 DEF EndsReceiving
<1>5. QED
  BY <1>2, <1>4, PackSame

LEMMA PackStep == PackInv /\ [SocketNext]_socket_vars => PackInv'
<1> SUFFICES ASSUME PackInv, [SocketNext]_socket_vars PROVE PackInv'
  OBVIOUS
<1>1. SocketInv'
  BY SocketStepInv DEF PackInv
<1>2. CASE ClientSends
  BY <1>1, <1>2, PackSend DEF ClientSends
<1>3. CASE Receive
  <2>1. CASE \E n \in 1 .. MaxPkgLen : R!Recv(n)
    BY <1>1, <2>1, PackRecv
  <2>2. CASE R!NeedHead \/ R!Grow \/ R!Incomplete
    BY <1>1, <2>2, PackRead
  <2>3. CASE R!Package
    BY <1>1, <2>3, PackPackage
  <2>4. CASE R!Move
    BY <1>1, <2>4, PackMove
  <2>5. CASE R!LenError \/ R!BigHead
    BY <1>1, <2>5, PackEnd DEF R!LenError, R!BigHead
  <2>6. QED
    BY <1>3, <2>1, <2>2, <2>3, <2>4, <2>5 DEF Receive, R!HandleInput
<1>4. CASE ReceiveEnds
  BY <1>1, <1>4, PackEnd DEF ReceiveEnds, R!RecvClosed, R!GrowNoMemory
<1>5. CASE \/ HandleOutput \/ OutputSome \/ OutputNone \/ OutputEnds
           \/ SendPkg \/ Closes
  BY <1>1, <1>5, PackSending
<1>6. CASE UNCHANGED socket_vars
  <2>1. UNCHANGED <<sent, net, buf, m_recv_buf_size, pos, got, in_at, m_is_closed>>
    BY <1>6 DEF socket_vars, recv_vars, vars
  <2>2. m_is_closed \in BOOLEAN
    BY DEF PackInv, R!TypeOK
  <2>3. QED
    BY <1>1, <2>1, <2>2, PackUnchanged
<1>7. QED
  BY <1>2, <1>3, <1>4, <1>5, <1>6 DEF SocketNext

\* What a worker gets is what the client sent: whole packages, each once and in order,
\* however its bytes are cut, for any sizes of the buffer and the packages, and whatever
\* is sent in between; and until shut, or a memcpy that garbles, nothing is lost between
\* the packages handed on, the buffer and the network.
THEOREM PackagesHandedOn == SocketSpec => []PackagesIntact
BY PackInit, PackStep, PackIntact, PTL DEF SocketSpec

-----------------------------------------------------------------------------
(***************************************************************************)
(* The links of a worker: Linkers.                                         *)
(***************************************************************************)

-----------------------------------------------------------------------------
(* Worlds. *)

Link ==
  [id : Nat \ {0}, async : BOOLEAN, connected : BOOLEAN, closed : BOOLEAN, list : Nat,
   events : SUBSET {"in", "out"}]

Socks == {"none", "connecting", "open", "fin", "failed"}
Seen == {"opened", "up", "down", "shut"}

Worlds ==
  [slot : [Fds -> {L!NoLink} \cup Link], sock : [Fds -> Socks], full : [Fds -> BOOLEAN],
   inq : [Fds -> Nat], seen : Seq(Seen), pkgs : Nat, faults : Nat, nomem : BOOLEAN]

\* A link is one the plugin knows, has a socket, and waits for both events only while
\* there is something in its list.
LinkOK(s, fd) ==
  /\ s.slot[fd] = L!NoLink <=> s.sock[fd] = "none"
  /\ s.slot[fd] # L!NoLink =>
       /\ s.slot[fd].id \in 1 .. Len(s.seen)
       /\ s.slot[fd].events = {"in", "out"} => s.slot[fd].list > 0

WorldOK(s) == s \in Worlds /\ \A fd \in Fds : LinkOK(s, fd)

Empty(s, fd) == s.slot[fd] = L!NoLink
Busy(s, fd) == s.slot[fd] # L!NoLink /\ s.slot[fd].list > 0

\* What the plugin's callbacks leave alone, as long as there is memory: what has
\* something to send, and what is not there.
Keeps(s, u) ==
  /\ s.nomem => u.nomem
  /\ ~u.nomem =>
       \A fd \in Fds : (Busy(s, fd) => Busy(u, fd)) /\ (Empty(s, fd) => Empty(u, fd))

\* A world that differs in one slot.
Others(s, u, fd) == \A k \in Fds \ {fd} : u.slot[k] = s.slot[k] /\ u.sock[k] = s.sock[k]

LEMMA NoLinkIsNone == L!NoLink \notin Link
BY DEF L!NoLink, Link

\* A descriptor's socket, and the plugin's view of a link, may change at will.
LEMMA SeenOK ==
  ASSUME NEW s, WorldOK(s), NEW fd \in Fds, ~Empty(s, fd), NEW v \in Seen
  PROVE  LET u == [s EXCEPT !.seen[s.slot[fd].id] = v]
         IN WorldOK(u) /\ u.slot = s.slot /\ u.nomem = s.nomem
<1> DEFINE u == [s EXCEPT !.seen[s.slot[fd].id] = v]
<1>1. s.slot[fd].id \in 1 .. Len(s.seen) /\ s.seen \in Seq(Seen) /\ s \in Worlds
  BY DEF WorldOK, LinkOK, Empty, Worlds
<1>2. /\ u.seen = [s.seen EXCEPT ![s.slot[fd].id] = v]
      /\ u.slot = s.slot /\ u.sock = s.sock /\ u.nomem = s.nomem
      /\ u.full = s.full /\ u.inq = s.inq /\ u.pkgs = s.pkgs /\ u.faults = s.faults
  BY <1>1 DEF Worlds
<1>3. u.seen \in Seq(Seen) /\ Len(u.seen) = Len(s.seen)
  BY <1>1, <1>2, ExceptSeq
<1>4. u \in Worlds
  BY <1>1, <1>3 DEF Worlds
<1>5. \A k \in Fds : LinkOK(u, k)
  BY <1>2, <1>3 DEF WorldOK, LinkOK
<1>6. QED
  BY <1>2, <1>4, <1>5 DEF WorldOK

LEMMA FiniOK ==
  ASSUME NEW s, WorldOK(s), NEW fd \in Fds
  PROVE  LET u == L!HandleFini(s, fd)
         IN WorldOK(u) /\ Empty(u, fd) /\ Others(s, u, fd) /\ u.nomem = s.nomem
<1> DEFINE u == L!HandleFini(s, fd)
<1>1. s \in Worlds
  BY DEF WorldOK
<1>2. /\ u.slot = [s.slot EXCEPT ![fd] = L!NoLink] /\ u.sock = [s.sock EXCEPT ![fd] = "none"]
      /\ u.full = [s.full EXCEPT ![fd] = FALSE] /\ u.inq = [s.inq EXCEPT ![fd] = 0]
      /\ u.seen = s.seen /\ u.nomem = s.nomem /\ u.pkgs = s.pkgs /\ u.faults = s.faults
  BY <1>1 DEF Worlds, L!HandleFini
<1>3. u \in Worlds
  BY <1>1 DEF Worlds, L!HandleFini, Socks
<1>4. \A k \in Fds : LinkOK(u, k)
  <2> TAKE k \in Fds
  <2>1. CASE k = fd
    BY <1>1, <1>2, <2>1 DEF Worlds, LinkOK
  <2>2. CASE k # fd
    BY <1>1, <1>2, <2>2 DEF Worlds, LinkOK, WorldOK
  <2>3. QED
    BY <2>1, <2>2
<1>5. Empty(u, fd) /\ Others(s, u, fd)
  BY <1>1, <1>2 DEF Worlds, Empty, Others
<1>6. QED
  BY <1>2, <1>3, <1>4, <1>5 DEF WorldOK

\* handle_error takes one link away.
LEMMA ErrorOK ==
  ASSUME NEW s, WorldOK(s), NEW fd \in Fds, ~Empty(s, fd)
  PROVE  LET u == L!HandleError(s, fd)
         IN WorldOK(u) /\ Empty(u, fd) /\ Others(s, u, fd) /\ u.nomem = s.nomem
<1> DEFINE t == IF s.slot[fd].closed THEN s ELSE [s EXCEPT !.seen[s.slot[fd].id] = "down"]
<1>1. WorldOK(t) /\ t.slot = s.slot /\ t.nomem = s.nomem /\ t.sock = s.sock
  <2>1. s \in Worlds /\ "down" \in Seen
    BY DEF WorldOK, Seen
  <2>2. [s EXCEPT !.seen[s.slot[fd].id] = "down"].sock = s.sock
    BY <2>1 DEF Worlds
  <2>3. QED
    BY <2>1, <2>2, SeenOK
<1>2. L!HandleError(s, fd) = L!HandleFini(t, fd)
  BY DEF L!HandleError
<1> HIDE DEF t
<1>3. QED
  BY <1>1, <1>2, FiniOK DEF Others

\* A link's own fields may change, but not to wait for both events with nothing to send.
LEMMA SlotOK ==
  ASSUME NEW s, WorldOK(s), NEW fd \in Fds, ~Empty(s, fd),
         NEW l \in Link, l.id = s.slot[fd].id, l.events = {"in", "out"} => l.list > 0
  PROVE  LET u == [s EXCEPT !.slot[fd] = l]
         IN WorldOK(u) /\ u.slot[fd] = l /\ Others(s, u, fd) /\ u.nomem = s.nomem
<1> DEFINE u == [s EXCEPT !.slot[fd] = l]
<1>1. s \in Worlds /\ l # L!NoLink
  BY NoLinkIsNone DEF WorldOK
<1>2. /\ u.slot = [s.slot EXCEPT ![fd] = l]
      /\ u.sock = s.sock /\ u.seen = s.seen /\ u.nomem = s.nomem
  BY <1>1 DEF Worlds
<1>3. u \in Worlds
  BY <1>1 DEF Worlds
<1>4. \A k \in Fds : LinkOK(u, k)
  BY <1>1, <1>2 DEF Worlds, LinkOK, WorldOK, Empty
<1>5. QED
  BY <1>1, <1>2, <1>3, <1>4 DEF WorldOK, Others, Worlds

\* What happens to one slot that had nothing to send, or that still has, is kept apart
\* from what the others hold.
LEMMA OthersKeep ==
  ASSUME NEW s, NEW u, NEW fd \in Fds, Others(s, u, fd), s.nomem => u.nomem,
         ~Empty(s, fd), Busy(s, fd) => u.nomem \/ Busy(u, fd)
  PROVE  Keeps(s, u)
BY DEF Others, Keeps, Busy, Empty

LEMMA ShutOK ==
  ASSUME NEW s, WorldOK(s), NEW fd \in Fds, ~Empty(s, fd)
  PROVE  WorldOK(L!Shut(s, fd)) /\ Keeps(s, L!Shut(s, fd))
<1> DEFINE told == [s EXCEPT !.seen[s.slot[fd].id] = "shut"]
<1>1. WorldOK(told) /\ told.slot = s.slot /\ told.nomem = s.nomem /\ told.sock = s.sock
  <2>1. s \in Worlds /\ "shut" \in Seen
    BY DEF WorldOK, Seen
  <2>2. told.sock = s.sock
    BY <2>1 DEF Worlds
  <2>3. QED
    BY <2>1, <2>2, SeenOK
<1>2. L!Shut(s, fd) = IF s.slot[fd].list > 0 THEN [told EXCEPT !.slot[fd].closed = TRUE]
                    ELSE L!HandleFini(told, fd)
  BY DEF L!Shut
<1> HIDE DEF told
<1>3. CASE s.slot[fd].list > 0
  <2> DEFINE l == [told.slot[fd] EXCEPT !.closed = TRUE]
  <2>1. told.slot[fd] \in Link /\ ~Empty(told, fd)
    BY <1>1 DEF WorldOK, Worlds, Empty
  <2>2. /\ l \in Link /\ l.id = told.slot[fd].id /\ l.list = told.slot[fd].list
        /\ l.events = told.slot[fd].events
    BY <2>1 DEF Link
  <2>3. L!Shut(s, fd) = [told EXCEPT !.slot[fd] = l]
    BY <1>2, <1>3
  <2> HIDE DEF l
  <2>4. l.list > 0 /\ l # L!NoLink
    BY <1>1, <1>3, <2>2, NoLinkIsNone
  <2>5. /\ WorldOK(L!Shut(s, fd)) /\ L!Shut(s, fd).slot[fd] = l
        /\ Others(told, L!Shut(s, fd), fd) /\ L!Shut(s, fd).nomem = told.nomem
    BY <1>1, <2>1, <2>2, <2>3, <2>4, SlotOK
  <2>6. Others(s, L!Shut(s, fd), fd) /\ Busy(L!Shut(s, fd), fd)
    BY <1>1, <2>4, <2>5 DEF Others, Busy
  <2>7. QED
    BY <1>1, <2>5, <2>6, OthersKeep
<1>4. CASE ~(s.slot[fd].list > 0)
  <2>1. L!Shut(s, fd) = L!HandleFini(told, fd)
    BY <1>2, <1>4
  <2>2. /\ WorldOK(L!Shut(s, fd)) /\ Others(told, L!Shut(s, fd), fd)
        /\ L!Shut(s, fd).nomem = told.nomem
    BY <1>1, <2>1, FiniOK
  <2>3. Others(s, L!Shut(s, fd), fd)
    BY <1>1, <2>2 DEF Others
  <2>4. QED
    BY <1>1, <1>4, <2>2, <2>3, OthersKeep DEF Busy
<1>5. QED
  BY <1>3, <1>4

\* Calls that fail, and packages sent, are counted.
LEMMA CountsOK ==
  ASSUME NEW s, WorldOK(s)
  PROVE  /\ LET t == [s EXCEPT !.pkgs = @ + 1]
            IN WorldOK(t) /\ t.slot = s.slot /\ t.sock = s.sock /\ t.nomem = s.nomem
         /\ \A u \in L!Fails(s) :
              WorldOK(u) /\ u.slot = s.slot /\ u.sock = s.sock /\ u.nomem = s.nomem
         /\ \A u \in L!NoMemory(s) :
              WorldOK(u) /\ u.slot = s.slot /\ u.sock = s.sock /\ u.nomem
<1>1. s \in Worlds
  BY DEF WorldOK
<1>2. ASSUME NEW t \in Worlds, t.slot = s.slot, t.sock = s.sock, t.seen = s.seen
      PROVE  WorldOK(t)
  BY <1>2 DEF WorldOK, LinkOK
<1>3. s.pkgs + 1 \in Nat /\ s.faults + 1 \in Nat
  BY <1>1 DEF Worlds
<1>4. ASSUME NEW n \in Nat,
             NEW t, t = [s EXCEPT !.pkgs = n] \/ t = [s EXCEPT !.faults = n]
      PROVE  /\ t \in Worlds /\ t.slot = s.slot /\ t.sock = s.sock /\ t.nomem = s.nomem
             /\ t.seen = s.seen
  BY <1>1, <1>4 DEF Worlds
<1>5. LET t == [s EXCEPT !.pkgs = @ + 1]
      IN /\ t \in Worlds /\ t.slot = s.slot /\ t.sock = s.sock /\ t.nomem = s.nomem
         /\ t.seen = s.seen
  BY <1>3, <1>4
<1>6. LET t == [s EXCEPT !.faults = @ + 1]
      IN /\ t \in Worlds /\ t.slot = s.slot /\ t.sock = s.sock /\ t.nomem = s.nomem
         /\ t.seen = s.seen
  BY <1>3, <1>4
<1>7. ASSUME NEW u \in L!Fails(s)
      PROVE  /\ u \in Worlds /\ u.slot = s.slot /\ u.sock = s.sock /\ u.nomem = s.nomem
             /\ u.seen = s.seen
  BY <1>6, <1>7 DEF L!Fails
<1>8. ASSUME NEW u \in L!NoMemory(s)
      PROVE  /\ u \in Worlds /\ u.slot = s.slot /\ u.sock = s.sock /\ u.nomem
             /\ u.seen = s.seen
  <2>1. PICK t \in L!Fails(s) : u = [t EXCEPT !.nomem = TRUE]
    BY <1>8 DEF L!NoMemory
  <2>2. QED
    BY <1>7, <2>1 DEF Worlds
<1>9. QED
  BY <1>2, <1>5, <1>7, <1>8

\* send_pkg ends the link, with nothing in its list or for want of memory, or keeps it.
LEMMA SendOK ==
  ASSUME NEW s, WorldOK(s), NEW fd \in Fds, ~Empty(s, fd), NEW u \in L!SendPkg(s, fd)
  PROVE  WorldOK(u) /\ Keeps(s, u)
<1> DEFINE t == [s EXCEPT !.pkgs = @ + 1]
           ends == {L!HandleError(v, fd) : v \in L!NoMemory(t)}
           more == {[t EXCEPT !.slot[fd].list = n] : n \in s.slot[fd].list .. MaxList}
           part == {[t EXCEPT !.slot[fd].list = n, !.slot[fd].events = {"in", "out"},
                              !.full[fd] = TRUE] : n \in 1 .. MaxList}
<1>1. WorldOK(t) /\ t.slot = s.slot /\ t.sock = s.sock /\ t.nomem = s.nomem
  BY CountsOK
<1>2. \/ u \in ends
      \/ s.slot[fd].list > 0 /\ u \in more
      \/ ~(s.slot[fd].list > 0) /\ u = L!HandleError(t, fd)
      \/ u = t
      \/ ~(s.slot[fd].list > 0) /\ u \in part
  BY DEF L!SendPkg
<1>3. s \in Worlds /\ t \in Worlds /\ t.slot[fd] \in Link /\ ~Empty(t, fd)
  BY <1>1 DEF WorldOK, Worlds, Empty
<1> HIDE DEF t
<1>4. CASE u \in ends
  <2>1. PICK v \in L!NoMemory(t) : u = L!HandleError(v, fd)
    BY <1>4
  <2>2. WorldOK(v) /\ v.slot = s.slot /\ v.sock = s.sock /\ v.nomem
    BY <1>1, CountsOK
  <2>3. WorldOK(u) /\ Others(v, u, fd) /\ u.nomem
    BY <2>1, <2>2, ErrorOK DEF Empty
  <2>4. QED
    BY <2>2, <2>3, OthersKeep DEF Others
<1>5. CASE s.slot[fd].list > 0 /\ u \in more
  <2>1. PICK n \in s.slot[fd].list .. MaxList : u = [t EXCEPT !.slot[fd].list = n]
    BY <1>5
  <2>2. n \in Nat /\ n > 0
    BY <1>1, <1>3, <1>5 DEF Link
  <2> DEFINE l == [t.slot[fd] EXCEPT !.list = n]
  <2>3. l \in Link /\ l.id = t.slot[fd].id /\ l.list = n /\ l # L!NoLink
    BY <1>3, <2>2, NoLinkIsNone DEF Link
  <2>4. u = [t EXCEPT !.slot[fd] = l]
    BY <2>1
  <2> HIDE DEF l
  <2>5. WorldOK(u) /\ u.slot[fd] = l /\ Others(t, u, fd) /\ u.nomem = t.nomem
    BY <1>1, <1>3, <2>2, <2>3, <2>4, SlotOK
  <2>6. Others(s, u, fd) /\ Busy(u, fd)
    BY <1>1, <2>2, <2>3, <2>5 DEF Others, Busy
  <2>7. QED
    BY <1>1, <2>5, <2>6, OthersKeep
<1>6. CASE ~(s.slot[fd].list > 0) /\ u = L!HandleError(t, fd)
  <2>1. WorldOK(u) /\ Others(t, u, fd) /\ u.nomem = t.nomem
    BY <1>1, <1>3, <1>6, ErrorOK
  <2>2. Others(s, u, fd)
    BY <1>1, <2>1 DEF Others
  <2>3. QED
    BY <1>1, <1>6, <2>1, <2>2, OthersKeep DEF Busy
<1>7. CASE u = t
  BY <1>1, <1>7 DEF Keeps, Busy, Empty
<1>8. CASE ~(s.slot[fd].list > 0) /\ u \in part
  <2>1. PICK n \in 1 .. MaxList :
          u = [t EXCEPT !.slot[fd].list = n, !.slot[fd].events = {"in", "out"},
                        !.full[fd] = TRUE]
    BY <1>8
  <2> DEFINE l == [t.slot[fd] EXCEPT !.list = n, !.events = {"in", "out"}]
  <2>2. n \in Nat /\ n > 0
    OBVIOUS
  <2>3. l \in Link /\ l.id = t.slot[fd].id /\ l.list = n
    BY <1>3, <2>2 DEF Link
  <2> HIDE DEF l
  <2> DEFINE v == [t EXCEPT !.slot[fd] = l]
  <2>4. WorldOK(v) /\ Others(t, v, fd) /\ v.nomem = t.nomem
    BY <1>1, <1>3, <2>2, <2>3, SlotOK
  <2>5. u = [v EXCEPT !.full[fd] = TRUE]
    BY <1>3, <2>1 DEF Worlds, Link, l
  <2> HIDE DEF v
  <2>6. v \in Worlds
    BY <2>4 DEF WorldOK
  <2>7. /\ u \in Worlds /\ u.slot = v.slot /\ u.sock = v.sock /\ u.seen = v.seen
        /\ u.nomem = v.nomem
    BY <2>5, <2>6 DEF Worlds
  <2>8. WorldOK(u) /\ Others(s, u, fd) /\ u.nomem = s.nomem
    BY <1>1, <2>4, <2>7 DEF WorldOK, LinkOK, Others
  <2>9. QED
    BY <1>8, <2>8, OthersKeep DEF Busy
<1>9. QED
  BY <1>2, <1>4, <1>5, <1>6, <1>7, <1>8

\* Nothing the plugin does in a callback touches what has something to send.
LEMMA PluginOK ==
  ASSUME NEW s, WorldOK(s), NEW u \in L!Plugin(s)
  PROVE  WorldOK(u) /\ Keeps(s, u)
<1>1. ASSUME NEW fd \in Fds, s.slot[fd] # L!NoLink, u = L!Shut(s, fd)
      PROVE  WorldOK(u) /\ Keeps(s, u)
  BY <1>1, ShutOK DEF Empty
<1>2. ASSUME NEW fd \in Fds, s.slot[fd] # L!NoLink, u \in L!SendPkg(s, fd)
      PROVE  WorldOK(u) /\ Keeps(s, u)
  BY <1>2, SendOK DEF Empty
<1>3. QED
  BY <1>1, <1>2 DEF L!Plugin

-----------------------------------------------------------------------------
(* The reactor. *)

Event == [fd : Fds, e : SUBSET {"err", "in", "out"}]

\* A batch has one event of a descriptor at the most.
BatchType(b) ==
  /\ b \in Seq(Event)
  /\ \A i, j \in 1 .. Len(b) : b[i].fd = b[j].fd => i = j

NotIn(b, fd) == \A i \in 1 .. Len(b) : b[i].fd # fd

\* Where the output is to be looked at after the input, the link had something to send
\* and has it still.
BatchFor(b, s) ==
  ~s.nomem =>
    \A i \in 1 .. Len(b) :
      {"in", "out"} \subseteq b[i].e => Empty(s, b[i].fd) \/ Busy(s, b[i].fd)

BatchOK ==
  /\ BatchType(batch) /\ BatchFor(batch, world)
  /\ links_at.pc = "wait" => batch = <<>>
  /\ links_at.pc = "event" => batch # <<>>

Ats ==
  [pc : {"wait", "event", "input", "pkg", "told", "output", "dead"}, fd : Fds \cup {0},
   e : SUBSET {"err", "in", "out"}, pkgs : Int]

AtOK ==
  /\ links_at \in Ats
  /\ links_at.pc \in {"input", "pkg", "output"} => links_at.fd \in Fds /\ NotIn(batch, links_at.fd)
  /\ links_at.pc = "input" => ~Empty(world, links_at.fd)
  /\ links_at.pc \in {"input", "pkg"} =>
       (~world.nomem /\ "out" \in links_at.e => Busy(world, links_at.fd))
  /\ links_at.pc = "output" /\ ~world.nomem => ~Empty(world, links_at.fd)
  /\ links_at.pc = "dead" => world.nomem

LinksInv == IsFiniteSet(Fds) /\ WorldOK(world) /\ BatchOK /\ AtOK

LEMMA LinksInit == IsFiniteSet(Fds) /\ L!Init => LinksInv
<1> SUFFICES ASSUME IsFiniteSet(Fds), L!Init PROVE LinksInv
  OBVIOUS
<1>1. world \in Worlds /\ world.seen = <<>>
  BY EmptySeq DEF L!Init, Worlds, Socks
<1>2. \A fd \in Fds : world.slot[fd] = L!NoLink /\ world.sock[fd] = "none"
  BY DEF L!Init
<1>3. WorldOK(world)
  BY <1>1, <1>2 DEF WorldOK, LinkOK
<1>4. BatchOK /\ AtOK
  BY EmptySeq DEF L!Init, BatchOK, BatchType, BatchFor, AtOK, Ats, L!Quiet
<1>5. QED
  BY <1>3, <1>4 DEF LinksInv

\* Events to come stay as they are while the plugin runs, or one link goes that has none.
LEMMA BatchKept ==
  ASSUME NEW s, WorldOK(s), NEW u, NEW b, BatchType(b), BatchFor(b, s),
         \/ Keeps(s, u)
         \/ \E fd \in Fds : Others(s, u, fd) /\ NotIn(b, fd) /\ u.nomem = s.nomem
  PROVE  BatchFor(b, u)
<1> SUFFICES ASSUME ~u.nomem, NEW i \in 1 .. Len(b), {"in", "out"} \subseteq b[i].e
             PROVE  Empty(u, b[i].fd) \/ Busy(u, b[i].fd)
  BY DEF BatchFor
<1>1. b[i].fd \in Fds
  <2>1. b[i] \in Event
    BY ElementOfSeq DEF BatchType
  <2>2. QED
    BY <2>1 DEF Event
<1>2. ~s.nomem
  BY DEF Keeps
<1>3. Empty(s, b[i].fd) \/ Busy(s, b[i].fd)
  BY <1>2 DEF BatchFor
<1>4. CASE Keeps(s, u)
  BY <1>1, <1>3, <1>4 DEF Keeps
<1>5. CASE \E fd \in Fds : Others(s, u, fd) /\ NotIn(b, fd)
  BY <1>1, <1>3, <1>5 DEF Others, NotIn, Empty, Busy
<1>6. QED
  BY <1>4, <1>5, <1>2

\* The next event.
LEMMA BatchTail ==
  ASSUME NEW b, BatchType(b), b # <<>>
  PROVE  /\ BatchType(Tail(b))
         /\ Head(b) \in Event
         /\ NotIn(Tail(b), Head(b).fd)
         /\ \A s : BatchFor(b, s) => BatchFor(Tail(b), s)
         /\ Len(b) = 1 <=> Tail(b) = <<>>
<1>1. /\ b \in Seq(Event) /\ Head(b) \in Event /\ Tail(b) \in Seq(Event)
      /\ Head(b) = b[1]
      /\ Len(b) \in Nat /\ Len(b) > 0 /\ Len(Tail(b)) = Len(b) - 1
      /\ \A i \in 1 .. Len(Tail(b)) : i + 1 \in 1 .. Len(b) /\ Tail(b)[i] = b[i + 1]
  BY HeadTailProperties, LenProperties DEF BatchType
<1>2. BatchType(Tail(b))
  BY <1>1 DEF BatchType
<1>3. NotIn(Tail(b), Head(b).fd)
  BY <1>1 DEF BatchType, NotIn
<1>4. \A s : BatchFor(b, s) => BatchFor(Tail(b), s)
  BY <1>1 DEF BatchFor
<1>5. Len(b) = 1 <=> Tail(b) = <<>>
  <2>1. \A x \in Seq(Event) : x = <<>> <=> Len(x) = 0
    BY EmptySeq
  <2>2. Tail(b) = <<>> <=> Len(Tail(b)) = 0
    BY <1>1, <2>1
  <2>3. QED
    BY <1>1, <2>2
<1>6. QED
  BY <1>1, <1>2, <1>3, <1>4, <1>5

\* handle_event goes on, with what is left of the batch.
LEMMA GoesOn ==
  ASSUME IsFiniteSet(Fds), WorldOK(world'), BatchType(batch'), BatchFor(batch', world'),
         L!Return \/ L!Calls
  PROVE  LinksInv'
<1>1. CASE L!Return
  <2>1. links_at' \in Ats /\ links_at'.pc = IF batch' = <<>> THEN "wait" ELSE "event"
    BY <1>1 DEF Ats, L!Return, L!Quiet
  <2>2. QED
    BY <2>1 DEF LinksInv, BatchOK, AtOK
<1>2. CASE L!Calls
  <2>1. links_at' \in Ats /\ links_at'.pc = "told"
    BY <1>2 DEF Ats, L!Calls, L!Quiet
  <2>2. QED
    BY <2>1 DEF LinksInv, BatchOK, AtOK
<1>3. QED
  BY <1>1, <1>2

\* The reactor ends a link.
LEMMA DownOK ==
  ASSUME NEW s, WorldOK(s), NEW fd \in Fds, ~Empty(s, fd), L!Down(s, fd)
  PROVE  /\ WorldOK(world') /\ Others(s, world', fd) /\ world'.nomem = s.nomem
         /\ L!Return \/ L!Calls
BY ErrorOK DEF L!Down

LEMMA LinkerType ==
  ASSUME NEW async \in BOOLEAN, NEW id \in Nat \ {0}
  PROVE  /\ L!Linker(async, id) \in Link /\ L!Linker(async, id).id = id
         /\ L!Linker(async, id).events # {"in", "out"}
<1>1. CASE async
  BY <1>1 DEF L!Linker, Link
<1>2. CASE ~async
  BY <1>2 DEF L!Linker, Link
<1>3. QED
  BY <1>1, <1>2

\* start of a link whose descriptor's slot is empty.
LEMMA StartedOK ==
  ASSUME NEW s, WorldOK(s), NEW fd \in L!FreeFd(s), NEW async \in BOOLEAN,
         NEW how \in {"connecting", "open"}
  PROVE  LET u == L!Started(s, fd, async, how)
             v == IF async THEN "opened" ELSE "up"
         IN /\ WorldOK(u) /\ fd \in Fds /\ Empty(s, fd)
            /\ u.slot = [s.slot EXCEPT ![fd] = L!Linker(async, Len(s.seen) + 1)]
            /\ u.seen = Append(s.seen, v) /\ v \in Seen
<1> DEFINE l == L!Linker(async, Len(s.seen) + 1)
           v == IF async THEN "opened" ELSE "up"
           u == [s EXCEPT !.slot[fd] = l, !.sock[fd] = how, !.seen = Append(@, v)]
<1>1. /\ fd \in Fds /\ Empty(s, fd) /\ how # "none" /\ how \in Socks /\ v \in Seen
      /\ s \in Worlds /\ s.seen \in Seq(Seen) /\ Len(s.seen) \in Nat
  BY LenProperties DEF WorldOK, L!FreeFd, Worlds, Socks, Seen, Empty
<1>2. l \in Link /\ l.id = Len(s.seen) + 1 /\ l.events # {"in", "out"} /\ l # L!NoLink
  <2>1. l \in Link /\ l.id = Len(s.seen) + 1 /\ l.events # {"in", "out"}
    BY <1>1, LinkerType
  <2>2. QED
    BY <2>1, NoLinkIsNone
<1>3. L!Started(s, fd, async, how) = u
  BY DEF L!Started
<1> HIDE DEF l, v
<1>4. Append(s.seen, v) \in Seq(Seen) /\ Len(Append(s.seen, v)) = Len(s.seen) + 1
  BY <1>1, AppendProperties
<1>5. /\ u.slot = [s.slot EXCEPT ![fd] = l] /\ u.sock = [s.sock EXCEPT ![fd] = how]
      /\ u.seen = Append(s.seen, v)
  BY <1>1 DEF Worlds
<1>6. u \in Worlds
  BY <1>1, <1>2, <1>4 DEF Worlds
<1>7. \A k \in Fds : LinkOK(u, k)
  <2> SUFFICES ASSUME NEW k \in Fds PROVE LinkOK(u, k)
    OBVIOUS
  <2> HIDE DEF u
  <2>1. CASE k = fd
    <3>1. u.slot[k] = l /\ u.sock[k] = how
      BY <1>1, <1>5, <2>1 DEF Worlds
    <3>2. l.id \in 1 .. Len(u.seen)
      BY <1>1, <1>2, <1>4, <1>5
    <3>3. QED
      BY <1>1, <1>2, <3>1, <3>2 DEF LinkOK
  <2>2. CASE k # fd
    <3>1. u.slot[k] = s.slot[k] /\ u.sock[k] = s.sock[k]
      BY <1>1, <1>5, <2>2 DEF Worlds
    <3>2. 1 .. Len(s.seen) \subseteq 1 .. Len(u.seen)
      BY <1>1, <1>4, <1>5
    <3>3. QED
      BY <3>1, <3>2 DEF LinkOK, WorldOK
  <2>3. QED
    BY <2>1, <2>2
<1>8. WorldOK(u)
  BY <1>6, <1>7 DEF WorldOK
<1> HIDE DEF u
<1>9. QED
  BY <1>1, <1>3, <1>5, <1>8 DEF l, v

LEMMA TimeEventInv == LinksInv /\ L!TimeEvent => LinksInv'
<1> SUFFICES ASSUME LinksInv, L!TimeEvent PROVE LinksInv'
  OBVIOUS
<1>1. /\ world \in Worlds /\ WorldOK(world) /\ IsFiniteSet(Fds)
      /\ links_at.pc = "wait" /\ batch = <<>> /\ UNCHANGED <<batch, links_at>>
  BY DEF LinksInv, BatchOK, L!TimeEvent, WorldOK
<1>2. ASSUME NEW fd \in L!FreeFd(world), NEW async \in BOOLEAN, NEW how \in {"connecting", "open"}
      PROVE  WorldOK(L!Started(world, fd, async, how))
  BY <1>1, StartedOK
<1>3. \A u \in L!Fails(world) : WorldOK(u)
  BY <1>1, CountsOK
<1>4. ASSUME NEW u \in L!AsyncConnects(world) PROVE WorldOK(u)
  BY <1>2, <1>3, <1>4 DEF L!AsyncConnects
<1>5. ASSUME NEW u \in L!SyncConnects(world) PROVE WorldOK(u)
  BY <1>2, <1>3, <1>5 DEF L!SyncConnects
<1>6. WorldOK(world')
  BY <1>1, <1>4, <1>5, PluginOK DEF L!TimeEvent
<1>7. BatchType(batch') /\ BatchFor(batch', world')
  BY <1>1, EmptySeq DEF BatchType, BatchFor
<1>8. QED
  BY <1>1, <1>6, <1>7 DEF LinksInv, BatchOK, AtOK

LEMMA StartFailsInv == LinksInv /\ L!StartFails => LinksInv'
<1> SUFFICES ASSUME LinksInv, L!StartFails PROVE LinksInv'
  OBVIOUS
<1>1. /\ WorldOK(world) /\ IsFiniteSet(Fds) /\ links_at \in Ats
      /\ batch = <<>> /\ batch' = batch /\ world' \in L!NoMemory(world)
      /\ links_at' = [links_at EXCEPT !.pc = "dead"]
  BY DEF LinksInv, BatchOK, AtOK, L!StartFails
<1>2. WorldOK(world') /\ world'.nomem
  BY <1>1, CountsOK
<1>3. BatchType(batch') /\ BatchFor(batch', world')
  BY <1>1, EmptySeq DEF BatchType, BatchFor
<1>4. links_at' \in Ats /\ links_at'.pc = "dead"
  BY <1>1 DEF Ats
<1>5. QED
  BY <1>1, <1>2, <1>3, <1>4 DEF LinksInv, BatchOK, AtOK

\* The other servers change sockets that are there, and no slot.
LEMMA PeerInv ==
  ASSUME LinksInv, NEW fd \in Fds,
         L!PeerAnswers(fd) \/ L!PeerSends(fd) \/ L!PeerReads(fd) \/ L!PeerEnds(fd)
  PROVE  LinksInv'
<1>1. world \in Worlds /\ WorldOK(world) /\ IsFiniteSet(Fds) /\ UNCHANGED <<batch, links_at>>
  BY DEF LinksInv, WorldOK, L!PeerAnswers, L!PeerSends, L!PeerReads, L!PeerEnds
<1>2. ASSUME NEW s, WorldOK(s), s.slot = world.slot, s.sock = world.sock, s.nomem = world.nomem,
             world.sock[fd] # "none", NEW how \in {"open", "fin", "failed"}
      PROVE  LET u == [s EXCEPT !.sock[fd] = how]
             IN WorldOK(u) /\ u.slot = world.slot /\ u.nomem = world.nomem
  <2> DEFINE u == [s EXCEPT !.sock[fd] = how]
  <2>1. s \in Worlds /\ how \in Socks /\ how # "none"
    BY <1>2 DEF WorldOK, Socks
  <2>2. /\ u.sock = [s.sock EXCEPT ![fd] = how]
        /\ u.slot = s.slot /\ u.seen = s.seen /\ u.nomem = s.nomem
    BY <2>1 DEF Worlds
  <2>3. u \in Worlds
    BY <2>1 DEF Worlds
  <2>4. \A k \in Fds : LinkOK(u, k)
    BY <1>2, <2>1, <2>2 DEF Worlds, LinkOK, WorldOK
  <2>5. QED
    BY <1>2, <2>2, <2>3, <2>4 DEF WorldOK
<1>3. \A s \in L!Fails(world) :
        WorldOK(s) /\ s.slot = world.slot /\ s.sock = world.sock /\ s.nomem = world.nomem
  BY <1>1, CountsOK
<1>4. WorldOK(world') /\ world'.slot = world.slot /\ world'.nomem = world.nomem
  <2>1. CASE L!PeerAnswers(fd)
    <3>1. world.sock[fd] # "none"
      BY <2>1 DEF L!PeerAnswers
    <3>2. CASE world' = [world EXCEPT !.sock[fd] = "open"]
      BY <1>1, <1>2, <3>1, <3>2
    <3>3. CASE \E s \in L!Fails(world) : world' = [s EXCEPT !.sock[fd] = "failed"]
      BY <1>2, <1>3, <3>1, <3>3
    <3>4. QED
      BY <2>1, <3>2, <3>3 DEF L!PeerAnswers
  <2>2. CASE L!PeerSends(fd)
    <3>1. /\ world' \in Worlds /\ world'.slot = world.slot /\ world'.sock = world.sock /\ world'.seen = world.seen
          /\ world'.nomem = world.nomem
      <4>1. PICK n \in Nat, m \in Nat : world' = [world EXCEPT !.inq[fd] = n, !.pkgs = m]
        <5>1. world.inq[fd] + 1 \in Nat /\ world.pkgs + 1 \in Nat
          BY <1>1 DEF Worlds
        <5>2. world' = [world EXCEPT !.inq[fd] = world.inq[fd] + 1, !.pkgs = world.pkgs + 1]
          BY <2>2 DEF L!PeerSends
        <5>3. QED
          BY <5>1, <5>2
      <4>2. QED
        BY <1>1, <4>1 DEF Worlds
    <3>2. QED
      BY <1>1, <3>1 DEF WorldOK, LinkOK
  <2>3. CASE L!PeerReads(fd)
    <3>1. /\ world' \in Worlds /\ world'.slot = world.slot /\ world'.sock = world.sock /\ world'.seen = world.seen
          /\ world'.nomem = world.nomem
      BY <1>1, <2>3 DEF Worlds, L!PeerReads
    <3>2. QED
      BY <1>1, <3>1 DEF WorldOK, LinkOK
  <2>4. CASE L!PeerEnds(fd)
    <3>1. world.sock[fd] # "none"
      BY <2>4 DEF L!PeerEnds
    <3>2. PICK how \in {"fin", "failed"}, s \in L!Fails(world) : world' = [s EXCEPT !.sock[fd] = how]
      BY <2>4 DEF L!PeerEnds
    <3>3. WorldOK(s) /\ s.slot = world.slot /\ s.sock = world.sock /\ s.nomem = world.nomem
      BY <1>3
    <3>4. WorldOK(world') /\ world'.slot = world.slot /\ world'.nomem = s.nomem
      BY <1>2, <3>1, <3>2, <3>3
    <3>5. QED
      BY <3>3, <3>4
  <2>5. QED
    BY <2>1, <2>2, <2>3, <2>4
<1>5. QED
  BY <1>1, <1>4 DEF LinksInv, BatchOK, BatchFor, AtOK, Empty, Busy

\* An event that says both, says it of a link with something to send.
LEMMA EpollWaitInv == LinksInv /\ L!EpollWait => LinksInv'
<1> SUFFICES ASSUME LinksInv, L!EpollWait PROVE LinksInv'
  OBVIOUS
<1> DEFINE ready == {fd \in L!Open : L!Ready(fd) # {}}
<1>1. /\ WorldOK(world) /\ IsFiniteSet(Fds) /\ links_at \in Ats /\ links_at.pc = "wait"
      /\ UNCHANGED world /\ links_at' = [links_at EXCEPT !.pc = "event"] /\ ready # {}
  BY DEF LinksInv, AtOK, L!EpollWait
<1>2. PICK order \in L!SetToSeqs(ready) :
        batch' = [k \in DOMAIN order |-> [fd |-> order[k], e |-> L!Ready(order[k])]]
  BY DEF L!EpollWait
<1>3. ready \subseteq Fds
  BY DEF L!Open
<1> HIDE DEF ready
<1>4. Cardinality(ready) \in Nat /\ Cardinality(ready) # 0
  BY <1>1, <1>3, FS_Subset, FS_CardinalityType, FS_EmptySet
<1>5. PICK n \in Nat : n # 0 /\ n = Cardinality(ready)
  BY <1>4
<1>6. /\ order \in [1 .. n -> ready]
      /\ \A i, j \in 1 .. n : i # j => order[i] # order[j]
  <2>1. L!Cardinality(ready) = Cardinality(ready)
    BY DEF L!Cardinality, Cardinality
  <2>2. QED
    BY <1>5, <2>1 DEF L!SetToSeqs
<1>7. batch' = [k \in 1 .. n |-> [fd |-> order[k], e |-> L!Ready(order[k])]]
  BY <1>2, <1>6
<1>8. \A k \in 1 .. n :
        /\ [fd |-> order[k], e |-> L!Ready(order[k])] \in Event
        /\ order[k] \in Fds
  <2> TAKE k \in 1 .. n
  <2>1. order[k] \in Fds
    BY <1>3, <1>6
  <2>2. L!Ready(order[k]) \subseteq {"err", "in", "out"}
    BY DEF L!Ready
  <2>3. QED
    BY <2>1, <2>2 DEF Event
<1>9. batch' \in Seq(Event) /\ Len(batch') = n
  BY <1>7, <1>8, IsASeq
<1>10. BatchType(batch')
  BY <1>6, <1>7, <1>9 DEF BatchType
<1>11. ASSUME NEW k \in 1 .. n, {"in", "out"} \subseteq L!Ready(order[k])
       PROVE  Busy(world, order[k])
  <2>1. order[k] \in Fds /\ world.slot[order[k]] # L!NoLink
    BY <1>6, <1>8 DEF ready, L!Open
  <2>2. world.slot[order[k]] \in Link
    BY <1>1, <2>1 DEF WorldOK, Worlds
  <2>3. world.slot[order[k]].events = {"in", "out"}
    <3>1. "in" \in world.slot[order[k]].events /\ "out" \in world.slot[order[k]].events
      BY <1>11 DEF L!Ready
    <3>2. world.slot[order[k]].events \subseteq {"in", "out"}
      BY <2>2 DEF Link
    <3>3. QED
      BY <3>1, <3>2
  <2>4. QED
    BY <1>1, <2>1, <2>3 DEF WorldOK, LinkOK, Busy
<1>12. BatchFor(batch', world')
  <2> SUFFICES ASSUME NEW i \in 1 .. n, {"in", "out"} \subseteq batch'[i].e
               PROVE  Busy(world', batch'[i].fd)
    BY <1>9 DEF BatchFor
  <2>1. batch'[i].fd = order[i] /\ batch'[i].e = L!Ready(order[i])
    BY <1>7
  <2>2. QED
    BY <1>1, <1>11, <2>1
<1>13. batch' # <<>>
  BY <1>5, <1>9, EmptySeq
<1>14. links_at' \in Ats /\ links_at'.pc = "event"
  BY <1>1 DEF Ats
<1>15. QED
  BY <1>1, <1>10, <1>12, <1>13, <1>14 DEF LinksInv, BatchOK, AtOK

LEMMA HandleEventInv == LinksInv /\ L!HandleEvent => LinksInv'
<1> SUFFICES ASSUME LinksInv, L!HandleEvent PROVE LinksInv'
  OBVIOUS
<1> DEFINE fd == Head(batch).fd
           e == Head(batch).e
<1>1. /\ WorldOK(world) /\ IsFiniteSet(Fds) /\ BatchType(batch) /\ batch # <<>>
      /\ BatchFor(batch, world) /\ links_at \in Ats /\ links_at.pc = "event" /\ batch' = Tail(batch)
  BY DEF LinksInv, BatchOK, AtOK, L!HandleEvent
<1>2. /\ fd \in Fds /\ e \in SUBSET {"err", "in", "out"}
      /\ BatchType(batch') /\ NotIn(batch', fd) /\ BatchFor(batch', world)
      /\ Len(batch) = 1 <=> batch' = <<>>
  BY <1>1, BatchTail DEF Event
<1>3. ~world.nomem /\ {"in", "out"} \subseteq e => Empty(world, fd) \/ Busy(world, fd)
  <2>1. 1 \in 1 .. Len(batch) /\ Head(batch) = batch[1]
    BY <1>1, HeadTailProperties, LenProperties DEF BatchType
  <2>2. QED
    BY <1>1, <2>1 DEF BatchFor
<1>4. CASE L!Return /\ UNCHANGED world
  BY <1>1, <1>2, <1>4, GoesOn
<1>5. CASE ~Empty(world, fd) /\ L!Down(world, fd)
  <2>1. /\ WorldOK(world') /\ Others(world, world', fd) /\ world'.nomem = world.nomem
        /\ L!Return \/ L!Calls
    BY <1>1, <1>2, <1>5, DownOK
  <2>2. BatchFor(batch', world')
    BY <1>1, <1>2, <2>1, BatchKept
  <2>3. QED
    BY <1>1, <1>2, <2>1, <2>2, GoesOn
<1>6. CASE \E pc \in {"input", "output"} :
             /\ links_at' = [pc |-> pc, fd |-> fd, e |-> e, pkgs |-> 0]
             /\ pc = "input" => "in" \in e
             /\ world.slot[fd] # L!NoLink /\ UNCHANGED world
  <2>1. PICK pc \in {"input", "output"} :
             /\ links_at' = [pc |-> pc, fd |-> fd, e |-> e, pkgs |-> 0]
             /\ pc = "input" => "in" \in e
             /\ world.slot[fd] # L!NoLink /\ UNCHANGED world
    BY <1>6
  <2>2. links_at' \in Ats /\ links_at'.pc = pc /\ links_at'.fd = fd /\ links_at'.e = e
    BY <1>2, <2>1 DEF Ats
  <2>3. ~Empty(world', fd) /\ (~world'.nomem /\ pc = "input" /\ "out" \in e => Busy(world', fd))
    BY <1>3, <2>1 DEF Empty
  <2> HIDE DEF fd, e
  <2>4. QED
    BY <1>1, <1>2, <2>1, <2>2, <2>3 DEF LinksInv, BatchOK, AtOK
<1>7. QED
  BY <1>4, <1>5, <1>6 DEF L!HandleEvent, Empty

\* What a handler leaves of the batch, and of a link it has ended.
LEMMA ReturnInv ==
  ASSUME LinksInv, links_at.pc \in {"input", "pkg", "output"}, WorldOK(world'), UNCHANGED batch,
         L!Return \/ L!Calls,
         \/ Keeps(world, world')
         \/ Others(world, world', links_at.fd) /\ world'.nomem = world.nomem
  PROVE  LinksInv'
<1>1. /\ WorldOK(world) /\ IsFiniteSet(Fds) /\ BatchType(batch) /\ BatchFor(batch, world)
      /\ links_at.fd \in Fds /\ NotIn(batch, links_at.fd)
  BY DEF LinksInv, BatchOK, AtOK
<1>2. BatchFor(batch', world')
  BY <1>1, BatchKept
<1>3. QED
  BY <1>1, <1>2, GoesOn

LEMMA InputDoneInv ==
  ASSUME LinksInv, links_at.pc \in {"input", "pkg"}, WorldOK(world'), UNCHANGED batch, L!InputDone,
         Keeps(world, world')
  PROVE  LinksInv'
<1>1. /\ WorldOK(world) /\ IsFiniteSet(Fds) /\ BatchType(batch) /\ BatchFor(batch, world)
      /\ links_at \in Ats /\ links_at.fd \in Fds /\ NotIn(batch, links_at.fd)
      /\ ~world.nomem /\ "out" \in links_at.e => Busy(world, links_at.fd)
  BY DEF LinksInv, BatchOK, AtOK
<1>2. CASE "out" \in links_at.e
  <2>1. links_at' \in Ats /\ links_at'.pc = "output" /\ links_at'.fd = links_at.fd
    BY <1>1, <1>2 DEF L!InputDone, Ats
  <2>2. BatchFor(batch', world')
    BY <1>1, BatchKept
  <2>3. ~world'.nomem => ~Empty(world', links_at.fd)
    BY <1>1, <1>2 DEF Keeps, Busy, Empty
  <2>4. QED
    BY <1>1, <2>1, <2>2, <2>3 DEF LinksInv, BatchOK, AtOK
<1>3. CASE "out" \notin links_at.e
  BY <1>3, ReturnInv DEF L!InputDone
<1>4. QED
  BY <1>2, <1>3

\* The next package is handed on, or ends the link.
LEMMA NextPkgInv ==
  ASSUME LinksInv, links_at.pc \in {"input", "pkg"}, UNCHANGED batch, ~Empty(world, links_at.fd),
         NEW s, WorldOK(s), s.slot = world.slot, s.sock = world.sock, s.nomem = world.nomem,
         NEW n \in Int, L!NextPkg(s, n)
  PROVE  LinksInv'
<1>1. /\ WorldOK(world) /\ IsFiniteSet(Fds) /\ BatchType(batch) /\ BatchFor(batch, world)
      /\ links_at \in Ats /\ links_at.fd \in Fds /\ NotIn(batch, links_at.fd)
      /\ ~world.nomem /\ "out" \in links_at.e => Busy(world, links_at.fd)
  BY DEF LinksInv, BatchOK, AtOK
<1>2. CASE world' = s /\ links_at' = [links_at EXCEPT !.pc = "pkg", !.pkgs = n]
  <2>1. links_at' \in Ats /\ links_at'.pc = "pkg" /\ links_at'.fd = links_at.fd /\ links_at'.e = links_at.e
    BY <1>1, <1>2 DEF Ats
  <2>2. BatchFor(batch', world') /\ (Busy(world, links_at.fd) => Busy(world', links_at.fd))
    BY <1>1, <1>2 DEF BatchFor, Empty, Busy
  <2>3. QED
    BY <1>1, <1>2, <2>1, <2>2 DEF LinksInv, BatchOK, AtOK
<1>3. ASSUME NEW t \in L!Fails(s), L!Down(t, links_at.fd) PROVE LinksInv'
  <2>1. WorldOK(t) /\ t.slot = s.slot /\ t.sock = s.sock /\ t.nomem = s.nomem
    BY CountsOK
  <2>2. ~Empty(t, links_at.fd)
    BY <2>1 DEF Empty
  <2>3. /\ WorldOK(world') /\ Others(t, world', links_at.fd) /\ world'.nomem = t.nomem
        /\ L!Return \/ L!Calls
    BY <1>1, <1>3, <2>1, <2>2, DownOK
  <2>4. Others(world, world', links_at.fd) /\ world'.nomem = world.nomem
    BY <2>1, <2>3 DEF Others
  <2>5. QED
    BY <2>3, <2>4, ReturnInv
<1>4. QED
  BY <1>2, <1>3 DEF L!NextPkg

LEMMA HandleInputInv == LinksInv /\ L!HandleInput => LinksInv'
<1> SUFFICES ASSUME LinksInv, L!HandleInput PROVE LinksInv'
  OBVIOUS
<1>1. /\ world \in Worlds /\ WorldOK(world) /\ links_at \in Ats /\ links_at.pc = "input" /\ UNCHANGED batch
      /\ links_at.fd \in Fds /\ ~Empty(world, links_at.fd)
  BY DEF LinksInv, WorldOK, AtOK, L!HandleInput
<1>2. PICK taken : taken = [world EXCEPT !.inq[links_at.fd] = 0]
  OBVIOUS
<1>3. /\ taken \in Worlds /\ taken.slot = world.slot /\ taken.sock = world.sock
      /\ taken.seen = world.seen /\ taken.nomem = world.nomem
  BY <1>1, <1>2 DEF Worlds
<1>4. WorldOK(taken) /\ Keeps(world, taken)
  BY <1>1, <1>3 DEF WorldOK, LinkOK, Keeps, Busy, Empty
<1>5. CASE L!Down(world, links_at.fd)
  BY <1>1, <1>5, DownOK, ReturnInv
<1>6. CASE world' = taken /\ L!InputDone
  BY <1>1, <1>4, <1>6, InputDoneInv
<1>7. CASE L!NextPkg(taken, world.inq[links_at.fd])
  <2>1. world.inq[links_at.fd] \in Int
    BY <1>1 DEF Worlds
  <2>2. QED
    BY <1>1, <1>3, <1>4, <1>7, <2>1, NextPkgInv
<1>8. QED
  BY <1>2, <1>5, <1>6, <1>7 DEF L!HandleInput

LEMMA ProcPkgSerInv == LinksInv /\ L!ProcPkgSer => LinksInv'
<1> SUFFICES ASSUME LinksInv, L!ProcPkgSer PROVE LinksInv'
  OBVIOUS
<1>1. WorldOK(world) /\ links_at \in Ats /\ links_at.pc = "pkg" /\ UNCHANGED batch
  BY DEF LinksInv, AtOK, L!ProcPkgSer
<1>2. CASE L!InputDone /\ UNCHANGED world
  <2>1. Keeps(world, world')
    BY <1>2 DEF Keeps
  <2>2. QED
    BY <1>1, <1>2, <2>1, InputDoneInv
<1>3. CASE ~Empty(world, links_at.fd) /\ L!NextPkg(world, links_at.pkgs - 1)
  <2>1. links_at.pkgs - 1 \in Int
    BY <1>1 DEF Ats
  <2>2. QED
    BY <1>1, <1>3, <2>1, NextPkgInv
<1>4. QED
  BY <1>2, <1>3 DEF L!ProcPkgSer, Empty

\* What the plugin does in a callback leaves what has something to send alone.
LEMMA PluginDoesInv == LinksInv /\ L!PluginDoes => LinksInv'
<1> SUFFICES ASSUME LinksInv, L!PluginDoes PROVE LinksInv'
  OBVIOUS
<1>1. /\ WorldOK(world) /\ IsFiniteSet(Fds) /\ BatchType(batch) /\ BatchFor(batch, world)
      /\ links_at \in Ats /\ links_at.pc \in {"pkg", "told"} /\ UNCHANGED <<batch, links_at>>
      /\ links_at.pc = "pkg" =>
           /\ links_at.fd \in Fds /\ NotIn(batch, links_at.fd)
           /\ ~world.nomem /\ "out" \in links_at.e => Busy(world, links_at.fd)
  BY DEF LinksInv, BatchOK, AtOK, L!PluginDoes
<1>2. WorldOK(world') /\ Keeps(world, world')
  BY <1>1, PluginOK DEF L!PluginDoes
<1>3. BatchFor(batch', world')
  BY <1>1, <1>2, BatchKept
<1>4. links_at.pc = "pkg" /\ ~world'.nomem /\ "out" \in links_at.e => Busy(world', links_at.fd)
  BY <1>1, <1>2 DEF Keeps
<1>5. QED
  BY <1>1, <1>2, <1>3, <1>4 DEF LinksInv, BatchOK, AtOK

LEMMA CallReturnsInv == LinksInv /\ L!CallReturns => LinksInv'
BY GoesOn DEF LinksInv, BatchOK, L!CallReturns

\* handle_output of a link that is connected changes no other.
LEMMA FlushOK ==
  ASSUME WorldOK(world), NEW fd \in Fds, ~Empty(world, fd), L!Flush(fd)
  PROVE  /\ WorldOK(world') /\ Others(world, world', fd) /\ world'.nomem = world.nomem
         /\ L!Return \/ L!Calls
<1>1. world \in Worlds /\ world.slot[fd] \in Link
  BY DEF WorldOK, Worlds, Empty
<1>2. CASE L!Down(world, fd)
  BY <1>2, DownOK
<1>3. CASE L!Return /\ world' = [world EXCEPT !.slot[fd].list = 0, !.slot[fd].events = {"in"}]
  <2> DEFINE l == [world.slot[fd] EXCEPT !.list = 0, !.events = {"in"}]
             v == [world EXCEPT !.slot[fd] = l]
  <2>1. l \in Link /\ l.id = world.slot[fd].id /\ l.events # {"in", "out"}
    BY <1>1 DEF Link
  <2>2. world' = v
    BY <1>1, <1>3 DEF Worlds, Link
  <2> HIDE DEF l
  <2>3. WorldOK(v) /\ Others(world, v, fd) /\ v.nomem = world.nomem
    BY <2>1, SlotOK
  <2> HIDE DEF v
  <2>4. QED
    BY <1>3, <2>2, <2>3
<1>4. CASE /\ L!Return
           /\ \E n \in 1 .. world.slot[fd].list - 1 :
                world' = [world EXCEPT !.slot[fd].list = n, !.full[fd] = TRUE]
  <2>1. PICK n \in 1 .. world.slot[fd].list - 1 :
               world' = [world EXCEPT !.slot[fd].list = n, !.full[fd] = TRUE]
    BY <1>4
  <2>2. n \in Nat /\ n > 0
    OBVIOUS
  <2> DEFINE l == [world.slot[fd] EXCEPT !.list = n]
  <2>3. l \in Link /\ l.id = world.slot[fd].id /\ l.list = n
    BY <1>1, <2>2 DEF Link
  <2> HIDE DEF l
  <2> DEFINE v == [world EXCEPT !.slot[fd] = l]
  <2>4. WorldOK(v) /\ Others(world, v, fd) /\ v.nomem = world.nomem
    BY <2>2, <2>3, SlotOK
  <2>5. world' = [v EXCEPT !.full[fd] = TRUE]
    BY <1>1, <2>1 DEF Worlds, Link, l
  <2> HIDE DEF v
  <2>6. v \in Worlds
    BY <2>4 DEF WorldOK
  <2>7. /\ world' \in Worlds /\ world'.slot = v.slot /\ world'.sock = v.sock /\ world'.seen = v.seen
        /\ world'.nomem = v.nomem
    BY <2>5, <2>6 DEF Worlds
  <2>8. QED
    BY <1>4, <2>4, <2>7 DEF WorldOK, LinkOK, Others
<1>5. QED
  BY <1>2, <1>3, <1>4 DEF L!Flush, L!FlushSome

\* A link that was on its way is connected.
LEMMA UpOK ==
  ASSUME NEW s, WorldOK(s), NEW fd \in Fds, ~Empty(s, fd)
  PROVE  LET u == [s EXCEPT !.slot[fd].connected = TRUE, !.slot[fd].events = {"in"},
                            !.seen[s.slot[fd].id] = "up"]
         IN /\ WorldOK(u) /\ Others(s, u, fd) /\ u.nomem = s.nomem
            /\ u.slot[fd].id = s.slot[fd].id /\ u.slot[fd].connected
            /\ u.slot[fd].closed = s.slot[fd].closed
            /\ u.seen = [s.seen EXCEPT ![s.slot[fd].id] = "up"]
<1> DEFINE l == [s.slot[fd] EXCEPT !.connected = TRUE, !.events = {"in"}]
           v == [s EXCEPT !.slot[fd] = l]
           u == [s EXCEPT !.slot[fd].connected = TRUE, !.slot[fd].events = {"in"},
                          !.seen[s.slot[fd].id] = "up"]
<1>1. s \in Worlds /\ s.slot[fd] \in Link
  BY DEF WorldOK, Worlds, Empty
<1>2. l \in Link /\ l.id = s.slot[fd].id /\ l.events # {"in", "out"} /\ l # L!NoLink
  <2>1. l \in Link /\ l.id = s.slot[fd].id /\ l.events # {"in", "out"}
    BY <1>1 DEF Link
  <2>2. QED
    BY <2>1, NoLinkIsNone
<1>3. u = [v EXCEPT !.seen[v.slot[fd].id] = "up"]
  <2>1. u = [v EXCEPT !.seen[s.slot[fd].id] = "up"]
    BY <1>1 DEF Worlds, Link
  <2>2. v.slot[fd] = l
    BY <1>1 DEF Worlds
  <2>3. QED
    BY <1>2, <2>1, <2>2
<1>4. u.seen = [s.seen EXCEPT ![s.slot[fd].id] = "up"]
  BY <1>1 DEF Worlds
<1> HIDE DEF l, u
<1>5. WorldOK(v) /\ v.slot[fd] = l /\ Others(s, v, fd) /\ v.nomem = s.nomem
  BY <1>2, SlotOK
<1> HIDE DEF v
<1>6. WorldOK(u) /\ u.slot = v.slot /\ u.nomem = v.nomem /\ u.sock = v.sock
  <2>1. ~Empty(v, fd) /\ "up" \in Seen /\ v \in Worlds
    BY <1>2, <1>5 DEF Empty, Seen, WorldOK
  <2>2. [v EXCEPT !.seen[v.slot[fd].id] = "up"].sock = v.sock
    BY <2>1 DEF Worlds
  <2>3. QED
    BY <1>3, <1>5, <2>1, <2>2, SeenOK
<1>7. u.slot[fd] = l /\ Others(s, u, fd) /\ u.nomem = s.nomem
  BY <1>5, <1>6 DEF Others
<1>8. l.connected /\ l.closed = s.slot[fd].closed
  BY <1>1 DEF l, Link
<1>9. QED
  BY <1>2, <1>4, <1>6, <1>7, <1>8 DEF u

\* handle_output of a link that was on its way; the plugin is told.
LEMMA LinkUpOK ==
  ASSUME WorldOK(world), NEW fd \in Fds, ~Empty(world, fd), L!LinkUp(fd),
         BatchType(batch), BatchFor(batch, world), NotIn(batch, fd)
  PROVE  WorldOK(world') /\ BatchFor(batch, world') /\ (L!Return \/ L!Calls)
<1>1. ASSUME NEW s \in L!NoMemory(world), L!Down(s, fd)
      PROVE  WorldOK(world') /\ BatchFor(batch, world') /\ (L!Return \/ L!Calls)
  <2>1. WorldOK(s) /\ s.slot = world.slot /\ s.sock = world.sock /\ s.nomem
    BY CountsOK
  <2>2. ~Empty(s, fd)
    BY <2>1 DEF Empty
  <2>3. WorldOK(world') /\ world'.nomem /\ (L!Return \/ L!Calls)
    BY <1>1, <2>1, <2>2, DownOK
  <2>4. QED
    BY <2>3 DEF BatchFor
<1>2. PICK up : up = [world EXCEPT !.slot[fd].connected = TRUE, !.slot[fd].events = {"in"},
                               !.seen[world.slot[fd].id] = "up"]
  OBVIOUS
<1>3. WorldOK(up) /\ Others(world, up, fd) /\ up.nomem = world.nomem
  BY <1>2, UpOK
<1>4. CASE world' = up /\ L!Calls
  <2>1. BatchFor(batch, up)
    BY <1>3, BatchKept
  <2>2. QED
    BY <1>3, <1>4, <2>1
<1>5. QED
  BY <1>1, <1>2, <1>4 DEF L!LinkUp

LEMMA HandleOutputInv == LinksInv /\ L!HandleOutput => LinksInv'
<1> SUFFICES ASSUME LinksInv, L!HandleOutput PROVE LinksInv'
  OBVIOUS
<1>1. /\ WorldOK(world) /\ IsFiniteSet(Fds) /\ BatchType(batch) /\ BatchFor(batch, world)
      /\ links_at \in Ats /\ links_at.pc = "output" /\ UNCHANGED batch
      /\ links_at.fd \in Fds /\ NotIn(batch, links_at.fd) /\ (~world.nomem => ~Empty(world, links_at.fd))
  BY DEF LinksInv, BatchOK, AtOK, L!HandleOutput
<1>2. CASE Empty(world, links_at.fd)
  <2>1. links_at' = [links_at EXCEPT !.pc = "dead"] /\ UNCHANGED world /\ world.nomem
    BY <1>1, <1>2 DEF L!HandleOutput, Empty
  <2>2. links_at' \in Ats /\ links_at'.pc = "dead"
    BY <1>1, <2>1 DEF Ats
  <2>3. QED
    BY <1>1, <2>1, <2>2 DEF LinksInv, BatchOK, AtOK
<1>3. CASE ~Empty(world, links_at.fd)
  <2>1. L!Flush(links_at.fd) \/ L!LinkUp(links_at.fd)
    BY <1>3 DEF L!HandleOutput, Empty
  <2>2. CASE L!Flush(links_at.fd)
    BY <1>1, <1>3, <2>2, FlushOK, ReturnInv
  <2>3. CASE L!LinkUp(links_at.fd)
    <3>1. WorldOK(world') /\ BatchFor(batch', world') /\ (L!Return \/ L!Calls)
      BY <1>1, <1>3, <2>3, LinkUpOK
    <3>2. QED
      BY <1>1, <3>1, GoesOn
  <2>4. QED
    BY <2>1, <2>2, <2>3
<1>4. QED
  BY <1>2, <1>3

LEMMA LinksNext == LinksInv /\ [L!Next]_(L!vars) => LinksInv'
<1> SUFFICES ASSUME LinksInv, [L!Next]_(L!vars) PROVE LinksInv'
  OBVIOUS
<1>1. CASE L!Loop
  BY <1>1, EpollWaitInv, HandleEventInv, HandleInputInv, ProcPkgSerInv, HandleOutputInv,
     CallReturnsInv
  DEF L!Loop
<1>2. CASE L!TimeEvent \/ L!StartFails \/ L!PluginDoes
  BY <1>2, TimeEventInv, StartFailsInv, PluginDoesInv
<1>3. ASSUME NEW fd \in Fds, L!PeerAnswers(fd) \/ L!PeerSends(fd) \/ L!PeerReads(fd) \/ L!PeerEnds(fd)
      PROVE  LinksInv'
  BY <1>3, PeerInv
<1>4. CASE UNCHANGED L!vars
  BY <1>4 DEF L!vars, LinksInv, BatchOK, AtOK
<1>5. QED
  BY <1>1, <1>2, <1>3, <1>4 DEF L!Next

\* handle_event calls handle_output without looking at the slot again after handle_input
\* (reactor.cpp), and the plugin may close any link meanwhile: for any finite number of
\* descriptors, and any number of links, packages and faults, there is a link in the slot,
\* unless memory or epoll has failed.
THEOREM SlotsFilled ==
  ASSUME IsFiniteSet(Fds)
  PROVE  L!Spec => []NoEmptySlot
<1>1. L!Init => LinksInv
  BY LinksInit
<1>2. LinksInv => NoEmptySlot
  <2> SUFFICES ASSUME LinksInv PROVE NoEmptySlot
    OBVIOUS
  <2>1. \A fd \in L!Open : world.slot[fd].id \in L!Ids /\ world.slot[fd].list \in Nat
    <3> SUFFICES ASSUME NEW fd \in L!Open
                 PROVE  world.slot[fd].id \in L!Ids /\ world.slot[fd].list \in Nat
      OBVIOUS
    <3>1. fd \in Fds /\ world.slot[fd] # L!NoLink
      BY DEF L!Open
    <3>2. world.slot[fd] \in Link
      BY <3>1 DEF LinksInv, WorldOK, Worlds
    <3>3. QED
      BY <3>1, <3>2 DEF LinksInv, WorldOK, LinkOK, L!Ids, Link
  <2>2. \A fd \in Fds : world.slot[fd] = L!NoLink <=> world.sock[fd] = "none"
    BY DEF LinksInv, WorldOK, LinkOK
  <2>3. /\ links_at.pc \in {"wait", "event", "input", "pkg", "told", "output", "dead"}
        /\ links_at.pc = "dead" => world.nomem
    BY DEF LinksInv, AtOK, Ats
  <2>4. QED
    BY <2>1, <2>2, <2>3 DEF NoEmptySlot, L!NoEmptySlot, L!TypeOK
<1>3. QED
  BY <1>1, <1>2, LinksNext, PTL DEF L!Spec

-----------------------------------------------------------------------------
(* What the plugin hears of a link. *)

\* What it may know of a link before and after a step.
Order ==
  {<<"opened", "up">>, <<"opened", "down">>, <<"opened", "shut">>,
   <<"up", "down">>, <<"up", "shut">>} \cup {<<x, x>> : x \in {"opened", "up", "down", "shut"}}

Heard(s, u) ==
  /\ Len(s.seen) <= Len(u.seen)
  /\ \A i \in 1 .. Len(s.seen) : <<s.seen[i], u.seen[i]>> \in Order

\* What it knows, v, of a link l that is there: closed is what it has done itself, and
\* connected what it has been told.
Told(l, v) ==
  /\ l.closed => l.connected /\ v = "shut"
  /\ ~l.closed => v = IF l.connected THEN "up" ELSE "opened"
  /\ l.list > 0 => l.connected

Known(s) ==
  /\ \A fd \in Fds : ~Empty(s, fd) => Told(s.slot[fd], s.seen[s.slot[fd].id])
  /\ \A fd, k \in Fds :
       ~Empty(s, fd) /\ ~Empty(s, k) /\ s.slot[fd].id = s.slot[k].id => fd = k

KnownOK(s) == WorldOK(s) /\ Known(s)

\* No link is new.
Remain(s, u) ==
  \A fd \in Fds : ~Empty(u, fd) => ~Empty(s, fd) /\ u.slot[fd].id = s.slot[fd].id

\* No handler does more: the rest of what it does is not about links.
LEMMA NothingHeard ==
  ASSUME NEW s, KnownOK(s), NEW u, WorldOK(u), u.slot = s.slot, u.seen = s.seen
  PROVE  KnownOK(u) /\ Heard(s, u) /\ Remain(s, u)
<1>1. s.seen \in Seq(Seen) /\ Len(s.seen) \in Nat
  BY LenProperties DEF KnownOK, WorldOK, Worlds
<1>2. \A i \in 1 .. Len(s.seen) : s.seen[i] \in Seen
  BY <1>1, ElementOfSeq
<1>3. Heard(s, u)
  BY <1>1, <1>2 DEF Heard, Order, Seen
<1>4. Known(u) /\ Remain(s, u)
  BY DEF KnownOK, Known, Remain, Empty
<1>5. QED
  BY <1>3, <1>4 DEF KnownOK

\* One link changes, or ends, and the plugin learns v of it.
LEMMA OneHeard ==
  ASSUME NEW s, KnownOK(s), NEW u, WorldOK(u), NEW fd \in Fds, ~Empty(s, fd),
         \A k \in Fds \ {fd} : u.slot[k] = s.slot[k],
         NEW v \in Seen, u.seen = [s.seen EXCEPT ![s.slot[fd].id] = v],
         <<s.seen[s.slot[fd].id], v>> \in Order,
         Empty(u, fd) \/ (u.slot[fd].id = s.slot[fd].id /\ Told(u.slot[fd], v))
  PROVE  KnownOK(u) /\ Heard(s, u) /\ Remain(s, u)
<1>1. PICK id : id = s.slot[fd].id
  OBVIOUS
<1>2. id \in 1 .. Len(s.seen) /\ s.seen \in Seq(Seen) /\ Len(s.seen) \in Nat
  BY <1>1, LenProperties DEF KnownOK, WorldOK, LinkOK, Worlds, Empty
<1>3. /\ Len(u.seen) = Len(s.seen) /\ u.seen[id] = v
      /\ \A i \in 1 .. Len(s.seen) : i # id => u.seen[i] = s.seen[i]
  BY <1>1, <1>2, ExceptSeq
<1>4. Heard(s, u)
  <2>1. \A i \in 1 .. Len(s.seen) : s.seen[i] \in Seen
    BY <1>2, ElementOfSeq
  <2>2. ASSUME NEW i \in 1 .. Len(s.seen) PROVE <<s.seen[i], u.seen[i]>> \in Order
    <3>1. CASE i = id
      BY <1>1, <1>3, <3>1
    <3>2. CASE i # id
      BY <1>3, <2>1, <3>2 DEF Order, Seen
    <3>3. QED
      BY <3>1, <3>2
  <2>3. QED
    BY <1>2, <1>3, <2>2 DEF Heard
<1>5. Remain(s, u)
  BY DEF Remain, Empty
<1>6. ASSUME NEW k \in Fds, ~Empty(u, k) PROVE Told(u.slot[k], u.seen[u.slot[k].id])
  <2>1. CASE k = fd
    BY <1>1, <1>3, <1>6, <2>1
  <2>2. CASE k # fd
    <3>1. u.slot[k] = s.slot[k] /\ ~Empty(s, k)
      BY <1>6, <2>2 DEF Empty
    <3>2. s.slot[k].id # id /\ s.slot[k].id \in 1 .. Len(s.seen)
      BY <1>1, <2>2, <3>1 DEF KnownOK, Known, WorldOK, LinkOK, Empty
    <3>3. Told(s.slot[k], s.seen[s.slot[k].id])
      BY <3>1 DEF KnownOK, Known
    <3>4. QED
      BY <1>3, <3>1, <3>2, <3>3
  <2>3. QED
    BY <2>1, <2>2
<1>7. ASSUME NEW j \in Fds, NEW k \in Fds, ~Empty(u, j), ~Empty(u, k),
             u.slot[j].id = u.slot[k].id
      PROVE  j = k
  <2>1. ~Empty(s, j) /\ ~Empty(s, k) /\ s.slot[j].id = s.slot[k].id
    BY <1>5, <1>7 DEF Remain
  <2>2. QED
    BY <2>1 DEF KnownOK, Known
<1>8. QED
  BY <1>4, <1>5, <1>6, <1>7 DEF KnownOK, Known

\* One step after another.
LEMMA HeardTwice ==
  ASSUME NEW s, NEW t, NEW u, WorldOK(s), WorldOK(t), WorldOK(u), Heard(s, t), Heard(t, u)
  PROVE  Heard(s, u)
<1>1. Len(s.seen) \in Nat /\ Len(t.seen) \in Nat /\ Len(u.seen) \in Nat
  BY LenProperties DEF WorldOK, Worlds
<1>2. ASSUME NEW i \in 1 .. Len(s.seen) PROVE <<s.seen[i], u.seen[i]>> \in Order
  <2>1. i \in 1 .. Len(t.seen)
    BY <1>1 DEF Heard
  <2>2. <<s.seen[i], t.seen[i]>> \in Order /\ <<t.seen[i], u.seen[i]>> \in Order
    BY <2>1 DEF Heard
  <2>3. QED
    BY <2>2 DEF Order
<1>3. QED
  BY <1>1, <1>2 DEF Heard

\* What the plugin knows of a link that is there is one of three things.
LEMMA KnownStates ==
  ASSUME NEW s, KnownOK(s), NEW fd \in Fds, ~Empty(s, fd)
  PROVE  LET l == s.slot[fd] v == s.seen[l.id]
         IN /\ l \in Link /\ l.id \in 1 .. Len(s.seen) /\ v \in Seen /\ s.seen \in Seq(Seen)
            /\ Told(l, v) /\ v \in {"opened", "up", "shut"} /\ (l.closed <=> v = "shut")
            /\ ~l.closed => (l.connected <=> v = "up")
<1>1. s.slot[fd] \in Link /\ s.slot[fd].id \in 1 .. Len(s.seen) /\ s.seen \in Seq(Seen)
  BY DEF KnownOK, WorldOK, LinkOK, Worlds, Empty
<1>2. s.seen[s.slot[fd].id] \in Seen
  BY <1>1, ElementOfSeq
<1>3. Told(s.slot[fd], s.seen[s.slot[fd].id])
  BY DEF KnownOK, Known
<1>4. s.slot[fd].closed \in BOOLEAN /\ s.slot[fd].connected \in BOOLEAN
  BY <1>1 DEF Link
<1>5. QED
  BY <1>1, <1>2, <1>3, <1>4 DEF Told

LEMMA ErrorHeard ==
  ASSUME NEW s, KnownOK(s), NEW fd \in Fds, ~Empty(s, fd)
  PROVE  LET u == L!HandleError(s, fd)
         IN KnownOK(u) /\ Heard(s, u) /\ Remain(s, u)
<1>1. PICK u : u = L!HandleError(s, fd)
  OBVIOUS
<1>2. WorldOK(u) /\ Empty(u, fd) /\ Others(s, u, fd)
  BY <1>1, ErrorOK DEF KnownOK
<1>3. PICK l, v : l = s.slot[fd] /\ v = s.seen[l.id]
  OBVIOUS
<1>4. /\ l.id \in 1 .. Len(s.seen) /\ v \in {"opened", "up", "shut"} /\ s.seen \in Seq(Seen)
      /\ l.closed <=> v = "shut"
  BY <1>3, KnownStates
<1>5. s \in Worlds
  BY DEF KnownOK, WorldOK
<1>6. PICK x \in Seen : u.seen = [s.seen EXCEPT ![l.id] = x] /\ <<v, x>> \in Order
  <2>1. CASE l.closed
    <3>1. u = L!HandleFini(s, fd)
      BY <1>1, <1>3, <2>1 DEF L!HandleError
    <3>2. u.seen = s.seen
      BY <1>5, <3>1 DEF L!HandleFini, Worlds
    <3>3. s.seen = [s.seen EXCEPT ![l.id] = v]
      BY <1>3, <1>4
    <3>4. <<v, v>> \in Order /\ v \in Seen
      BY <1>4 DEF Order, Seen
    <3>5. QED
      BY <3>2, <3>3, <3>4
  <2>2. CASE ~l.closed
    <3>1. u = L!HandleFini([s EXCEPT !.seen[l.id] = "down"], fd)
      BY <1>1, <1>3, <2>2 DEF L!HandleError
    <3>2. u.seen = [s.seen EXCEPT ![l.id] = "down"]
      BY <1>5, <3>1 DEF L!HandleFini, Worlds
    <3>3. <<v, "down">> \in Order /\ "down" \in Seen
      BY <1>4, <2>2 DEF Order, Seen
    <3>4. QED
      BY <3>2, <3>3
  <2>3. QED
    BY <2>1, <2>2
<1>7. KnownOK(u) /\ Heard(s, u) /\ Remain(s, u)
  <2>1. \A k \in Fds \ {fd} : u.slot[k] = s.slot[k]
    BY <1>2 DEF Others
  <2>2. u.seen = [s.seen EXCEPT ![s.slot[fd].id] = x] /\ <<s.seen[s.slot[fd].id], x>> \in Order
    BY <1>3, <1>6
  <2>3. QED
    BY <1>2, <2>1, <2>2, OneHeard
<1>8. QED
  BY <1>1, <1>7

\* The link of one slot changes, and what the plugin knows of it does not.
LEMMA LinkHeard ==
  ASSUME NEW s, KnownOK(s), NEW u, WorldOK(u), NEW fd \in Fds, ~Empty(s, fd), Others(s, u, fd),
         u.seen = s.seen, u.slot[fd].id = s.slot[fd].id,
         Told(u.slot[fd], s.seen[s.slot[fd].id])
  PROVE  KnownOK(u) /\ Heard(s, u) /\ Remain(s, u)
<1>1. PICK id, v : id = s.slot[fd].id /\ v = s.seen[id]
  OBVIOUS
<1>2. id \in 1 .. Len(s.seen) /\ v \in Seen /\ s.seen \in Seq(Seen)
  BY <1>1, KnownStates
<1>3. u.seen = [s.seen EXCEPT ![id] = v] /\ <<v, v>> \in Order
  BY <1>1, <1>2 DEF Order, Seen
<1>4. /\ u.seen = [s.seen EXCEPT ![s.slot[fd].id] = v] /\ <<s.seen[s.slot[fd].id], v>> \in Order
      /\ u.slot[fd].id = s.slot[fd].id /\ Told(u.slot[fd], v)
  BY <1>1, <1>3
<1>5. \A k \in Fds \ {fd} : u.slot[k] = s.slot[k]
  BY DEF Others
<1>6. QED
  BY <1>2, <1>4, <1>5, OneHeard

\* Closing a link that has not ended.
LEMMA ShutHeard ==
  ASSUME NEW s, KnownOK(s), NEW fd \in Fds, ~Empty(s, fd),
         s.seen[s.slot[fd].id] \in {"opened", "up"}
  PROVE  LET u == L!Shut(s, fd)
         IN KnownOK(u) /\ Heard(s, u) /\ Remain(s, u)
<1>1. PICK u, l, v : u = L!Shut(s, fd) /\ l = s.slot[fd] /\ v = s.seen[l.id]
  OBVIOUS
<1>2. /\ l \in Link /\ l.id \in 1 .. Len(s.seen) /\ v \in {"opened", "up"} /\ Told(l, v)
      /\ s.seen \in Seq(Seen) /\ s \in Worlds
  BY <1>1, KnownStates DEF KnownOK, WorldOK
<1>3. WorldOK(u)
  BY <1>1, ShutOK DEF KnownOK
<1>4. PICK told : told = [s EXCEPT !.seen[l.id] = "shut"]
  OBVIOUS
<1>5. told \in Worlds /\ told.slot = s.slot /\ told.seen = [s.seen EXCEPT ![l.id] = "shut"]
  <2>1. [s.seen EXCEPT ![l.id] = "shut"] \in Seq(Seen)
    BY <1>2, ExceptSeq DEF Seen
  <2>2. QED
    BY <1>2, <1>4, <2>1 DEF Worlds
<1>6. u = IF l.list > 0 THEN [told EXCEPT !.slot[fd].closed = TRUE] ELSE L!HandleFini(told, fd)
  BY <1>1, <1>4 DEF L!Shut
<1>7. /\ u.seen = told.seen /\ \A k \in Fds \ {fd} : u.slot[k] = s.slot[k]
      /\ Empty(u, fd) \/ (u.slot[fd].id = l.id /\ Told(u.slot[fd], "shut"))
  <2>1. CASE l.list > 0
    <3>1. u = [told EXCEPT !.slot[fd].closed = TRUE]
      BY <1>6, <2>1
    <3>2. u.seen = told.seen /\ u.slot = [s.slot EXCEPT ![fd] = [l EXCEPT !.closed = TRUE]]
      BY <1>1, <1>5, <3>1 DEF Worlds
    <3>3. u.slot[fd] = [l EXCEPT !.closed = TRUE] /\ \A k \in Fds \ {fd} : u.slot[k] = s.slot[k]
      BY <1>2, <3>2 DEF Worlds
    <3>4. u.slot[fd].id = l.id /\ Told(u.slot[fd], "shut")
      BY <1>2, <2>1, <3>3 DEF Told, Link
    <3>5. QED
      BY <3>2, <3>3, <3>4
  <2>2. CASE ~(l.list > 0)
    <3>1. u = L!HandleFini(told, fd)
      BY <1>6, <2>2
    <3>2. u.seen = told.seen /\ u.slot = [s.slot EXCEPT ![fd] = L!NoLink]
      BY <1>5, <3>1 DEF Worlds, L!HandleFini
    <3>3. QED
      BY <1>2, <3>2 DEF Worlds, Empty
  <2>3. QED
    BY <2>1, <2>2
<1>8. /\ u.seen = [s.seen EXCEPT ![s.slot[fd].id] = "shut"] /\ "shut" \in Seen
      /\ <<s.seen[s.slot[fd].id], "shut">> \in Order
      /\ Empty(u, fd) \/ (u.slot[fd].id = s.slot[fd].id /\ Told(u.slot[fd], "shut"))
  BY <1>1, <1>2, <1>5, <1>7 DEF Order, Seen
<1>9. KnownOK(u) /\ Heard(s, u) /\ Remain(s, u)
  BY <1>3, <1>7, <1>8, OneHeard
<1>10. QED
  BY <1>1, <1>9

\* Counting is nothing the plugin hears of.
LEMMA CountsHeard ==
  ASSUME NEW s, KnownOK(s)
  PROVE  /\ LET t == [s EXCEPT !.pkgs = @ + 1] IN KnownOK(t) /\ t.slot = s.slot /\ t.seen = s.seen
         /\ \A u \in L!Fails(s) \cup L!NoMemory(s) :
              KnownOK(u) /\ u.slot = s.slot /\ u.seen = s.seen /\ Heard(s, u) /\ Remain(s, u)
<1>1. s \in Worlds
  BY DEF KnownOK, WorldOK
<1>2. LET t == [s EXCEPT !.pkgs = @ + 1] IN t.slot = s.slot /\ t.seen = s.seen /\ WorldOK(t)
  <2>1. LET t == [s EXCEPT !.pkgs = @ + 1] IN t.slot = s.slot /\ t.seen = s.seen
    BY <1>1 DEF Worlds
  <2>2. QED
    BY <2>1, CountsOK DEF KnownOK
<1>3. \A u \in L!Fails(s) \cup L!NoMemory(s) : u.slot = s.slot /\ u.seen = s.seen /\ WorldOK(u)
  <2>1. \A u \in L!Fails(s) \cup L!NoMemory(s) : WorldOK(u)
    BY CountsOK DEF KnownOK
  <2>2. \A u \in L!Fails(s) : u.slot = s.slot /\ u.seen = s.seen /\ u \in Worlds
    <3>1. \A u \in L!Fails(s) : u = [s EXCEPT !.faults = @ + 1] /\ u \in Worlds
      BY <2>1 DEF L!Fails, WorldOK
    <3>2. QED
      BY <1>1, <3>1 DEF Worlds
  <2>3. \A u \in L!NoMemory(s) : u.slot = s.slot /\ u.seen = s.seen
    <3>1. \A u \in L!NoMemory(s) : \E t \in L!Fails(s) : u = [t EXCEPT !.nomem = TRUE]
      BY DEF L!NoMemory
    <3>2. QED
      BY <2>2, <3>1 DEF Worlds
  <2>4. QED
    BY <2>1, <2>2, <2>3
<1>4. QED
  BY <1>2, <1>3, NothingHeard

\* Sending on a link that is up.
LEMMA SendHeard ==
  ASSUME NEW s, KnownOK(s), NEW fd \in Fds, ~Empty(s, fd), s.seen[s.slot[fd].id] = "up",
         NEW u \in L!SendPkg(s, fd)
  PROVE  KnownOK(u) /\ Heard(s, u) /\ Remain(s, u)
<1>1. PICK t, l : t = [s EXCEPT !.pkgs = @ + 1] /\ l = s.slot[fd]
  OBVIOUS
<1>2. KnownOK(t) /\ t.slot = s.slot /\ t.seen = s.seen /\ t \in Worlds
  BY <1>1, CountsHeard DEF KnownOK, WorldOK
<1>3. l \in Link /\ l.id \in 1 .. Len(s.seen) /\ ~l.closed /\ l.connected
  BY <1>1, KnownStates
<1>4. WorldOK(u)
  BY SendOK DEF KnownOK
<1>5. \/ \E v \in L!NoMemory(t) \cup {t} : u = L!HandleError(v, fd)
      \/ \E n \in Int : u = [t EXCEPT !.slot[fd].list = n]
      \/ u = t
      \/ \E n \in Int : u = [t EXCEPT !.slot[fd].list = n, !.slot[fd].events = {"in", "out"},
                                      !.full[fd] = TRUE]
  <2>1. l.list .. MaxList \subseteq Int /\ 1 .. MaxList \subseteq Int
    OBVIOUS
  <2>2. QED
    BY <1>1, <2>1 DEF L!SendPkg
<1>6. CASE \E v \in L!NoMemory(t) \cup {t} : u = L!HandleError(v, fd)
  <2>1. PICK v \in L!NoMemory(t) \cup {t} : u = L!HandleError(v, fd)
    BY <1>6
  <2>2. KnownOK(v) /\ v.slot = s.slot /\ v.seen = s.seen
    BY <1>2, CountsHeard
  <2>3. ~Empty(v, fd)
    BY <2>2 DEF Empty
  <2>4. KnownOK(u) /\ Heard(v, u) /\ Remain(v, u)
    BY <2>1, <2>2, <2>3, ErrorHeard
  <2>5. QED
    BY <2>2, <2>4 DEF Heard, Remain, Empty
<1>7. CASE u = t
  BY <1>2, <1>4, <1>7, NothingHeard
<1>8. CASE \E n \in Int : \/ u = [t EXCEPT !.slot[fd].list = n]
                          \/ u = [t EXCEPT !.slot[fd].list = n, !.slot[fd].events = {"in", "out"},
                                           !.full[fd] = TRUE]
  <2>1. PICK n \in Int : \/ u = [t EXCEPT !.slot[fd].list = n]
                         \/ u = [t EXCEPT !.slot[fd].list = n, !.slot[fd].events = {"in", "out"},
                                          !.full[fd] = TRUE]
    BY <1>8
  <2>2. PICK m : /\ m = [l EXCEPT !.list = n] \/ m = [l EXCEPT !.list = n, !.events = {"in", "out"}]
                 /\ u.slot = [s.slot EXCEPT ![fd] = m] /\ u.seen = s.seen
    <3>1. CASE u = [t EXCEPT !.slot[fd].list = n]
      <4>1. u.slot = [s.slot EXCEPT ![fd] = [l EXCEPT !.list = n]] /\ u.seen = s.seen
        BY <1>1, <1>2, <3>1 DEF Worlds
      <4>2. QED
        BY <4>1
    <3>2. CASE u = [t EXCEPT !.slot[fd].list = n, !.slot[fd].events = {"in", "out"},
                             !.full[fd] = TRUE]
      <4>1. /\ u.slot = [s.slot EXCEPT ![fd] = [l EXCEPT !.list = n, !.events = {"in", "out"}]]
            /\ u.seen = s.seen
        BY <1>1, <1>2, <1>3, <3>2 DEF Worlds, Link
      <4>2. QED
        BY <4>1
    <3>3. QED
      BY <2>1, <3>1, <3>2
  <2>3. m.id = l.id /\ m.closed = l.closed /\ m.connected = l.connected
    <3>1. CASE m = [l EXCEPT !.list = n]
      BY <1>3, <3>1 DEF Link
    <3>2. CASE m = [l EXCEPT !.list = n, !.events = {"in", "out"}]
      BY <1>3, <3>2 DEF Link
    <3>3. QED
      BY <2>2, <3>1, <3>2
  <2>4. u.slot[fd] = m /\ \A k \in Fds \ {fd} : u.slot[k] = s.slot[k]
    BY <1>2, <2>2 DEF Worlds
  <2>5. Told(m, "up")
    BY <1>3, <2>3 DEF Told
  <2>6. PICK id \in 1 .. Len(s.seen) : id = l.id
    BY <1>3
  <2>7. s.seen = [s.seen EXCEPT ![id] = "up"]
    <3>1. s.seen \in Seq(Seen) /\ s.seen[id] = "up"
      BY <1>1, <2>6, KnownStates
    <3>2. QED
      BY <3>1
  <2>8. /\ u.seen = [s.seen EXCEPT ![s.slot[fd].id] = "up"] /\ "up" \in Seen
        /\ <<s.seen[s.slot[fd].id], "up">> \in Order
        /\ u.slot[fd].id = s.slot[fd].id /\ Told(u.slot[fd], "up")
    BY <1>1, <2>2, <2>3, <2>4, <2>5, <2>6, <2>7 DEF Order, Seen
  <2>9. QED
    BY <1>4, <2>4, <2>8, OneHeard
<1>9. QED
  BY <1>5, <1>6, <1>7, <1>8

LEMMA PluginHeard ==
  ASSUME NEW s, KnownOK(s), NEW u \in L!Plugin(s)
  PROVE  KnownOK(u) /\ Heard(s, u) /\ Remain(s, u)
<1>1. \/ \E fd \in Fds : /\ ~Empty(s, fd) /\ s.seen[s.slot[fd].id] \in {"opened", "up"}
                         /\ u = L!Shut(s, fd)
      \/ \E fd \in Fds : /\ ~Empty(s, fd) /\ s.seen[s.slot[fd].id] = "up"
                         /\ u \in L!SendPkg(s, fd)
  BY DEF L!Plugin, Empty
<1>2. CASE \E fd \in Fds : /\ ~Empty(s, fd) /\ s.seen[s.slot[fd].id] \in {"opened", "up"}
                           /\ u = L!Shut(s, fd)
  BY <1>2, ShutHeard
<1>3. CASE \E fd \in Fds : /\ ~Empty(s, fd) /\ s.seen[s.slot[fd].id] = "up"
                           /\ u \in L!SendPkg(s, fd)
  BY <1>3, SendHeard
<1>4. QED
  BY <1>1, <1>2, <1>3

\* The reactor ends a link, which it may have counted a fault for.
LEMMA DownHeard ==
  ASSUME KnownOK(world), NEW s, KnownOK(s), s.slot = world.slot, s.seen = world.seen,
         NEW fd \in Fds, ~Empty(world, fd), L!Down(s, fd)
  PROVE  KnownOK(world') /\ Heard(world, world')
<1>1. ~Empty(s, fd)
  BY DEF Empty
<1>2. world' = L!HandleError(s, fd)
  BY DEF L!Down
<1>3. KnownOK(world') /\ Heard(s, world')
  BY <1>1, <1>2, ErrorHeard
<1>4. QED
  BY <1>3 DEF Heard

\* The next package is handed on, or ends the link.
LEMMA NextPkgHeard ==
  ASSUME KnownOK(world), NEW s, WorldOK(s), s.slot = world.slot, s.seen = world.seen,
         links_at.fd \in Fds, ~Empty(world, links_at.fd), NEW n, L!NextPkg(s, n)
  PROVE  KnownOK(world') /\ Heard(world, world')
<1>1. KnownOK(s) /\ Heard(world, s)
  BY NothingHeard
<1>2. ASSUME NEW t \in L!Fails(s), L!Down(t, links_at.fd)
      PROVE  KnownOK(world') /\ Heard(world, world')
  <2>1. KnownOK(t) /\ t.slot = s.slot /\ t.seen = s.seen
    BY <1>1, CountsHeard
  <2>2. QED
    BY <1>2, <2>1, DownHeard
<1>3. QED
  BY <1>1, <1>2 DEF L!NextPkg

\* start, which shows a link to the plugin for the first time.
LEMMA StartedHeard ==
  ASSUME NEW s, KnownOK(s), NEW fd \in L!FreeFd(s), NEW async \in BOOLEAN,
         NEW how \in {"connecting", "open"}
  PROVE  LET u == L!Started(s, fd, async, how)
         IN KnownOK(u) /\ Heard(s, u)
<1>1. PICK u, l, v, n : /\ u = L!Started(s, fd, async, how) /\ n = Len(s.seen)
                        /\ l = L!Linker(async, n + 1) /\ v = IF async THEN "opened" ELSE "up"
  OBVIOUS
<1>2. /\ WorldOK(s) /\ s \in Worlds /\ s.seen \in Seq(Seen) /\ n \in Nat
      /\ \A i \in 1 .. n : s.seen[i] \in Seen
  <2>1. s \in Worlds /\ s.seen \in Seq(Seen) /\ n \in Nat
    BY <1>1, LenProperties DEF KnownOK, WorldOK, Worlds
  <2>2. \A i \in 1 .. n : s.seen[i] \in Seen
    BY <1>1, <2>1, ElementOfSeq
  <2>3. QED
    BY <2>1, <2>2 DEF KnownOK
<1>3. /\ WorldOK(u) /\ fd \in Fds /\ Empty(s, fd) /\ v \in Seen
      /\ u.slot = [s.slot EXCEPT ![fd] = l] /\ u.seen = Append(s.seen, v)
  BY <1>1, <1>2, StartedOK
<1>4. /\ Len(u.seen) = n + 1 /\ u.seen[n + 1] = v
      /\ \A i \in 1 .. n : u.seen[i] = s.seen[i]
  BY <1>1, <1>2, <1>3, AppendProperties
<1>5. u.slot[fd] = l /\ \A k \in Fds \ {fd} : u.slot[k] = s.slot[k]
  BY <1>2, <1>3 DEF Worlds
<1>6. l.id = n + 1 /\ Told(l, v)
  <2>1. CASE async
    <3>1. ~l.connected /\ ~l.closed /\ l.list = 0 /\ l.id = n + 1
      BY <1>1, <2>1 DEF L!Linker
    <3>2. v = "opened"
      BY <1>1, <2>1
    <3>3. QED
      BY <3>1, <3>2 DEF Told
  <2>2. CASE ~async
    BY <1>1, <2>2 DEF L!Linker, Told
  <2>3. QED
    BY <2>1, <2>2
<1>7. ASSUME NEW k \in Fds \ {fd}, ~Empty(u, k)
      PROVE  /\ ~Empty(s, k) /\ u.slot[k] = s.slot[k] /\ s.slot[k].id \in 1 .. n
             /\ Told(s.slot[k], s.seen[s.slot[k].id])
  BY <1>1, <1>5, <1>7 DEF Empty, KnownOK, Known, WorldOK, LinkOK
<1>8. Heard(s, u)
  BY <1>1, <1>2, <1>4 DEF Heard, Order, Seen
<1>9. ASSUME NEW k \in Fds, ~Empty(u, k) PROVE Told(u.slot[k], u.seen[u.slot[k].id])
  <2>1. CASE k = fd
    BY <1>4, <1>5, <1>6, <2>1
  <2>2. CASE k # fd
    BY <1>4, <1>7, <1>9, <2>2
  <2>3. QED
    BY <2>1, <2>2
<1>10. ASSUME NEW j \in Fds, NEW k \in Fds, ~Empty(u, j), ~Empty(u, k),
              u.slot[j].id = u.slot[k].id
       PROVE  j = k
  <2>1. n + 1 \notin 1 .. n
    BY <1>2
  <2>2. CASE j = fd /\ k # fd
    BY <1>5, <1>6, <1>7, <1>10, <2>1, <2>2
  <2>3. CASE j # fd /\ k = fd
    BY <1>5, <1>6, <1>7, <1>10, <2>1, <2>3
  <2>4. CASE j # fd /\ k # fd
    <3>1. ~Empty(s, j) /\ ~Empty(s, k) /\ s.slot[j].id = s.slot[k].id
      BY <1>7, <1>10, <2>4
    <3>2. QED
      BY <3>1 DEF KnownOK, Known
  <2>5. QED
    BY <2>2, <2>3, <2>4
<1>11. QED
  BY <1>1, <1>3, <1>8, <1>9, <1>10 DEF KnownOK, Known

\* handle_output of a link that is connected.
LEMMA FlushHeard ==
  ASSUME KnownOK(world), NEW fd \in Fds, ~Empty(world, fd), world.slot[fd].connected, L!Flush(fd)
  PROVE  KnownOK(world') /\ Heard(world, world')
<1>1. WorldOK(world') /\ Others(world, world', fd) /\ world \in Worlds
  BY FlushOK DEF KnownOK, WorldOK
<1>2. PICK l, v : l = world.slot[fd] /\ v = world.seen[l.id]
  OBVIOUS
<1>3. l \in Link /\ Told(l, v) /\ l.connected
  BY <1>2, KnownStates
<1>4. CASE L!Down(world, fd)
  BY <1>4, DownHeard
<1>5. CASE ~l.closed /\ world' = [world EXCEPT !.slot[fd].list = 0, !.slot[fd].events = {"in"}]
  <2>1. world'.seen = world.seen /\ world'.slot[fd] = [l EXCEPT !.list = 0, !.events = {"in"}]
    BY <1>1, <1>2, <1>3, <1>5 DEF Worlds, Link
  <2>2. world'.slot[fd].id = l.id /\ Told(world'.slot[fd], v)
    BY <1>3, <2>1 DEF Told, Link
  <2>3. QED
    BY <1>1, <1>2, <2>1, <2>2, LinkHeard
<1>6. CASE \E n \in 1 .. l.list - 1 : world' = [world EXCEPT !.slot[fd].list = n, !.full[fd] = TRUE]
  <2>1. PICK n \in Int : world' = [world EXCEPT !.slot[fd].list = n, !.full[fd] = TRUE]
    <3>1. 1 .. l.list - 1 \subseteq Int
      OBVIOUS
    <3>2. QED
      BY <1>6, <3>1
  <2>2. world'.seen = world.seen /\ world'.slot[fd] = [l EXCEPT !.list = n]
    BY <1>1, <1>2, <1>3, <2>1 DEF Worlds, Link
  <2>3. world'.slot[fd].id = l.id /\ Told(world'.slot[fd], v)
    BY <1>3, <2>2 DEF Told, Link
  <2>4. QED
    BY <1>1, <1>2, <2>2, <2>3, LinkHeard
<1>7. QED
  BY <1>2, <1>4, <1>5, <1>6 DEF L!Flush, L!FlushSome

\* That of one that was on its way.
LEMMA LinkUpHeard ==
  ASSUME KnownOK(world), NEW fd \in Fds, ~Empty(world, fd), ~world.slot[fd].connected, L!LinkUp(fd)
  PROVE  KnownOK(world') /\ Heard(world, world')
<1>1. PICK l, v : l = world.slot[fd] /\ v = world.seen[l.id]
  OBVIOUS
<1>2. /\ l \in Link /\ Told(l, v) /\ ~l.connected /\ ~l.closed /\ v = "opened"
  <2>1. l \in Link /\ Told(l, v) /\ ~l.connected
    BY <1>1, KnownStates
  <2>2. QED
    BY <2>1 DEF Told
<1>3. PICK up : up = [world EXCEPT !.slot[fd].connected = TRUE, !.slot[fd].events = {"in"},
                               !.seen[world.slot[fd].id] = "up"]
  OBVIOUS
<1>4. CASE world' = up
  <2>1. /\ WorldOK(up) /\ up.slot[fd].connected /\ up.slot[fd].closed = world.slot[fd].closed
        /\ up.slot[fd].id = world.slot[fd].id /\ Others(world, up, fd)
        /\ up.seen = [world.seen EXCEPT ![world.slot[fd].id] = "up"]
    <3>1. WorldOK(world)
      BY DEF KnownOK
    <3>2. QED
      BY <1>3, <3>1, UpOK, Zenon
  <2>2. up.slot[fd].id = world.slot[fd].id /\ Told(up.slot[fd], "up")
    BY <1>1, <1>2, <2>1 DEF Told
  <2>3. "up" \in Seen /\ <<world.seen[world.slot[fd].id], "up">> \in Order
    BY <1>1, <1>2 DEF Seen, Order
  <2>4. \A k \in Fds \ {fd} : up.slot[k] = world.slot[k]
    BY <2>1 DEF Others
  <2>5. KnownOK(up) /\ Heard(world, up)
    BY <2>1, <2>2, <2>3, <2>4, OneHeard
  <2>6. QED
    BY <1>4, <2>5
<1>5. ASSUME NEW s \in L!NoMemory(world), L!Down(s, fd)
      PROVE  KnownOK(world') /\ Heard(world, world')
  <2>1. KnownOK(s) /\ s.slot = world.slot /\ s.seen = world.seen
    BY CountsHeard
  <2>2. QED
    BY <1>5, <2>1, DownHeard
<1>6. QED
  BY <1>3, <1>4, <1>5 DEF L!LinkUp

\* The link whose package the plugin has, if it is still there, is one that was up.
PkgOfLink(s, a) ==
  a.pc = "pkg" /\ ~Empty(s, a.fd) => s.seen[s.slot[a.fd].id] # "opened"

\* A package is handed on.
PkgOfLinkUp(s, a) == s.slot[a.fd] # L!NoLink /\ s.seen[s.slot[a.fd].id] = "up"

\* What the plugin knows of each link is what the link is.
KInv == LinksInv /\ Known(world) /\ PkgOfLink(world, links_at)

LEMMA InitKnown == LinksInv /\ L!Init => KInv
<1> SUFFICES ASSUME LinksInv, L!Init PROVE KInv
  OBVIOUS
<1>1. \A fd \in Fds : Empty(world, fd)
  BY DEF L!Init, Empty
<1>2. links_at.pc # "pkg"
  BY DEF L!Init, L!Quiet
<1>3. QED
  BY <1>1, <1>2 DEF KInv, Known, PkgOfLink

\* The other servers, and epoll, show the plugin nothing.
LEMMA SilentSteps ==
  ASSUME KInv, WorldOK(world'),
         \/ L!StartFails \/ L!EpollWait
         \/ \E fd \in Fds : L!PeerAnswers(fd) \/ L!PeerSends(fd) \/ L!PeerReads(fd) \/ L!PeerEnds(fd)
  PROVE  /\ Known(world') /\ Heard(world, world')
         /\ links_at'.pc = "pkg" => world'.slot[links_at'.fd] = world.slot[links_at.fd] /\ world'.seen = world.seen /\ links_at' = links_at
<1>1. KnownOK(world) /\ world \in Worlds /\ links_at \in Ats
  BY DEF KInv, LinksInv, KnownOK, WorldOK, AtOK
<1>2. \A s \in L!Fails(world) : s \in Worlds /\ s.slot = world.slot /\ s.seen = world.seen
  BY <1>1, CountsHeard DEF KnownOK, WorldOK
<1>3. world'.slot = world.slot /\ world'.seen = world.seen
  <2>1. CASE L!StartFails
    BY <1>1, <2>1, CountsHeard DEF L!StartFails
  <2>2. CASE L!EpollWait
    BY <2>2 DEF L!EpollWait
  <2>3. ASSUME NEW fd \in Fds, L!PeerAnswers(fd) PROVE world'.slot = world.slot /\ world'.seen = world.seen
    BY <1>1, <1>2, <2>3 DEF L!PeerAnswers, Worlds
  <2>4. ASSUME NEW fd \in Fds, L!PeerSends(fd) PROVE world'.slot = world.slot /\ world'.seen = world.seen
    BY <1>1, <2>4 DEF L!PeerSends, Worlds
  <2>5. ASSUME NEW fd \in Fds, L!PeerReads(fd) PROVE world'.slot = world.slot /\ world'.seen = world.seen
    BY <1>1, <2>5 DEF L!PeerReads, Worlds
  <2>6. ASSUME NEW fd \in Fds, L!PeerEnds(fd) PROVE world'.slot = world.slot /\ world'.seen = world.seen
    BY <1>2, <2>6 DEF L!PeerEnds, Worlds
  <2>7. QED
    BY <2>1, <2>2, <2>3, <2>4, <2>5, <2>6
<1>4. links_at'.pc = "pkg" => links_at' = links_at
  BY <1>1 DEF L!StartFails, L!EpollWait, L!PeerAnswers, L!PeerSends, L!PeerReads, L!PeerEnds, Ats
<1>5. QED
  BY <1>1, <1>3, <1>4, NothingHeard DEF KnownOK

LEMMA TimeEventHeard ==
  ASSUME KnownOK(world), L!TimeEvent
  PROVE  Known(world') /\ Heard(world, world')
<1>1. CASE world' \in L!Plugin(world)
  BY <1>1, PluginHeard DEF KnownOK
<1>2. CASE world' \in L!AsyncConnects(world)
  <2>1. CASE world' \in L!Fails(world)
    BY <2>1, CountsHeard DEF KnownOK
  <2>2. CASE world' \notin L!Fails(world)
    <3>1. PICK fd \in L!FreeFd(world), how \in {"connecting", "open"} : world' = L!Started(world, fd, TRUE, how)
      BY <1>2, <2>2 DEF L!AsyncConnects
    <3>2. QED
      BY <3>1, StartedHeard DEF KnownOK
  <2>3. QED
    BY <2>1, <2>2
<1>3. CASE world' \in L!SyncConnects(world)
  <2>1. CASE world' \in L!Fails(world)
    BY <2>1, CountsHeard DEF KnownOK
  <2>2. CASE world' \notin L!Fails(world)
    <3>1. PICK fd \in L!FreeFd(world) : world' = L!Started(world, fd, FALSE, "open")
      BY <1>3, <2>2 DEF L!SyncConnects
    <3>2. QED
      BY <3>1, StartedHeard DEF KnownOK
  <2>3. QED
    BY <2>1, <2>2
<1>4. QED
  BY <1>1, <1>2, <1>3 DEF L!TimeEvent

\* The handlers of the loop.
LEMMA HandlersHeard ==
  ASSUME KInv, WorldOK(world'), L!HandleEvent \/ L!HandleInput \/ L!ProcPkgSer \/ L!HandleOutput
  PROVE  Known(world') /\ Heard(world, world')
<1>1. KnownOK(world) /\ world \in Worlds /\ WorldOK(world)
  BY DEF KInv, LinksInv, KnownOK, WorldOK
<1>2. CASE L!HandleEvent
  <2>1. batch # <<>> /\ BatchType(batch)
    BY <1>2 DEF L!HandleEvent, KInv, LinksInv, BatchOK
  <2>2. Head(batch).fd \in Fds
    BY <2>1, BatchTail DEF Event
  <2>3. world' = world \/ (~Empty(world, Head(batch).fd) /\ L!Down(world, Head(batch).fd))
    BY <1>2 DEF L!HandleEvent, Empty
  <2>4. QED
    BY <1>1, <2>2, <2>3, NothingHeard, DownHeard DEF KnownOK
<1>3. CASE L!HandleInput
  <2>1. links_at.fd \in Fds /\ ~Empty(world, links_at.fd)
    BY <1>3 DEF L!HandleInput, KInv, LinksInv, AtOK
  <2>2. PICK taken : taken = [world EXCEPT !.inq[links_at.fd] = 0]
    OBVIOUS
  <2>3. /\ taken \in Worlds /\ taken.slot = world.slot /\ taken.sock = world.sock
        /\ taken.seen = world.seen
    BY <1>1, <2>1, <2>2 DEF Worlds
  <2>4. WorldOK(taken)
    BY <1>1, <2>3 DEF WorldOK, LinkOK
  <2>5. \/ L!Down(world, links_at.fd) \/ world' = taken
        \/ L!NextPkg(taken, world.inq[links_at.fd])
    BY <1>3, <2>2 DEF L!HandleInput
  <2>6. KnownOK(world') /\ Heard(world, world')
    <3>1. CASE L!Down(world, links_at.fd)
      BY <1>1, <2>1, <3>1, DownHeard
    <3>2. CASE world' = taken
      BY <1>1, <2>3, <2>4, <3>2, NothingHeard
    <3>3. CASE L!NextPkg(taken, world.inq[links_at.fd])
      BY <1>1, <2>1, <2>3, <2>4, <3>3, NextPkgHeard
    <3>4. QED
      BY <2>5, <3>1, <3>2, <3>3
  <2>7. QED
    BY <2>6 DEF KnownOK
<1>4. CASE L!ProcPkgSer
  <2>1. links_at.fd \in Fds
    BY <1>4 DEF L!ProcPkgSer, KInv, LinksInv, AtOK
  <2>2. CASE world' = world
    BY <1>1, <2>2, NothingHeard DEF KnownOK
  <2>3. CASE ~Empty(world, links_at.fd) /\ L!NextPkg(world, links_at.pkgs - 1)
    BY <1>1, <2>1, <2>3, NextPkgHeard DEF KnownOK
  <2>4. QED
    BY <1>4, <2>2, <2>3 DEF L!ProcPkgSer, Empty
<1>5. CASE L!HandleOutput
  <2>1. links_at.fd \in Fds
    BY <1>5 DEF L!HandleOutput, KInv, LinksInv, AtOK
  <2>2. CASE Empty(world, links_at.fd)
    <3>1. world' = world
      BY <1>5, <2>2 DEF L!HandleOutput, Empty
    <3>2. QED
      BY <1>1, <3>1, NothingHeard DEF KnownOK
  <2>3. CASE ~Empty(world, links_at.fd) /\ world.slot[links_at.fd].connected
    <3>1. L!Flush(links_at.fd)
      BY <1>5, <2>3 DEF L!HandleOutput, Empty
    <3>2. QED
      BY <1>1, <2>1, <2>3, <3>1, FlushHeard DEF KnownOK
  <2>4. CASE ~Empty(world, links_at.fd) /\ ~world.slot[links_at.fd].connected
    <3>1. L!LinkUp(links_at.fd)
      BY <1>5, <2>4 DEF L!HandleOutput, Empty
    <3>2. QED
      BY <1>1, <2>1, <2>4, <3>1, LinkUpHeard DEF KnownOK
  <2>5. QED
    BY <2>2, <2>3, <2>4
<1>6. QED
  BY <1>2, <1>3, <1>4, <1>5

\* Packages are handed on from a link that is up: at first, as handle_input looks at it;
\* and after each, as proc_pkg_ser does.
LEMMA PkgsOfLinkUp ==
  ASSUME KInv, links_at'.pc = "pkg",
         L!HandleEvent \/ L!HandleInput \/ L!ProcPkgSer \/ L!HandleOutput
  PROVE  PkgOfLinkUp(world', links_at')
<1>1. KnownOK(world) /\ world \in Worlds /\ links_at \in Ats
  BY DEF KInv, LinksInv, KnownOK, WorldOK, AtOK
<1>2. ~L!Return /\ ~L!Calls /\ ~L!InputDone /\ \A s, fd : ~L!Down(s, fd)
  BY <1>1 DEF L!Return, L!Calls, L!InputDone, L!Down, L!Quiet, Ats
<1>3. ~L!HandleEvent
  <2>1. SUFFICES ASSUME L!HandleEvent PROVE FALSE
    OBVIOUS
  <2>2. PICK fd, e : fd = Head(batch).fd /\ e = Head(batch).e
    OBVIOUS
  <2>3. links_at' = [pc |-> "input", fd |-> fd, e |-> e, pkgs |-> 0]
        \/ links_at' = [pc |-> "output", fd |-> fd, e |-> e, pkgs |-> 0]
    BY <1>2, <2>1, <2>2, Zenon DEF L!HandleEvent
  <2>4. QED
    BY <2>3
<1>4. ~L!HandleOutput
  <2>1. SUFFICES ASSUME L!HandleOutput PROVE FALSE
    OBVIOUS
  <2>2. links_at' = [links_at EXCEPT !.pc = "dead"]
    BY <1>2, <2>1 DEF L!HandleOutput, L!Flush, L!FlushSome, L!LinkUp
  <2>3. QED
    BY <1>1, <2>2 DEF Ats
<1>5. CASE L!HandleInput
  <2>1. links_at.fd \in Fds /\ ~Empty(world, links_at.fd)
    BY <1>5 DEF L!HandleInput, KInv, LinksInv, AtOK
  <2>2. /\ world.slot[links_at.fd].connected /\ ~world.slot[links_at.fd].closed
        /\ world' = [world EXCEPT !.inq[links_at.fd] = 0]
        /\ links_at' = [links_at EXCEPT !.pc = "pkg", !.pkgs = world.inq[links_at.fd]]
    BY <1>2, <1>5 DEF L!HandleInput, L!NextPkg
  <2>3. world'.slot = world.slot /\ world'.seen = world.seen /\ links_at'.fd = links_at.fd
    BY <1>1, <2>2 DEF Worlds, Ats
  <2>4. world.seen[world.slot[links_at.fd].id] = "up"
    BY <1>1, <2>1, <2>2, KnownStates
  <2>5. QED
    BY <2>1, <2>3, <2>4 DEF Empty, PkgOfLinkUp
<1>6. CASE L!ProcPkgSer
  <2>1. links_at.fd \in Fds /\ links_at.pc = "pkg"
    BY <1>6 DEF L!ProcPkgSer, KInv, LinksInv, AtOK
  <2>2. /\ ~Empty(world, links_at.fd) /\ ~world.slot[links_at.fd].closed
        /\ world' = world /\ links_at' = [links_at EXCEPT !.pc = "pkg", !.pkgs = links_at.pkgs - 1]
    BY <1>2, <1>6 DEF L!ProcPkgSer, L!NextPkg, Empty
  <2>3. links_at'.fd = links_at.fd
    BY <1>1, <2>2 DEF Ats
  <2>4. world.seen[world.slot[links_at.fd].id] # "opened"
    BY <2>1, <2>2 DEF KInv, PkgOfLink
  <2>5. world.seen[world.slot[links_at.fd].id] = "up"
    BY <1>1, <2>1, <2>2, <2>4, KnownStates
  <2>6. QED
    BY <2>2, <2>3, <2>5 DEF Empty, PkgOfLinkUp
<1>7. QED
  BY <1>3, <1>5, <1>6, <1>4

\* In a callback the plugin may close the link whose package it has, and no other takes
\* its place.
LEMMA PluginDoesHeard ==
  ASSUME KInv, L!PluginDoes
  PROVE  Known(world') /\ Heard(world, world') /\ PkgOfLink(world', links_at')
<1>1. /\ KnownOK(world) /\ world' \in L!Plugin(world) /\ links_at' = links_at
      /\ links_at.pc = "pkg" => links_at.fd \in Fds
  BY DEF KInv, LinksInv, KnownOK, AtOK, L!PluginDoes
<1>2. KnownOK(world') /\ Heard(world, world') /\ Remain(world, world')
  BY <1>1, PluginHeard
<1>3. ASSUME links_at.pc = "pkg", ~Empty(world', links_at.fd)
      PROVE  world'.seen[world'.slot[links_at.fd].id] # "opened"
  <2>1. PICK id, v : id = world.slot[links_at.fd].id /\ v = world.seen[id]
    OBVIOUS
  <2>2. ~Empty(world, links_at.fd) /\ world'.slot[links_at.fd].id = id
    BY <1>1, <1>2, <1>3, <2>1 DEF Remain
  <2>3. v # "opened"
    BY <1>3, <2>1, <2>2 DEF KInv, PkgOfLink
  <2>4. id \in 1 .. Len(world.seen)
    BY <1>1, <1>3, <2>1, <2>2, KnownStates
  <2>5. <<v, world'.seen[id]>> \in Order
    BY <1>2, <2>1, <2>4 DEF Heard
  <2>6. QED
    BY <2>2, <2>3, <2>5 DEF Order
<1>4. QED
  BY <1>1, <1>2, <1>3 DEF KnownOK, PkgOfLink

LEMMA NextKnown ==
  ASSUME KInv, [L!Next]_(L!vars)
  PROVE  /\ KInv' /\ Heard(world, world')
         /\ links_at'.pc = "pkg" /\ links_at' # links_at => PkgOfLinkUp(world', links_at')
<1>1. LinksInv' /\ WorldOK(world') /\ KnownOK(world)
  BY LinksNext DEF KInv, LinksInv, KnownOK
<1>2. /\ Known(world') /\ Heard(world, world') /\ PkgOfLink(world', links_at')
      /\ links_at'.pc = "pkg" /\ links_at' # links_at => PkgOfLinkUp(world', links_at')
  <2>1. CASE \/ L!StartFails \/ L!EpollWait
             \/ \E fd \in Fds :
                  L!PeerAnswers(fd) \/ L!PeerSends(fd) \/ L!PeerReads(fd) \/ L!PeerEnds(fd)
    <3>1. /\ Known(world') /\ Heard(world, world')
          /\ links_at'.pc = "pkg" =>
               /\ world'.slot[links_at'.fd] = world.slot[links_at.fd]
               /\ world'.seen = world.seen /\ links_at' = links_at
      BY <1>1, <2>1, SilentSteps
    <3>2. QED
      BY <3>1 DEF KInv, PkgOfLink, Empty
  <2>2. CASE L!TimeEvent \/ L!CallReturns
    <3>1. links_at'.pc # "pkg"
      BY <2>2 DEF L!TimeEvent, L!CallReturns, L!Return, L!Quiet
    <3>2. Known(world') /\ Heard(world, world')
      <4>1. CASE L!TimeEvent
        BY <1>1, <4>1, TimeEventHeard
      <4>2. CASE L!CallReturns
        BY <1>1, <4>2, NothingHeard DEF KnownOK, L!CallReturns
      <4>3. QED
        BY <2>2, <4>1, <4>2
    <3>3. QED
      BY <3>1, <3>2 DEF PkgOfLink
  <2>3. CASE L!HandleEvent \/ L!HandleInput \/ L!ProcPkgSer \/ L!HandleOutput
    <3>1. Known(world') /\ Heard(world, world')
      BY <1>1, <2>3, HandlersHeard
    <3>2. links_at'.pc = "pkg" => PkgOfLinkUp(world', links_at')
      BY <2>3, PkgsOfLinkUp
    <3>3. QED
      BY <3>1, <3>2 DEF PkgOfLink, PkgOfLinkUp
  <2>4. CASE L!PluginDoes
    <3>1. links_at' = links_at
      BY <2>4 DEF L!PluginDoes
    <3>2. QED
      BY <2>4, <3>1, PluginDoesHeard
  <2>5. CASE UNCHANGED L!vars
    <3>1. world' = world /\ links_at' = links_at
      BY <2>5 DEF L!vars
    <3>2. Known(world') /\ Heard(world, world')
      BY <1>1, <3>1, NothingHeard DEF KnownOK
    <3>3. QED
      BY <3>1, <3>2 DEF KInv, PkgOfLink, Empty
  <2>6. QED
    BY <2>1, <2>2, <2>3, <2>4, <2>5 DEF L!Next, L!Loop
<1>3. QED
  BY <1>1, <1>2 DEF KInv

\* The callbacks of c_tcp_linker and c_tcp_async_linker: for any finite number of
\* descriptors, and any number of links, packages and faults, the plugin hears of a link in
\* order, of its end at most once, and of nothing more once it has closed it; no package of
\* a link is handed on that is not up.
THEOREM CallbacksInOrder ==
  ASSUME IsFiniteSet(Fds)
  PROVE  L!Spec => CallbacksOrdered
<1>1. L!Init => KInv
  BY LinksInit, InitKnown
<1>2. KInv /\ [L!Next]_(L!vars) => KInv'
  BY NextKnown
<1>3. KInv /\ [L!Next]_(L!vars) =>
        /\ \A i \in L!Ids : <<world.seen[i], world'.seen[i]>> \in
             {<<"opened", "up">>, <<"opened", "down">>, <<"opened", "shut">>,
              <<"up", "down">>, <<"up", "shut">>} \cup
             {<<x, x>> : x \in {"opened", "up", "down", "shut"}}
        /\ links_at'.pc = "pkg" /\ links_at' # links_at =>
             world'.slot[links_at'.fd] # L!NoLink /\ world'.seen[world'.slot[links_at'.fd].id] = "up"
  BY NextKnown DEF Heard, Order, L!Ids, PkgOfLinkUp
<1>4. QED
  BY <1>1, <1>2, <1>3, PTL DEF L!Spec, CallbacksOrdered, L!CallbacksOrdered

=============================================================================
