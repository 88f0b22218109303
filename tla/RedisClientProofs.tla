------------------------- MODULE RedisClientProofs -------------------------
(***************************************************************************)
(* A command that a Proxy worker gives to hiredis is executed by Redis at  *)
(* most once, however the pipelines are cut by writes, whatever fails, how *)
(* often the connection is replaced, and however late Redis executes what  *)
(* it has received on one that is closed.                                  *)
(*                                                                         *)
(* Commands are numbered as they are issued, and all those not yet written *)
(* or not yet executed are the last ones, in order: those behind the       *)
(* border b below are in the pipe to Redis or in the output buffer, cell   *)
(* by cell and once each, and nowhere else.                                *)
(*                                                                         *)
(* The reply handed out to a command is what Redis answered to it, however *)
(* reads cut the answers.  The reader of the connection is compared with   *)
(* one that has been given the whole answer: both are always in the same   *)
(* place (InPlace), and the second one comes to the value (Leads).  They   *)
(* stay so because a turn that does not need more bytes does the same      *)
(* whatever comes after those it takes (Does).                             *)
(***************************************************************************)
EXTENDS RedisClient, SequenceTheorems, WellFoundedInduction, TLAPS

-----------------------------------------------------------------------------
(* The cells of the commands, one after the other. *)

Cell(j) == <<(j + 1) \div 2, IF j % 2 = 1 THEN "first" ELSE "last">>

\* n cells behind the first m.
Cells(m, n) == [j \in 1 .. n |-> Cell(m + j)]

CellType == Nat \X {"first", "last"}

LEMMA CellsType ==
  ASSUME NEW m \in Nat, NEW n \in Nat
  PROVE  /\ Cells(m, n) \in Seq(CellType) /\ Len(Cells(m, n)) = n
         /\ \A j \in 1 .. n : Cells(m, n)[j] = Cell(m + j)
<1>1. \A j \in 1 .. n : Cell(m + j) \in CellType
  <2>1. TAKE j \in 1 .. n
  <2>2. (m + j + 1) \div 2 \in Nat
    OBVIOUS
  <2>3. QED
    BY <2>2 DEF Cell, CellType
<1>2. [j \in 1 .. n |-> Cell(m + j)] \in [1 .. n -> CellType]
  BY <1>1
<1>3. PICK s : s = [j \in 1 .. n |-> Cell(m + j)]
  OBVIOUS
<1>4. s \in Seq(CellType)
  BY <1>2, <1>3, IsASeq
<1>5. Len(s) = n
  BY <1>3, <1>4, LenProperties
<1>6. QED
  BY <1>3, <1>4, <1>5 DEF Cells

\* Cells that follow one another, end to end.
LEMMA CellsJoin ==
  ASSUME NEW m \in Nat, NEW n \in Nat, NEW k \in Nat
  PROVE  Cells(m, n) \o Cells(m + n, k) = Cells(m, n + k)
<1>1. PICK s, t, w : s = Cells(m, n) /\ t = Cells(m + n, k) /\ w = Cells(m, n + k)
  OBVIOUS
<1>2. /\ s \in Seq(CellType) /\ Len(s) = n /\ \A j \in 1 .. n : s[j] = Cell(m + j)
      /\ t \in Seq(CellType) /\ Len(t) = k /\ \A j \in 1 .. k : t[j] = Cell(m + n + j)
      /\ w \in Seq(CellType) /\ Len(w) = n + k /\ \A j \in 1 .. n + k : w[j] = Cell(m + j)
  <2>1. m + n \in Nat /\ n + k \in Nat
    OBVIOUS
  <2>2. QED
    BY <1>1, <2>1, CellsType
<1>3. /\ s \o t \in Seq(CellType) /\ Len(s \o t) = n + k
      /\ \A j \in 1 .. n + k : (s \o t)[j] = IF j <= n THEN s[j] ELSE t[j - n]
  BY <1>2, ConcatProperties
<1>4. ASSUME NEW j \in 1 .. n + k PROVE (s \o t)[j] = w[j]
  <2>1. CASE j <= n
    BY <1>2, <1>3, <2>1
  <2>2. CASE ~(j <= n)
    <3>1. j - n \in 1 .. k /\ m + n + (j - n) = m + j
      BY <2>2
    <3>2. (s \o t)[j] = Cell(m + n + (j - n))
      BY <1>2, <1>3, <2>2, <3>1
    <3>3. QED
      BY <1>2, <3>1, <3>2
  <2>3. QED
    BY <2>1, <2>2
<1>5. s \o t = w
  BY <1>2, <1>3, <1>4, SeqEqual
<1>6. QED
  BY <1>1, <1>5

\* Cells cut in two.
LEMMA CellsCut ==
  ASSUME NEW m \in Nat, NEW n \in Nat, NEW i \in 0 .. n
  PROVE  /\ SubSeq(Cells(m, n), 1, i) = Cells(m, i)
         /\ SubSeq(Cells(m, n), i + 1, n) = Cells(m + i, n - i)
<1>1. PICK s, t, w : s = Cells(m, n) /\ t = Cells(m, i) /\ w = Cells(m + i, n - i)
  OBVIOUS
<1>2. i \in Nat /\ n - i \in Nat /\ m + i \in Nat
  OBVIOUS
<1>3. /\ s \in Seq(CellType) /\ Len(s) = n /\ \A j \in 1 .. n : s[j] = Cell(m + j)
      /\ t \in Seq(CellType) /\ Len(t) = i /\ \A j \in 1 .. i : t[j] = Cell(m + j)
      /\ w \in Seq(CellType) /\ Len(w) = n - i
      /\ \A j \in 1 .. n - i : w[j] = Cell(m + i + j)
  BY <1>1, <1>2, CellsType
<1>4. SubSeq(s, 1, i) = t
  <2>1. \A j \in 1 .. i : s[j] \in CellType
    BY <1>3, ElementOfSeq
  <2>2. /\ SubSeq(s, 1, i) \in Seq(CellType)
        /\ Len(SubSeq(s, 1, i)) = IF 1 <= i THEN i - 1 + 1 ELSE 0
        /\ \A j \in 1 .. i - 1 + 1 : SubSeq(s, 1, i)[j] = s[1 + j - 1]
    BY <1>2, <2>1, SubSeqProperties
  <2>3. i - 1 + 1 = i /\ (IF 1 <= i THEN i - 1 + 1 ELSE 0) = i
        /\ \A j \in 1 .. i : 1 + j - 1 = j /\ j \in 1 .. n
    BY <1>2
  <2>4. \A j \in 1 .. i : SubSeq(s, 1, i)[j] = t[j]
    BY <1>3, <2>2, <2>3
  <2>5. QED
    BY <1>3, <2>2, <2>3, <2>4, SeqEqual
<1>5. SubSeq(s, i + 1, n) = w
  <2>1. \A j \in i + 1 .. n : s[j] \in CellType
    BY <1>2, <1>3, ElementOfSeq
  <2>2. /\ SubSeq(s, i + 1, n) \in Seq(CellType)
        /\ Len(SubSeq(s, i + 1, n)) = IF i + 1 <= n THEN n - (i + 1) + 1 ELSE 0
        /\ \A j \in 1 .. n - (i + 1) + 1 : SubSeq(s, i + 1, n)[j] = s[i + 1 + j - 1]
    BY <1>2, <2>1, SubSeqProperties
  <2>3. n - (i + 1) + 1 = n - i /\ (IF i + 1 <= n THEN n - (i + 1) + 1 ELSE 0) = n - i
        /\ \A j \in 1 .. n - i : i + 1 + j - 1 \in 1 .. n /\ m + (i + 1 + j - 1) = m + i + j
    BY <1>2
  <2>4. \A j \in 1 .. n - i : SubSeq(s, i + 1, n)[j] = w[j]
    <3>1. TAKE j \in 1 .. n - i
    <3>2. SubSeq(s, i + 1, n)[j] = s[i + 1 + j - 1]
      BY <2>2, <2>3
    <3>3. s[i + 1 + j - 1] = Cell(m + (i + 1 + j - 1))
      BY <1>3, <2>3
    <3>4. QED
      BY <1>3, <2>3, <3>2, <3>3
  <2>5. QED
    BY <1>3, <2>2, <2>3, <2>4, SeqEqual
<1>6. QED
  BY <1>1, <1>4, <1>5

\* The two cells of a command.
LEMMA CellsOfCommand ==
  ASSUME NEW k \in Nat
  PROVE  Bytes(k + 1) = Cells(2 * k, 2) /\ Cell(2 * k + 1) = <<k + 1, "first">>
<1>1. /\ (2 * k + 1 + 1) \div 2 = k + 1 /\ (2 * k + 1) % 2 = 1
      /\ (2 * k + 2 + 1) \div 2 = k + 1 /\ (2 * k + 2) % 2 = 0
  OBVIOUS
<1>2. Cell(2 * k + 1) = <<k + 1, "first">> /\ Cell(2 * k + 2) = <<k + 1, "last">>
  BY <1>1 DEF Cell
<1>3. PICK s, t : s = Bytes(k + 1) /\ t = Cells(2 * k, 2)
  OBVIOUS
<1>4. t \in Seq(CellType) /\ Len(t) = 2 /\ \A j \in 1 .. 2 : t[j] = Cell(2 * k + j)
  <2>1. 2 * k \in Nat /\ 2 \in Nat
    OBVIOUS
  <2>2. QED
    BY <1>3, <2>1, CellsType
<1>5. s = <<<<k + 1, "first">>, <<k + 1, "last">>>>
  BY <1>3 DEF Bytes
<1>6. s \in Seq(CellType) /\ Len(s) = 2 /\ s[1] = <<k + 1, "first">> /\ s[2] = <<k + 1, "last">>
  BY <1>5 DEF CellType
<1>7. \A j \in 1 .. 2 : s[j] = t[j]
  <2>1. \A j \in 1 .. 2 : j = 1 \/ j = 2
    OBVIOUS
  <2>2. QED
    BY <1>2, <1>4, <1>6, <2>1
<1>8. s = t
  BY <1>4, <1>6, <1>7, SeqEqual
<1>9. QED
  BY <1>2, <1>3, <1>8

\* The cells of a command more.
LEMMA CellsMore ==
  ASSUME NEW a \in Nat, NEW i \in Nat
  PROVE  Cells(2 * a, 2 * i) \o Cells(2 * (a + i), 2) = Cells(2 * a, 2 * (i + 1))
<1>1. PICK m \in Nat, n \in Nat : m = 2 * a /\ n = 2 * i
  OBVIOUS
<1>2. 2 * (a + i) = m + n /\ 2 * (i + 1) = n + 2 /\ 2 \in Nat
  BY <1>1
<1>3. Cells(m, n) \o Cells(m + n, 2) = Cells(m, n + 2)
  BY <1>2, CellsJoin
<1>4. QED
  BY <1>1, <1>2, <1>3

\* A set of natural numbers has a least one: what an induction rests on.
LEMMA LeastOne ==
  ASSUME NEW T \in SUBSET Nat, T # {}
  PROVE  \E m \in T : \A n \in T : m <= n
<1> DEFINE R == OpToRel(<, Nat)
<1>1. IsWellFoundedOn(R, Nat)
  BY NatLessThanWellFounded
<1>2. \A m, n \in Nat : m < n => <<m, n>> \in R
  BY DEF OpToRel
<1> HIDE DEF R
<1>3. PICK m \in T : \A n \in T : <<n, m>> \notin R
  BY <1>1, WFMin
<1>4. \A n \in T : ~(n < m)
  BY <1>2, <1>3
<1>5. QED
  BY <1>4

\* redisAppendCommand, n times: what FlattenSeq makes of n commands are the next 2 * n
\* cells.
LEMMA CommandCells ==
  ASSUME NEW a \in Nat, NEW n \in Nat \ {0}
  PROVE  FlattenSeq([k \in 1 .. n |-> Bytes(a + k)]) = Cells(2 * a, 2 * n)
<1>1. PICK l : l = [k \in 1 .. n |-> Bytes(a + k)]
  OBVIOUS
<1>2. \A k \in 1 .. n : l[k] = Cells(2 * (a + k - 1), 2)
  <2>1. TAKE k \in 1 .. n
  <2>2. PICK h \in Nat : h = a + k - 1
    OBVIOUS
  <2>3. Bytes(h + 1) = Cells(2 * h, 2)
    BY CellsOfCommand
  <2>4. h + 1 = a + k
    BY <2>2
  <2>5. QED
    BY <1>1, <2>2, <2>3, <2>4
<1>3. Len(l) = n
  <2>1. \A k \in 1 .. n : l[k] \in Seq(CellType)
    <3>1. TAKE k \in 1 .. n
    <3>2. 2 * (a + k - 1) \in Nat
      OBVIOUS
    <3>3. QED
      BY <1>2, <3>2, CellsType
  <2>2. l \in [1 .. n -> Seq(CellType)]
    BY <1>1, <2>1
  <2>3. l \in Seq(Seq(CellType))
    BY <2>2, IsASeq
  <2>4. QED
    BY <1>1, <2>3, LenProperties
<1> DEFINE Joined(g) == g = [i \in 1 .. n |-> IF i = 1 THEN l[i] ELSE g[i - 1] \o l[i]]
<1>4. \E g : Joined(g)
  <2> DEFINE f == [i \in 1 .. n |-> Cells(2 * a, 2 * i)]
  <2>1. ASSUME NEW i \in 1 .. n
        PROVE  f[i] = IF i = 1 THEN l[i] ELSE f[i - 1] \o l[i]
    <3>1. CASE i = 1
      <4>1. 2 * (a + i - 1) = 2 * a /\ 2 * i = 2
        BY <3>1
      <4>2. QED
        BY <1>2, <3>1, <4>1
    <3>2. CASE i # 1
      <4>1. i - 1 \in 1 .. n /\ i - 1 \in Nat
        BY <3>2
      <4>2. Cells(2 * a, 2 * (i - 1)) \o Cells(2 * (a + (i - 1)), 2)
              = Cells(2 * a, 2 * (i - 1 + 1))
        BY <4>1, CellsMore
      <4>3. a + (i - 1) = a + i - 1 /\ i - 1 + 1 = i
        OBVIOUS
      <4>4. f[i - 1] = Cells(2 * a, 2 * (i - 1)) /\ f[i] = Cells(2 * a, 2 * i)
        BY <4>1
      <4>5. l[i] = Cells(2 * (a + (i - 1)), 2)
        BY <1>2, <4>3
      <4> HIDE DEF f
      <4>6. QED
        BY <3>2, <4>2, <4>3, <4>4, <4>5
    <3>3. QED
      BY <3>1, <3>2
  <2>2. f = [i \in 1 .. n |-> f[i]]
    OBVIOUS
  <2> HIDE DEF f
  <2>3. Joined(f)
    BY <2>1, <2>2
  <2>4. QED
    BY <2>3
<1>5. PICK g : g = CHOOSE h : Joined(h)
  OBVIOUS
<1>6. Joined(g)
  BY <1>4, <1>5
<1>7. \A i \in 1 .. n : g[i] = IF i = 1 THEN l[i] ELSE g[i - 1] \o l[i]
  BY <1>6
<1>8. FlattenSeq(l) = g[n]
  BY <1>3, <1>5 DEF FlattenSeq
<1> HIDE DEF Joined
<1>9. g[n] = Cells(2 * a, 2 * n)
  <2> DEFINE Bad == {i \in 1 .. n : g[i] # Cells(2 * a, 2 * i)}
  <2>1. SUFFICES ASSUME Bad # {} PROVE FALSE
    OBVIOUS
  <2>2. PICK i \in Bad : \A k \in Bad : i <= k
    <3>1. Bad \in SUBSET Nat
      OBVIOUS
    <3> HIDE DEF Bad
    <3>2. QED
      BY <2>1, <3>1, LeastOne
  <2>3. i \in 1 .. n /\ g[i] # Cells(2 * a, 2 * i)
    OBVIOUS
  <2>4. CASE i = 1
    <3>1. 2 * (a + i - 1) = 2 * a /\ 2 * i = 2
      BY <2>4
    <3>2. QED
      BY <1>2, <1>7, <2>3, <2>4, <3>1
  <2>5. CASE i # 1
    <3>1. i - 1 \in 1 .. n /\ ~(i <= i - 1) /\ i - 1 \in Nat
      BY <2>3, <2>5
    <3>2. g[i - 1] = Cells(2 * a, 2 * (i - 1))
      BY <2>2, <3>1
    <3>3. Cells(2 * a, 2 * (i - 1)) \o Cells(2 * (a + (i - 1)), 2)
            = Cells(2 * a, 2 * (i - 1 + 1))
      BY <3>1, CellsMore
    <3>4. a + (i - 1) = a + i - 1 /\ i - 1 + 1 = i
      BY <2>3
    <3>5. l[i] = Cells(2 * (a + (i - 1)), 2)
      BY <1>2, <2>3, <3>4
    <3>6. g[i] = g[i - 1] \o l[i]
      BY <1>7, <2>3, <2>5
    <3>7. QED
      BY <2>3, <3>2, <3>3, <3>4, <3>5, <3>6
  <2>6. QED
    BY <2>4, <2>5
<1>10. QED
  BY <1>1, <1>8, <1>9

-----------------------------------------------------------------------------
(* Which commands can still be executed, and how often they have been. *)

\* The pipe to Redis and the output buffer hold the cells of the first n commands
\* behind the first b cells.
StreamOk(obuf, up, n, b) ==
  /\ up = Cells(b, Len(up))
  /\ obuf = Cells(b + Len(up), Len(obuf))
  /\ Len(up) \in Nat /\ Len(obuf) \in Nat
  /\ b + Len(up) + Len(obuf) = 2 * n

\* Each of the first n commands is executed at most once, and those with a cell behind
\* the first b are not.
OnceOk(ex, n, b) ==
  /\ ex \in Seq(Nat) /\ Len(ex) = n
  /\ \A k \in 1 .. n : ex[k] <= 1 /\ (2 * k > b => ex[k] = 0)

\* A command that Redis may still execute for a connection that is closed is not executed,
\* is within the first b cells, and is there once.
LateOk(L, ex, n, b) ==
  /\ \A q \in L :
       /\ q \in Seq(Nat) /\ q # <<>>
       /\ \A i \in 1 .. Len(q) : q[i] \in 1 .. n /\ 2 * q[i] <= b /\ ex[q[i]] = 0
       /\ \A i, j \in 1 .. Len(q) : i < j => q[i] < q[j]
  /\ \A p, q \in L : p # q => \A i \in 1 .. Len(p), j \in 1 .. Len(q) : p[i] # q[j]

\* k commands of which none is executed.
NoneExecuted(z, k) == z \in Seq(Nat) /\ Len(z) = k /\ \A i \in 1 .. k : z[i] = 0

LEMMA ZerosType ==
  ASSUME NEW k \in Nat, NEW z, z = [i \in 1 .. k |-> 0]
  PROVE  NoneExecuted(z, k)
<1>1. z \in [1 .. k -> Nat]
  OBVIOUS
<1>2. z \in Seq(Nat)
  BY <1>1, IsASeq
<1>3. QED
  BY <1>2, LenProperties DEF NoneExecuted

\* Commands issued are not executed yet.
LEMMA OnceMore ==
  ASSUME NEW n \in Nat, NEW b \in Nat, NEW ex, OnceOk(ex, n, b), NEW k \in Nat,
         NEW z, NoneExecuted(z, k), NEW y, y = ex \o z
  PROVE  OnceOk(y, n + k, b)
<1>1. z \in Seq(Nat) /\ Len(z) = k /\ \A i \in 1 .. k : z[i] = 0
  BY DEF NoneExecuted
<1>2. ex \in Seq(Nat) /\ Len(ex) = n /\ \A i \in 1 .. n : ex[i] <= 1 /\ (2 * i > b => ex[i] = 0)
  BY DEF OnceOk
<1>3. /\ y \in Seq(Nat) /\ Len(y) = n + k
      /\ \A i \in 1 .. n + k : y[i] = IF i <= n THEN ex[i] ELSE z[i - n]
  <2>1. /\ ex \o z \in Seq(Nat) /\ Len(ex \o z) = n + k
        /\ \A i \in 1 .. n + k : (ex \o z)[i] = IF i <= n THEN ex[i] ELSE z[i - n]
    <3>1. ex \in Seq(Nat) /\ z \in Seq(Nat) /\ Len(ex) = n /\ Len(z) = k
      BY <1>1, <1>2
    <3>2. /\ ex \o z \in Seq(Nat) /\ Len(ex \o z) = Len(ex) + Len(z)
          /\ \A i \in 1 .. Len(ex) + Len(z) :
               (ex \o z)[i] = IF i <= Len(ex) THEN ex[i] ELSE z[i - Len(ex)]
      BY <3>1, ConcatProperties
    <3>3. QED
      BY <3>1, <3>2
  <2>2. QED
    BY <2>1
<1>4. ASSUME NEW i \in 1 .. n + k
      PROVE  y[i] <= 1 /\ (2 * i > b => y[i] = 0)
  <2>1. CASE i <= n
    BY <1>2, <1>3, <2>1
  <2>2. CASE ~(i <= n)
    <3>1. i - n \in 1 .. k
      BY <2>2
    <3>2. y[i] = 0
      BY <1>1, <1>3, <2>2, <3>1
    <3>3. QED
      BY <3>2
  <2>3. QED
    BY <2>1, <2>2
<1>5. QED
  BY <1>3, <1>4 DEF OnceOk

\* Redis executes the next command.
LEMMA OnceExecuted ==
  ASSUME NEW n \in Nat, NEW m \in Nat, m < n, NEW ex, OnceOk(ex, n, 2 * m)
  PROVE  OnceOk([ex EXCEPT ![m + 1] = @ + 1], n, 2 * (m + 1))
<1>1. /\ ex \in Seq(Nat) /\ Len(ex) = n
      /\ \A i \in 1 .. n : ex[i] <= 1 /\ (2 * i > 2 * m => ex[i] = 0)
  BY DEF OnceOk
<1>2. m + 1 \in 1 .. n /\ 2 * (m + 1) > 2 * m
  OBVIOUS
<1>3. ex[m + 1] = 0
  BY <1>1, <1>2
<1>4. PICK e : e = [ex EXCEPT ![m + 1] = @ + 1]
  OBVIOUS
<1>5. e \in Seq(Nat) /\ Len(e) = n /\ e[m + 1] = 1 /\ \A i \in 1 .. n : i # m + 1 => e[i] = ex[i]
  <2>1. [ex EXCEPT ![m + 1] = 1] \in Seq(Nat) /\ Len([ex EXCEPT ![m + 1] = 1]) = n
        /\ [ex EXCEPT ![m + 1] = 1][m + 1] = 1
        /\ \A i \in 1 .. n : i # m + 1 => [ex EXCEPT ![m + 1] = 1][i] = ex[i]
    BY <1>1, <1>2, ExceptSeq
  <2>2. e = [ex EXCEPT ![m + 1] = 1]
    BY <1>3, <1>4
  <2>3. QED
    BY <2>1, <2>2
<1>6. ASSUME NEW i \in 1 .. n PROVE e[i] <= 1 /\ (2 * i > 2 * (m + 1) => e[i] = 0)
  <2>1. CASE i = m + 1
    BY <1>5, <2>1
  <2>2. CASE i # m + 1
    BY <1>1, <1>5, <2>2
  <2>3. QED
    BY <2>1, <2>2
<1>7. QED
  BY <1>4, <1>5, <1>6 DEF OnceOk

\* What is late stays so when more is issued, written or executed, none of it late.
LEMMA LateKept ==
  ASSUME NEW L, NEW M, M \subseteq L, NEW ex, NEW ey, NEW n \in Nat, NEW k \in Nat, n <= k,
         NEW b \in Nat, NEW d \in Nat, b <= d, LateOk(L, ex, n, b),
         \A i \in 1 .. n : 2 * i <= b => ey[i] = ex[i]
  PROVE  LateOk(M, ey, k, d)
<1>1. ASSUME NEW q \in M
      PROVE  /\ q \in Seq(Nat) /\ q # <<>>
             /\ \A i \in 1 .. Len(q) : q[i] \in 1 .. k /\ 2 * q[i] <= d /\ ey[q[i]] = 0
             /\ \A i, j \in 1 .. Len(q) : i < j => q[i] < q[j]
  <2>1. /\ q \in Seq(Nat) /\ q # <<>>
        /\ \A i \in 1 .. Len(q) : q[i] \in 1 .. n /\ 2 * q[i] <= b /\ ex[q[i]] = 0
        /\ \A i, j \in 1 .. Len(q) : i < j => q[i] < q[j]
    BY DEF LateOk
  <2>2. \A i \in 1 .. Len(q) : q[i] \in 1 .. k /\ 2 * q[i] <= d /\ ey[q[i]] = 0
    <3>1. TAKE i \in 1 .. Len(q)
    <3>2. PICK x : x = q[i]
      OBVIOUS
    <3>3. x \in 1 .. n /\ 2 * x <= b /\ ex[x] = 0
      BY <2>1, <3>2
    <3>4. x \in 1 .. k /\ 2 * x <= d
      BY <3>3
    <3>5. ey[x] = 0
      BY <3>3
    <3>6. QED
      BY <3>2, <3>4, <3>5
  <2>3. QED
    BY <2>1, <2>2
<1>2. \A p, q \in M : p # q => \A i \in 1 .. Len(p), j \in 1 .. Len(q) : p[i] # q[j]
  BY DEF LateOk
<1>3. QED
  BY <1>1, <1>2 DEF LateOk

\* What Redis has received on a connection that is closed may be executed late.
LEMMA LateReceived ==
  ASSUME NEW L, NEW ex, NEW n \in Nat, NEW m \in Nat, NEW u \in Nat, u >= 2, 2 * m + u <= 2 * n,
         OnceOk(ex, n, 2 * m), LateOk(L, ex, n, 2 * m)
  PROVE  LateOk(L \cup {Received(Cells(2 * m, u))}, ex, n, 2 * n)
<1>1. PICK r, h : r = Received(Cells(2 * m, u)) /\ h = u \div 2
  OBVIOUS
<1>2. h \in Nat \ {0} /\ 2 * h <= u
  BY <1>1
<1>3. 2 * m \in Nat /\ Len(Cells(2 * m, u)) = u
      /\ \A j \in 1 .. u : Cells(2 * m, u)[j] = Cell(2 * m + j)
  <2>1. 2 * m \in Nat
    OBVIOUS
  <2>2. QED
    BY <2>1, CellsType
<1>4. \A k \in 1 .. h : Cells(2 * m, u)[2 * k][1] = m + k
  <2>1. TAKE k \in 1 .. h
  <2>2. 2 * k \in 1 .. u /\ (2 * m + 2 * k + 1) \div 2 = m + k
    BY <1>2
  <2>3. Cells(2 * m, u)[2 * k] = Cell(2 * m + 2 * k)
    BY <1>3, <2>2
  <2>4. QED
    BY <2>2, <2>3 DEF Cell
<1>5. r = [k \in 1 .. h |-> m + k]
  BY <1>1, <1>3, <1>4 DEF Received
<1>6. r \in Seq(Nat) /\ Len(r) = h /\ \A k \in 1 .. h : r[k] = m + k
  <2>1. r \in [1 .. h -> Nat]
    BY <1>5
  <2>2. r \in Seq(Nat)
    BY <1>2, <2>1, IsASeq
  <2>3. QED
    BY <1>2, <1>5, <2>2, LenProperties
<1>7. r # <<>>
  BY <1>2, <1>6, EmptySeq
<1>8. \A i \in 1 .. Len(r) : r[i] \in 1 .. n /\ 2 * r[i] <= 2 * n /\ ex[r[i]] = 0 /\ r[i] > m
  <2>1. TAKE i \in 1 .. Len(r)
  <2>2. i \in 1 .. h /\ r[i] = m + i
    BY <1>6
  <2>3. r[i] \in 1 .. n /\ 2 * r[i] <= 2 * n /\ 2 * r[i] > 2 * m /\ r[i] > m
    BY <1>2, <2>2
  <2>4. QED
    BY <2>3 DEF OnceOk
<1>9. \A i, j \in 1 .. Len(r) : i < j => r[i] < r[j]
  BY <1>6
<1>10. LateOk(L, ex, n, 2 * n)
  <2>1. L \subseteq L /\ n <= n /\ 2 * m \in Nat /\ 2 * n \in Nat /\ 2 * m <= 2 * n
    OBVIOUS
  <2>2. \A i \in 1 .. n : 2 * i <= 2 * m => ex[i] = ex[i]
    OBVIOUS
  <2>3. QED
    BY <2>1, <2>2, LateKept
<1>11. \A q \in L : \A i \in 1 .. Len(q), j \in 1 .. Len(r) : q[i] # r[j]
  <2>1. TAKE q \in L
  <2>2. TAKE i \in 1 .. Len(q), j \in 1 .. Len(r)
  <2>3. q[i] \in Nat /\ 2 * q[i] <= 2 * m
    BY DEF LateOk
  <2>4. r[j] \in Nat /\ r[j] > m
    BY <1>8
  <2>5. QED
    BY <2>3, <2>4
<1>12. \A p, q \in L \cup {r} : p # q => \A i \in 1 .. Len(p), j \in 1 .. Len(q) : p[i] # q[j]
  <2>1. \A p, q \in L : p # q => \A i \in 1 .. Len(p), j \in 1 .. Len(q) : p[i] # q[j]
    BY DEF LateOk
  <2>2. QED
    BY <1>11, <2>1
<1>13. \A q \in L \cup {r} :
         /\ q \in Seq(Nat) /\ q # <<>>
         /\ \A i \in 1 .. Len(q) : q[i] \in 1 .. n /\ 2 * q[i] <= 2 * n /\ ex[q[i]] = 0
         /\ \A i, j \in 1 .. Len(q) : i < j => q[i] < q[j]
  <2>1. TAKE q \in L \cup {r}
  <2>2. CASE q \in L
    BY <1>10, <2>2 DEF LateOk
  <2>3. CASE q = r
    BY <1>6, <1>7, <1>8, <1>9, <2>3
  <2>4. QED
    BY <2>2, <2>3
<1>14. QED
  BY <1>1, <1>12, <1>13 DEF LateOk

\* Redis executes late the first command it has received on a connection that is closed.
LEMMA LateExecuted ==
  ASSUME NEW L, NEW ex, NEW n \in Nat, NEW b \in Nat, NEW q \in L,
         OnceOk(ex, n, b), LateOk(L, ex, n, b)
  PROVE  /\ OnceOk([ex EXCEPT ![Head(q)] = @ + 1], n, b)
         /\ LateOk(IF Len(q) > 1 THEN (L \ {q}) \cup {Tail(q)} ELSE L \ {q},
                   [ex EXCEPT ![Head(q)] = @ + 1], n, b)
<1>1. /\ q \in Seq(Nat) /\ q # <<>>
      /\ \A i \in 1 .. Len(q) : q[i] \in 1 .. n /\ 2 * q[i] <= b /\ ex[q[i]] = 0
      /\ \A i, j \in 1 .. Len(q) : i < j => q[i] < q[j]
  BY DEF LateOk
<1>2. Len(q) \in Nat \ {0} /\ 1 \in 1 .. Len(q)
  BY <1>1, EmptySeq, LenProperties
<1>3. PICK h, e : h = Head(q) /\ e = [ex EXCEPT ![Head(q)] = @ + 1]
  OBVIOUS
<1>4. h = q[1] /\ h \in 1 .. n /\ 2 * h <= b /\ ex[h] = 0
  BY <1>1, <1>2, <1>3
<1>5. ex \in Seq(Nat) /\ Len(ex) = n /\ \A i \in 1 .. n : ex[i] <= 1 /\ (2 * i > b => ex[i] = 0)
  BY DEF OnceOk
<1>6. e \in Seq(Nat) /\ Len(e) = n /\ e[h] = 1 /\ \A i \in 1 .. n : i # h => e[i] = ex[i]
  <2>1. [ex EXCEPT ![h] = 1] \in Seq(Nat) /\ Len([ex EXCEPT ![h] = 1]) = n
        /\ [ex EXCEPT ![h] = 1][h] = 1
        /\ \A i \in 1 .. n : i # h => [ex EXCEPT ![h] = 1][i] = ex[i]
    BY <1>4, <1>5, ExceptSeq
  <2>2. e = [ex EXCEPT ![h] = ex[h] + 1]
    BY <1>3, Zenon
  <2>3. ex[h] + 1 = 1
    BY <1>4
  <2>4. e = [ex EXCEPT ![h] = 1]
    BY <2>2, <2>3
  <2>5. QED
    BY <2>1, <2>4
<1>7. OnceOk(e, n, b)
  <2>1. ASSUME NEW i \in 1 .. n PROVE e[i] <= 1 /\ (2 * i > b => e[i] = 0)
    <3>1. CASE i = h
      BY <1>4, <1>6, <3>1
    <3>2. CASE i # h
      BY <1>5, <1>6, <3>2
    <3>3. QED
      BY <3>1, <3>2
  <2>2. QED
    BY <1>6, <2>1 DEF OnceOk
<1>8. LateOk(L \ {q}, e, n, b)
  <2>1. ASSUME NEW p \in L \ {q}
        PROVE  /\ p \in Seq(Nat) /\ p # <<>>
               /\ \A i \in 1 .. Len(p) : p[i] \in 1 .. n /\ 2 * p[i] <= b /\ e[p[i]] = 0
               /\ \A i, j \in 1 .. Len(p) : i < j => p[i] < p[j]
    <3>1. /\ p \in Seq(Nat) /\ p # <<>>
          /\ \A i \in 1 .. Len(p) : p[i] \in 1 .. n /\ 2 * p[i] <= b /\ ex[p[i]] = 0
          /\ \A i, j \in 1 .. Len(p) : i < j => p[i] < p[j]
      BY DEF LateOk
    <3>2. \A i \in 1 .. Len(p), j \in 1 .. Len(q) : p[i] # q[j]
      BY DEF LateOk
    <3>3. \A i \in 1 .. Len(p) : p[i] # h
      BY <1>2, <1>4, <3>2
    <3>4. QED
      BY <1>6, <3>1, <3>3
  <2>2. \A p, r \in L \ {q} : p # r => \A i \in 1 .. Len(p), j \in 1 .. Len(r) : p[i] # r[j]
    BY DEF LateOk
  <2>3. QED
    BY <2>1, <2>2 DEF LateOk
<1>9. CASE Len(q) > 1
  <2>1. PICK t : t = Tail(q)
    OBVIOUS
  <2>2. t \in Seq(Nat) /\ Len(t) = Len(q) - 1 /\ \A i \in 1 .. Len(t) : t[i] = q[i + 1]
    BY <1>1, <2>1, HeadTailProperties
  <2>3. t # <<>>
    BY <1>2, <1>9, <2>2, EmptySeq
  <2>4. \A i \in 1 .. Len(t) : i + 1 \in 1 .. Len(q) /\ 1 < i + 1
    BY <1>2, <2>2
  <2>5. \A i \in 1 .. Len(t) : t[i] \in 1 .. n /\ 2 * t[i] <= b /\ ex[t[i]] = 0 /\ h < t[i]
    BY <1>1, <1>2, <1>4, <2>2, <2>4
  <2>6. \A i \in 1 .. Len(t) : t[i] \in 1 .. n /\ 2 * t[i] <= b /\ e[t[i]] = 0
    <3>1. TAKE i \in 1 .. Len(t)
    <3>2. t[i] \in 1 .. n /\ 2 * t[i] <= b /\ ex[t[i]] = 0 /\ t[i] # h
      BY <1>4, <2>5
    <3>3. QED
      BY <1>6, <3>2
  <2>7. \A i, j \in 1 .. Len(t) : i < j => t[i] < t[j]
    <3>1. TAKE i, j \in 1 .. Len(t)
    <3>2. HAVE i < j
    <3>3. i + 1 < j + 1 /\ i + 1 \in 1 .. Len(q) /\ j + 1 \in 1 .. Len(q)
      BY <1>2, <2>2, <2>4, <3>2
    <3>4. QED
      BY <1>1, <2>2, <3>3
  <2>8. \A p \in L \ {q} : \A i \in 1 .. Len(p), j \in 1 .. Len(t) : p[i] # t[j]
    <3>1. \A p \in L \ {q} : \A i \in 1 .. Len(p), j \in 1 .. Len(q) : p[i] # q[j]
      BY DEF LateOk
    <3>2. QED
      BY <2>2, <2>4, <3>1
  <2>9. \A p, r \in (L \ {q}) \cup {t} :
          p # r => \A i \in 1 .. Len(p), j \in 1 .. Len(r) : p[i] # r[j]
    <3>1. \A p, r \in L \ {q} : p # r => \A i \in 1 .. Len(p), j \in 1 .. Len(r) : p[i] # r[j]
      BY <1>8 DEF LateOk
    <3>2. QED
      BY <2>8, <3>1
  <2>10. \A p \in (L \ {q}) \cup {t} :
           /\ p \in Seq(Nat) /\ p # <<>>
           /\ \A i \in 1 .. Len(p) : p[i] \in 1 .. n /\ 2 * p[i] <= b /\ e[p[i]] = 0
           /\ \A i, j \in 1 .. Len(p) : i < j => p[i] < p[j]
    <3>1. TAKE p \in (L \ {q}) \cup {t}
    <3>2. CASE p \in L \ {q}
      BY <1>8, <3>2 DEF LateOk
    <3>3. CASE p = t
      BY <2>2, <2>3, <2>6, <2>7, <3>3
    <3>4. QED
      BY <3>2, <3>3
  <2>11. LateOk((L \ {q}) \cup {t}, e, n, b)
    BY <2>9, <2>10 DEF LateOk
  <2>12. QED
    BY <1>3, <1>7, <1>9, <2>1, <2>11
<1>10. CASE ~(Len(q) > 1)
  BY <1>3, <1>7, <1>8, <1>10
<1>11. QED
  BY <1>9, <1>10

\* More cells are behind the border when it has been moved on.
LEMMA OnceKept ==
  ASSUME NEW n \in Nat, NEW b \in Nat, NEW d \in Nat, b <= d, NEW ex, OnceOk(ex, n, b)
  PROVE  OnceOk(ex, n, d)
BY DEF OnceOk

-----------------------------------------------------------------------------
(* The invariant. *)

ContextShape(x) == x = [fd |-> x.fd, err |-> x.err, obuf |-> x.obuf, reader |-> x.reader]
NetShape(x) == x = [up |-> x.up, down |-> x.down, open |-> x.open]

\* b cells have been executed, lost or left behind with a connection.  Where a connection
\* is open they are those of whole commands.
Border(b) ==
  /\ StreamOk(c.obuf, net.up, asked, b)
  /\ OnceOk(executed, asked, b)
  /\ LateOk(late, executed, asked, b)
  /\ net.open => \E m \in 0 .. asked : b = 2 * m

ExecInv ==
  /\ ContextShape(c) /\ NetShape(net)
  /\ asked \in Nat /\ todo \in Seq(Nat \ {0}) /\ net.open \in BOOLEAN
  /\ call \in {"connect", "poll"} => c.obuf = <<>>
  /\ \E b \in 0 .. 2 * asked : Border(b)

LEMMA ExecOnce == ExecInv => ExecutedOnce
BY DEF ExecInv, Border, OnceOk, ExecutedOnce, Commands

LEMMA CellsNone == \A m \in Nat : Cells(m, 0) = <<>>
<1>1. TAKE m \in Nat
<1>2. Cells(m, 0) \in Seq(CellType) /\ Len(Cells(m, 0)) = 0
  BY CellsType
<1>3. QED
  BY <1>2, EmptySeq

LEMMA ExecInit == Init => ExecInv
<1> SUFFICES ASSUME Init PROVE ExecInv
  OBVIOUS
<1>1. /\ c = [redisContextInit EXCEPT !.fd = TRUE] /\ net = [Closed EXCEPT !.open = TRUE]
      /\ late = {} /\ call = "idle" /\ todo = <<>> /\ asked = 0 /\ executed = <<>>
  BY DEF Init
<1>2. /\ ContextShape(c) /\ c.obuf = <<>>
  BY <1>1 DEF ContextShape, redisContextInit
<1>3. NetShape(net) /\ net.up = <<>> /\ net.open = TRUE
  BY <1>1 DEF NetShape, Closed
<1>4. <<>> \in Seq(Nat \ {0}) /\ <<>> \in Seq(Nat) /\ Len(<<>>) = 0
  BY EmptySeq
<1>5. Border(0)
  <2>1. Cells(0, 0) = <<>>
    BY CellsNone
  <2>2. StreamOk(c.obuf, net.up, asked, 0)
    <3>1. net.up = <<>> /\ c.obuf = <<>> /\ asked = 0
      BY <1>1, <1>2, <1>3
    <3>2. /\ net.up = <<>> /\ c.obuf = <<>> /\ Len(net.up) = 0 /\ Len(c.obuf) = 0
          /\ 0 + Len(net.up) = 0 /\ 0 + Len(net.up) + Len(c.obuf) = 2 * asked
      BY <1>4, <3>1
    <3>3. net.up = Cells(0, Len(net.up)) /\ c.obuf = Cells(0 + Len(net.up), Len(c.obuf))
      BY <2>1, <3>2
    <3>4. QED
      BY <3>2, <3>3 DEF StreamOk
  <2>3. OnceOk(executed, asked, 0) /\ LateOk(late, executed, asked, 0)
    BY <1>1, <1>4 DEF OnceOk, LateOk
  <2>4. 0 \in 0 .. asked /\ 0 = 2 * 0
    BY <1>1
  <2>5. QED
    BY <2>2, <2>3, <2>4 DEF Border
<1>6. 0 \in 0 .. 2 * asked
  BY <1>1
<1>7. QED
  BY <1>1, <1>2, <1>3, <1>4, <1>5, <1>6 DEF ExecInv

\* A context with another error, reader or descriptor.
LEMMA ContextWith ==
  ASSUME NEW x, ContextShape(x), NEW v
  PROVE  /\ ContextShape([x EXCEPT !.fd = v]) /\ [x EXCEPT !.fd = v].obuf = x.obuf
         /\ ContextShape([x EXCEPT !.err = v]) /\ [x EXCEPT !.err = v].obuf = x.obuf
         /\ ContextShape([x EXCEPT !.reader = v]) /\ [x EXCEPT !.reader = v].obuf = x.obuf
         /\ ContextShape([x EXCEPT !.obuf = v]) /\ [x EXCEPT !.obuf = v].obuf = v
<1>1. PICK f, e, o, r : x = [fd |-> f, err |-> e, obuf |-> o, reader |-> r]
  BY DEF ContextShape
<1>2. /\ [x EXCEPT !.fd = v] = [fd |-> v, err |-> e, obuf |-> o, reader |-> r]
      /\ [x EXCEPT !.err = v] = [fd |-> f, err |-> v, obuf |-> o, reader |-> r]
      /\ [x EXCEPT !.reader = v] = [fd |-> f, err |-> e, obuf |-> o, reader |-> v]
      /\ [x EXCEPT !.obuf = v] = [fd |-> f, err |-> e, obuf |-> v, reader |-> r]
  BY <1>1
<1>3. QED
  BY <1>1, <1>2 DEF ContextShape

LEMMA NetWith ==
  ASSUME NEW x, NetShape(x), NEW v
  PROVE  /\ NetShape([x EXCEPT !.up = v]) /\ [x EXCEPT !.up = v].up = v
         /\ [x EXCEPT !.up = v].open = x.open
         /\ NetShape([x EXCEPT !.down = v]) /\ [x EXCEPT !.down = v].up = x.up
         /\ [x EXCEPT !.down = v].open = x.open
<1>1. PICK u, d, o : x = [up |-> u, down |-> d, open |-> o]
  BY DEF NetShape
<1>2. /\ [x EXCEPT !.up = v] = [up |-> v, down |-> d, open |-> o]
      /\ [x EXCEPT !.down = v] = [up |-> u, down |-> v, open |-> o]
  BY <1>1
<1>3. QED
  BY <1>1, <1>2 DEF NetShape

\* A step that leaves the streams and what is executed as they are.
LEMMA ExecSame ==
  ASSUME ExecInv, ContextShape(c'), NetShape(net'), c'.obuf = c.obuf, net'.up = net.up,
         net'.open = net.open, asked' = asked, executed' = executed, late' \subseteq late,
         todo' \in Seq(Nat \ {0}), call' \in {"connect", "poll"} => c.obuf = <<>>
  PROVE  ExecInv'
<1>1. PICK b \in 0 .. 2 * asked : Border(b)
  BY DEF ExecInv
<1>2. asked \in Nat /\ b \in Nat
  BY <1>1 DEF ExecInv
<1>3. LateOk(late', executed', asked', b)
  <2>1. LateOk(late, executed, asked, b) /\ asked <= asked /\ b <= b
        /\ \A i \in 1 .. asked : 2 * i <= b => executed[i] = executed[i]
    BY <1>1, <1>2 DEF Border
  <2>2. LateOk(late', executed, asked, b)
    BY <1>2, <2>1, LateKept
  <2>3. QED
    BY <2>2
<1>4. /\ StreamOk(c'.obuf, net'.up, asked', b) /\ OnceOk(executed', asked', b)
      /\ net'.open => \E m \in 0 .. asked' : b = 2 * m
  BY <1>1 DEF Border
<1>5. \E d \in 0 .. 2 * asked' : Border(d)'
  BY <1>1, <1>3, <1>4 DEF Border
<1>6. QED
  BY <1>5 DEF ExecInv

\* redisAppendCommand puts new commands behind all others.
LEMMA ExecIssue ==
  ASSUME ExecInv, NEW ctx, ContextShape(ctx), ctx.obuf = c.obuf, NEW n \in Nat \ {0},
         AppendCommands(ctx, n), UNCHANGED <<net, late>>, todo' \in Seq(Nat \ {0})
  PROVE  ExecInv'
<1>1. PICK b \in 0 .. 2 * asked : Border(b)
  BY DEF ExecInv
<1>2. PICK a \in Nat : a = asked
  BY DEF ExecInv
<1>3. b \in Nat /\ b <= 2 * a
  BY <1>1, <1>2
<1>4. PICK u, w : u = Len(net.up) /\ w = Len(c.obuf)
  OBVIOUS
<1>5. /\ u \in Nat /\ w \in Nat /\ net.up = Cells(b, u) /\ c.obuf = Cells(b + u, w)
      /\ b + u + w = 2 * a
  BY <1>1, <1>2, <1>4 DEF Border, StreamOk
<1>6. /\ asked' = a + n /\ executed' = executed \o [k \in 1 .. n |-> 0] /\ call' = "get"
      /\ c' = [ctx EXCEPT !.obuf = @ \o FlattenSeq([k \in 1 .. n |-> Bytes(a + k)])]
  BY <1>2 DEF AppendCommands
<1>7. FlattenSeq([k \in 1 .. n |-> Bytes(a + k)]) = Cells(2 * a, 2 * n)
  BY CommandCells
<1>8. c' = [ctx EXCEPT !.obuf = ctx.obuf \o Cells(2 * a, 2 * n)]
  BY <1>6, <1>7
<1>9. ContextShape(c') /\ c'.obuf = c.obuf \o Cells(2 * a, 2 * n)
  <2>1. PICK v : v = ctx.obuf \o Cells(2 * a, 2 * n)
    OBVIOUS
  <2>2. ContextShape([ctx EXCEPT !.obuf = v]) /\ [ctx EXCEPT !.obuf = v].obuf = v
    BY ContextWith
  <2>3. QED
    BY <1>8, <2>1, <2>2
<1>10. c'.obuf = Cells(b + u, w + 2 * n)
  <2>1. b + u \in Nat /\ w \in Nat /\ 2 * n \in Nat /\ b + u + w = 2 * a
    BY <1>3, <1>5
  <2>2. Cells(b + u, w) \o Cells(b + u + w, 2 * n) = Cells(b + u, w + 2 * n)
    BY <2>1, CellsJoin
  <2>3. QED
    BY <1>5, <1>9, <2>1, <2>2
<1>11. Len(c'.obuf) = w + 2 * n
  <2>1. b + u \in Nat /\ w + 2 * n \in Nat
    BY <1>3, <1>5
  <2>2. QED
    BY <1>10, <2>1, CellsType
<1>12. StreamOk(c'.obuf, net'.up, asked', b)
  <2>1. net'.up = Cells(b, u) /\ Len(net'.up) = u
    BY <1>4, <1>5
  <2>2. b + u + (w + 2 * n) = 2 * (a + n) /\ w + 2 * n \in Nat
    BY <1>3, <1>5
  <2>3. QED
    BY <1>5, <1>6, <1>10, <1>11, <2>1, <2>2 DEF StreamOk
<1>13. OnceOk(executed', asked', b) /\ LateOk(late', executed', asked', b)
  <2>1. OnceOk(executed, a, b) /\ LateOk(late, executed, a, b) /\ n \in Nat
    BY <1>1, <1>2 DEF Border
  <2>2. OnceOk(executed', a + n, b) /\ \A i \in 1 .. a : executed'[i] = executed[i]
    <3>1. PICK e : e = executed
      OBVIOUS
    <3>2. OnceOk(e, a, b)
      BY <2>1, <3>1
    <3>3. PICK z : z = [k \in 1 .. n |-> 0]
      OBVIOUS
    <3>4. NoneExecuted(z, n)
      BY <3>3, ZerosType
    <3>5. a \in Nat /\ b \in Nat /\ n \in Nat
      BY <1>3
    <3>6. PICK y : y = executed' /\ y = e \o z
      BY <1>6, <3>1, <3>3
    <3>7. OnceOk(y, a + n, b) /\ \A i \in 1 .. a : y[i] = e[i]
      <4>1. OnceOk(y, a + n, b)
        BY <3>2, <3>6, <3>4, <3>5, OnceMore
      <4>2. \A i \in 1 .. a : y[i] = e[i]
        BY <3>2, <3>6, <3>4 DEF OnceOk, NoneExecuted
      <4>3. QED
        BY <4>1, <4>2
    <3>8. QED
      BY <3>1, <3>7, <3>6
  <2>3. a + n \in Nat /\ a <= a + n /\ b <= b /\ late \subseteq late
        /\ \A i \in 1 .. a : 2 * i <= b => executed'[i] = executed[i]
    BY <1>3, <2>2
  <2>4. LateOk(late, executed', a + n, b)
    BY <1>3, <2>1, <2>3, LateKept
  <2>5. QED
    BY <1>6, <2>2, <2>4
<1>14. net'.open => \E m \in 0 .. asked' : b = 2 * m
  <2>1. SUFFICES ASSUME net.open PROVE \E m \in 0 .. a + n : b = 2 * m
    BY <1>6
  <2>2. PICK m \in 0 .. a : b = 2 * m
    BY <1>1, <1>2, <2>1 DEF Border
  <2>3. m \in 0 .. a + n
    OBVIOUS
  <2>4. QED
    BY <2>2, <2>3
<1>15. Border(b)' /\ b \in 0 .. 2 * asked'
  <2>1. b \in 0 .. 2 * asked'
    BY <1>3, <1>6
  <2>2. QED
    BY <1>12, <1>13, <1>14, <2>1 DEF Border
<1>16. NetShape(net') /\ net'.open \in BOOLEAN /\ asked' \in Nat
  BY <1>6 DEF ExecInv
<1>17. QED
  BY <1>6, <1>9, <1>15, <1>16 DEF ExecInv

\* A write moves cells from the output buffer to the pipe.
LEMMA StreamWritten ==
  ASSUME NEW o, NEW u, NEW n \in Nat, NEW b \in Nat, StreamOk(o, u, n, b), NEW k \in 1 .. Len(o)
  PROVE  StreamOk(SubSeq(o, k + 1, Len(o)), u \o SubSeq(o, 1, k), n, b)
<1>1. PICK s, t : s = Len(u) /\ t = Len(o)
  OBVIOUS
<1>2. /\ s \in Nat /\ t \in Nat /\ u = Cells(b, s) /\ o = Cells(b + s, t)
      /\ b + s + t = 2 * n
  BY <1>1 DEF StreamOk
<1>3. k \in Nat /\ k \in 0 .. t /\ b + s \in Nat /\ t - k \in Nat /\ s + k \in Nat
      /\ b + s + k = b + (s + k) /\ b + (s + k) \in Nat
  BY <1>1, <1>2
<1>4. SubSeq(o, 1, k) = Cells(b + s, k) /\ SubSeq(o, k + 1, t) = Cells(b + s + k, t - k)
  <2>1. PICK g : g = b + s
    OBVIOUS
  <2>2. g \in Nat /\ t \in Nat /\ k \in 0 .. t
    BY <1>2, <1>3, <2>1
  <2>3. /\ SubSeq(Cells(g, t), 1, k) = Cells(g, k)
        /\ SubSeq(Cells(g, t), k + 1, t) = Cells(g + k, t - k)
    BY <2>2, CellsCut
  <2>4. QED
    BY <1>2, <2>1, <2>3
<1>5. PICK p, q : p = u \o SubSeq(o, 1, k) /\ q = SubSeq(o, k + 1, Len(o))
  OBVIOUS
<1>6. p = Cells(b, s + k)
  <2>1. Cells(b, s) \o Cells(b + s, k) = Cells(b, s + k)
    BY <1>2, <1>3, CellsJoin
  <2>2. QED
    BY <1>2, <1>4, <1>5, <2>1
<1>7. q = Cells(b + (s + k), t - k)
  BY <1>1, <1>3, <1>4, <1>5
<1>8. Len(p) = s + k /\ Len(q) = t - k
  BY <1>2, <1>3, <1>6, <1>7, CellsType
<1>9. StreamOk(q, p, n, b)
  <2>1. p = Cells(b, Len(p)) /\ q = Cells(b + Len(p), Len(q))
    BY <1>6, <1>7, <1>8
  <2>2. Len(p) \in Nat /\ Len(q) \in Nat /\ b + Len(p) + Len(q) = 2 * n
    BY <1>2, <1>3, <1>8
  <2>3. QED
    BY <2>1, <2>2 DEF StreamOk
<1>10. QED
  BY <1>5, <1>9

\* Redis takes a command off the pipe: the first one behind the border.
LEMMA StreamExecuted ==
  ASSUME NEW o, NEW u, NEW n \in Nat, NEW m \in Nat, StreamOk(o, u, n, 2 * m), Len(u) >= 2
  PROVE  /\ u[1] = <<m + 1, "first">> /\ m < n
         /\ StreamOk(o, SubSeq(u, 3, Len(u)), n, 2 * (m + 1))
<1>1. PICK s, t, b : s = Len(u) /\ t = Len(o) /\ b = 2 * m
  OBVIOUS
<1>2. /\ s \in Nat /\ t \in Nat /\ u = Cells(b, s) /\ o = Cells(b + s, t)
      /\ b + s + t = 2 * n
  BY <1>1 DEF StreamOk
<1>3. /\ b \in Nat /\ s >= 2 /\ 2 \in 0 .. s /\ s - 2 \in Nat /\ b + 2 \in Nat
      /\ b + 2 = 2 * (m + 1) /\ b + 2 + (s - 2) = b + s /\ m < n
  BY <1>1, <1>2
<1>4. SubSeq(u, 2 + 1, s) = Cells(b + 2, s - 2)
  <2>1. PICK i : i = 2
    OBVIOUS
  <2>2. b \in Nat /\ s \in Nat /\ i \in 0 .. s
    BY <1>2, <1>3, <2>1
  <2>3. SubSeq(Cells(b, s), i + 1, s) = Cells(b + i, s - i)
    BY <2>2, CellsCut
  <2>4. SubSeq(Cells(b, s), 2 + 1, s) = Cells(b + 2, s - 2)
    BY <2>1, <2>3
  <2>5. QED
    BY <1>2, <2>4
<1>5. u[1] = <<m + 1, "first">>
  <2>1. 1 \in 1 .. s
    BY <1>2, <1>3
  <2>2. u[1] = Cell(b + 1)
    BY <1>2, <1>3, <2>1, CellsType
  <2>3. QED
    BY <1>1, <2>2, CellsOfCommand
<1>6. PICK p : p = SubSeq(u, 3, Len(u))
  OBVIOUS
<1>7. p = Cells(b + 2, s - 2)
  BY <1>1, <1>4, <1>6
<1>8. Len(p) = s - 2
  BY <1>3, <1>7, CellsType
<1>9. b + 2 + Len(p) + t = 2 * n
  BY <1>2, <1>3, <1>8
<1>10. o = Cells(b + 2 + Len(p), t)
  BY <1>2, <1>3, <1>8
<1>11. p = Cells(b + 2, Len(p))
  BY <1>7, <1>8
<1>12. StreamOk(o, p, n, b + 2)
  BY <1>1, <1>2, <1>3, <1>8, <1>9, <1>10, <1>11 DEF StreamOk
<1>13. QED
  BY <1>3, <1>5, <1>6, <1>12

\* The border is moved on to where a new connection starts: what was behind it is lost.
LEMMA StreamLost ==
  ASSUME NEW o, NEW u, NEW n \in Nat, NEW b \in Nat, StreamOk(o, u, n, b)
  PROVE  /\ b + Len(u) \in 0 .. 2 * n /\ b <= b + Len(u)
         /\ StreamOk(o, <<>>, n, b + Len(u))
<1>1. PICK s : s = Len(u)
  OBVIOUS
<1>2. s \in Nat /\ Len(o) \in Nat /\ o = Cells(b + s, Len(o)) /\ b + s + Len(o) = 2 * n
  BY <1>1 DEF StreamOk
<1>3. b + s \in Nat /\ Len(<<>>) = 0 /\ b + s + 0 = b + s /\ b + s \in 0 .. 2 * n /\ b <= b + s
  BY <1>2
<1>4. <<>> = Cells(b + s, Len(<<>>))
  BY <1>3, CellsNone
<1>5. StreamOk(o, <<>>, n, b + s)
  BY <1>2, <1>3, <1>4 DEF StreamOk
<1>6. QED
  BY <1>1, <1>3, <1>5

LEMMA StreamNew ==
  ASSUME NEW n \in Nat
  PROVE  StreamOk(<<>>, <<>>, n, 2 * n)
<1>1. 2 * n \in Nat /\ Len(<<>>) = 0 /\ 2 * n + 0 = 2 * n /\ 2 * n + 0 + 0 = 2 * n
  OBVIOUS
<1>2. <<>> = Cells(2 * n, Len(<<>>)) /\ <<>> = Cells(2 * n + Len(<<>>), Len(<<>>))
  BY <1>1, CellsNone
<1>3. QED
  BY <1>1, <1>2 DEF StreamOk

-----------------------------------------------------------------------------
(* The steps of the streams and of Redis. *)

LEMMA ExecWrite ==
  ASSUME ExecInv, BufferWrite
  PROVE  ExecInv'
<1>1. /\ call = "write" /\ UNCHANGED <<late, asked, executed>>
      /\ \/ UNCHANGED <<c, net>> /\ UNCHANGED todo
         \/ UNCHANGED <<c, net>> /\ todo' = <<>>
         \/ /\ net.open /\ UNCHANGED todo
            /\ \E n \in 1 .. Len(c.obuf) :
                 /\ net' = [net EXCEPT !.up = @ \o SubSeq(c.obuf, 1, n)]
                 /\ c' = [c EXCEPT !.obuf = SubSeq(@, n + 1, Len(@))]
                 /\ call' = IF n = Len(c.obuf) THEN "read" ELSE "write"
  BY DEF BufferWrite, history, work, GiveUp
<1>2. call' \notin {"connect", "poll"}
  BY DEF BufferWrite, GiveUp
<1>3. CASE UNCHANGED <<c, net>>
  <2>1. <<>> \in Seq(Nat \ {0})
    BY EmptySeq
  <2>2. ContextShape(c') /\ NetShape(net') /\ todo' \in Seq(Nat \ {0})
    BY <1>1, <1>3, <2>1 DEF ExecInv
  <2>3. QED
    BY <1>1, <1>2, <1>3, <2>2, ExecSame
<1>4. CASE net.open /\ UNCHANGED todo
           /\ \E n \in 1 .. Len(c.obuf) :
                /\ net' = [net EXCEPT !.up = @ \o SubSeq(c.obuf, 1, n)]
                /\ c' = [c EXCEPT !.obuf = SubSeq(@, n + 1, Len(@))]
                /\ call' = IF n = Len(c.obuf) THEN "read" ELSE "write"
  <2>1. PICK n \in 1 .. Len(c.obuf) :
               /\ net' = [net EXCEPT !.up = net.up \o SubSeq(c.obuf, 1, n)]
               /\ c' = [c EXCEPT !.obuf = SubSeq(c.obuf, n + 1, Len(c.obuf))]
    BY <1>4
  <2>2. PICK p, q : p = net.up \o SubSeq(c.obuf, 1, n) /\ q = SubSeq(c.obuf, n + 1, Len(c.obuf))
    OBVIOUS
  <2>3. net' = [net EXCEPT !.up = p] /\ c' = [c EXCEPT !.obuf = q]
    BY <2>1, <2>2
  <2>4. NetShape(net') /\ net'.up = p /\ net'.open = net.open
    <3>1. NetShape(net)
      BY DEF ExecInv
    <3>2. NetShape([net EXCEPT !.up = p]) /\ [net EXCEPT !.up = p].up = p
          /\ [net EXCEPT !.up = p].open = net.open
      BY <3>1, NetWith
    <3>3. QED
      BY <2>3, <3>2
  <2>5. ContextShape(c') /\ c'.obuf = q
    <3>1. ContextShape(c)
      BY DEF ExecInv
    <3>2. ContextShape([c EXCEPT !.obuf = q]) /\ [c EXCEPT !.obuf = q].obuf = q
      BY <3>1, ContextWith
    <3>3. QED
      BY <2>3, <3>2
  <2>6. PICK b \in 0 .. 2 * asked : Border(b)
    BY DEF ExecInv
  <2>7. asked \in Nat /\ b \in Nat
    BY <2>6 DEF ExecInv
  <2>8. StreamOk(c.obuf, net.up, asked, b)
    BY <2>6 DEF Border
  <2>9. StreamOk(q, p, asked, b)
    BY <2>2, <2>7, <2>8, StreamWritten
  <2>10. /\ StreamOk(c'.obuf, net'.up, asked', b)
         /\ OnceOk(executed', asked', b) /\ LateOk(late', executed', asked', b)
         /\ net'.open => \E m \in 0 .. asked' : b = 2 * m
    BY <1>1, <2>4, <2>5, <2>6, <2>9 DEF Border
  <2>11. \E d \in 0 .. 2 * asked' : Border(d)'
    BY <1>1, <2>10 DEF Border
  <2>12. net'.open \in BOOLEAN /\ asked' \in Nat /\ todo' \in Seq(Nat \ {0})
    BY <1>1, <1>4, <2>4 DEF ExecInv
  <2>13. QED
    BY <1>2, <2>4, <2>5, <2>11, <2>12 DEF ExecInv
<1>5. QED
  BY <1>1, <1>3, <1>4

LEMMA ExecExecute ==
  ASSUME ExecInv, Execute
  PROVE  ExecInv'
<1>1. PICK a \in Answers :
             net' = [net EXCEPT !.up = SubSeq(net.up, 3, Len(net.up)), !.down = @ \o a.wire]
  BY DEF Execute
<1>2. /\ net.open /\ Len(net.up) >= 2
      /\ executed' = [executed EXCEPT ![net.up[1][1]] = @ + 1]
      /\ UNCHANGED <<c, late, call, todo, asked>>
  BY DEF Execute, work
<1>3. PICK u, d, o : net = [up |-> u, down |-> d, open |-> o]
  BY DEF ExecInv, NetShape
<1>4. net' = [up |-> SubSeq(net.up, 3, Len(net.up)), down |-> d \o a.wire, open |-> o]
  BY <1>1, <1>3
<1>5. NetShape(net') /\ net'.up = SubSeq(net.up, 3, Len(net.up)) /\ net'.open = net.open
  BY <1>3, <1>4 DEF NetShape
<1>6. PICK b \in 0 .. 2 * asked : Border(b)
  BY DEF ExecInv
<1>7. PICK m \in 0 .. asked : b = 2 * m
  BY <1>2, <1>6 DEF Border
<1>8. asked \in Nat /\ m \in Nat
  BY <1>7 DEF ExecInv
<1>9. /\ StreamOk(c.obuf, net.up, asked, 2 * m) /\ OnceOk(executed, asked, 2 * m)
      /\ LateOk(late, executed, asked, 2 * m)
  BY <1>6, <1>7 DEF Border
<1>10. /\ net.up[1] = <<m + 1, "first">> /\ m < asked
       /\ StreamOk(c.obuf, SubSeq(net.up, 3, Len(net.up)), asked, 2 * (m + 1))
  BY <1>2, <1>8, <1>9, StreamExecuted
<1>11. PICK e : e = [executed EXCEPT ![m + 1] = @ + 1]
  OBVIOUS
<1>12. executed' = e
  <2>1. net.up[1][1] = m + 1
    BY <1>10
  <2>2. QED
    BY <1>2, <1>11, <2>1
<1>13. OnceOk(e, asked, 2 * (m + 1))
  BY <1>8, <1>9, <1>10, <1>11, OnceExecuted
<1>14. LateOk(late, e, asked, 2 * (m + 1))
  <2>1. \A i \in 1 .. asked : 2 * i <= 2 * m => e[i] = executed[i]
    <3>1. TAKE i \in 1 .. asked
    <3>2. HAVE 2 * i <= 2 * m
    <3>3. i # m + 1
      BY <1>8, <3>2
    <3>4. executed \in Seq(Nat) /\ Len(executed) = asked
      BY <1>9 DEF OnceOk
    <3>5. QED
      BY <1>11, <3>3, <3>4
  <2>2. 2 * m \in Nat /\ 2 * (m + 1) \in Nat /\ 2 * m <= 2 * (m + 1) /\ asked <= asked
        /\ late \subseteq late
    BY <1>8
  <2>3. PICK x, y : x = 2 * m /\ y = 2 * (m + 1)
    OBVIOUS
  <2>4. x \in Nat /\ y \in Nat /\ x <= y /\ \A i \in 1 .. asked : 2 * i <= x => e[i] = executed[i]
    BY <2>1, <2>2, <2>3
  <2>5. LateOk(late, executed, asked, x)
    BY <1>9, <2>3
  <2>6. LateOk(late, e, asked, y)
    BY <1>8, <2>2, <2>4, <2>5, LateKept
  <2>7. QED
    BY <2>3, <2>6
<1>15. Border(2 * (m + 1))'
  <2>1. /\ StreamOk(c'.obuf, net'.up, asked', 2 * (m + 1))
        /\ OnceOk(executed', asked', 2 * (m + 1)) /\ LateOk(late', executed', asked', 2 * (m + 1))
    BY <1>2, <1>5, <1>10, <1>12, <1>13, <1>14
  <2>2. m + 1 \in 0 .. asked' /\ 2 * (m + 1) = 2 * (m + 1)
    BY <1>2, <1>8, <1>10
  <2>3. \E i \in 0 .. asked' : 2 * (m + 1) = 2 * i
    BY <2>2
  <2>4. QED
    BY <2>1, <2>3 DEF Border
<1>16. 2 * (m + 1) \in 0 .. 2 * asked'
  BY <1>2, <1>8, <1>10
<1>17. ContextShape(c') /\ asked' \in Nat /\ todo' \in Seq(Nat \ {0}) /\ net'.open \in BOOLEAN
       /\ (call' \in {"connect", "poll"} => c'.obuf = <<>>)
  BY <1>2, <1>5 DEF ExecInv
<1>18. QED
  BY <1>5, <1>15, <1>16, <1>17 DEF ExecInv

LEMMA ExecLate ==
  ASSUME ExecInv, ExecuteLate
  PROVE  ExecInv'
<1>1. PICK q \in late :
        /\ late' = IF Len(q) > 1 THEN (late \ {q}) \cup {Tail(q)} ELSE late \ {q}
        /\ executed' = [executed EXCEPT ![Head(q)] = @ + 1]
        /\ UNCHANGED <<c, net, call, todo, asked>>
  BY DEF ExecuteLate, work
<1>2. PICK b \in 0 .. 2 * asked : Border(b)
  BY DEF ExecInv
<1>3. asked \in Nat /\ b \in Nat
  BY <1>2 DEF ExecInv
<1>4. /\ OnceOk([executed EXCEPT ![Head(q)] = @ + 1], asked, b)
      /\ LateOk(IF Len(q) > 1 THEN (late \ {q}) \cup {Tail(q)} ELSE late \ {q},
                [executed EXCEPT ![Head(q)] = @ + 1], asked, b)
  <2>1. OnceOk(executed, asked, b) /\ LateOk(late, executed, asked, b)
    BY <1>2 DEF Border
  <2>2. QED
    BY <1>3, <2>1, LateExecuted
<1>5. OnceOk(executed', asked, b) /\ LateOk(late', executed', asked, b)
  BY <1>1, <1>4
<1>6. /\ StreamOk(c'.obuf, net'.up, asked', b)
      /\ net'.open => \E m \in 0 .. asked' : b = 2 * m
  BY <1>1, <1>2 DEF Border
<1>7. \E d \in 0 .. 2 * asked' : Border(d)'
  BY <1>1, <1>5, <1>6 DEF Border
<1>8. QED
  BY <1>1, <1>7 DEF ExecInv

LEMMA ExecDrop ==
  ASSUME ExecInv, DropLate
  PROVE  ExecInv'
<1>1. UNCHANGED <<c, net, call, todo, asked, executed>> /\ late' \subseteq late
  BY DEF DropLate, work, history
<1>2. ContextShape(c') /\ NetShape(net') /\ todo' \in Seq(Nat \ {0})
      /\ (call' \in {"connect", "poll"} => c.obuf = <<>>)
  BY <1>1 DEF ExecInv
<1>3. QED
  BY <1>1, <1>2, ExecSame

LEMMA ExecCloses ==
  ASSUME ExecInv, RedisCloses
  PROVE  ExecInv'
<1>1. /\ UNCHANGED <<c, late, call, todo, asked, executed>>
      /\ \E kept : net' = [Closed EXCEPT !.down = kept]
  BY DEF RedisCloses, work, history
<1>2. NetShape(net') /\ net'.up = <<>> /\ net'.open = FALSE
  BY <1>1 DEF NetShape, Closed
<1>3. PICK b \in 0 .. 2 * asked : Border(b)
  BY DEF ExecInv
<1>4. asked \in Nat /\ b \in Nat
  BY <1>3 DEF ExecInv
<1>5. PICK d : d = b + Len(net.up)
  OBVIOUS
<1>6. d \in 0 .. 2 * asked /\ b <= d /\ StreamOk(c.obuf, <<>>, asked, d)
  BY <1>3, <1>4, <1>5, StreamLost DEF Border
<1>7. OnceOk(executed, asked, d)
  BY <1>3, <1>4, <1>6, OnceKept DEF Border
<1>8. LateOk(late, executed, asked, d)
  <2>1. LateOk(late, executed, asked, b) /\ late \subseteq late /\ asked <= asked /\ d \in Nat
        /\ \A i \in 1 .. asked : 2 * i <= b => executed[i] = executed[i]
    BY <1>3, <1>4, <1>6 DEF Border
  <2>2. QED
    BY <1>4, <1>6, <2>1, LateKept
<1>9. Border(d)'
  BY <1>1, <1>2, <1>6, <1>7, <1>8 DEF Border
<1>10. QED
  BY <1>1, <1>2, <1>6, <1>9 DEF ExecInv

-----------------------------------------------------------------------------
(* The steps of the worker. *)

LEMMA ExecReconnect ==
  ASSUME ExecInv, Reconnect
  PROVE  ExecInv'
<1>1. /\ c' = redisContextInit /\ net' = Closed
      /\ late' = IF net.open /\ Len(net.up) >= 2 THEN late \cup {Received(net.up)} ELSE late
      /\ UNCHANGED <<todo, asked, executed>>
  BY DEF Reconnect
<1>2. /\ ContextShape(c') /\ c'.obuf = <<>>
      /\ NetShape(net') /\ net'.up = <<>> /\ net'.open = FALSE
  BY <1>1 DEF redisContextInit, ContextShape, Closed, NetShape
<1>3. PICK b \in 0 .. 2 * asked : Border(b)
  BY DEF ExecInv
<1>4. PICK d : d = 2 * asked
  OBVIOUS
<1>5. asked \in Nat /\ b \in Nat /\ d \in Nat /\ b <= d /\ d \in 0 .. 2 * asked
  BY <1>3, <1>4 DEF ExecInv
<1>6. StreamOk(<<>>, <<>>, asked, d)
  BY <1>4, <1>5, StreamNew
<1>7. OnceOk(executed, asked, d)
  BY <1>3, <1>5, OnceKept DEF Border
<1>8. LateOk(late', executed, asked, d)
  <2>1. CASE net.open /\ Len(net.up) >= 2
    <3>1. PICK m \in 0 .. asked : b = 2 * m
      BY <1>3, <2>1 DEF Border
    <3>2. PICK u : u = Len(net.up)
      OBVIOUS
    <3>3. m \in Nat /\ u \in Nat /\ u >= 2 /\ 2 * m + u <= 2 * asked /\ net.up = Cells(2 * m, u)
      <4>1. StreamOk(c.obuf, net.up, asked, b)
        BY <1>3 DEF Border
      <4>2. /\ net.up = Cells(b, u) /\ u \in Nat /\ Len(c.obuf) \in Nat
            /\ b + u + Len(c.obuf) = 2 * asked
        BY <3>2, <4>1 DEF StreamOk
      <4>3. m \in Nat
        OBVIOUS
      <4>4. net.up = Cells(2 * m, u)
        BY <3>1, <4>2
      <4>5. 2 * m + u <= 2 * asked /\ u >= 2
        <5>1. b = 2 * m /\ b \in Nat /\ asked \in Nat /\ u >= 2
          BY <1>5, <2>1, <3>1, <3>2
        <5>2. b + Len(net.up) \in 0 .. 2 * asked
          BY <4>1, <5>1, StreamLost
        <5>3. b + u <= 2 * asked
          BY <3>2, <5>2
        <5>4. QED
          BY <5>1, <5>3
      <4>6. QED
        BY <4>2, <4>3, <4>4, <4>5
    <3>4. OnceOk(executed, asked, 2 * m) /\ LateOk(late, executed, asked, 2 * m)
      BY <1>3, <3>1 DEF Border
    <3>5. LateOk(late \cup {Received(Cells(2 * m, u))}, executed, asked, 2 * asked)
      BY <1>5, <3>3, <3>4, LateReceived
    <3>6. QED
      BY <1>1, <1>4, <2>1, <3>3, <3>5
  <2>2. CASE ~(net.open /\ Len(net.up) >= 2)
    <3>1. LateOk(late, executed, asked, b) /\ late' \subseteq late /\ asked <= asked
          /\ \A i \in 1 .. asked : 2 * i <= b => executed[i] = executed[i]
      BY <1>1, <1>3, <1>5, <2>2 DEF Border
    <3>2. QED
      BY <1>5, <3>1, LateKept
  <2>3. QED
    BY <2>1, <2>2
<1>9. Border(d)'
  BY <1>1, <1>2, <1>6, <1>7, <1>8 DEF Border
<1>10. QED
  BY <1>1, <1>2, <1>5, <1>9 DEF ExecInv

LEMMA ExecConnected ==
  ASSUME ExecInv, Connected, call \in {"connect", "poll"}, UNCHANGED <<late, work, history>>
  PROVE  ExecInv'
<1>1. /\ c' = [c EXCEPT !.fd = TRUE] /\ net' = [Closed EXCEPT !.open = TRUE] /\ call' = "idle"
      /\ UNCHANGED <<late, todo, asked, executed>>
  BY DEF Connected, work, history
<1>2. ContextShape(c') /\ c'.obuf = <<>>
  BY <1>1, ContextWith DEF ExecInv
<1>3. NetShape(net') /\ net'.up = <<>> /\ net'.open = TRUE
  BY <1>1 DEF NetShape, Closed
<1>4. PICK b \in 0 .. 2 * asked : Border(b)
  BY DEF ExecInv
<1>5. PICK d : d = 2 * asked
  OBVIOUS
<1>6. asked \in Nat /\ b \in Nat /\ d \in Nat /\ b <= d /\ d \in 0 .. 2 * asked
  BY <1>4, <1>5 DEF ExecInv
<1>7. StreamOk(<<>>, <<>>, asked, d)
  BY <1>5, <1>6, StreamNew
<1>8. OnceOk(executed, asked, d)
  BY <1>4, <1>6, OnceKept DEF Border
<1>9. LateOk(late, executed, asked, d)
  <2>1. LateOk(late, executed, asked, b) /\ late \subseteq late /\ asked <= asked
        /\ \A i \in 1 .. asked : 2 * i <= b => executed[i] = executed[i]
    BY <1>4, <1>6 DEF Border
  <2>2. QED
    BY <1>6, <2>1, LateKept
<1>10. \E m \in 0 .. asked : d = 2 * m
  BY <1>5, <1>6
<1>11. Border(d)'
  BY <1>1, <1>2, <1>3, <1>7, <1>8, <1>9, <1>10 DEF Border
<1>12. QED
  BY <1>1, <1>2, <1>3, <1>6, <1>11 DEF ExecInv

\* What the worker does to the reader, the error and the descriptor leaves both streams
\* alone, and so does a request that ends.
QuietContext ==
  \/ c' = c
  \/ \E v : c' = [c EXCEPT !.fd = v]
  \/ \E v : c' = [c EXCEPT !.err = v]
  \/ \E v : c' = [c EXCEPT !.reader = v]
  \/ \E v, w : c' = [c EXCEPT !.err = v, !.fd = w]
  \/ \E v, w : c' = [c EXCEPT !.err = v, !.reader = w]
QuietNet == net' = net \/ \E v : net' = [net EXCEPT !.down = v]
QuietWork ==
  /\ UNCHANGED <<late, asked, executed>> /\ (todo' = todo \/ todo' = <<>>)
  /\ call' \in {"connect", "poll"} => call \in {"connect", "poll"}

LEMMA ExecQuiet ==
  ASSUME ExecInv, QuietContext, QuietNet, QuietWork
  PROVE  ExecInv'
<1>1. ContextShape(c) /\ NetShape(net) /\ todo \in Seq(Nat \ {0})
  BY DEF ExecInv
<1>2. ContextShape(c') /\ c'.obuf = c.obuf
  <2>1. CASE c' = c
    BY <1>1, <2>1
  <2>2. CASE \E v : c' = [c EXCEPT !.fd = v]
    <3>1. PICK v : c' = [c EXCEPT !.fd = v]
      BY <2>2
    <3>2. ContextShape([c EXCEPT !.fd = v]) /\ [c EXCEPT !.fd = v].obuf = c.obuf
      BY <1>1, ContextWith
    <3>3. QED
      BY <3>1, <3>2
  <2>3. CASE \E v : c' = [c EXCEPT !.err = v]
    <3>1. PICK v : c' = [c EXCEPT !.err = v]
      BY <2>3
    <3>2. ContextShape([c EXCEPT !.err = v]) /\ [c EXCEPT !.err = v].obuf = c.obuf
      BY <1>1, ContextWith
    <3>3. QED
      BY <3>1, <3>2
  <2>4. CASE \E v : c' = [c EXCEPT !.reader = v]
    <3>1. PICK v : c' = [c EXCEPT !.reader = v]
      BY <2>4
    <3>2. ContextShape([c EXCEPT !.reader = v]) /\ [c EXCEPT !.reader = v].obuf = c.obuf
      BY <1>1, ContextWith
    <3>3. QED
      BY <3>1, <3>2
  <2>5. CASE \/ \E v, w : c' = [c EXCEPT !.err = v, !.fd = w]
             \/ \E v, w : c' = [c EXCEPT !.err = v, !.reader = w]
    <3>1. PICK f, e, o, r : c = [fd |-> f, err |-> e, obuf |-> o, reader |-> r]
      BY <1>1 DEF ContextShape
    <3>2. CASE \E v, w : c' = [c EXCEPT !.err = v, !.fd = w]
      <4>1. PICK v, w : c' = [c EXCEPT !.err = v, !.fd = w]
        BY <3>2
      <4>2. c' = [fd |-> w, err |-> v, obuf |-> o, reader |-> r]
        BY <3>1, <4>1
      <4>3. QED
        BY <3>1, <4>2 DEF ContextShape
    <3>3. CASE \E v, w : c' = [c EXCEPT !.err = v, !.reader = w]
      <4>1. PICK v, w : c' = [c EXCEPT !.err = v, !.reader = w]
        BY <3>3
      <4>2. c' = [fd |-> f, err |-> v, obuf |-> o, reader |-> w]
        BY <3>1, <4>1
      <4>3. QED
        BY <3>1, <4>2 DEF ContextShape
    <3>4. QED
      BY <2>5, <3>2, <3>3
  <2>6. QED
    BY <2>5, <2>1, <2>2, <2>3, <2>4 DEF QuietContext
<1>3. NetShape(net') /\ net'.up = net.up /\ net'.open = net.open
  <2>1. CASE net' = net
    BY <1>1, <2>1
  <2>2. CASE \E v : net' = [net EXCEPT !.down = v]
    <3>1. PICK v : net' = [net EXCEPT !.down = v]
      BY <2>2
    <3>2. QED
      BY <1>1, <3>1, NetWith
  <2>3. QED
    BY <2>1, <2>2 DEF QuietNet
<1>4. todo' \in Seq(Nat \ {0})
  <2>1. <<>> \in Seq(Nat \ {0})
    BY EmptySeq
  <2>2. QED
    BY <1>1, <2>1 DEF QuietWork
<1>5. call' \in {"connect", "poll"} => c.obuf = <<>>
  BY DEF ExecInv, QuietWork
<1>6. asked' = asked /\ executed' = executed /\ late' \subseteq late
  BY DEF QuietWork
<1>7. QED
  BY <1>2, <1>3, <1>4, <1>5, <1>6, ExecSame

LEMMA ExecConnect ==
  ASSUME ExecInv, ConnectTcp \/ WaitReady
  PROVE  ExecInv'
<1>1. call \in {"connect", "poll"} /\ UNCHANGED <<late, work, history>>
  BY DEF ConnectTcp, WaitReady
<1>2. UNCHANGED <<late, asked, executed, todo>>
  BY <1>1 DEF work, history
<1>3. CASE Connected
  BY <1>1, <1>3, ExecConnected
<1>4. CASE ~Connected
  <2>1. net' = net
    BY <1>4 DEF ConnectTcp, WaitReady, ConnectError
  <2>2. \/ c' = c
        \/ \E v : c' = [c EXCEPT !.fd = v]
        \/ \E v, w : c' = [c EXCEPT !.err = v, !.fd = w]
    BY <1>4 DEF ConnectTcp, WaitReady, ConnectError
  <2>3. QuietContext /\ QuietNet /\ QuietWork
    BY <1>1, <1>2, <2>1, <2>2 DEF QuietContext, QuietNet, QuietWork
  <2>4. QED
    BY <2>3, ExecQuiet
<1>5. QED
  BY <1>3, <1>4

\* The reply is handed out, and the worker goes on.
LEMMA ExecHandOut ==
  ASSUME ExecInv, call \in {"get", "got"}, NEW reader, NEW reply, HandOut(reader, reply),
         UNCHANGED <<net, late>>
  PROVE  ExecInv'
<1>1. PICK ctx : ctx = [c EXCEPT !.reader = reader]
  OBVIOUS
<1>2. ContextShape(ctx) /\ ctx.obuf = c.obuf
  BY <1>1, ContextWith DEF ExecInv
<1>3. CASE left = 1 /\ todo # <<>> /\ AppendCommands(ctx, Head(todo)) /\ todo' = Tail(todo)
  <2>1. Head(todo) \in Nat \ {0} /\ todo' \in Seq(Nat \ {0})
    BY <1>3, HeadTailProperties DEF ExecInv
  <2>2. PICK n \in Nat \ {0} : AppendCommands(ctx, n)
    BY <1>3, <2>1
  <2>3. QED
    BY <1>2, <2>1, <2>2, ExecIssue
<1>4. CASE c' = ctx /\ call' \in {"get", "idle"} /\ UNCHANGED <<asked, executed, todo>>
  <2>1. QuietContext /\ QuietNet /\ QuietWork
    BY <1>1, <1>4 DEF QuietContext, QuietNet, QuietWork
  <2>2. QED
    BY <2>1, ExecQuiet
<1>5. QED
  BY <1>1, <1>3, <1>4 DEF HandOut

LEMMA ExecReader ==
  ASSUME ExecInv, call \in {"get", "got"}, NEW after \in {"write", "read"},
         GetReplyFromReader(after), UNCHANGED <<net, late>>
  PROVE  ExecInv'
<1>1. CASE \E reader, reply : HandOut(reader, reply)
  BY <1>1, ExecHandOut
<1>2. CASE ~\E reader, reply : HandOut(reader, reply)
  <2>1. /\ \/ \E v : c' = [c EXCEPT !.reader = v]
           \/ \E v, w : c' = [c EXCEPT !.err = v, !.reader = w]
        /\ \/ UNCHANGED call \/ call' = after \/ call' = "idle"
        /\ UNCHANGED <<asked, executed>> /\ (todo' = todo \/ todo' = <<>>)
    BY <1>2 DEF GetReplyFromReader, work, history, GiveUp
  <2>2. QuietContext /\ QuietNet /\ QuietWork
    BY <2>1 DEF QuietContext, QuietNet, QuietWork
  <2>3. QED
    BY <2>2, ExecQuiet
<1>3. QED
  BY <1>1, <1>2

LEMMA ExecGet ==
  ASSUME ExecInv, RedisGetReply \/ ReplyRead
  PROVE  ExecInv'
<1>1. call \in {"get", "got"} /\ UNCHANGED <<net, late>>
  BY DEF RedisGetReply, ReplyRead
<1>2. CASE \E after \in {"write", "read"} : GetReplyFromReader(after)
  BY <1>1, <1>2, ExecReader
<1>3. CASE ~\E after \in {"write", "read"} : GetReplyFromReader(after)
  <2>1. /\ c' = c \/ \E v : c' = [c EXCEPT !.err = v]
        /\ call' \in {"idle", "write"}
        /\ UNCHANGED <<asked, executed>> /\ (todo' = todo \/ todo' = <<>>)
    BY <1>3 DEF RedisGetReply, ReplyRead, work, history, GiveUp, SetContextError
  <2>2. QuietContext /\ QuietNet /\ QuietWork
    BY <1>1, <2>1 DEF QuietContext, QuietNet, QuietWork
  <2>3. QED
    BY <2>2, ExecQuiet
<1>4. QED
  BY <1>2, <1>3

LEMMA ExecRead ==
  ASSUME ExecInv, BufferRead \/ CallFails
  PROVE  ExecInv'
<1>1. /\ c' = c \/ (\E v : c' = [c EXCEPT !.err = v]) \/ (\E v : c' = [c EXCEPT !.reader = v])
      /\ net' = net \/ \E v : net' = [net EXCEPT !.down = v]
      /\ call' \in {"idle", "got"}
      /\ UNCHANGED <<late, asked, executed>> /\ (todo' = todo \/ todo' = <<>>)
  BY DEF BufferRead, CallFails, work, history, GiveUp, SetContextError
<1>2. QuietContext /\ QuietNet /\ QuietWork
  BY <1>1 DEF QuietContext, QuietNet, QuietWork
<1>3. QED
  BY <1>2, ExecQuiet

LEMMA ExecRequest ==
  ASSUME ExecInv, NEW p \in Requests, ProcPkgCli(p)
  PROVE  ExecInv'
<1>1. p \in Seq(Nat \ {0}) /\ p # <<>>
  BY RedisClientAssumption
<1>2. AppendCommands(c, Head(p)) /\ todo' = Tail(p) /\ UNCHANGED <<net, late>>
  BY DEF ProcPkgCli
<1>3. Head(p) \in Nat \ {0} /\ todo' \in Seq(Nat \ {0})
  BY <1>1, <1>2, HeadTailProperties
<1>4. PICK n \in Nat \ {0} : AppendCommands(c, n)
  BY <1>2, <1>3
<1>5. ContextShape(c) /\ c.obuf = c.obuf
  BY DEF ExecInv
<1>6. QED
  BY <1>2, <1>3, <1>4, <1>5, ExecIssue

LEMMA ExecStep == ExecInv /\ [Next]_vars => ExecInv'
<1> SUFFICES ASSUME ExecInv, [Next]_vars PROVE ExecInv'
  OBVIOUS
<1>1. CASE \E p \in Requests : ProcPkgCli(p)
  BY <1>1, ExecRequest
<1>2. CASE RedisGetReply \/ ReplyRead
  BY <1>2, ExecGet
<1>3. CASE BufferWrite
  BY <1>3, ExecWrite
<1>4. CASE BufferRead \/ CallFails
  BY <1>4, ExecRead
<1>5. CASE TimeEvent \/ MasterChange
  <2>1. CASE NoSentinel
    <3>1. QuietContext /\ QuietNet /\ QuietWork
      BY <2>1 DEF NoSentinel, QuietContext, QuietNet, QuietWork, work, history
    <3>2. QED
      BY <3>1, ExecQuiet
  <2>2. QED
    BY <1>5, <2>1, ExecReconnect DEF TimeEvent, MasterChange
<1>6. CASE ConnectTcp \/ WaitReady
  BY <1>6, ExecConnect
<1>7. CASE Execute
  BY <1>7, ExecExecute
<1>8. CASE ExecuteLate
  BY <1>8, ExecLate
<1>9. CASE DropLate
  BY <1>9, ExecDrop
<1>10. CASE RedisCloses
  BY <1>10, ExecCloses
<1>11. CASE UNCHANGED vars
  <2>1. QuietContext /\ QuietNet /\ QuietWork
    BY <1>11 DEF QuietContext, QuietNet, QuietWork, vars, work, history
  <2>2. QED
    BY <2>1, ExecQuiet
<1>12. QED
  BY <1>1, <1>2, <1>3, <1>4, <1>5, <1>6, <1>7, <1>8, <1>9, <1>10, <1>11 DEF Next

\* A command that a worker gives to hiredis (redisAppendCommand) is executed at most
\* once: what a failed context still held is never written to the one that replaces it.
THEOREM ExecutedAtMostOnce == Spec => []ExecutedOnce
<1>1. Init => ExecInv
  BY ExecInit
<1>2. ExecInv /\ [Next]_vars => ExecInv'
  BY ExecStep
<1>3. ExecInv => ExecutedOnce
  BY ExecOnce
<1>4. QED
  BY <1>1, <1>2, <1>3, PTL DEF Spec

-----------------------------------------------------------------------------
(* Bytes that came, bytes to come. *)

Text == Seq(STRING)

\* s without its first n bytes.
Drop(s, n) == SubSeq(s, n + 1, Len(s))

LEMMA DropIs ==
  ASSUME NEW s \in Text, NEW n \in 0 .. Len(s)
  PROVE  /\ Drop(s, n) \in Text /\ Len(Drop(s, n)) = Len(s) - n
         /\ \A i \in 1 .. Len(s) - n : Drop(s, n)[i] = s[n + i]
<1>1. Len(s) \in Nat /\ n \in Nat /\ \A i \in n + 1 .. Len(s) : s[i] \in STRING
  BY LenProperties, ElementOfSeq DEF Text
<1>2. /\ SubSeq(s, n + 1, Len(s)) \in Text
      /\ Len(SubSeq(s, n + 1, Len(s))) = IF n + 1 <= Len(s) THEN Len(s) - (n + 1) + 1 ELSE 0
      /\ \A i \in 1 .. Len(s) - (n + 1) + 1 : SubSeq(s, n + 1, Len(s))[i] = s[n + 1 + i - 1]
  BY <1>1, SubSeqProperties DEF Text
<1>3. Len(s) - (n + 1) + 1 = Len(s) - n /\ \A i \in 1 .. Len(s) - n : n + 1 + i - 1 = n + i
  BY <1>1
<1>4. (IF n + 1 <= Len(s) THEN Len(s) - (n + 1) + 1 ELSE 0) = Len(s) - n
  BY <1>1
<1>5. QED
  BY <1>2, <1>3, <1>4 DEF Drop

LEMMA DropNone ==
  ASSUME NEW s \in Text
  PROVE  Drop(s, 0) = s /\ Drop(s, Len(s)) = <<>>
<1>1. Len(s) \in Nat
  BY LenProperties DEF Text
<1>2. SubSeq(s, 1, Len(s)) = s
  BY SubSeqFull DEF Text
<1>3. SubSeq(s, Len(s) + 1, Len(s)) = <<>>
  BY <1>1, SubSeqEmpty
<1>4. QED
  BY <1>2, <1>3 DEF Drop

LEMMA DropDrop ==
  ASSUME NEW s \in Text, NEW n \in 0 .. Len(s), NEW m \in 0 .. Len(s) - n
  PROVE  Drop(Drop(s, n), m) = Drop(s, n + m)
<1>1. Len(s) \in Nat /\ n \in Nat /\ m \in Nat /\ n + m \in 0 .. Len(s)
  BY LenProperties DEF Text
<1>2. PICK t \in Text, u \in Text, v \in Text :
        t = Drop(s, n) /\ u = Drop(t, m) /\ v = Drop(s, n + m)
  BY <1>1, DropIs
<1>3. Len(t) = Len(s) - n /\ \A i \in 1 .. Len(s) - n : t[i] = s[n + i]
  BY <1>2, DropIs
<1>4. Len(u) = Len(t) - m /\ \A i \in 1 .. Len(t) - m : u[i] = t[m + i]
  <2>1. m \in 0 .. Len(t)
    BY <1>3
  <2>2. QED
    BY <1>2, <2>1, DropIs
<1>5. Len(v) = Len(s) - (n + m) /\ \A i \in 1 .. Len(s) - (n + m) : v[i] = s[n + m + i]
  BY <1>1, <1>2, DropIs
<1>6. ASSUME NEW i \in 1 .. Len(u) PROVE u[i] = v[i]
  <2>1. i \in 1 .. Len(t) - m /\ m + i \in 1 .. Len(s) - n /\ i \in 1 .. Len(s) - (n + m)
        /\ n + (m + i) = n + m + i
    BY <1>1, <1>3, <1>4
  <2>2. u[i] = t[m + i]
    BY <1>4, <2>1
  <2>3. t[m + i] = s[n + (m + i)]
    BY <1>3, <2>1
  <2>4. v[i] = s[n + m + i]
    BY <1>5, <2>1
  <2>5. QED
    BY <2>1, <2>2, <2>3, <2>4
<1>7. Len(u) = Len(v)
  BY <1>1, <1>3, <1>4, <1>5
<1>8. QED
  BY <1>2, <1>6, <1>7, SeqEqual DEF Text

\* More bytes at the end leave what is taken from the beginning.
LEMMA DropLonger ==
  ASSUME NEW s \in Text, NEW z \in Text, NEW n \in 0 .. Len(s)
  PROVE  Drop(s \o z, n) = Drop(s, n) \o z
<1>1. Len(s) \in Nat /\ Len(z) \in Nat /\ n \in Nat
  BY LenProperties DEF Text
<1>2. PICK w \in Text : w = s \o z
  BY ConcatProperties DEF Text
<1>3. /\ Len(w) = Len(s) + Len(z)
      /\ \A i \in 1 .. Len(s) + Len(z) : w[i] = IF i <= Len(s) THEN s[i] ELSE z[i - Len(s)]
  BY <1>2, ConcatProperties DEF Text
<1>4. PICK t \in Text, u \in Text : t = Drop(s, n) /\ u = Drop(w, n)
  <2>1. n \in 0 .. Len(w)
    BY <1>1, <1>3
  <2>2. QED
    BY <2>1, DropIs
<1>5. Len(t) = Len(s) - n /\ \A i \in 1 .. Len(s) - n : t[i] = s[n + i]
  BY <1>4, DropIs
<1>6. Len(u) = Len(w) - n /\ \A i \in 1 .. Len(w) - n : u[i] = w[n + i]
  <2>1. n \in 0 .. Len(w)
    BY <1>1, <1>3
  <2>2. QED
    BY <1>4, <2>1, DropIs
<1>7. PICK v \in Text : v = t \o z
  BY <1>4, ConcatProperties DEF Text
<1>8. /\ Len(v) = Len(t) + Len(z)
      /\ \A i \in 1 .. Len(t) + Len(z) : v[i] = IF i <= Len(t) THEN t[i] ELSE z[i - Len(t)]
  BY <1>7, ConcatProperties DEF Text
<1>9. ASSUME NEW i \in 1 .. Len(u) PROVE u[i] = v[i]
  <2>1. /\ i \in 1 .. Len(w) - n /\ n + i \in 1 .. Len(s) + Len(z)
        /\ i \in 1 .. Len(t) + Len(z)
    BY <1>1, <1>3, <1>5, <1>6
  <2>2. u[i] = IF n + i <= Len(s) THEN s[n + i] ELSE z[n + i - Len(s)]
    BY <1>3, <1>6, <2>1
  <2>3. v[i] = IF i <= Len(t) THEN t[i] ELSE z[i - Len(t)]
    BY <1>8, <2>1
  <2>4. CASE i <= Len(t)
    <3>1. n + i <= Len(s) /\ i \in 1 .. Len(s) - n
      BY <1>1, <1>5, <2>1, <2>4
    <3>2. QED
      BY <1>5, <2>2, <2>3, <2>4, <3>1
  <2>5. CASE ~(i <= Len(t))
    <3>1. ~(n + i <= Len(s)) /\ n + i - Len(s) = i - Len(t)
      BY <1>1, <1>5, <2>1, <2>5
    <3>2. QED
      BY <2>2, <2>3, <2>5, <3>1
  <2>6. QED
    BY <2>4, <2>5
<1>10. Len(u) = Len(v)
  BY <1>1, <1>3, <1>5, <1>6, <1>8
<1>11. u = v
  BY <1>9, <1>10, SeqEqual DEF Text
<1>12. QED
  BY <1>2, <1>4, <1>7, <1>11

LEMMA TakeLonger ==
  ASSUME NEW s \in Text, NEW z \in Text, NEW m \in Nat \ {0}, NEW n \in Int, n <= Len(s)
  PROVE  SubSeq(s \o z, m, n) = SubSeq(s, m, n)
<1>1. Len(s) \in Nat
  BY LenProperties DEF Text
<1>2. CASE n < m
  BY <1>2, SubSeqEmpty
<1>3. CASE ~(n < m)
  <2>1. m \in 1 .. Len(s) /\ n \in 1 .. Len(s)
    BY <1>1, <1>3
  <2>2. QED
    BY <2>1, SubSeqOfConcat1 DEF Text
<1>4. QED
  BY <1>2, <1>3

-----------------------------------------------------------------------------
(* Lines. *)

LEMMA SeekIs ==
  ASSUME NEW s \in Text
  PROVE  /\ SeekNewline(s) = -1 \/ SeekNewline(s) \in 0 .. Len(s) - 2
         /\ SeekNewline(s) = -1 <=> ~\E i \in 1 .. Len(s) - 1 : s[i] = "cr" /\ s[i + 1] = "lf"
         /\ SeekNewline(s) # -1 =>
              /\ s[SeekNewline(s) + 1] = "cr" /\ s[SeekNewline(s) + 2] = "lf"
              /\ \A i \in 1 .. SeekNewline(s) : ~(s[i] = "cr" /\ s[i + 1] = "lf")
<1> DEFINE ends == {i \in 1 .. Len(s) - 1 : s[i] = "cr" /\ s[i + 1] = "lf"}
<1>1. Len(s) \in Nat
  BY LenProperties DEF Text
<1>2. CASE ends = {}
  BY <1>2 DEF SeekNewline
<1>3. CASE ends # {}
  <2>1. \E i \in ends : \A j \in ends : i <= j
    <3>1. ends \in SUBSET Nat
      OBVIOUS
    <3> HIDE DEF ends
    <3>2. QED
      BY <1>3, <3>1, LeastOne
  <2>2. PICK i : i = CHOOSE k \in ends : \A j \in ends : k <= j
    OBVIOUS
  <2>3. i \in ends /\ \A j \in ends : i <= j
    <3> HIDE DEF ends
    <3>1. QED
      BY <2>1, <2>2
  <2>4. SeekNewline(s) = i - 1
    BY <1>3, <2>2 DEF SeekNewline
  <2>5. i \in 1 .. Len(s) - 1 /\ s[i] = "cr" /\ s[i + 1] = "lf"
    BY <2>3
  <2>6. i - 1 \in 0 .. Len(s) - 2 /\ i - 1 # -1 /\ i - 1 + 1 = i /\ i - 1 + 2 = i + 1
    BY <1>1, <2>5
  <2>7. ASSUME NEW j \in 1 .. i - 1 PROVE ~(s[j] = "cr" /\ s[j + 1] = "lf")
    <3>1. j \in 1 .. Len(s) - 1 /\ ~(i <= j)
      BY <1>1, <2>5
    <3>2. j \notin ends
      BY <2>3, <3>1
    <3>3. QED
      BY <3>1, <3>2
  <2>8. QED
    BY <2>4, <2>5, <2>6, <2>7
<1>4. QED
  BY <1>2, <1>3

\* A line that has ended does not change when more comes.
LEMMA SeekLonger ==
  ASSUME NEW s \in Text, NEW z \in Text, SeekNewline(s) # -1
  PROVE  SeekNewline(s \o z) = SeekNewline(s)
<1>1. Len(s) \in Nat /\ Len(z) \in Nat
  BY LenProperties DEF Text
<1>2. PICK w \in Text : w = s \o z
  BY ConcatProperties DEF Text
<1>3. Len(w) = Len(s) + Len(z) /\ \A i \in 1 .. Len(s) : w[i] = s[i]
  <2>1. /\ Len(w) = Len(s) + Len(z)
        /\ \A i \in 1 .. Len(s) + Len(z) : w[i] = IF i <= Len(s) THEN s[i] ELSE z[i - Len(s)]
    BY <1>2, ConcatProperties DEF Text
  <2>2. QED
    BY <1>1, <2>1
<1>4. PICK k \in 0 .. Len(s) - 2 : k = SeekNewline(s)
  BY SeekIs
<1>5. /\ s[k + 1] = "cr" /\ s[k + 2] = "lf"
      /\ \A i \in 1 .. k : ~(s[i] = "cr" /\ s[i + 1] = "lf")
  BY <1>4, SeekIs
<1>6. /\ k + 1 \in 1 .. Len(s) /\ k + 2 \in 1 .. Len(s) /\ k + 1 \in 1 .. Len(w) - 1
      /\ k + 1 + 1 = k + 2
  BY <1>1, <1>3, <1>4
<1>7. w[k + 1] = "cr" /\ w[k + 1 + 1] = "lf"
  BY <1>3, <1>5, <1>6
<1>8. SeekNewline(w) # -1
  BY <1>6, <1>7, SeekIs
<1>9. PICK j \in 0 .. Len(w) - 2 : j = SeekNewline(w)
  BY <1>8, SeekIs
<1>10. /\ w[j + 1] = "cr" /\ w[j + 2] = "lf"
       /\ \A i \in 1 .. j : ~(w[i] = "cr" /\ w[i + 1] = "lf")
  BY <1>8, <1>9, SeekIs
<1>11. ~(k < j)
  <2>1. ASSUME k < j PROVE FALSE
    <3>1. k + 1 \in 1 .. j
      BY <1>4, <1>9, <2>1
    <3>2. QED
      BY <1>7, <1>10, <3>1
  <2>2. QED
    BY <2>1
<1>12. ~(j < k)
  <2>1. ASSUME j < k PROVE FALSE
    <3>1. /\ j + 1 \in 1 .. k /\ j + 1 \in 1 .. Len(s) /\ j + 2 \in 1 .. Len(s)
          /\ j + 1 + 1 = j + 2
      BY <1>1, <1>4, <1>9, <2>1
    <3>2. s[j + 1] = "cr" /\ s[j + 2] = "lf"
      BY <1>3, <1>10, <3>1
    <3>3. QED
      BY <1>5, <3>1, <3>2
  <2>2. QED
    BY <2>1
<1>13. j = k
  BY <1>4, <1>9, <1>11, <1>12
<1>14. QED
  BY <1>2, <1>4, <1>9, <1>13

-----------------------------------------------------------------------------
(* Numbers. *)

\* g goes from b through n steps of F.
Steps(g, n, F, b) == g = [i \in 0 .. n |-> IF i = 0 THEN b ELSE F[<<g[i - 1], i>>]]

\* There is such a function.
LEMMA StepsExist ==
  ASSUME NEW n \in Nat, NEW A, NEW F \in [A \X (1 .. n) -> A], NEW b \in A
  PROVE  \E g \in [0 .. n -> A] : Steps(g, n, F, b)
<1> DEFINE Bad == {m \in 0 .. n : ~\E g \in [0 .. m -> A] : Steps(g, m, F, b)}
<1>1. SUFFICES Bad = {}
  <2>1. n \in 0 .. n
    OBVIOUS
  <2>2. QED
    BY <2>1
<1>2. SUFFICES ASSUME Bad # {} PROVE FALSE
  OBVIOUS
<1>3. PICK m \in Bad : \A k \in Bad : m <= k
  <2>1. Bad \in SUBSET Nat
    OBVIOUS
  <2> HIDE DEF Bad
  <2>2. QED
    BY <1>2, <2>1, LeastOne
<1>4. m \in 0 .. n /\ ~\E g \in [0 .. m -> A] : Steps(g, m, F, b)
  OBVIOUS
<1>5. CASE m = 0
  <2> DEFINE g == [i \in 0 .. 0 |-> b]
  <2>1. g \in [0 .. m -> A]
    BY <1>5
  <2>2. \A i \in 0 .. m : g[i] = IF i = 0 THEN b ELSE F[<<g[i - 1], i>>]
    BY <1>5
  <2>3. g = [i \in 0 .. m |-> g[i]]
    BY <1>5
  <2> HIDE DEF g
  <2>4. Steps(g, m, F, b)
    BY <2>2, <2>3 DEF Steps
  <2>5. QED
    BY <1>4, <2>1, <2>4
<1>6. CASE m # 0
  <2>1. m - 1 \in 0 .. n /\ ~(m <= m - 1) /\ m \in 1 .. n
    BY <1>4, <1>6
  <2>2. PICK f \in [0 .. m - 1 -> A] : Steps(f, m - 1, F, b)
    BY <1>3, <2>1
  <2>3. \A i \in 0 .. m - 1 : f[i] = IF i = 0 THEN b ELSE F[<<f[i - 1], i>>]
    BY <2>2 DEF Steps
  <2> DEFINE g == [i \in 0 .. m |-> IF i = m THEN F[<<f[m - 1], m>>] ELSE f[i]]
  <2>4. g \in [0 .. m -> A]
    <3>1. m - 1 \in 0 .. m - 1
      BY <2>1
    <3>2. f[m - 1] \in A
      BY <3>1
    <3>3. <<f[m - 1], m>> \in A \X (1 .. n)
      BY <2>1, <3>2
    <3>4. F[<<f[m - 1], m>>] \in A
      BY <3>3
    <3>5. \A i \in 0 .. m : i # m => f[i] \in A
      BY <2>1
    <3>6. QED
      BY <3>4, <3>5
  <2>5. ASSUME NEW i \in 0 .. m PROVE g[i] = IF i = 0 THEN b ELSE F[<<g[i - 1], i>>]
    <3>1. CASE i = m
      <4>1. g[i] = F[<<f[m - 1], m>>] /\ g[m - 1] = f[m - 1] /\ i # 0
        BY <1>6, <2>1, <3>1
      <4>2. QED
        BY <3>1, <4>1
    <3>2. CASE i # m
      <4>1. i \in 0 .. m - 1 /\ g[i] = f[i] /\ (i # 0 => i - 1 \in 0 .. m /\ i - 1 # m)
        BY <2>1, <3>2
      <4>2. i # 0 => g[i - 1] = f[i - 1]
        BY <4>1
      <4> HIDE DEF g
      <4>3. QED
        BY <2>3, <4>1, <4>2
    <3>3. QED
      BY <3>1, <3>2
  <2>6. g = [i \in 0 .. m |-> g[i]]
    OBVIOUS
  <2> HIDE DEF g
  <2>7. Steps(g, m, F, b)
    BY <2>5, <2>6 DEF Steps
  <2>8. QED
    BY <1>4, <2>4, <2>7
<1>7. QED
  BY <1>5, <1>6

LEMMA DigitIs ==
  ASSUME NEW ch \in ToSet(Digits)
  PROVE  Digit(ch) \in 0 .. 9
<1>1. \E i \in 1 .. 10 : Digits[i] = ch
  BY DEF ToSet, Digits
<1>2. (CHOOSE i \in 1 .. 10 : Digits[i] = ch) \in 1 .. 10
  BY <1>1
<1>3. PICK i \in 1 .. 10 : i = CHOOSE j \in 1 .. 10 : Digits[j] = ch
  BY <1>2
<1>4. Digit(ch) = i - 1
  BY <1>3 DEF Digit
<1>5. QED
  BY <1>4

\* string2ll gives a number.
LEMMA String2llIs ==
  ASSUME NEW s \in Text
  PROVE  String2ll(s).n \in Int
<1> DEFINE UllongMax == 2 * LlongMax + 1
           negative == s # <<>> /\ Head(s) = "-"
           p == IF negative THEN Tail(s) ELSE s
           isNumber == p # <<>> /\ ToSet(p) \subseteq ToSet(Digits) /\ Head(p) # "0"
           AddDigit(n, ch) ==
             IF n = -1 \/ n > UllongMax \div 10 \/ n * 10 > UllongMax - Digit(ch) THEN -1
             ELSE n * 10 + Digit(ch)
           Goes(g) == g = [i \in 0 .. Len(p) |-> IF i = 0 THEN 0 ELSE AddDigit(g[i - 1], p[i])]
<1>1. p \in Text
  BY HeadTailProperties DEF Text
<1>2. Len(p) \in Nat /\ DOMAIN p = 1 .. Len(p)
  BY <1>1, LenProperties DEF Text
<1>3. PICK v : v = CHOOSE g : Goes(g)
  OBVIOUS
<1>4. String2ll(s) =
        IF s = <<"0">> THEN [ok |-> TRUE, n |-> 0]
        ELSE IF ~isNumber THEN [ok |-> FALSE, n |-> 0]
        ELSE IF v[Len(p)] = -1 THEN [ok |-> FALSE, n |-> 0]
        ELSE IF negative THEN [ok |-> v[Len(p)] <= LlongMax + 1, n |-> -v[Len(p)]]
        ELSE [ok |-> v[Len(p)] <= LlongMax, n |-> v[Len(p)]]
  BY <1>3 DEF String2ll
<1>5. ASSUME isNumber PROVE v[Len(p)] \in Int
  <2>1. LlongMax \in Nat
    BY RedisClientAssumption
  <2>2. \A i \in 1 .. Len(p) : Digit(p[i]) \in 0 .. 9
    <3>1. TAKE i \in 1 .. Len(p)
    <3>2. p[i] \in ToSet(p)
      BY <1>2 DEF ToSet
    <3> HIDE DEF p
    <3>3. QED
      BY <1>5, <3>2, DigitIs
  <2> HIDE DEF p
  <2>3. \A n \in Int, i \in 1 .. Len(p) : AddDigit(n, p[i]) \in Int
    BY <2>1, <2>2
  <2> HIDE DEF AddDigit
  <2> DEFINE F == [x \in Int \X (1 .. Len(p)) |-> AddDigit(x[1], p[x[2]])]
  <2>4. F \in [Int \X (1 .. Len(p)) -> Int]
    BY <2>3
  <2>5. \A n \in Int, i \in 1 .. Len(p) : F[<<n, i>>] = AddDigit(n, p[i])
    OBVIOUS
  <2> HIDE DEF F
  <2>6. PICK g \in [0 .. Len(p) -> Int] : Steps(g, Len(p), F, 0)
    <3>1. 0 \in Int
      OBVIOUS
    <3>2. QED
      BY <1>2, <2>4, <3>1, StepsExist
  <2>7. ASSUME NEW i \in 0 .. Len(p)
        PROVE  g[i] = IF i = 0 THEN 0 ELSE AddDigit(g[i - 1], p[i])
    <3>1. g[i] = IF i = 0 THEN 0 ELSE F[<<g[i - 1], i>>]
      BY <2>6 DEF Steps
    <3>2. i # 0 => i - 1 \in 0 .. Len(p) /\ i \in 1 .. Len(p)
      BY <1>2
    <3>3. QED
      BY <2>5, <3>1, <3>2
  <2>8. g = [i \in 0 .. Len(p) |-> g[i]]
    OBVIOUS
  <2>9. Goes(g)
    BY <2>7, <2>8
  <2>10. Goes(v)
    BY <1>3, <2>9
  <2>11. \A i \in 0 .. Len(p) : v[i] = IF i = 0 THEN 0 ELSE AddDigit(v[i - 1], p[i])
    BY <2>10
  <2> HIDE DEF Goes
  <2> DEFINE Bad == {i \in 0 .. Len(p) : v[i] \notin Int}
  <2>12. Bad = {}
    <3>1. SUFFICES ASSUME Bad # {} PROVE FALSE
      OBVIOUS
    <3>2. PICK i \in Bad : \A k \in Bad : i <= k
      <4>1. Bad \in SUBSET Nat
        OBVIOUS
      <4> HIDE DEF Bad
      <4>2. QED
        BY <3>1, <4>1, LeastOne
    <3>3. i # 0
      BY <2>11
    <3>4. i - 1 \in 0 .. Len(p) /\ i \in 1 .. Len(p) /\ ~(i <= i - 1)
      BY <1>2, <3>3
    <3>5. v[i - 1] \in Int
      BY <3>2, <3>4
    <3>6. v[i] \in Int
      BY <2>3, <2>11, <3>3, <3>4, <3>5
    <3>7. QED
      BY <3>6
  <2>13. QED
    BY <1>2, <2>12
<1> HIDE DEF isNumber, negative, p
<1>6. QED
  BY <1>4, <1>5

-----------------------------------------------------------------------------
(* The stack of tasks. *)

Types == {"none", "error", "status", "integer", "string", "array"}
TaskType == [type : Types, elements : Int, idx : Int]

\* Each task but the last is an array, and the next is that of one of its elements.
StackOK(s) ==
  /\ s \in Seq(TaskType) /\ Len(s) <= MaxDepth + 1
  /\ \A k \in 2 .. Len(s) :
       s[k - 1].type = "array" /\ s[k].idx \in 0 .. s[k - 1].elements - 1

LEMMA LastIs ==
  ASSUME NEW s, StackOK(s), s # <<>>
  PROVE  Len(s) \in Nat \ {0} /\ Last(s) = s[Len(s)] /\ Last(s) \in TaskType
BY EmptySeq, ElementOfSeq, LenProperties DEF StackOK, Last

\* The last task of a stack replaced.
LEMMA StackEnd ==
  ASSUME NEW s, StackOK(s), NEW n \in 1 .. Len(s), NEW t \in TaskType,
         n > 1 => t.idx \in 0 .. s[n - 1].elements - 1
  PROVE  /\ StackOK([SubSeq(s, 1, n) EXCEPT ![n] = t])
         /\ Len([SubSeq(s, 1, n) EXCEPT ![n] = t]) = n
         /\ [SubSeq(s, 1, n) EXCEPT ![n] = t][n] = t
         /\ n > 1 => s[n - 1].type = "array"
<1>1. /\ s \in Seq(TaskType) /\ Len(s) \in Nat /\ Len(s) <= MaxDepth + 1
      /\ \A k \in 2 .. Len(s) :
           s[k - 1].type = "array" /\ s[k].idx \in 0 .. s[k - 1].elements - 1
  BY LenProperties DEF StackOK
<1>2. PICK a : a = SubSeq(s, 1, n)
  OBVIOUS
<1>3. a \in Seq(TaskType) /\ Len(a) = n /\ \A k \in 1 .. n : a[k] = s[k]
  <2>1. \A i \in 1 .. n : s[i] \in TaskType
    BY <1>1, ElementOfSeq
  <2>2. /\ SubSeq(s, 1, n) \in Seq(TaskType)
        /\ Len(SubSeq(s, 1, n)) = IF 1 <= n THEN n - 1 + 1 ELSE 0
        /\ \A i \in 1 .. n - 1 + 1 : SubSeq(s, 1, n)[i] = s[1 + i - 1]
    BY <1>1, <2>1, SubSeqProperties
  <2>3. n - 1 + 1 = n /\ 1 <= n /\ \A i \in 1 .. n : 1 + i - 1 = i
    BY <1>1
  <2>4. QED
    BY <1>2, <2>2, <2>3
<1>4. PICK b : b = [a EXCEPT ![n] = t]
  OBVIOUS
<1>5. /\ b \in Seq(TaskType) /\ Len(b) = n
      /\ \A k \in 1 .. n : b[k] = IF k = n THEN t ELSE a[k]
  <2>1. n \in 1 .. Len(a)
    BY <1>1, <1>3
  <2>2. QED
    BY <1>3, <1>4, <2>1, ExceptSeq
<1>6. b[n] = t /\ \A k \in 1 .. n : k # n => b[k] = s[k]
  BY <1>1, <1>3, <1>5
<1>7. ASSUME NEW k \in 2 .. n
      PROVE  b[k - 1].type = "array" /\ b[k].idx \in 0 .. b[k - 1].elements - 1
  <2>1. k \in 2 .. Len(s) /\ k - 1 \in 1 .. n /\ k - 1 # n /\ k \in 1 .. n
    BY <1>1
  <2>2. b[k - 1] = s[k - 1] /\ s[k - 1].type = "array"
    BY <1>1, <1>6, <2>1
  <2>3. CASE k = n
    BY <1>6, <2>1, <2>2, <2>3
  <2>4. CASE k # n
    BY <1>1, <1>6, <2>1, <2>2, <2>4
  <2>5. QED
    BY <2>3, <2>4
<1>8. StackOK(b)
  <2>1. n <= MaxDepth + 1
    BY <1>1, RedisClientAssumption
  <2>2. QED
    BY <1>5, <1>7, <2>1 DEF StackOK
<1>9. n > 1 => s[n - 1].type = "array"
  BY <1>1
<1>10. QED
  BY <1>2, <1>4, <1>5, <1>6, <1>8, <1>9

LEMMA NoStack == StackOK(<<>>) /\ StackOK(<<Task(-1)>>) /\ Task(-1) \in TaskType
<1>1. Task(-1) \in TaskType
  BY DEF Task, TaskType, Types
<1>2. <<Task(-1)>> \in Seq(TaskType) /\ Len(<<Task(-1)>>) = 1
  BY <1>1
<1>3. <<>> \in Seq(TaskType) /\ Len(<<>>) = 0
  BY EmptySeq
<1>4. QED
  BY <1>1, <1>2, <1>3, RedisClientAssumption DEF StackOK

\* moveToNextTask leaves a stack.
LEMMA MoveIs ==
  ASSUME NEW s, StackOK(s)
  PROVE  StackOK(MoveToNextTask(s))
<1> DEFINE open == {k \in 2 .. Len(s) : s[k].idx # s[k - 1].elements - 1}
<1>1. s \in Seq(TaskType) /\ Len(s) \in Nat
  BY LenProperties DEF StackOK
<1>2. CASE open = {}
  BY <1>2, NoStack DEF MoveToNextTask
<1>3. CASE open # {}
  <2>1. \E k \in open : \A j \in open : j <= k
    <3> DEFINE T == {Len(s) - k : k \in open}
    <3>1. T \in SUBSET Nat /\ T # {}
      BY <1>1, <1>3
    <3>2. PICK m \in T : \A n \in T : m <= n
      <4> HIDE DEF T
      <4>1. QED
        BY <3>1, LeastOne
    <3>3. PICK k \in open : m = Len(s) - k
      OBVIOUS
    <3>4. \A j \in open : Len(s) - k <= Len(s) - j
      BY <3>2, <3>3
    <3>5. \A j \in open : j <= k
      <4>1. TAKE j \in open
      <4>2. j \in Int /\ k \in Int /\ Len(s) - k <= Len(s) - j
        BY <3>4
      <4>3. QED
        BY <1>1, <4>2
    <3>6. QED
      BY <3>5
  <2>2. PICK n : n = CHOOSE k \in open : \A j \in open : j <= k
    OBVIOUS
  <2>3. n \in open
    <3> HIDE DEF open
    <3>1. QED
      BY <2>1, <2>2
  <2>4. MoveToNextTask(s) = [SubSeq(s, 1, n) EXCEPT ![n] = Task(s[n].idx + 1)]
    BY <1>3, <2>2 DEF MoveToNextTask
  <2>5. /\ n \in 2 .. Len(s) /\ s[n].idx # s[n - 1].elements - 1
        /\ s[n].idx \in 0 .. s[n - 1].elements - 1
    BY <2>3 DEF StackOK
  <2>6. n \in 1 .. Len(s) /\ n - 1 \in 1 .. Len(s)
    BY <1>1, <2>5
  <2>7. s[n - 1].elements \in Int /\ s[n].idx \in Int
    <3>1. s[n - 1] \in TaskType /\ s[n] \in TaskType
      BY <1>1, <2>6, ElementOfSeq
    <3>2. QED
      BY <3>1 DEF TaskType
  <2>8. s[n].idx + 1 \in 0 .. s[n - 1].elements - 1
    BY <2>5, <2>7
  <2>9. PICK t : t = Task(s[n].idx + 1)
    OBVIOUS
  <2>10. t \in TaskType /\ t.idx = s[n].idx + 1
    BY <2>7, <2>9 DEF Task, TaskType, Types
  <2>11. StackOK([SubSeq(s, 1, n) EXCEPT ![n] = t])
    BY <2>6, <2>8, <2>10, StackEnd
  <2>12. QED
    BY <2>4, <2>9, <2>11
<1>4. QED
  BY <1>2, <1>3

-----------------------------------------------------------------------------
(* One item, and the same item with more bytes behind it. *)

IsReader(r) ==
  /\ r = [buf |-> r.buf, pos |-> r.pos, err |-> r.err, rstack |-> r.rstack, reply |-> r.reply]
  /\ r.buf \in Text /\ r.pos \in 0 .. Len(r.buf) /\ r.err \in BOOLEAN /\ StackOK(r.rstack)

\* q is where r is, with the bytes z behind those of r.
Longer(r, q, z) ==
  /\ IsReader(r) /\ IsReader(q) /\ z \in Text
  /\ q.rstack = r.rstack /\ q.reply = r.reply /\ Rest(q) = Rest(r) \o z

\* r takes n bytes more; reply and tasks become t and st.
Takes(r, n, t, st) == Ok([r EXCEPT !.pos = @ + n, !.reply = t, !.rstack = st])

\* What r makes of its bytes, p, unless it needs more, is what q makes of them, w.
Does(r, q, p, w) ==
  \/ p = More(r)
  \/ p = SetError(r) /\ w = SetError(q)
  \/ \E n \in 1 .. Len(Rest(r)) : \E t, st :
       StackOK(st) /\ p = Takes(r, n, t, st) /\ w = Takes(q, n, t, st)

LEMMA RestIs ==
  ASSUME NEW r, IsReader(r)
  PROVE  /\ Rest(r) = Drop(r.buf, r.pos) /\ Rest(r) \in Text
         /\ Len(Rest(r)) = Len(r.buf) - r.pos /\ Len(r.buf) \in Nat
BY DropIs, LenProperties DEF Rest, Drop, IsReader, Text

\* The line r starts with, and q too.
LEMMA LineLonger ==
  ASSUME NEW r, NEW q, NEW z, Longer(r, q, z), LineEnded(r)
  PROVE  /\ LineEnded(q) /\ Line(q) = Line(r) /\ Line(r) \in Text
         /\ Len(Line(r)) \in Nat /\ Len(Line(r)) + 2 <= Len(Rest(r))
<1>1. Rest(r) \in Text /\ z \in Text /\ Rest(q) = Rest(r) \o z /\ SeekNewline(Rest(r)) # -1
  BY RestIs DEF Longer, LineEnded
<1>2. PICK s \in Text : s = Rest(r)
  BY <1>1
<1>3. SeekNewline(s \o z) = SeekNewline(s) /\ SeekNewline(s) \in 0 .. Len(s) - 2
  BY <1>1, <1>2, SeekLonger, SeekIs
<1>4. PICK n : n = SeekNewline(s)
  OBVIOUS
<1>5. Len(s) \in Nat /\ n \in Int /\ n <= Len(s) /\ n \in 0 .. Len(s) - 2
  BY <1>3, <1>4, LenProperties DEF Text
<1>6. SubSeq(s \o z, 1, n) = SubSeq(s, 1, n)
  BY <1>1, <1>5, TakeLonger
<1>7. SubSeq(s, 1, n) \in Text /\ Len(SubSeq(s, 1, n)) = n
  <2>1. \A i \in 1 .. n : s[i] \in STRING
    BY <1>5, ElementOfSeq DEF Text
  <2>2. SubSeq(s, 1, n) \in Text /\ Len(SubSeq(s, 1, n)) = IF 1 <= n THEN n - 1 + 1 ELSE 0
    BY <1>5, <2>1, SubSeqProperties DEF Text
  <2>3. QED
    BY <1>5, <2>2
<1>8. QED
  BY <1>1, <1>2, <1>3, <1>4, <1>5, <1>6, <1>7 DEF Line, LineEnded

\* An item without elements is complete.
LEMMA CompleteDoes ==
  ASSUME NEW r, NEW q, NEW z, Longer(r, q, z), NEW n \in 1 .. Len(Rest(r)), NEW obj
  PROVE  Does(r, q, Complete(r, n, obj), Complete(q, n, obj))
<1> DEFINE t == Attach(r.reply, Path(r.rstack), obj)
           st == MoveToNextTask(r.rstack)
<1>1. Complete(r, n, obj) = Takes(r, n, t, st) /\ Complete(q, n, obj) = Takes(q, n, t, st)
  BY DEF Complete, Takes, Longer, IsReader
<1>2. StackOK(st)
  BY MoveIs DEF Longer, IsReader
<1> HIDE DEF t, st
<1>3. QED
  BY <1>1, <1>2 DEF Does

LEMMA LineDoes ==
  ASSUME NEW r, NEW q, NEW z, Longer(r, q, z)
  PROVE  Does(r, q, ProcessLineItem(r), ProcessLineItem(q))
<1>1. CASE ~LineEnded(r)
  BY <1>1 DEF ProcessLineItem, Does
<1>2. CASE LineEnded(r)
  <2>1. /\ LineEnded(q) /\ Line(q) = Line(r) /\ Len(Line(r)) \in Nat
        /\ Len(Line(r)) + 2 <= Len(Rest(r))
    BY <1>2, LineLonger
  <2>2. Last(q.rstack).type = Last(r.rstack).type
    BY DEF Longer
  <2>3. Len(Rest(r)) \in Nat
    BY RestIs, LenProperties DEF Longer, Text
  <2>4. PICK n : n = Len(Line(r)) + 2
    OBVIOUS
  <2>5. n \in 1 .. Len(Rest(r))
    BY <2>1, <2>3, <2>4
  <2>6. CASE Last(r.rstack).type # "integer"
    <3>1. PICK obj : obj = [Node(Last(r.rstack).type) EXCEPT !.str = Line(r)]
      OBVIOUS
    <3>2. ProcessLineItem(r) = Complete(r, n, obj) /\ ProcessLineItem(q) = Complete(q, n, obj)
      BY <1>2, <2>1, <2>2, <2>4, <2>6, <3>1 DEF ProcessLineItem
    <3>3. QED
      BY <2>5, <3>2, CompleteDoes
  <2>7. CASE Last(r.rstack).type = "integer" /\ String2ll(Line(r)).ok
    <3>1. PICK obj : obj = [Node(Last(r.rstack).type) EXCEPT !.integer = String2ll(Line(r)).n]
      OBVIOUS
    <3>2. ProcessLineItem(r) = Complete(r, n, obj) /\ ProcessLineItem(q) = Complete(q, n, obj)
      BY <1>2, <2>1, <2>2, <2>4, <2>7, <3>1 DEF ProcessLineItem
    <3>3. QED
      BY <2>5, <3>2, CompleteDoes
  <2>8. CASE Last(r.rstack).type = "integer" /\ ~String2ll(Line(r)).ok
    <3>1. ProcessLineItem(r) = SetError(r) /\ ProcessLineItem(q) = SetError(q)
      BY <1>2, <2>1, <2>2, <2>8 DEF ProcessLineItem
    <3>2. QED
      BY <3>1 DEF Does
  <2>9. QED
    BY <2>6, <2>7, <2>8
<1>3. QED
  BY <1>1, <1>2

LEMMA BulkDoes ==
  ASSUME NEW r, NEW q, NEW z, Longer(r, q, z)
  PROVE  Does(r, q, ProcessBulkItem(r), ProcessBulkItem(q))
<1>1. CASE ~LineEnded(r)
  BY <1>1 DEF ProcessBulkItem, Does
<1>2. CASE LineEnded(r)
  <2>1. /\ LineEnded(q) /\ Line(q) = Line(r) /\ Len(Line(r)) \in Nat /\ Line(r) \in Text
        /\ Len(Line(r)) + 2 <= Len(Rest(r))
    BY <1>2, LineLonger
  <2>2. PICK len : len = String2ll(Line(r))
    OBVIOUS
  <2>3. len.n \in Int
    BY <2>1, <2>2, String2llIs
  <2>4. /\ Len(Rest(r)) \in Nat /\ Rest(r) \in Text /\ Len(Rest(r)) = Len(r.buf) - r.pos
        /\ Len(r.buf) \in Nat /\ r.pos \in Nat
    <3>1. IsReader(r)
      BY DEF Longer
    <3>2. r.pos \in Nat /\ Len(Rest(r)) \in Nat
      BY <3>1, RestIs, LenProperties DEF IsReader, Text
    <3>3. QED
      BY <3>1, <3>2, RestIs
  <2>5. /\ Len(Rest(q)) = Len(q.buf) - q.pos /\ Len(q.buf) \in Nat /\ q.pos \in Nat
        /\ Rest(q) = Rest(r) \o z /\ z \in Text
        /\ Len(Rest(q)) = Len(Rest(r)) + Len(z) /\ Len(z) \in Nat
    <3>1. IsReader(q) /\ z \in Text /\ Rest(q) = Rest(r) \o z
      BY DEF Longer
    <3>2. q.pos \in Nat /\ Len(z) \in Nat
      BY <3>1, LenProperties DEF IsReader, Text
    <3>3. Len(Rest(q)) = Len(Rest(r)) + Len(z)
      BY <2>4, <3>1, ConcatProperties DEF Text
    <3>4. QED
      BY <3>1, <3>2, <3>3, RestIs
  <2>6. PICK head, size : head = Len(Line(r)) + 2 /\ size = head + len.n + 2
    OBVIOUS
  <2>7. head \in 2 .. Len(Rest(r)) /\ size \in Int
    BY <2>1, <2>3, <2>4, <2>6
  <2>8. CASE ~len.ok \/ len.n < -1
    <3>1. ProcessBulkItem(r) = SetError(r) /\ ProcessBulkItem(q) = SetError(q)
      BY <1>2, <2>1, <2>2, <2>8 DEF ProcessBulkItem
    <3>2. QED
      BY <3>1 DEF Does
  <2>9. CASE ~(~len.ok \/ len.n < -1) /\ len.n = -1
    <3>1. /\ ProcessBulkItem(r) = Complete(r, head, Node("nil"))
          /\ ProcessBulkItem(q) = Complete(q, head, Node("nil"))
      BY <1>2, <2>1, <2>2, <2>6, <2>9 DEF ProcessBulkItem
    <3>2. head \in 1 .. Len(Rest(r))
      BY <2>4, <2>7
    <3>3. QED
      BY <3>1, <3>2, CompleteDoes
  <2>10. CASE ~(~len.ok \/ len.n < -1) /\ len.n # -1 /\ r.pos + size > Len(r.buf)
    <3>1. ProcessBulkItem(r) = More(r)
      BY <1>2, <2>1, <2>2, <2>6, <2>10 DEF ProcessBulkItem
    <3>2. QED
      BY <3>1 DEF Does
  <2>11. CASE ~(~len.ok \/ len.n < -1) /\ len.n # -1 /\ ~(r.pos + size > Len(r.buf))
    <3>1. size \in 1 .. Len(Rest(r)) /\ ~(q.pos + size > Len(q.buf))
      <4>1. size \in Int /\ 1 <= size
        BY <2>3, <2>4, <2>6, <2>7, <2>11
      <4>2. PICK a \in Nat, b \in Nat, d \in Nat, e \in Nat :
              a = r.pos /\ b = Len(r.buf) /\ d = q.pos /\ e = Len(q.buf)
        BY <2>4, <2>5
      <4>3. Len(Rest(r)) = b - a /\ e - d = b - a + Len(z) /\ ~(a + size > b)
        BY <2>4, <2>5, <2>11, <4>2
      <4>4. size <= Len(Rest(r)) /\ ~(d + size > e)
        <5>1. PICK k \in Nat, l \in Int : k = Len(z) /\ l = size
          BY <2>5, <4>1
        <5>2. e - d = b - a + k /\ ~(a + l > b) /\ Len(Rest(r)) = b - a
          BY <4>3, <5>1
        <5>3. l <= b - a /\ ~(d + l > e)
          BY <5>2
        <5>4. QED
          BY <5>1, <5>2, <5>3
      <4>5. QED
        BY <2>4, <4>1, <4>2, <4>4
    <3>2. SubSeq(Rest(q), head + 1, size - 2) = SubSeq(Rest(r), head + 1, size - 2)
      <4>1. head + 1 \in Nat \ {0} /\ size - 2 \in Int /\ size - 2 <= Len(Rest(r))
        BY <2>4, <2>7, <3>1
      <4>2. PICK s \in Text, m \in Nat \ {0}, n \in Int :
              s = Rest(r) /\ m = head + 1 /\ n = size - 2
        BY <2>4, <4>1
      <4>3. SubSeq(s \o z, m, n) = SubSeq(s, m, n)
        BY <2>5, <4>1, <4>2, TakeLonger
      <4>4. QED
        BY <2>5, <4>2, <4>3
    <3>3. PICK obj : obj = [Node("string") EXCEPT !.str = SubSeq(Rest(r), head + 1, size - 2)]
      OBVIOUS
    <3>4. ProcessBulkItem(r) = Complete(r, size, obj)
      BY <1>2, <2>1, <2>2, <2>6, <2>11, <3>3 DEF ProcessBulkItem
    <3>5. ProcessBulkItem(q) = Complete(q, size, obj)
      BY <1>2, <2>1, <2>2, <2>6, <2>11, <3>1, <3>2, <3>3 DEF ProcessBulkItem
    <3>6. QED
      BY <3>1, <3>4, <3>5, CompleteDoes
  <2>12. QED
    BY <2>8, <2>9, <2>10, <2>11
<1>3. QED
  BY <1>1, <1>2

\* An array begins: one task more.
LEMMA PushIs ==
  ASSUME NEW s, StackOK(s), s # <<>>, Last(s).type = "array", Len(s) # MaxDepth + 1,
         NEW n \in Nat \ {0}
  PROVE  StackOK(Append([s EXCEPT ![Len(s)].elements = n], Task(0)))
<1>1. Len(s) \in Nat \ {0} /\ s[Len(s)] \in TaskType /\ Last(s) = s[Len(s)]
  BY LastIs
<1>2. PICK m \in Nat \ {0} : m = Len(s)
  BY <1>1
<1>3. PICK t : t = [s[m] EXCEPT !.elements = n]
  OBVIOUS
<1>4. t \in TaskType /\ t.type = "array" /\ t.idx = s[m].idx /\ t.elements = n
  BY <1>1, <1>2, <1>3 DEF TaskType
<1>5. s \in Seq(TaskType) /\ SubSeq(s, 1, m) = s /\ DOMAIN s = 1 .. m
  BY <1>2, SubSeqFull, LenProperties DEF StackOK
<1>6. PICK e : e = [s EXCEPT ![m] = t]
  OBVIOUS
<1>7. StackOK(e) /\ Len(e) = m /\ e[m] = t
  <2>1. m > 1 => s[m].idx \in 0 .. s[m - 1].elements - 1
    BY <1>2 DEF StackOK
  <2>2. m \in 1 .. Len(s)
    BY <1>2
  <2>3. /\ StackOK([SubSeq(s, 1, m) EXCEPT ![m] = t])
        /\ Len([SubSeq(s, 1, m) EXCEPT ![m] = t]) = m
        /\ [SubSeq(s, 1, m) EXCEPT ![m] = t][m] = t
    BY <1>4, <2>1, <2>2, StackEnd
  <2>4. QED
    BY <1>5, <1>6, <2>3
<1>8. [s EXCEPT ![Len(s)].elements = n] = e
  BY <1>2, <1>3, <1>5, <1>6
<1>9. PICK a, u : u = Task(0) /\ a = Append(e, u)
  OBVIOUS
<1>10. u \in TaskType /\ u.idx = 0
  BY <1>9 DEF Task, TaskType, Types
<1>11. e \in Seq(TaskType) /\ m <= MaxDepth + 1
  BY <1>7 DEF StackOK
<1>12. /\ a \in Seq(TaskType) /\ Len(a) = m + 1 /\ a[m + 1] = u
       /\ \A i \in 1 .. m : a[i] = e[i]
  BY <1>7, <1>9, <1>10, <1>11, AppendProperties
<1>13. m + 1 <= MaxDepth + 1
  BY <1>2, <1>11, RedisClientAssumption
<1>14. ASSUME NEW k \in 2 .. m + 1
       PROVE  a[k - 1].type = "array" /\ a[k].idx \in 0 .. a[k - 1].elements - 1
  <2>1. CASE k = m + 1
    <3>1. k - 1 = m /\ m \in 1 .. m
      BY <1>2, <2>1
    <3>2. a[k - 1] = t /\ a[k] = u
      BY <1>7, <1>12, <2>1, <3>1
    <3>3. 0 \in 0 .. n - 1
      OBVIOUS
    <3>4. QED
      BY <1>4, <1>10, <3>2, <3>3
  <2>2. CASE k # m + 1
    <3>1. k \in 2 .. m /\ k \in 1 .. m /\ k - 1 \in 1 .. m
      BY <1>2, <2>2
    <3>2. e[k - 1].type = "array" /\ e[k].idx \in 0 .. e[k - 1].elements - 1
      BY <1>7, <3>1 DEF StackOK
    <3>3. QED
      BY <1>12, <3>1, <3>2
  <2>3. QED
    BY <2>1, <2>2
<1>15. QED
  BY <1>8, <1>9, <1>12, <1>13, <1>14 DEF StackOK

LEMMA MultiBulkDoes ==
  ASSUME NEW r, NEW q, NEW z, Longer(r, q, z), r.rstack # <<>>, Last(r.rstack).type = "array"
  PROVE  Does(r, q, ProcessMultiBulkItem(r), ProcessMultiBulkItem(q))
<1>0. q.rstack = r.rstack
  BY DEF Longer
<1>1. CASE Len(r.rstack) = MaxDepth + 1
  <2>1. ProcessMultiBulkItem(r) = SetError(r) /\ ProcessMultiBulkItem(q) = SetError(q)
    BY <1>0, <1>1 DEF ProcessMultiBulkItem
  <2>2. QED
    BY <2>1 DEF Does
<1>2. CASE Len(r.rstack) # MaxDepth + 1 /\ ~LineEnded(r)
  BY <1>2 DEF ProcessMultiBulkItem, Does
<1>3. CASE Len(r.rstack) # MaxDepth + 1 /\ LineEnded(r)
  <2>1. /\ LineEnded(q) /\ Line(q) = Line(r) /\ Len(Line(r)) \in Nat /\ Line(r) \in Text
        /\ Len(Line(r)) + 2 <= Len(Rest(r)) /\ Len(q.rstack) # MaxDepth + 1
    BY <1>0, <1>3, LineLonger
  <2>2. PICK elements : elements = String2ll(Line(r))
    OBVIOUS
  <2>3. elements.n \in Int
    BY <2>1, <2>2, String2llIs
  <2>4. Len(Rest(r)) \in Nat
    BY RestIs, LenProperties DEF Longer, Text
  <2>5. PICK n, obj : /\ n = Len(Line(r)) + 2
                      /\ obj = [Node("array") EXCEPT !.element =
                                  [i \in 1 .. elements.n |-> NoReply]]
    OBVIOUS
  <2>6. n \in 1 .. Len(Rest(r))
    BY <2>1, <2>4, <2>5
  <2>7. CASE ~elements.ok \/ elements.n < -1 \/ elements.n > IntMax
    <3>1. ProcessMultiBulkItem(r) = SetError(r) /\ ProcessMultiBulkItem(q) = SetError(q)
      BY <1>3, <2>1, <2>2, <2>7 DEF ProcessMultiBulkItem
    <3>2. QED
      BY <3>1 DEF Does
  <2>8. CASE ~(~elements.ok \/ elements.n < -1 \/ elements.n > IntMax) /\ elements.n = -1
    <3>1. /\ ProcessMultiBulkItem(r) = Complete(r, n, Node("nil"))
          /\ ProcessMultiBulkItem(q) = Complete(q, n, Node("nil"))
      BY <1>3, <2>1, <2>2, <2>5, <2>8 DEF ProcessMultiBulkItem
    <3>2. QED
      BY <2>6, <3>1, CompleteDoes
  <2>9. CASE ~(~elements.ok \/ elements.n < -1 \/ elements.n > IntMax) /\ elements.n = 0
    <3>1. /\ ProcessMultiBulkItem(r) = Complete(r, n, obj)
          /\ ProcessMultiBulkItem(q) = Complete(q, n, obj)
      BY <1>3, <2>1, <2>2, <2>5, <2>9 DEF ProcessMultiBulkItem
    <3>2. QED
      BY <2>6, <3>1, CompleteDoes
  <2>10. CASE /\ ~(~elements.ok \/ elements.n < -1 \/ elements.n > IntMax)
              /\ elements.n # -1 /\ elements.n # 0
    <3> DEFINE t == Attach(r.reply, Path(r.rstack), obj)
               st == Append([r.rstack EXCEPT ![Len(r.rstack)].elements = elements.n], Task(0))
    <3>1. /\ ProcessMultiBulkItem(r) =
               Ok([r EXCEPT !.pos = @ + n, !.reply = Attach(@, Path(r.rstack), obj),
                            !.rstack = Append([@ EXCEPT ![Len(@)].elements = elements.n], Task(0))])
          /\ ProcessMultiBulkItem(q) =
               Ok([q EXCEPT !.pos = @ + n, !.reply = Attach(@, Path(q.rstack), obj),
                            !.rstack = Append([@ EXCEPT ![Len(@)].elements = elements.n], Task(0))])
      BY <1>3, <2>1, <2>2, <2>5, <2>10 DEF ProcessMultiBulkItem
    <3>2. /\ ProcessMultiBulkItem(r) = Takes(r, n, t, st)
          /\ ProcessMultiBulkItem(q) = Takes(q, n, t, st)
      BY <3>1 DEF Takes, Longer, IsReader
    <3>3. StackOK(st)
      <4>1. elements.n \in Nat \ {0}
        BY <2>3, <2>10
      <4>2. StackOK(r.rstack)
        BY DEF Longer, IsReader
      <4>3. PICK s : s = r.rstack
        OBVIOUS
      <4>4. PICK k \in Nat \ {0} : k = elements.n
        BY <4>1
      <4>5. StackOK(Append([s EXCEPT ![Len(s)].elements = k], Task(0)))
        BY <1>3, <4>2, <4>3, PushIs
      <4>6. QED
        BY <4>3, <4>4, <4>5
    <3> HIDE DEF t, st
    <3>4. QED
      BY <2>6, <3>2, <3>3 DEF Does
  <2>11. QED
    BY <2>7, <2>8, <2>9, <2>10
<1>4. QED
  BY <1>1, <1>2, <1>3

-----------------------------------------------------------------------------
(* A turn of the reader. *)

LEMMA TypeByteIs ==
  ASSUME NEW ch \in DOMAIN TypeByte
  PROVE  TypeByte[ch] \in Types /\ TypeByte[ch] # "none"
<1>1. ch \in {"-", "+", ":", "$", "*"}
  BY DEF TypeByte
<1>2. QED
  BY <1>1 DEF TypeByte, Types

\* The type of the topmost task is known.
Typed(r) == r.rstack # <<>> /\ Last(r.rstack).type # "none"

LEMMA TypedDoes ==
  ASSUME NEW r, NEW q, NEW z, Longer(r, q, z), Typed(r)
  PROVE  Does(r, q, Turn(r), Turn(q))
<1>1. q.rstack = r.rstack /\ r.rstack # <<>> /\ Last(r.rstack).type # "none"
  BY DEF Longer, Typed
<1>2. Turn(r) = ProcessItem(r) /\ Turn(q) = ProcessItem(q)
  BY <1>1 DEF Turn
<1>3. /\ ProcessItem(r) =
           CASE Last(r.rstack).type = "string" -> ProcessBulkItem(r)
             [] Last(r.rstack).type = "array" -> ProcessMultiBulkItem(r)
             [] OTHER -> ProcessLineItem(r)
      /\ ProcessItem(q) =
           CASE Last(q.rstack).type = "string" -> ProcessBulkItem(q)
             [] Last(q.rstack).type = "array" -> ProcessMultiBulkItem(q)
             [] OTHER -> ProcessLineItem(q)
  BY <1>1 DEF ProcessItem
<1>4. CASE Last(r.rstack).type = "string"
  <2>1. ProcessItem(r) = ProcessBulkItem(r) /\ ProcessItem(q) = ProcessBulkItem(q)
    BY <1>1, <1>3, <1>4
  <2>2. QED
    BY <1>2, <2>1, BulkDoes
<1>5. CASE Last(r.rstack).type = "array"
  <2>1. ProcessItem(r) = ProcessMultiBulkItem(r) /\ ProcessItem(q) = ProcessMultiBulkItem(q)
    BY <1>1, <1>3, <1>5
  <2>2. QED
    BY <1>1, <1>2, <1>5, <2>1, MultiBulkDoes
<1>6. CASE Last(r.rstack).type # "string" /\ Last(r.rstack).type # "array"
  <2>1. ProcessItem(r) = ProcessLineItem(r) /\ ProcessItem(q) = ProcessLineItem(q)
    BY <1>1, <1>3, <1>6
  <2>2. QED
    BY <1>2, <2>1, LineDoes
<1>7. QED
  BY <1>4, <1>5, <1>6

\* A reader that has none begins a task.
Begun(r) == IF r.rstack = <<>> THEN [r EXCEPT !.rstack = <<Task(-1)>>] ELSE r

LEMMA BegunIs ==
  ASSUME NEW r, IsReader(r)
  PROVE  /\ IsReader(Begun(r)) /\ Begun(r).rstack # <<>> /\ Turn(Begun(r)) = Turn(r)
         /\ Begun(r).err = r.err /\ Begun(r).reply = r.reply /\ Begun(r).buf = r.buf
         /\ Begun(r).pos = r.pos /\ Rest(Begun(r)) = Rest(r)
         /\ Begun(r).rstack = IF r.rstack = <<>> THEN <<Task(-1)>> ELSE r.rstack
<1>1. CASE r.rstack # <<>>
  BY <1>1 DEF Begun
<1>2. CASE r.rstack = <<>>
  <2>1. PICK st : st = <<Task(-1)>>
    OBVIOUS
  <2>2. StackOK(st) /\ st # <<>>
    BY <2>1, NoStack
  <2>3. Begun(r) = [r EXCEPT !.rstack = st] /\ r = [buf |-> r.buf, pos |-> r.pos, err |-> r.err,
                                                    rstack |-> r.rstack, reply |-> r.reply]
    BY <1>2, <2>1 DEF Begun, IsReader
  <2>4. Turn(Begun(r)) = Turn(r)
    <3>1. Turn(r) = ProcessItem(Begun(r))
      BY <1>2 DEF Turn, Begun
    <3>2. Begun(r).rstack # <<>>
      BY <2>2, <2>3
    <3>3. QED
      BY <3>1, <3>2 DEF Turn
  <2>5. QED
    BY <1>2, <2>1, <2>2, <2>3, <2>4 DEF IsReader, Rest
<1>3. QED
  BY <1>1, <1>2

\* A reader that has the type byte looks at it.
Typing(r) == [r EXCEPT !.pos = @ + 1, !.rstack[Len(r.rstack)].type = TypeByte[r.buf[r.pos + 1]]]

\* It has one, and what it says is a type.
SeesType(r) ==
  /\ r.rstack # <<>> /\ Last(r.rstack).type = "none"
  /\ Rest(r) # <<>> /\ Head(Rest(r)) \in DOMAIN TypeByte

LEMMA HeadIs ==
  ASSUME NEW r, IsReader(r), Rest(r) # <<>>
  PROVE  r.buf[r.pos + 1] = Head(Rest(r)) /\ r.pos # Len(r.buf) /\ r.pos + 1 \in 0 .. Len(r.buf)
<1>1. /\ Rest(r) \in Text /\ Len(Rest(r)) = Len(r.buf) - r.pos /\ Rest(r) = Drop(r.buf, r.pos)
      /\ Len(r.buf) \in Nat /\ r.pos \in 0 .. Len(r.buf) /\ r.buf \in Text
  BY RestIs DEF IsReader
<1>2. Len(Rest(r)) \in Nat \ {0}
  BY <1>1, EmptySeq DEF Text
<1>3. Rest(r)[1] = r.buf[r.pos + 1]
  <2>1. \A i \in 1 .. Len(r.buf) - r.pos : Drop(r.buf, r.pos)[i] = r.buf[r.pos + i]
    BY <1>1, DropIs
  <2>2. 1 \in 1 .. Len(r.buf) - r.pos
    BY <1>1, <1>2
  <2>3. QED
    BY <1>1, <2>1, <2>2
<1>4. QED
  BY <1>1, <1>2, <1>3

LEMMA NoRest ==
  ASSUME NEW r, IsReader(r)
  PROVE  Rest(r) = <<>> <=> r.pos = Len(r.buf)
<1>1. /\ Rest(r) \in Text /\ Len(Rest(r)) = Len(r.buf) - r.pos
      /\ Len(r.buf) \in Nat /\ r.pos \in Nat
  BY RestIs DEF IsReader
<1>2. Rest(r) = <<>> <=> Len(Rest(r)) = 0
  BY <1>1, EmptySeq DEF Text
<1>3. QED
  BY <1>1, <1>2

LEMMA TypingIs ==
  ASSUME NEW r, IsReader(r), SeesType(r)
  PROVE  /\ IsReader(Typing(r)) /\ Typed(Typing(r)) /\ Turn(Typing(r)) = Turn(r)
         /\ Typing(r).err = r.err /\ Typing(r).reply = r.reply /\ Typing(r).buf = r.buf
         /\ Rest(Typing(r)) = Drop(Rest(r), 1) /\ 1 \in 0 .. Len(Rest(r))
         /\ Typing(r).rstack =
              [r.rstack EXCEPT ![Len(r.rstack)].type = TypeByte[Head(Rest(r))]]
<1>1. /\ r.buf[r.pos + 1] = Head(Rest(r)) /\ r.pos # Len(r.buf) /\ r.pos + 1 \in 0 .. Len(r.buf)
      /\ Head(Rest(r)) \in DOMAIN TypeByte
  BY HeadIs DEF SeesType
<1>2. PICK T : T = TypeByte[Head(Rest(r))]
  OBVIOUS
<1>3. T \in Types /\ T # "none"
  BY <1>1, <1>2, TypeByteIs
<1>4. PICK s, n : s = r.rstack /\ n = Len(s)
  OBVIOUS
<1>5. StackOK(s) /\ s # <<>> /\ n \in Nat \ {0} /\ s[n] \in TaskType /\ s[n].type = "none"
  <2>1. StackOK(s) /\ s # <<>> /\ Last(s).type = "none"
    BY <1>4 DEF IsReader, SeesType
  <2>2. QED
    BY <1>4, <2>1, LastIs
<1>6. PICK t : t = [s[n] EXCEPT !.type = T]
  OBVIOUS
<1>7. t \in TaskType /\ t.type = T /\ t.idx = s[n].idx
  BY <1>3, <1>5, <1>6 DEF TaskType
<1>8. PICK st : st = [s EXCEPT ![n] = t]
  OBVIOUS
<1>9. StackOK(st) /\ Len(st) = n /\ st[n] = t
  <2>1. n \in 1 .. Len(s) /\ SubSeq(s, 1, n) = s
    BY <1>4, <1>5, SubSeqFull DEF StackOK
  <2>2. n > 1 => t.idx \in 0 .. s[n - 1].elements - 1
    BY <1>4, <1>5, <1>7 DEF StackOK
  <2>3. /\ StackOK([SubSeq(s, 1, n) EXCEPT ![n] = t])
        /\ Len([SubSeq(s, 1, n) EXCEPT ![n] = t]) = n
        /\ [SubSeq(s, 1, n) EXCEPT ![n] = t][n] = t
    BY <1>5, <1>7, <2>1, <2>2, StackEnd
  <2>4. QED
    BY <1>8, <2>1, <2>3
<1>10. [s EXCEPT ![n].type = T] = st
  <2>1. n \in DOMAIN s
    BY <1>4, <1>5, LenProperties DEF StackOK
  <2>2. QED
    BY <1>6, <1>8, <2>1
<1>11. Typing(r) = [r EXCEPT !.pos = @ + 1, !.rstack = st]
  <2>1. r = [buf |-> r.buf, pos |-> r.pos, err |-> r.err, rstack |-> s, reply |-> r.reply]
    BY <1>4 DEF IsReader
  <2>2. Typing(r) = [r EXCEPT !.pos = @ + 1, !.rstack[n].type = T]
    BY <1>1, <1>2, <1>4 DEF Typing
  <2>3. [r EXCEPT !.pos = @ + 1, !.rstack[n].type = T]
          = [r EXCEPT !.pos = @ + 1, !.rstack = [@ EXCEPT ![n].type = T]]
    OBVIOUS
  <2>4. [r EXCEPT !.pos = @ + 1, !.rstack = [@ EXCEPT ![n].type = T]]
          = [r EXCEPT !.pos = @ + 1, !.rstack = [s EXCEPT ![n].type = T]]
    <3>1. PICK a, b, e, o : a = r.buf /\ b = r.pos /\ e = r.err /\ o = r.reply
      OBVIOUS
    <3>2. r = [buf |-> a, pos |-> b, err |-> e, rstack |-> s, reply |-> o]
      BY <2>1, <3>1
    <3>3. PICK x, u : x = [s EXCEPT ![n].type = T] /\ u = [r EXCEPT !.pos = @ + 1]
      OBVIOUS
    <3>4. u.rstack = s
      BY <3>2, <3>3
    <3>5. [u EXCEPT !.rstack = [@ EXCEPT ![n].type = T]] = [u EXCEPT !.rstack = x]
      BY <3>3, <3>4
    <3>6. QED
      BY <3>3, <3>5
  <2>5. QED
    BY <1>10, <2>2, <2>3, <2>4
<1>12. PICK y : y = Typing(r)
  OBVIOUS
<1>13. y = [buf |-> r.buf, pos |-> r.pos + 1, err |-> r.err, rstack |-> st, reply |-> r.reply]
  BY <1>11, <1>12 DEF IsReader
<1>14. IsReader(y)
  BY <1>1, <1>9, <1>13 DEF IsReader
<1>15. Typed(y)
  <2>1. st # <<>>
    BY <1>5, <1>9, EmptySeq
  <2>2. QED
    BY <1>3, <1>7, <1>9, <1>13, <2>1 DEF Typed, Last
<1>16. Turn(y) = Turn(r)
  <2>1. Turn(y) = ProcessItem(y) /\ Turn(r) = ProcessItem(r)
    BY <1>4, <1>5, <1>15 DEF Turn, Typed
  <2>2. Last(y.rstack).type # "none" /\ Last(r.rstack).type = "none"
    BY <1>15 DEF SeesType, Typed
  <2>3. ProcessItem(y) =
          CASE Last(y.rstack).type = "string" -> ProcessBulkItem(y)
            [] Last(y.rstack).type = "array" -> ProcessMultiBulkItem(y)
            [] OTHER -> ProcessLineItem(y)
    BY <2>2 DEF ProcessItem
  <2>4. r.buf[r.pos + 1] \in DOMAIN TypeByte /\ r.pos # Len(r.buf)
    BY <1>1
  <2>5. y = [r EXCEPT !.pos = @ + 1,
                      !.rstack[Len(r.rstack)].type = TypeByte[r.buf[r.pos + 1]]]
    BY <1>12 DEF Typing
  <2>6. ProcessItem(r) =
          CASE Last(y.rstack).type = "string" -> ProcessBulkItem(y)
            [] Last(y.rstack).type = "array" -> ProcessMultiBulkItem(y)
            [] OTHER -> ProcessLineItem(y)
    BY <2>2, <2>4, <2>5 DEF ProcessItem
  <2>7. QED
    BY <2>1, <2>3, <2>6
<1>17. Rest(y) = Drop(Rest(r), 1) /\ 1 \in 0 .. Len(Rest(r))
  <2>1. r.pos \in 0 .. Len(r.buf) /\ r.buf \in Text /\ Len(r.buf) \in Nat
    BY RestIs DEF IsReader
  <2>2. 1 \in 0 .. Len(r.buf) - r.pos
    BY <1>1, <2>1
  <2>3. Drop(Drop(r.buf, r.pos), 1) = Drop(r.buf, r.pos + 1)
    BY <2>1, <2>2, DropDrop
  <2>4. Rest(y) = Drop(r.buf, r.pos + 1) /\ Rest(r) = Drop(r.buf, r.pos)
    BY <1>13 DEF Rest, Drop
  <2>5. Len(Rest(r)) = Len(r.buf) - r.pos
    BY RestIs
  <2>6. QED
    BY <2>2, <2>3, <2>4, <2>5
<1>18. QED
  BY <1>2, <1>4, <1>10, <1>12, <1>13, <1>14, <1>15, <1>16, <1>17

\* A reader that does not see a type.
LEMMA NoTypeIs ==
  ASSUME NEW r, IsReader(r), r.rstack # <<>>, Last(r.rstack).type = "none", ~SeesType(r)
  PROVE  Turn(r) = IF Rest(r) = <<>> THEN More(r) ELSE SetError(r)
<1>1. Turn(r) = ProcessItem(r)
  BY DEF Turn
<1>2. CASE Rest(r) = <<>>
  <2>1. r.pos = Len(r.buf)
    BY <1>2, NoRest
  <2>2. ProcessItem(r) = More(r)
    BY <2>1 DEF ProcessItem
  <2>3. QED
    BY <1>1, <1>2, <2>2
<1>3. CASE Rest(r) # <<>>
  <2>1. r.buf[r.pos + 1] \notin DOMAIN TypeByte /\ r.pos # Len(r.buf)
    BY <1>3, HeadIs DEF SeesType
  <2>2. ProcessItem(r) = SetError(r)
    BY <2>1 DEF ProcessItem
  <2>3. QED
    BY <1>1, <1>3, <2>2
<1>4. QED
  BY <1>2, <1>3

\* More bytes do not change the type seen.
LEMMA SeesLonger ==
  ASSUME NEW r, NEW q, NEW z, Longer(r, q, z), Rest(r) # <<>>
  PROVE  Rest(q) # <<>> /\ Head(Rest(q)) = Head(Rest(r))
<1>1. Rest(r) \in Text /\ z \in Text /\ Rest(q) = Rest(r) \o z /\ Rest(q) \in Text
  BY RestIs DEF Longer
<1>2. PICK s \in Text, w \in Text : s = Rest(r) /\ w = Rest(q)
  BY <1>1
<1>3. Len(s) \in Nat \ {0} /\ Len(z) \in Nat
  BY <1>1, <1>2, EmptySeq, LenProperties DEF Text
<1>4. /\ Len(w) = Len(s) + Len(z)
      /\ \A i \in 1 .. Len(s) + Len(z) : w[i] = IF i <= Len(s) THEN s[i] ELSE z[i - Len(s)]
  BY <1>1, <1>2, ConcatProperties DEF Text
<1>5. w # <<>> /\ w[1] = s[1]
  <2>1. 1 \in 1 .. Len(s) + Len(z) /\ 1 <= Len(s) /\ Len(w) # 0
    BY <1>3, <1>4
  <2>2. QED
    BY <1>4, <2>1, EmptySeq
<1>6. Head(w) = w[1] /\ Head(s) = s[1]
  BY <1>2, <1>3, <1>5
<1>7. QED
  BY <1>2, <1>5, <1>6

LEMMA TypingLonger ==
  ASSUME NEW r, NEW q, NEW z, Longer(r, q, z), SeesType(r)
  PROVE  SeesType(q) /\ Longer(Typing(r), Typing(q), z)
<1>1. Rest(q) # <<>> /\ Head(Rest(q)) = Head(Rest(r)) /\ q.rstack = r.rstack
  BY SeesLonger DEF SeesType, Longer
<1>2. SeesType(q)
  BY <1>1 DEF SeesType
<1>3. /\ IsReader(Typing(r)) /\ Typing(r).reply = r.reply
      /\ Rest(Typing(r)) = Drop(Rest(r), 1) /\ 1 \in 0 .. Len(Rest(r))
      /\ Typing(r).rstack = [r.rstack EXCEPT ![Len(r.rstack)].type = TypeByte[Head(Rest(r))]]
  BY TypingIs DEF Longer
<1>4. /\ IsReader(Typing(q)) /\ Typing(q).reply = q.reply
      /\ Rest(Typing(q)) = Drop(Rest(q), 1)
      /\ Typing(q).rstack = [q.rstack EXCEPT ![Len(q.rstack)].type = TypeByte[Head(Rest(q))]]
  BY <1>2, TypingIs DEF Longer
<1>5. Drop(Rest(q), 1) = Drop(Rest(r), 1) \o z
  <2>1. Rest(r) \in Text /\ z \in Text /\ Rest(q) = Rest(r) \o z
    BY RestIs DEF Longer
  <2>2. QED
    BY <1>3, <2>1, DropLonger
<1>6. Longer(Typing(r), Typing(q), z)
  BY <1>1, <1>3, <1>4, <1>5 DEF Longer
<1>7. QED
  BY <1>2, <1>6

LEMMA BegunLonger ==
  ASSUME NEW r, NEW q, NEW z, Longer(r, q, z)
  PROVE  Longer(Begun(r), Begun(q), z)
BY BegunIs DEF Longer

\* The end of a turn of a reader that takes something.
LEMMA TakesIs ==
  ASSUME NEW r, IsReader(r), NEW n \in 1 .. Len(Rest(r)), NEW t, NEW st, StackOK(st),
         NEW p, p = Takes(r, n, t, st)
  PROVE  /\ p.ok /\ IsReader(p.reader) /\ p.reader.err = r.err /\ p.reader.buf = r.buf
         /\ p.reader.reply = t /\ p.reader.rstack = st /\ p.reader.pos = r.pos + n
         /\ Rest(p.reader) = Drop(Rest(r), n)
<1>1. PICK y : y = p.reader
  OBVIOUS
<1>2. /\ p.ok
      /\ y = [buf |-> r.buf, pos |-> r.pos + n, err |-> r.err, rstack |-> st, reply |-> t]
  BY <1>1 DEF Takes, Ok, IsReader
<1>3. /\ Len(Rest(r)) = Len(r.buf) - r.pos /\ Len(r.buf) \in Nat /\ r.pos \in 0 .. Len(r.buf)
      /\ r.buf \in Text /\ r.pos \in Nat
  BY RestIs DEF IsReader
<1>4. r.pos + n \in 0 .. Len(r.buf) /\ n \in 0 .. Len(r.buf) - r.pos
  BY <1>3
<1>5. IsReader(y)
  BY <1>2, <1>3, <1>4 DEF IsReader
<1>6. Rest(y) = Drop(Rest(r), n)
  <2>1. Drop(Drop(r.buf, r.pos), n) = Drop(r.buf, r.pos + n)
    BY <1>3, <1>4, DropDrop
  <2>2. Rest(y) = Drop(r.buf, r.pos + n) /\ Rest(r) = Drop(r.buf, r.pos)
    BY <1>2 DEF Rest, Drop
  <2>3. QED
    BY <2>1, <2>2
<1>7. QED
  BY <1>1, <1>2, <1>5, <1>6

\* A turn goes on from the topmost task, and from its type if that has come.
Settled(r) == IF SeesType(Begun(r)) THEN Typing(Begun(r)) ELSE Begun(r)

LEMMA SettledIs ==
  ASSUME NEW r, IsReader(r)
  PROVE  /\ IsReader(Settled(r)) /\ Settled(r).rstack # <<>> /\ Turn(Settled(r)) = Turn(r)
         /\ Settled(r).err = r.err
         /\ \/ Typed(Settled(r))
            \/ Last(Settled(r).rstack).type = "none" /\ ~SeesType(Settled(r))
<1>1. PICK b : b = Begun(r)
  OBVIOUS
<1>2. IsReader(b) /\ b.rstack # <<>> /\ Turn(b) = Turn(r) /\ b.err = r.err
  BY <1>1, BegunIs
<1>3. CASE SeesType(b)
  <2>1. PICK y : y = Typing(b)
    OBVIOUS
  <2>2. Settled(r) = y
    BY <1>1, <1>3, <2>1 DEF Settled
  <2>3. IsReader(y) /\ Typed(y) /\ Turn(y) = Turn(b) /\ y.err = b.err
    BY <1>2, <1>3, <2>1, TypingIs
  <2>4. QED
    BY <1>2, <2>2, <2>3 DEF Typed
<1>4. CASE ~SeesType(b)
  BY <1>1, <1>2, <1>4 DEF Settled, Typed
<1>5. QED
  BY <1>3, <1>4

LEMMA LongerNone ==
  ASSUME NEW r, IsReader(r)
  PROVE  Longer(r, r, <<>>) /\ <<>> \in Text
<1>1. Rest(r) \in Text
  BY RestIs
<1>2. Rest(r) \o <<>> = Rest(r) /\ <<>> \in Text
  BY <1>1, ConcatEmptySeq, EmptySeq DEF Text
<1>3. QED
  BY <1>2 DEF Longer

\* The reader cannot go on before more has come.
Stuck(r) == IsReader(r) /\ r.rstack # <<>> /\ Turn(r) = More(r)

\* Every turn ends with an error, stuck, or with a reader that goes on.
LEMMA TurnIs ==
  ASSUME NEW r, IsReader(r), NEW p, p = Turn(r)
  PROVE  \/ p = SetError(r)
         \/ p = More(p.reader) /\ Stuck(p.reader) /\ p.reader.err = r.err
         \/ p.ok /\ IsReader(p.reader) /\ p.reader.err = r.err
<1>1. PICK y : y = Settled(r)
  OBVIOUS
<1>2. /\ IsReader(y) /\ y.rstack # <<>> /\ Turn(y) = p /\ y.err = r.err
      /\ Typed(y) \/ (Last(y.rstack).type = "none" /\ ~SeesType(y))
  BY <1>1, SettledIs
<1>3. SetError(y) = SetError(r)
  BY DEF SetError
<1>4. CASE p = More(y)
  <2>1. p.reader = y
    BY <1>4 DEF More
  <2>2. QED
    BY <1>2, <1>4, <2>1 DEF Stuck
<1>5. CASE Typed(y)
  <2>1. Longer(y, y, <<>>)
    BY <1>2, LongerNone
  <2>2. Does(y, y, p, p)
    BY <1>2, <1>5, <2>1, TypedDoes
  <2>3. CASE \E n \in 1 .. Len(Rest(y)) : \E t, st : StackOK(st) /\ p = Takes(y, n, t, st)
    <3>1. PICK n \in 1 .. Len(Rest(y)) : \E t, st : StackOK(st) /\ p = Takes(y, n, t, st)
      BY <2>3
    <3>2. PICK t, st : StackOK(st) /\ p = Takes(y, n, t, st)
      BY <3>1
    <3>3. p.ok /\ IsReader(p.reader) /\ p.reader.err = y.err
      BY <1>2, <3>2, TakesIs
    <3>4. QED
      BY <1>2, <3>3
  <2>4. QED
    BY <1>3, <1>4, <2>2, <2>3 DEF Does
<1>6. CASE Last(y.rstack).type = "none" /\ ~SeesType(y)
  <2>1. p = More(y) \/ p = SetError(y)
    BY <1>2, <1>6, NoTypeIs
  <2>2. QED
    BY <1>3, <1>4, <2>1
<1>7. QED
  BY <1>2, <1>5, <1>6

LEMMA ErrorIs ==
  ASSUME NEW r
  PROVE  /\ ~SetError(r).ok /\ SetError(r).reader.err /\ IsReader(SetError(r).reader)
         /\ SetError(r) = More(SetError(r).reader)
<1>1. PICK x : x = SetError(r).reader
  OBVIOUS
<1>2. /\ x = [buf |-> <<>>, pos |-> 0, err |-> TRUE, rstack |-> <<>>, reply |-> NoReply]
      /\ SetError(r) = More(x) /\ ~SetError(r).ok
  BY <1>1 DEF SetError, More, redisReaderCreate
<1>3. <<>> \in Text /\ Len(<<>>) = 0
  BY EmptySeq DEF Text
<1>4. IsReader(x)
  BY <1>2, <1>3, NoStack DEF IsReader
<1>5. QED
  BY <1>1, <1>2, <1>4

\* What has been consumed may be discarded.
LEMMA DiscardedIs ==
  ASSUME NEW r, IsReader(r)
  PROVE  /\ IsReader(Discarded(r)) /\ Rest(Discarded(r)) = Rest(r)
         /\ Discarded(r).rstack = r.rstack /\ Discarded(r).reply = r.reply
         /\ Discarded(r).err = r.err
<1>1. CASE r.pos >= Discard
  <2>1. PICK y, s : y = Discarded(r) /\ s = Rest(r)
    OBVIOUS
  <2>2. y = [buf |-> s, pos |-> 0, err |-> r.err, rstack |-> r.rstack, reply |-> r.reply]
    BY <1>1, <2>1 DEF Discarded, IsReader
  <2>3. s \in Text /\ Len(s) \in Nat /\ SubSeq(s, 1, Len(s)) = s
    BY <2>1, RestIs, LenProperties, SubSeqFull DEF Text
  <2>4. IsReader(y) /\ Rest(y) = s
    BY <2>2, <2>3 DEF IsReader, Rest
  <2>5. QED
    BY <2>1, <2>2, <2>4
<1>2. CASE ~(r.pos >= Discard)
  BY <1>2 DEF Discarded
<1>3. QED
  BY <1>1, <1>2

LEMMA DiscardedStuck ==
  ASSUME NEW r, Stuck(r), ~r.err
  PROVE  Stuck(Discarded(r)) /\ ~Discarded(r).err
<1>1. PICK d : d = Discarded(r)
  OBVIOUS
<1>2. /\ IsReader(d) /\ Rest(d) = Rest(r) /\ d.rstack = r.rstack /\ d.reply = r.reply
      /\ d.err = r.err /\ IsReader(r) /\ r.rstack # <<>> /\ Turn(r) = More(r)
  BY <1>1, DiscardedIs DEF Stuck
<1>3. ~SetError(r).ok /\ SetError(r).reader.err /\ ~More(r).ok /\ ~More(r).reader.err
  BY ErrorIs DEF More
<1>4. CASE Typed(d)
  <2>1. Longer(d, r, <<>>)
    <3>1. Longer(d, d, <<>>)
      BY <1>2, LongerNone
    <3>2. QED
      BY <1>2, <3>1 DEF Longer
  <2>2. Does(d, r, Turn(d), Turn(r))
    BY <1>4, <2>1, TypedDoes
  <2>3. ASSUME NEW n \in 1 .. Len(Rest(d)), NEW t, NEW st PROVE Turn(r) # Takes(r, n, t, st)
    BY <1>2 DEF Takes, Ok, More
  <2>4. Turn(r) # SetError(r)
    BY <1>2, <1>3
  <2>5. Turn(d) = More(d)
    BY <2>2, <2>3, <2>4 DEF Does
  <2>6. QED
    BY <1>1, <1>2, <2>5 DEF Stuck
<1>5. CASE ~Typed(d)
  <2>1. Last(d.rstack).type = "none" /\ Last(r.rstack).type = "none"
    BY <1>2, <1>5 DEF Typed
  <2>2. ~SeesType(r)
    <3>1. ASSUME SeesType(r) PROVE FALSE
      <4>1. Typed(Typing(r)) /\ Turn(Typing(r)) = Turn(r) /\ IsReader(Typing(r))
            /\ Typing(r).rstack = [r.rstack EXCEPT ![Len(r.rstack)].type = TypeByte[Head(Rest(r))]]
        BY <1>2, <3>1, TypingIs
      <4>2. PICK y : y = Typing(r)
        OBVIOUS
      <4>3. Longer(y, y, <<>>)
        BY <4>1, <4>2, LongerNone
      <4>4. Does(y, y, Turn(y), Turn(y)) /\ Turn(y) = More(r)
        BY <1>2, <4>1, <4>2, <4>3, TypedDoes
      <4>5. More(r) # SetError(y)
        BY <1>3, ErrorIs
      <4>6. \A n \in 1 .. Len(Rest(y)) : \A t, st : More(r) # Takes(y, n, t, st)
        BY DEF More, Takes, Ok
      <4>7. More(r) = More(y)
        BY <4>4, <4>5, <4>6 DEF Does
      <4>8. r = y
        BY <4>7 DEF More
      <4>9. QED
        BY <2>1, <4>1, <4>2, <4>8 DEF Typed
    <3>2. QED
      BY <3>1
  <2>3. ~SeesType(d)
    BY <1>2, <2>2 DEF SeesType
  <2>4. Rest(r) = <<>>
    <3>1. Turn(r) = IF Rest(r) = <<>> THEN More(r) ELSE SetError(r)
      BY <1>2, <2>1, <2>2, NoTypeIs
    <3>2. QED
      BY <1>2, <1>3, <3>1
  <2>5. Turn(d) = More(d)
    BY <1>2, <2>1, <2>3, <2>4, NoTypeIs
  <2>6. QED
    BY <1>1, <1>2, <2>5 DEF Stuck
<1>6. QED
  BY <1>4, <1>5

-----------------------------------------------------------------------------
(* A reader that is given a whole answer. *)

\* Turn by turn, x comes to the end of its bytes, with the value, or refuses them; S are
\* the readers on the way.
Reaches(x, value, S) ==
  LET p == Turn(x)
  IN \/ p.reader.err
     \/ p.ok /\ p.reader.rstack = <<>> /\ p.reader.reply = value /\ Rest(p.reader) = <<>>
     \/ p.ok /\ p.reader.rstack # <<>> /\ p.reader \in S

Leads(v, value) ==
  \E S : v \in S /\ \A x \in S : IsReader(x) /\ ~x.err /\ Reaches(x, value, S)

LEMMA LeadsIs ==
  ASSUME NEW v, NEW value, Leads(v, value), NEW p, p = Turn(v)
  PROVE  /\ IsReader(v) /\ ~v.err
         /\ \/ p.reader.err
            \/ p.ok /\ p.reader.rstack = <<>> /\ p.reader.reply = value /\ Rest(p.reader) = <<>>
            \/ p.ok /\ p.reader.rstack # <<>> /\ Leads(p.reader, value)
<1>1. PICK S : v \in S /\ \A x \in S : IsReader(x) /\ ~x.err /\ Reaches(x, value, S)
  BY DEF Leads
<1>2. IsReader(v) /\ ~v.err /\ Reaches(v, value, S)
  BY <1>1
<1>3. p.reader \in S => Leads(p.reader, value)
  BY <1>1 DEF Leads
<1>4. QED
  BY <1>2, <1>3 DEF Reaches

LEMMA LeadsAlso ==
  ASSUME NEW v, NEW value, Leads(v, value), NEW u, IsReader(u), ~u.err, Turn(u) = Turn(v)
  PROVE  Leads(u, value)
<1>1. PICK S : v \in S /\ \A x \in S : IsReader(x) /\ ~x.err /\ Reaches(x, value, S)
  BY DEF Leads
<1>2. PICK T : T = S \cup {u}
  OBVIOUS
<1>3. \A x \in S : Reaches(x, value, T)
  BY <1>1, <1>2 DEF Reaches
<1>4. Reaches(u, value, T)
  BY <1>1, <1>3 DEF Reaches
<1>5. \A x \in T : IsReader(x) /\ ~x.err /\ Reaches(x, value, T)
  BY <1>1, <1>2, <1>3, <1>4
<1>6. QED
  BY <1>2, <1>5 DEF Leads

\* r, to which the bytes y are still to come, is where v is, which has the bytes of one
\* answer; those of the others, z, come after it.
InPlace(r, y, v, z) ==
  /\ IsReader(r) /\ IsReader(v) /\ y \in Text /\ z \in Text
  /\ r.rstack = v.rstack /\ r.reply = v.reply /\ Rest(r) \o y = Rest(v) \o z

LEMMA Common ==
  ASSUME NEW r, NEW y, NEW v, NEW z, InPlace(r, y, v, z)
  PROVE  \E q : Longer(r, q, y) /\ Longer(v, q, z)
<1>1. PICK w : w = Rest(v) \o z
  OBVIOUS
<1>2. w \in Text
  BY <1>1, RestIs, ConcatProperties DEF InPlace, Text
<1>3. PICK q : q = [buf |-> w, pos |-> 0, err |-> FALSE, rstack |-> v.rstack, reply |-> v.reply]
  OBVIOUS
<1>4. Len(w) \in Nat /\ SubSeq(w, 1, Len(w)) = w
  BY <1>2, LenProperties, SubSeqFull DEF Text
<1>5. IsReader(q) /\ Rest(q) = w
  BY <1>2, <1>3, <1>4 DEF IsReader, Rest, InPlace
<1>6. QED
  BY <1>1, <1>3, <1>5 DEF Longer, InPlace

\* After a turn, p: an error; no more than has come, of what leads to the value; an item
\* of it; or the value, and the rest is that of other answers.
Read(p, y, value, z) ==
  \/ p.reader.err
  \/ /\ p = More(p.reader) /\ Stuck(p.reader) /\ ~p.reader.err
     /\ \E u : InPlace(p.reader, y, u, z) /\ Leads(u, value)
  \/ /\ p.ok /\ p.reader.rstack # <<>> /\ IsReader(p.reader) /\ ~p.reader.err
     /\ \E u : InPlace(p.reader, y, u, z) /\ Leads(u, value)
  \/ /\ p.ok /\ p.reader.rstack = <<>> /\ IsReader(p.reader) /\ ~p.reader.err
     /\ p.reader.reply = value /\ Rest(p.reader) \o y = z

LEMMA TakesFields ==
  ASSUME NEW q, IsReader(q), NEW n, NEW t, NEW st, NEW w, w = Takes(q, n, t, st)
  PROVE  w.reader.pos = q.pos + n /\ w.reader.reply = t /\ w.reader.rstack = st
<1>1. PICK y : y = w.reader
  OBVIOUS
<1>2. y = [buf |-> q.buf, pos |-> q.pos + n, err |-> q.err, rstack |-> st, reply |-> t]
  BY <1>1 DEF Takes, Ok, IsReader
<1>3. QED
  BY <1>1, <1>2

LEMMA ReadsTyped ==
  ASSUME NEW r, NEW y, NEW v, NEW z, NEW value, NEW q, Longer(r, q, y), Longer(v, q, z),
         Typed(r), ~r.err, Leads(v, value), NEW p, p = Turn(r)
  PROVE  Read(p, y, value, z)
<1>1. /\ IsReader(r) /\ IsReader(v) /\ IsReader(q) /\ y \in Text /\ z \in Text
      /\ r.rstack = v.rstack /\ r.reply = v.reply /\ Rest(r) \o y = Rest(v) \o z
      /\ Rest(q) = Rest(r) \o y /\ ~v.err /\ Typed(v)
  BY LeadsIs DEF Longer, Typed
<1>2. InPlace(r, y, v, z)
  BY <1>1 DEF InPlace
<1>3. Does(r, q, p, Turn(q)) /\ Does(v, q, Turn(v), Turn(q))
  BY <1>1, TypedDoes
<1>4. CASE p = More(r)
  <2>1. p.reader = r
    BY <1>4 DEF More
  <2>2. Stuck(r) /\ r.rstack # <<>>
    BY <1>1, <1>4 DEF Stuck, Typed
  <2>3. QED
    BY <1>2, <1>4, <2>1, <2>2 DEF Read
<1>5. CASE p = SetError(r)
  BY <1>5, ErrorIs DEF Read
<1>6. CASE \E n \in 1 .. Len(Rest(r)) : \E t, st :
             StackOK(st) /\ p = Takes(r, n, t, st) /\ Turn(q) = Takes(q, n, t, st)
  <2>1. PICK n \in 1 .. Len(Rest(r)) : \E t, st :
             StackOK(st) /\ p = Takes(r, n, t, st) /\ Turn(q) = Takes(q, n, t, st)
    BY <1>6
  <2>2. PICK t, st : StackOK(st) /\ p = Takes(r, n, t, st) /\ Turn(q) = Takes(q, n, t, st)
    BY <2>1
  <2>3. PICK g : g = Turn(v)
    OBVIOUS
  <2>4. \/ g.reader.err
        \/ g.ok /\ g.reader.rstack = <<>> /\ g.reader.reply = value /\ Rest(g.reader) = <<>>
        \/ g.ok /\ g.reader.rstack # <<>> /\ Leads(g.reader, value)
    BY <2>3, LeadsIs
  <2>5. g # More(v)
    <3>1. ASSUME g = More(v) PROVE FALSE
      <4>1. ~g.ok /\ g.reader = v
        BY <3>1 DEF More
      <4>2. QED
        BY <1>1, <2>4, <4>1
    <3>2. QED
      BY <3>1
  <2>6. Turn(q) # SetError(q)
    <3>1. Turn(q).ok /\ ~SetError(q).ok
      BY <2>2, ErrorIs DEF Takes, Ok
    <3>2. QED
      BY <3>1
  <2>7. PICK m \in 1 .. Len(Rest(v)) : \E a, b :
             StackOK(b) /\ g = Takes(v, m, a, b) /\ Turn(q) = Takes(q, m, a, b)
    BY <1>3, <2>3, <2>5, <2>6 DEF Does
  <2>8. PICK a, b : StackOK(b) /\ g = Takes(v, m, a, b) /\ Turn(q) = Takes(q, m, a, b)
    BY <2>7
  <2>9. m = n /\ a = t /\ b = st
    <3>1. PICK w, h : w = Turn(q) /\ h = w.reader
      OBVIOUS
    <3>2. w = Takes(q, n, t, st)
      BY <2>2, <3>1
    <3>3. h.pos = q.pos + n /\ h.reply = t /\ h.rstack = st
      BY <1>1, <3>1, <3>2, TakesFields
    <3>4. h.pos = q.pos + m /\ h.reply = a /\ h.rstack = b
      <4>1. w = Takes(q, m, a, b)
        BY <2>8, <3>1
      <4>2. QED
        BY <1>1, <3>1, <4>1, TakesFields
    <3>5. q.pos \in Int /\ n \in Int /\ m \in Int
      BY <1>1 DEF IsReader
    <3>6. QED
      BY <3>3, <3>4, <3>5
  <2>10. /\ p.ok /\ IsReader(p.reader) /\ p.reader.err = r.err
         /\ p.reader.reply = t /\ p.reader.rstack = st /\ Rest(p.reader) = Drop(Rest(r), n)
    BY <1>1, <2>2, TakesIs
  <2>11. /\ g.ok /\ IsReader(g.reader) /\ g.reader.err = v.err
         /\ g.reader.reply = t /\ g.reader.rstack = st /\ Rest(g.reader) = Drop(Rest(v), n)
    BY <1>1, <2>7, <2>8, <2>9, TakesIs
  <2>12. Rest(p.reader) \o y = Rest(g.reader) \o z
    <3>1. PICK s \in Text, x \in Text : s = Rest(r) /\ x = Rest(v)
      BY <1>1, RestIs
    <3>2. n \in 0 .. Len(s) /\ n \in 0 .. Len(x)
      BY <2>1, <2>7, <2>9, <3>1
    <3>3. Drop(s \o y, n) = Drop(s, n) \o y /\ Drop(x \o z, n) = Drop(x, n) \o z
      BY <1>1, <3>2, DropLonger
    <3>4. QED
      BY <1>1, <2>10, <2>11, <3>1, <3>3
  <2>13. CASE st # <<>>
    <3>1. Leads(g.reader, value)
      BY <1>1, <2>4, <2>11, <2>13
    <3>2. InPlace(p.reader, y, g.reader, z)
      BY <1>1, <2>10, <2>11, <2>12 DEF InPlace
    <3>3. QED
      BY <2>10, <2>13, <3>1, <3>2 DEF Read
  <2>14. CASE st = <<>>
    <3>1. t = value /\ Rest(g.reader) = <<>>
      <4>1. ~g.reader.err
        BY <1>1, <2>11
      <4>2. QED
        BY <2>4, <2>11, <2>14, <4>1
    <3>2. Rest(p.reader) \o y = z
      BY <1>1, <2>12, <3>1, ConcatEmptySeq DEF Text
    <3>3. QED
      BY <2>10, <2>14, <3>1, <3>2 DEF Read
  <2>15. QED
    BY <2>13, <2>14
<1>7. QED
  BY <1>3, <1>4, <1>5, <1>6 DEF Does

\* A turn of the connection's reader keeps step with one of the reader that has been
\* given the whole answer.
LEMMA Reads ==
  ASSUME NEW r, NEW y, NEW v, NEW z, InPlace(r, y, v, z), NEW value, Leads(v, value), ~r.err,
         NEW p, p = Turn(r)
  PROVE  Read(p, y, value, z)
<1>1. PICK q : Longer(r, q, y) /\ Longer(v, q, z)
  BY Common
<1>2. PICK rb, vb, qb : rb = Begun(r) /\ vb = Begun(v) /\ qb = Begun(q)
  OBVIOUS
<1>3. Longer(rb, qb, y) /\ Longer(vb, qb, z)
  BY <1>1, <1>2, BegunLonger
<1>4. /\ IsReader(r) /\ IsReader(v) /\ IsReader(rb) /\ IsReader(vb) /\ IsReader(qb)
      /\ y \in Text /\ z \in Text /\ ~v.err
  BY <1>1, <1>3, LeadsIs DEF Longer
<1>5. /\ rb.rstack # <<>> /\ Turn(rb) = p /\ ~rb.err /\ vb.rstack # <<>> /\ Turn(vb) = Turn(v)
      /\ ~vb.err
  BY <1>2, <1>4, BegunIs
<1>6. Leads(vb, value)
  BY <1>4, <1>5, LeadsAlso
<1>7. InPlace(rb, y, vb, z)
  BY <1>3, <1>4 DEF Longer, InPlace
<1>8. CASE Typed(rb)
  BY <1>3, <1>5, <1>6, <1>8, ReadsTyped
<1>9. CASE ~Typed(rb)
  <2>1. Last(rb.rstack).type = "none" /\ Last(vb.rstack).type = "none"
    BY <1>5, <1>7, <1>9 DEF Typed, InPlace
  <2>2. CASE SeesType(rb)
    <3>1. PICK rt, qt : rt = Typing(rb) /\ qt = Typing(qb)
      OBVIOUS
    <3>2. Longer(rt, qt, y)
      BY <1>3, <2>2, <3>1, TypingLonger
    <3>3. Rest(vb) # <<>>
      <4>1. ASSUME Rest(vb) = <<>> PROVE FALSE
        <5>1. ~SeesType(vb)
          BY <4>1 DEF SeesType
        <5>2. Turn(vb) = More(vb)
          BY <1>4, <1>5, <2>1, <4>1, <5>1, NoTypeIs
        <5>3. PICK g : g = Turn(vb)
          OBVIOUS
        <5>4. ~g.ok /\ g.reader = vb
          BY <5>2, <5>3 DEF More
        <5>5. g.reader.err \/ g.ok
          BY <1>6, <5>3, LeadsIs
        <5>6. QED
          BY <1>5, <5>4, <5>5
      <4>2. QED
        BY <4>1
    <3>4. Head(Rest(vb)) = Head(Rest(rb))
      <4>1. Head(Rest(qb)) = Head(Rest(rb))
        BY <1>3, <2>2, SeesLonger DEF SeesType
      <4>2. Head(Rest(qb)) = Head(Rest(vb))
        BY <1>3, <3>3, SeesLonger
      <4>3. QED
        BY <4>1, <4>2
    <3>5. SeesType(vb)
      BY <1>5, <2>1, <2>2, <3>3, <3>4 DEF SeesType
    <3>6. PICK vt : vt = Typing(vb)
      OBVIOUS
    <3>7. Longer(vt, qt, z)
      BY <1>3, <3>1, <3>5, <3>6, TypingLonger
    <3>8. Typed(rt) /\ Turn(rt) = p /\ ~rt.err
      BY <1>4, <1>5, <2>2, <3>1, TypingIs
    <3>9. IsReader(vt) /\ Turn(vt) = Turn(vb) /\ ~vt.err
      BY <1>4, <1>5, <3>5, <3>6, TypingIs
    <3>10. Leads(vt, value)
      BY <1>6, <3>9, LeadsAlso
    <3>11. QED
      BY <3>2, <3>7, <3>8, <3>10, ReadsTyped
  <2>3. CASE ~SeesType(rb)
    <3>1. p = IF Rest(rb) = <<>> THEN More(rb) ELSE SetError(rb)
      BY <1>4, <1>5, <2>1, <2>3, NoTypeIs
    <3>2. CASE p = More(rb)
      <4>1. p.reader = rb
        BY <3>2 DEF More
      <4>2. Stuck(rb)
        BY <1>4, <1>5, <3>2 DEF Stuck
      <4>3. QED
        BY <1>5, <1>6, <1>7, <3>2, <4>1, <4>2 DEF Read
    <3>3. CASE p = SetError(rb)
      BY <3>3, ErrorIs DEF Read
    <3>4. QED
      BY <3>1, <3>2, <3>3
  <2>4. QED
    BY <2>2, <2>3
<1>10. QED
  BY <1>8, <1>9

\* The readers a first one, b, goes through in n turns.
Readers(g, n, b) == g = [k \in 0 .. n |-> IF k = 0 THEN b ELSE Turn(g[k - 1]).reader]

LEMMA ReadersExist ==
  ASSUME NEW n \in Nat, NEW b
  PROVE  \E g : Readers(g, n, b)
<1> DEFINE Bad == {m \in 0 .. n : ~\E g : Readers(g, m, b)}
<1>1. SUFFICES Bad = {}
  <2>1. n \in 0 .. n
    OBVIOUS
  <2>2. QED
    BY <2>1
<1>2. SUFFICES ASSUME Bad # {} PROVE FALSE
  OBVIOUS
<1>3. PICK m \in Bad : \A k \in Bad : m <= k
  <2>1. Bad \in SUBSET Nat
    OBVIOUS
  <2> HIDE DEF Bad
  <2>2. QED
    BY <1>2, <2>1, LeastOne
<1>4. m \in 0 .. n /\ ~\E g : Readers(g, m, b)
  OBVIOUS
<1>5. CASE m = 0
  <2> DEFINE g == [k \in 0 .. 0 |-> b]
  <2>1. g = [k \in 0 .. m |-> IF k = 0 THEN b ELSE Turn(g[k - 1]).reader]
    BY <1>5
  <2> HIDE DEF g
  <2>2. QED
    BY <1>4, <2>1 DEF Readers
<1>6. CASE m # 0
  <2>1. m - 1 \in 0 .. n /\ ~(m <= m - 1) /\ m \in 1 .. n
    BY <1>4, <1>6
  <2>2. PICK f : Readers(f, m - 1, b)
    BY <1>3, <2>1
  <2>3. \A k \in 0 .. m - 1 : f[k] = IF k = 0 THEN b ELSE Turn(f[k - 1]).reader
    BY <2>2 DEF Readers
  <2> DEFINE g == [k \in 0 .. m |-> IF k = m THEN Turn(f[m - 1]).reader ELSE f[k]]
  <2>4. ASSUME NEW k \in 0 .. m PROVE g[k] = IF k = 0 THEN b ELSE Turn(g[k - 1]).reader
    <3>1. CASE k = m
      <4>1. g[k] = Turn(f[m - 1]).reader /\ g[m - 1] = f[m - 1] /\ k # 0
        BY <1>6, <2>1, <3>1
      <4>2. QED
        BY <3>1, <4>1
    <3>2. CASE k # m
      <4>1. k \in 0 .. m - 1 /\ g[k] = f[k] /\ (k # 0 => k - 1 \in 0 .. m /\ k - 1 # m)
        BY <2>1, <3>2
      <4>2. k # 0 => g[k - 1] = f[k - 1]
        BY <4>1
      <4> HIDE DEF g
      <4>3. QED
        BY <2>3, <4>1, <4>2
    <3>3. QED
      BY <3>1, <3>2
  <2>5. g = [k \in 0 .. m |-> g[k]]
    OBVIOUS
  <2> HIDE DEF g
  <2>6. Readers(g, m, b)
    BY <2>4, <2>5 DEF Readers
  <2>7. QED
    BY <1>4, <2>6
<1>7. QED
  BY <1>5, <1>6

\* A new reader that is given the bytes w.
Given(w) == [redisReaderCreate EXCEPT !.buf = w]

LEMMA GivenIs ==
  ASSUME NEW w \in Text
  PROVE  IsReader(Given(w)) /\ ~Given(w).err /\ Rest(Given(w)) = w
         /\ Given(w).rstack = <<>> /\ Given(w).reply = NoReply
<1>1. PICK x : x = Given(w)
  OBVIOUS
<1>2. x = [buf |-> w, pos |-> 0, err |-> FALSE, rstack |-> <<>>, reply |-> NoReply]
  BY <1>1 DEF Given, redisReaderCreate
<1>3. Len(w) \in Nat /\ SubSeq(w, 1, Len(w)) = w
  BY LenProperties, SubSeqFull DEF Text
<1>4. IsReader(x) /\ Rest(x) = w
  BY <1>2, <1>3, NoStack DEF IsReader, Rest
<1>5. QED
  BY <1>1, <1>2, <1>4

\* A reader that is given an answer comes to its value.
LEMMA AnswerLeads ==
  ASSUME NEW a \in Answers
  PROVE  a.wire \in Text /\ Leads(Given(a.wire), a.value)
<1>1. PICK g : g = CHOOSE h : Readers(h, Len(a.wire), Given(a.wire))
  OBVIOUS
<1>2. /\ a.wire \in Seq(STRING)
      /\ \E n \in 1 .. Len(a.wire) :
           /\ \A k \in 1 .. n - 1 : Turn(g[k - 1]).ok /\ g[k].rstack # <<>>
           /\ \/ g[n].err
              \/ /\ Turn(g[n - 1]).ok /\ g[n].rstack = <<>>
                 /\ Rest(g[n]) = <<>> /\ g[n].reply = a.value
  BY <1>1, AnswersAssumption DEF Readers, Given
<1>3. PICK w, value : w = a.wire /\ value = a.value
  OBVIOUS
<1>4. PICK n \in 1 .. Len(w) :
           /\ \A k \in 1 .. n - 1 : Turn(g[k - 1]).ok /\ g[k].rstack # <<>>
           /\ \/ g[n].err
              \/ /\ Turn(g[n - 1]).ok /\ g[n].rstack = <<>>
                 /\ Rest(g[n]) = <<>> /\ g[n].reply = value
  BY <1>2, <1>3
<1>5. w \in Text /\ Len(w) \in Nat
  BY <1>2, <1>3, LenProperties DEF Text
<1>6. PICK b : b = Given(w)
  OBVIOUS
<1>7. IsReader(b) /\ ~b.err
  BY <1>5, <1>6, GivenIs
<1>8. Readers(g, Len(w), b)
  <2>1. \E h : Readers(h, Len(w), b)
    BY <1>5, ReadersExist
  <2>2. QED
    BY <1>1, <1>3, <1>6, <2>1
<1>9. g[0] = b /\ \A k \in 1 .. Len(w) : g[k] = Turn(g[k - 1]).reader
  BY <1>5, <1>8 DEF Readers
<1>10. \A k \in 0 .. n - 1 : IsReader(g[k]) /\ ~g[k].err
  <2> DEFINE Bad == {k \in 0 .. n - 1 : ~(IsReader(g[k]) /\ ~g[k].err)}
  <2>1. SUFFICES ASSUME Bad # {} PROVE FALSE
    OBVIOUS
  <2>2. PICK k \in Bad : \A j \in Bad : k <= j
    <3>1. Bad \in SUBSET Nat
      OBVIOUS
    <3> HIDE DEF Bad
    <3>2. QED
      BY <2>1, <3>1, LeastOne
  <2>3. k \in 0 .. n - 1 /\ ~(IsReader(g[k]) /\ ~g[k].err)
    OBVIOUS
  <2>4. k # 0
    BY <1>7, <1>9, <2>3
  <2>5. k \in 1 .. n - 1 /\ k - 1 \in 0 .. n - 1 /\ ~(k <= k - 1) /\ k \in 1 .. Len(w)
    BY <1>4, <1>5, <2>3, <2>4
  <2>6. PICK x, p : x = g[k - 1] /\ p = Turn(x)
    OBVIOUS
  <2>7. IsReader(x) /\ ~x.err
    BY <2>2, <2>5, <2>6
  <2>8. p.ok /\ g[k] = p.reader
    BY <1>4, <1>9, <2>5, <2>6
  <2>9. p # SetError(x) /\ p # More(p.reader)
    BY <2>8, ErrorIs DEF More
  <2>10. IsReader(p.reader) /\ p.reader.err = x.err
    BY <2>6, <2>7, <2>9, TurnIs
  <2>11. QED
    BY <2>3, <2>7, <2>8, <2>10
<1>11. PICK S : S = {g[k] : k \in 0 .. n - 1}
  OBVIOUS
<1>12. ASSUME NEW k \in 0 .. n - 1 PROVE Reaches(g[k], value, S)
  <2>1. /\ k + 1 \in 1 .. n /\ k + 1 \in 1 .. Len(w) /\ k + 1 - 1 = k
        /\ k + 1 # n => k + 1 \in 1 .. n - 1
    BY <1>4, <1>5
  <2>2. PICK x, j, p : x = g[k] /\ j = k + 1 /\ p = Turn(x)
    OBVIOUS
  <2>3. g[j] = p.reader /\ g[j - 1] = x /\ j \in 1 .. n
    BY <1>9, <2>1, <2>2
  <2>4. CASE j = n
    <3>1. p.reader.err \/ (p.ok /\ p.reader.rstack = <<>> /\ Rest(p.reader) = <<>>
                           /\ p.reader.reply = value)
      BY <1>4, <2>2, <2>3, <2>4
    <3>2. QED
      BY <2>2, <3>1 DEF Reaches
  <2>5. CASE j # n
    <3>1. j \in 1 .. n - 1
      BY <2>1, <2>2, <2>5
    <3>2. p.ok /\ p.reader.rstack # <<>>
      BY <1>4, <2>2, <2>3, <3>1
    <3>3. p.reader \in S
      BY <1>11, <2>3, <3>1
    <3>4. QED
      BY <2>2, <3>2, <3>3 DEF Reaches
  <2>6. QED
    BY <2>4, <2>5
<1>13. b \in S
  <2>1. 0 \in 0 .. n - 1
    BY <1>4, <1>5
  <2>2. QED
    BY <1>9, <1>11, <2>1
<1>14. \A x \in S : IsReader(x) /\ ~x.err /\ Reaches(x, value, S)
  BY <1>10, <1>11, <1>12
<1>15. Leads(b, value)
  BY <1>13, <1>14 DEF Leads
<1>16. QED
  BY <1>3, <1>5, <1>6, <1>15

-----------------------------------------------------------------------------
(* Answers one behind the other. *)

Values == {a.value : a \in Answers}

\* The bytes z are those of answers with these values; g is what is left after each.
Told(z, values) ==
  /\ values \in Seq(Values)
  /\ \E g \in [0 .. Len(values) -> Text] :
       /\ g[0] = z /\ g[Len(values)] = <<>>
       /\ \A i \in 1 .. Len(values) :
            \E a \in Answers : a.value = values[i] /\ g[i - 1] = a.wire \o g[i]

LEMMA TextIs ==
  /\ <<>> \in Text /\ Len(<<>>) = 0
  /\ \A s \in Text : s \o <<>> = s /\ <<>> \o s = s
  /\ \A s, t \in Text : s \o t \in Text
  /\ \A s, t, u \in Text : (s \o t) \o u = s \o (t \o u)
<1>1. <<>> \in Text /\ Len(<<>>) = 0
  BY EmptySeq DEF Text
<1>2. \A s \in Text : s \o <<>> = s /\ <<>> \o s = s
  BY ConcatEmptySeq DEF Text
<1>3. \A s, t \in Text : s \o t \in Text
  BY ConcatProperties DEF Text
<1>4. \A s, t, u \in Text : (s \o t) \o u = s \o (t \o u)
  BY ConcatAssociative DEF Text
<1>5. QED
  BY <1>1, <1>2, <1>3, <1>4

LEMMA ToldNone ==
  /\ Told(<<>>, <<>>)
  /\ \A z : Told(z, <<>>) => z = <<>>
<1>1. <<>> \in Text /\ Len(<<>>) = 0
  BY TextIs
<1>2. <<>> \in Seq(Values)
  BY EmptySeq
<1>3. PICK g : g = [i \in 0 .. 0 |-> <<>>]
  OBVIOUS
<1>4. g \in [0 .. 0 -> Text] /\ g[0] = <<>>
  BY <1>1, <1>3
<1>5. Told(<<>>, <<>>)
  BY <1>1, <1>2, <1>4 DEF Told
<1>6. \A z : Told(z, <<>>) => z = <<>>
  BY <1>1 DEF Told
<1>7. QED
  BY <1>5, <1>6

LEMMA ToldText ==
  ASSUME NEW z, NEW values, Told(z, values)
  PROVE  z \in Text /\ values \in Seq(Values) /\ Len(values) \in Nat
<1>1. values \in Seq(Values) /\ Len(values) \in Nat
  BY LenProperties DEF Told
<1>2. PICK g \in [0 .. Len(values) -> Text] : g[0] = z
  BY DEF Told
<1>3. QED
  BY <1>1, <1>2

\* The first of them, and the others.
LEMMA ToldFirst ==
  ASSUME NEW z, NEW values, Told(z, values), values # <<>>
  PROVE  \E a \in Answers :
           a.value = Head(values) /\ \E t \in Text : z = a.wire \o t /\ Told(t, Tail(values))
<1>1. PICK n : n = Len(values)
  OBVIOUS
<1>2. /\ values \in Seq(Values) /\ n \in Nat \ {0} /\ Head(values) = values[1]
      /\ Tail(values) \in Seq(Values) /\ Len(Tail(values)) = n - 1
      /\ \A i \in 1 .. n - 1 : Tail(values)[i] = values[i + 1]
  <2>1. values \in Seq(Values)
    BY ToldText
  <2>2. QED
    BY <1>1, <2>1, EmptySeq, LenProperties, HeadTailProperties
<1>3. PICK g \in [0 .. n -> Text] :
       /\ g[0] = z /\ g[n] = <<>>
       /\ \A i \in 1 .. n : \E a \in Answers : a.value = values[i] /\ g[i - 1] = a.wire \o g[i]
  BY <1>1 DEF Told
<1>4. PICK a \in Answers : a.value = values[1] /\ g[0] = a.wire \o g[1]
  <2>1. 1 \in 1 .. n /\ 1 - 1 = 0
    BY <1>2
  <2>2. QED
    BY <1>3, <2>1
<1>5. PICK w : w = Tail(values)
  OBVIOUS
<1>6. w \in Seq(Values) /\ Len(w) = n - 1 /\ \A i \in 1 .. n - 1 : w[i] = values[i + 1]
  BY <1>2, <1>5
<1>7. Told(g[1], w)
  <2>1. PICK h : h = [i \in 0 .. n - 1 |-> g[i + 1]]
    OBVIOUS
  <2>2. \A i \in 0 .. n - 1 : h[i] = g[i + 1] /\ i + 1 \in 0 .. n
    BY <1>2, <2>1
  <2>3. h \in [0 .. n - 1 -> Text]
    BY <2>1, <2>2
  <2>4. h[0] = g[1] /\ h[n - 1] = <<>>
    <3>1. 0 \in 0 .. n - 1 /\ n - 1 \in 0 .. n - 1 /\ n - 1 + 1 = n /\ 0 + 1 = 1
      BY <1>2
    <3>2. QED
      BY <1>3, <2>2, <3>1
  <2>5. ASSUME NEW i \in 1 .. n - 1
        PROVE  \E b \in Answers : b.value = w[i] /\ h[i - 1] = b.wire \o h[i]
    <3>1. /\ i + 1 \in 1 .. n /\ i - 1 \in 0 .. n - 1 /\ i \in 0 .. n - 1
          /\ i - 1 + 1 = i /\ i + 1 - 1 = i
      BY <1>2
    <3>2. PICK b \in Answers : b.value = values[i + 1] /\ g[i] = b.wire \o g[i + 1]
      <4>1. PICK j \in 1 .. n : j = i + 1 /\ j - 1 = i
        BY <3>1
      <4>2. PICK b \in Answers : b.value = values[j] /\ g[j - 1] = b.wire \o g[j]
        BY <1>3
      <4>3. QED
        BY <4>1, <4>2
    <3>3. h[i - 1] = g[i] /\ h[i] = g[i + 1]
      BY <2>2, <3>1
    <3>4. QED
      BY <1>6, <3>2, <3>3
  <2>6. PICK m : m = n - 1
    OBVIOUS
  <2>7. /\ h \in [0 .. m -> Text] /\ h[0] = g[1] /\ h[m] = <<>> /\ Len(w) = m
        /\ \A i \in 1 .. m : \E b \in Answers : b.value = w[i] /\ h[i - 1] = b.wire \o h[i]
    BY <1>6, <2>3, <2>4, <2>5, <2>6
  <2>8. QED
    BY <1>6, <2>7 DEF Told
<1>8. g[1] \in Text
  BY <1>2, <1>3
<1>9. QED
  BY <1>2, <1>3, <1>4, <1>5, <1>7, <1>8

\* One more.
LEMMA ToldMore ==
  ASSUME NEW z, NEW values, Told(z, values), NEW a \in Answers
  PROVE  Told(z \o a.wire, Append(values, a.value))
<1>1. PICK n, w : n = Len(values) /\ w = a.wire
  OBVIOUS
<1>2. values \in Seq(Values) /\ n \in Nat /\ w \in Text /\ a.value \in Values
  BY <1>1, ToldText, AnswerLeads DEF Values
<1>3. PICK more : more = Append(values, a.value)
  OBVIOUS
<1>4. /\ more \in Seq(Values) /\ Len(more) = n + 1
      /\ \A i \in 1 .. n : more[i] = values[i]
      /\ more[n + 1] = a.value
  BY <1>1, <1>2, <1>3, AppendProperties
<1>5. PICK g \in [0 .. n -> Text] :
       /\ g[0] = z /\ g[n] = <<>>
       /\ \A i \in 1 .. n : \E b \in Answers : b.value = values[i] /\ g[i - 1] = b.wire \o g[i]
  BY <1>1 DEF Told
<1>6. PICK h : h = [i \in 0 .. n + 1 |-> IF i = n + 1 THEN <<>> ELSE g[i] \o w]
  OBVIOUS
<1>7. \A i \in 0 .. n + 1 : i # n + 1 => i \in 0 .. n
  BY <1>2
<1>8. h \in [0 .. n + 1 -> Text]
  <2>1. \A i \in 0 .. n + 1 : i # n + 1 => g[i] \o w \in Text
    BY <1>2, <1>5, <1>7, TextIs
  <2>2. <<>> \in Text
    BY TextIs
  <2>3. QED
    BY <1>6, <2>1, <2>2
<1>9. h[0] = z \o w /\ h[n + 1] = <<>>
  <2>1. 0 \in 0 .. n + 1 /\ n + 1 \in 0 .. n + 1 /\ 0 # n + 1
    BY <1>2
  <2>2. QED
    BY <1>5, <1>6, <2>1
<1>10. ASSUME NEW i \in 1 .. n + 1
       PROVE  \E b \in Answers : b.value = more[i] /\ h[i - 1] = b.wire \o h[i]
  <2>1. i - 1 \in 0 .. n /\ i - 1 \in 0 .. n + 1 /\ i \in 0 .. n + 1 /\ i - 1 # n + 1
    BY <1>2
  <2>2. h[i - 1] = g[i - 1] \o w
    BY <1>6, <2>1
  <2>3. CASE i = n + 1
    <3>1. i - 1 = n /\ h[i] = <<>>
      BY <1>2, <1>9, <2>3
    <3>2. h[i - 1] = w \o h[i]
      <4>1. g[i - 1] = <<>>
        BY <1>5, <3>1
      <4>2. <<>> \o w = w /\ w \o <<>> = w
        BY <1>2, TextIs
      <4>3. QED
        BY <2>2, <3>1, <4>1, <4>2
    <3>3. QED
      BY <1>1, <1>4, <2>3, <3>2
  <2>4. CASE i # n + 1
    <3>1. i \in 1 .. n /\ i \in 0 .. n
      BY <1>2, <2>4
    <3>2. PICK b \in Answers : b.value = values[i] /\ g[i - 1] = b.wire \o g[i]
      BY <1>5, <3>1
    <3>3. h[i] = g[i] \o w
      BY <1>6, <2>1, <2>4
    <3>4. b.wire \in Text /\ g[i] \in Text
      BY <1>5, <3>1, AnswerLeads
    <3>5. (b.wire \o g[i]) \o w = b.wire \o (g[i] \o w)
      BY <1>2, <3>4, TextIs
    <3>6. QED
      BY <1>4, <2>2, <3>1, <3>2, <3>3, <3>5
  <2>5. QED
    BY <2>3, <2>4
<1>11. Told(z \o w, more)
  BY <1>4, <1>8, <1>9, <1>10 DEF Told
<1>12. QED
  BY <1>1, <1>3, <1>11

-----------------------------------------------------------------------------
(* A reader in step with the answers that are outstanding. *)

\* What r has and the bytes y to come are the answers with these values; it may be
\* inside the first.
InStep(r, y, values) ==
  \/ /\ values = <<>> /\ Rest(r) = <<>> /\ y = <<>> /\ r.reply = NoReply
     /\ r.rstack \in {<<>>, <<Task(-1)>>}
  \/ /\ values # <<>> /\ values \in Seq(Values)
     /\ \E v, z : InPlace(r, y, v, z) /\ Leads(v, Head(values)) /\ Told(z, Tail(values))

\* A reader between two replies.
LEMMA StepsStart ==
  ASSUME NEW r, IsReader(r), r.rstack = <<>>, r.reply = NoReply, NEW y \in Text,
         NEW values, Told(Rest(r) \o y, values)
  PROVE  InStep(r, y, values)
<1>1. Rest(r) \in Text /\ values \in Seq(Values)
  BY RestIs, ToldText
<1>2. CASE values = <<>>
  <2>1. Rest(r) \o y = <<>>
    BY <1>2, ToldNone
  <2>2. Rest(r) = <<>> /\ y = <<>>
    BY <1>1, <2>1, ConcatEmptySeq DEF Text
  <2>3. QED
    BY <1>2, <2>2 DEF InStep
<1>3. CASE values # <<>>
  <2>1. PICK a \in Answers :
          a.value = Head(values)
          /\ \E t \in Text : Rest(r) \o y = a.wire \o t /\ Told(t, Tail(values))
    BY <1>3, ToldFirst
  <2>2. PICK t \in Text : Rest(r) \o y = a.wire \o t /\ Told(t, Tail(values))
    BY <2>1
  <2>3. PICK v : v = Given(a.wire)
    OBVIOUS
  <2>4. /\ Leads(v, Head(values)) /\ IsReader(v) /\ Rest(v) = a.wire
        /\ v.rstack = <<>> /\ v.reply = NoReply
    <3>1. a.wire \in Text /\ Leads(v, a.value)
      BY <2>3, AnswerLeads
    <3>2. QED
      BY <2>1, <2>3, <3>1, GivenIs
  <2>5. InPlace(r, y, v, t)
    BY <2>2, <2>4 DEF InPlace
  <2>6. QED
    BY <1>1, <1>3, <2>2, <2>4, <2>5 DEF InStep
<1>4. QED
  BY <1>2, <1>3

\* What InPlace tells of two readers stays so for one that is in the same place.
LEMMA StepsFed ==
  ASSUME NEW r, NEW y, NEW values, InStep(r, y, values), NEW t \in Text, NEW u \in Text,
         y = t \o u, IsReader(r), NEW q, IsReader(q), q.rstack = r.rstack, q.reply = r.reply,
         Rest(q) = Rest(r) \o t
  PROVE  InStep(q, u, values)
<1>1. Rest(r) \in Text
  BY RestIs
<1>2. Rest(q) \o u = Rest(r) \o y
  BY <1>1, TextIs
<1>3. CASE values = <<>>
  <2>1. Rest(r) = <<>> /\ y = <<>>
    BY <1>3 DEF InStep
  <2>2. t = <<>> /\ u = <<>>
    <3>1. t \o u = <<>> /\ t \in Seq(STRING) /\ u \in Seq(STRING)
      BY <2>1 DEF Text
    <3>2. QED
      BY <3>1, ConcatEmptySeq
  <2>3. Rest(q) = <<>>
    BY <2>1, <2>2, TextIs
  <2>4. QED
    BY <1>3, <2>2, <2>3 DEF InStep
<1>4. CASE values # <<>>
  <2>1. PICK v, z : InPlace(r, y, v, z) /\ Leads(v, Head(values)) /\ Told(z, Tail(values))
    BY <1>4 DEF InStep
  <2>2. InPlace(q, u, v, z)
    BY <1>2, <2>1 DEF InPlace
  <2>3. values \in Seq(Values)
    BY <1>4 DEF InStep
  <2>4. QED
    BY <1>4, <2>1, <2>2, <2>3 DEF InStep
<1>5. QED
  BY <1>3, <1>4

LEMMA StepsSame ==
  ASSUME NEW r, NEW y \in Text, NEW values, InStep(r, y, values), IsReader(r), NEW q, IsReader(q),
         q.rstack = r.rstack, q.reply = r.reply, Rest(q) = Rest(r)
  PROVE  InStep(q, y, values)
<1>1. <<>> \in Text /\ <<>> \o y = y /\ Rest(r) \o <<>> = Rest(r)
  BY RestIs, TextIs
<1>2. PICK e : e = <<>>
  OBVIOUS
<1>3. QED
  BY <1>1, <1>2, StepsFed

\* Redis answers.
LEMMA StepsAnswer ==
  ASSUME NEW r, IsReader(r), NEW y \in Text, NEW values \in Seq(Values), InStep(r, y, values),
         NEW a \in Answers
  PROVE  InStep(r, y \o a.wire, Append(values, a.value))
<1>1. PICK w, more : w = a.wire /\ more = Append(values, a.value)
  OBVIOUS
<1>2. w \in Text /\ Leads(Given(w), a.value) /\ a.value \in Values /\ Rest(r) \in Text
      /\ y \o w \in Text
  BY <1>1, AnswerLeads, RestIs, TextIs DEF Values
<1>3. more \in Seq(Values) /\ more # <<>> /\ Len(values) \in Nat /\ Len(more) = Len(values) + 1
  BY <1>1, <1>2, AppendProperties, LenProperties
<1>4. CASE values = <<>>
  <2>1. more = <<a.value>>
    BY <1>1, <1>4
  <2>2. Head(more) = a.value /\ Tail(more) = <<>>
    BY <2>1
  <2>3. Rest(r) = <<>> /\ y = <<>> /\ r.reply = NoReply /\ r.rstack \in {<<>>, <<Task(-1)>>}
    BY <1>4 DEF InStep
  <2>4. PICK g : g = Given(w)
    OBVIOUS
  <2>5. IsReader(g) /\ ~g.err /\ Rest(g) = w /\ g.rstack = <<>> /\ g.reply = NoReply
        /\ Leads(g, a.value)
    BY <1>2, <2>4, GivenIs
  <2>6. PICK b : b = Begun(g)
    OBVIOUS
  <2>7. IsReader(b) /\ ~b.err /\ Rest(b) = w /\ b.rstack = <<Task(-1)>> /\ b.reply = NoReply
        /\ Turn(b) = Turn(g)
    BY <2>5, <2>6, BegunIs
  <2>8. Leads(b, a.value)
    BY <2>5, <2>7, LeadsAlso
  <2>9. PICK v \in {g, b} : v.rstack = r.rstack
    BY <2>3, <2>5, <2>7
  <2>10. Rest(r) \o (y \o w) = Rest(v) \o <<>> /\ <<>> \in Text
    BY <1>2, <2>3, <2>5, <2>7, TextIs
  <2>11. InPlace(r, y \o w, v, <<>>)
    BY <1>2, <2>3, <2>5, <2>7, <2>9, <2>10 DEF InPlace
  <2>12. Told(<<>>, Tail(more))
    BY <2>2, ToldNone
  <2>13. Leads(v, Head(more))
    BY <2>2, <2>5, <2>8
  <2>14. InStep(r, y \o w, more)
    BY <1>3, <2>11, <2>12, <2>13 DEF InStep
  <2>15. QED
    BY <1>1, <2>14
<1>5. CASE values # <<>>
  <2>1. PICK v, z : InPlace(r, y, v, z) /\ Leads(v, Head(values)) /\ Told(z, Tail(values))
    BY <1>5 DEF InStep
  <2>2. Told(z \o w, Append(Tail(values), a.value))
    BY <1>1, <2>1, ToldMore
  <2>3. Head(more) = Head(values) /\ Tail(more) = Append(Tail(values), a.value)
    BY <1>1, <1>2, <1>5
  <2>4. InPlace(r, y \o w, v, z \o w)
    <3>1. z \in Text /\ Rest(v) \in Text /\ Rest(r) \o y = Rest(v) \o z
      BY <2>1, RestIs DEF InPlace
    <3>2. z \o w \in Text /\ (Rest(r) \o y) \o w = Rest(r) \o (y \o w)
          /\ (Rest(v) \o z) \o w = Rest(v) \o (z \o w)
      <4>1. PICK s \in Text, x \in Text : s = Rest(r) /\ x = Rest(v)
        BY <1>2, <3>1
      <4>2. z \in Text /\ w \in Text
        BY <1>2, <3>1
      <4>3. z \o w \in Text
        BY <4>2, TextIs
      <4>4. (s \o y) \o w = s \o (y \o w)
        BY <4>2, TextIs
      <4>5. (x \o z) \o w = x \o (z \o w)
        BY <4>2, TextIs
      <4>6. QED
        BY <4>1, <4>3, <4>4, <4>5
    <3>3. QED
      BY <1>2, <2>1, <3>1, <3>2 DEF InPlace
  <2>5. InStep(r, y \o w, more)
    BY <1>3, <2>1, <2>2, <2>3, <2>4 DEF InStep
  <2>6. QED
    BY <1>1, <2>5
<1>6. QED
  BY <1>4, <1>5

\* A turn: it ends with an error, or with no more than has come, or inside the first
\* answer, or with its value, and then the others are next.
TurnInStep(p, y, values) ==
  \/ p.reader.err
  \/ p = More(p.reader) /\ Stuck(p.reader) /\ ~p.reader.err /\ InStep(p.reader, y, values)
  \/ /\ p.ok /\ p.reader.rstack # <<>> /\ IsReader(p.reader) /\ ~p.reader.err
     /\ InStep(p.reader, y, values)
  \/ /\ p.ok /\ p.reader.rstack = <<>> /\ IsReader(p.reader) /\ ~p.reader.err
     /\ values # <<>> /\ p.reader.reply = Head(values)
     /\ Told(Rest(p.reader) \o y, Tail(values))

LEMMA StepsTurn ==
  ASSUME NEW r, IsReader(r), ~r.err, NEW y, NEW values, InStep(r, y, values),
         NEW p, p = Turn(r)
  PROVE  TurnInStep(p, y, values)
<1>1. CASE values = <<>>
  <2>1. Rest(r) = <<>> /\ y = <<>> /\ r.reply = NoReply /\ r.rstack \in {<<>>, <<Task(-1)>>}
    BY <1>1 DEF InStep
  <2>2. PICK b : b = Begun(r)
    OBVIOUS
  <2>3. IsReader(b) /\ ~b.err /\ Rest(b) = <<>> /\ b.rstack = <<Task(-1)>> /\ b.reply = NoReply
        /\ Turn(b) = p
    BY <2>1, <2>2, BegunIs
  <2>4. b.rstack # <<>> /\ Last(b.rstack).type = "none" /\ ~SeesType(b)
    BY <2>3 DEF SeesType, Last, Task
  <2>5. p = More(b)
    BY <2>3, <2>4, NoTypeIs
  <2>6. p.reader = b
    BY <2>5 DEF More
  <2>7. Stuck(b) /\ InStep(b, y, values)
    BY <1>1, <2>1, <2>3, <2>4, <2>5 DEF Stuck, InStep
  <2>8. QED
    BY <2>3, <2>5, <2>6, <2>7 DEF TurnInStep
<1>2. CASE values # <<>>
  <2>1. PICK v, z : InPlace(r, y, v, z) /\ Leads(v, Head(values)) /\ Told(z, Tail(values))
    BY <1>2 DEF InStep
  <2>2. Read(p, y, Head(values), z)
    BY <2>1, Reads
  <2>3. \A x : (\E u : InPlace(x, y, u, z) /\ Leads(u, Head(values))) => InStep(x, y, values)
    BY <1>2, <2>1 DEF InStep
  <2>4. QED
    BY <1>2, <2>1, <2>2, <2>3 DEF Read, TurnInStep
<1>3. QED
  BY <1>1, <1>2

\* The same for a connection: what it had to bring when it was closed may be lost.
Followed(r, down, open, values) ==
  \E gone \in Text : (open => gone = <<>>) /\ InStep(r, down \o gone, values)

LEMMA FollowedNew ==
  /\ IsReader(redisReaderCreate) /\ ~redisReaderCreate.err /\ redisReaderCreate.buf = <<>>
  /\ \A open : Followed(redisReaderCreate, <<>>, open, <<>>)
<1>1. PICK x : x = redisReaderCreate
  OBVIOUS
<1>2. x = [buf |-> <<>>, pos |-> 0, err |-> FALSE, rstack |-> <<>>, reply |-> NoReply]
  BY <1>1 DEF redisReaderCreate
<1>3. <<>> \in Text /\ <<>> \o <<>> = <<>>
  BY TextIs
<1>4. IsReader(x) /\ Rest(x) = <<>>
  <2>1. PICK w : w = <<>>
    OBVIOUS
  <2>2. Given(w) = [x EXCEPT !.buf = w]
    BY <1>1 DEF Given
  <2>3. [x EXCEPT !.buf = w] = x
    <3>1. PICK k, e, st, o : k = 0 /\ e = FALSE /\ st = <<>> /\ o = NoReply
      OBVIOUS
    <3>2. x = [buf |-> w, pos |-> k, err |-> e, rstack |-> st, reply |-> o]
      BY <1>2, <2>1, <3>1
    <3>3. [x EXCEPT !.buf = w] = [buf |-> w, pos |-> k, err |-> e, rstack |-> st, reply |-> o]
      BY <3>2
    <3>4. QED
      BY <3>2, <3>3
  <2>4. QED
    BY <1>3, <2>1, <2>2, <2>3, GivenIs
<1>5. InStep(x, <<>>, <<>>)
  BY <1>2, <1>4 DEF InStep
<1>6. \A open : Followed(x, <<>>, open, <<>>)
  BY <1>3, <1>5 DEF Followed
<1>7. ~x.err /\ x.buf = <<>>
  BY <1>2
<1>8. QED
  BY <1>1, <1>4, <1>6, <1>7

LEMMA FollowedEnd ==
  ASSUME NEW r, NEW down \in Text, NEW open, Followed(r, down, open, <<>>)
  PROVE  down = <<>> /\ Rest(r) = <<>> /\ r.reply = NoReply
<1>1. PICK gone \in Text : InStep(r, down \o gone, <<>>)
  BY DEF Followed
<1>2. down \o gone = <<>> /\ Rest(r) = <<>> /\ r.reply = NoReply
  BY <1>1 DEF InStep
<1>3. down \in Seq(STRING) /\ gone \in Seq(STRING)
  BY DEF Text
<1>4. QED
  BY <1>2, <1>3, ConcatEmptySeq

LEMMA FollowedAnswer ==
  ASSUME NEW r, IsReader(r), NEW down \in Text, NEW values \in Seq(Values), NEW open, open,
         Followed(r, down, open, values), NEW a \in Answers
  PROVE  /\ down \o a.wire \in Text /\ Append(values, a.value) \in Seq(Values)
         /\ Followed(r, down \o a.wire, open, Append(values, a.value))
<1>1. PICK gone \in Text : gone = <<>> /\ InStep(r, down \o gone, values)
  BY DEF Followed
<1>2. down \o gone = down
  BY <1>1, TextIs
<1>3. InStep(r, down, values)
  BY <1>1, <1>2
<1>4. InStep(r, down \o a.wire, Append(values, a.value))
  BY <1>3, StepsAnswer
<1>5. a.wire \in Text /\ a.value \in Values
  BY AnswerLeads DEF Values
<1>6. PICK w, x : w = a.wire /\ x = a.value
  OBVIOUS
<1>7. down \o w \in Text /\ (down \o w) \o <<>> = down \o w /\ <<>> \in Text
  BY <1>5, <1>6, TextIs
<1>8. Append(values, x) \in Seq(Values)
  BY <1>5, <1>6, AppendProperties
<1>9. QED
  BY <1>4, <1>6, <1>7, <1>8 DEF Followed

LEMMA FollowedClose ==
  ASSUME NEW r, NEW down \in Text, NEW values, NEW open, open, Followed(r, down, open, values),
         NEW kept \in {down, <<>>}
  PROVE  kept \in Text /\ Followed(r, kept, FALSE, values)
<1>1. PICK gone \in Text : gone = <<>> /\ InStep(r, down \o gone, values)
  BY DEF Followed
<1>2. down \o gone = down /\ <<>> \o down = down /\ <<>> \in Text
  BY <1>1, TextIs
<1>3. \E g \in Text : InStep(r, kept \o g, values)
  BY <1>1, <1>2
<1>4. QED
  BY <1>2, <1>3 DEF Followed

LEMMA FollowedRead ==
  ASSUME NEW r, IsReader(r), ~r.err, NEW down \in Text, NEW values, NEW open,
         Followed(r, down, open, values), NEW n \in 1 .. Len(down),
         NEW q, q = RedisReaderFeed(r, SubSeq(down, 1, n)),
         NEW d, d = SubSeq(down, n + 1, Len(down))
  PROVE  IsReader(q) /\ ~q.err /\ d \in Text /\ Followed(q, d, open, values)
<1>1. PICK t : t = SubSeq(down, 1, n)
  OBVIOUS
<1>2. Len(down) \in Nat /\ n \in Nat /\ n <= Len(down) /\ n \in 0 .. Len(down)
  BY LenProperties DEF Text
<1>3. t \in Text /\ Len(t) = n /\ \A i \in 1 .. n : t[i] = down[i]
  <2>1. \A i \in 1 .. n : down[i] \in STRING
    BY <1>2, ElementOfSeq DEF Text
  <2>2. /\ SubSeq(down, 1, n) \in Text /\ Len(SubSeq(down, 1, n)) = IF 1 <= n THEN n - 1 + 1 ELSE 0
        /\ \A i \in 1 .. n - 1 + 1 : SubSeq(down, 1, n)[i] = down[1 + i - 1]
    BY <1>2, <2>1, SubSeqProperties DEF Text
  <2>3. n - 1 + 1 = n /\ 1 <= n /\ \A i \in 1 .. n : 1 + i - 1 = i
    BY <1>2
  <2>4. QED
    BY <1>1, <2>2, <2>3
<1>4. d \in Text /\ Len(d) = Len(down) - n /\ \A i \in 1 .. Len(down) - n : d[i] = down[n + i]
  BY <1>2, DropIs DEF Drop
<1>5. down = t \o d
  <2>1. /\ t \o d \in Seq(STRING) /\ Len(t \o d) = Len(t) + Len(d)
        /\ \A i \in 1 .. Len(t) + Len(d) : (t \o d)[i] = IF i <= Len(t) THEN t[i] ELSE d[i - Len(t)]
    <3>1. t \in Seq(STRING) /\ d \in Seq(STRING)
      BY <1>3, <1>4 DEF Text
    <3>2. QED
      BY <3>1, ConcatProperties
  <2>2. PICK x : x = t \o d
    OBVIOUS
  <2>3. /\ x \in Seq(STRING) /\ Len(x) = Len(down)
        /\ \A i \in 1 .. Len(down) : x[i] = IF i <= n THEN t[i] ELSE d[i - n]
    <3>1. PICK k \in Nat, m \in Nat : k = Len(down) /\ m = Len(d)
      BY <1>2, <1>4
    <3>2. m = k - n /\ n + m = k
      BY <1>2, <1>4, <3>1
    <3>3. /\ x \in Seq(STRING) /\ Len(x) = n + m
          /\ \A i \in 1 .. n + m : x[i] = IF i <= n THEN t[i] ELSE d[i - n]
      BY <1>3, <2>1, <2>2, <3>1
    <3>4. QED
      BY <3>1, <3>2, <3>3
  <2>4. ASSUME NEW i \in 1 .. Len(down) PROVE x[i] = down[i]
    <3>1. CASE i <= n
      BY <1>2, <1>3, <2>3, <3>1
    <3>2. CASE ~(i <= n)
      <4>1. PICK j : j = i - n
        OBVIOUS
      <4>2. j \in 1 .. Len(down) - n /\ n + j = i
        BY <1>2, <3>2, <4>1
      <4>3. d[j] = down[i]
        BY <1>4, <4>2
      <4>4. QED
        BY <2>3, <3>2, <4>1, <4>3
    <3>3. QED
      BY <3>1, <3>2
  <2>5. x = down
    BY <2>3, <2>4, SeqEqual DEF Text
  <2>6. QED
    BY <2>2, <2>5
<1>6. q = [buf |-> r.buf \o t, pos |-> r.pos, err |-> r.err, rstack |-> r.rstack,
           reply |-> r.reply]
  BY <1>1 DEF RedisReaderFeed, IsReader
<1>7. r.buf \in Text /\ Len(r.buf) \in Nat /\ r.pos \in 0 .. Len(r.buf)
  BY RestIs DEF IsReader
<1>8. r.buf \o t \in Text /\ r.pos \in 0 .. Len(r.buf \o t)
  <2>1. PICK b : b = r.buf
    OBVIOUS
  <2>2. b \in Text /\ Len(b) \in Nat /\ r.pos \in 0 .. Len(b)
    BY <1>7, <2>1
  <2>3. b \o t \in Text /\ Len(b \o t) = Len(b) + Len(t)
    BY <1>3, <2>2, ConcatProperties DEF Text
  <2>4. r.pos \in 0 .. Len(b \o t)
    BY <1>2, <1>3, <2>2, <2>3
  <2>5. QED
    BY <2>1, <2>3, <2>4
<1>9. IsReader(q) /\ ~q.err /\ q.rstack = r.rstack /\ q.reply = r.reply
  <2>1. PICK b, k, e, st, o :
          b = r.buf \o t /\ k = r.pos /\ e = r.err /\ st = r.rstack /\ o = r.reply
    OBVIOUS
  <2>2. q = [buf |-> b, pos |-> k, err |-> e, rstack |-> st, reply |-> o]
    BY <1>6, <2>1
  <2>3. b \in Text /\ k \in 0 .. Len(b)
    BY <1>8, <2>1
  <2>4. e \in BOOLEAN /\ StackOK(st) /\ ~e
    BY <2>1 DEF IsReader
  <2>5. IsReader(q)
    BY <2>2, <2>3, <2>4 DEF IsReader
  <2>6. QED
    BY <2>1, <2>2, <2>4, <2>5
<1>10. Rest(q) = Rest(r) \o t
  <2>1. PICK b, k : b = r.buf /\ k = r.pos
    OBVIOUS
  <2>2. b \in Text /\ k \in 0 .. Len(b)
    BY <1>7, <2>1
  <2>3. Drop(b \o t, k) = Drop(b, k) \o t
    BY <1>3, <2>2, DropLonger
  <2>4. Rest(q) = Drop(q.buf, q.pos) /\ Rest(r) = Drop(r.buf, r.pos)
    BY <1>9, RestIs
  <2>5. q.buf = b \o t /\ q.pos = k
    BY <1>6, <2>1
  <2>6. QED
    BY <2>1, <2>3, <2>4, <2>5
<1>11. PICK gone \in Text : (open => gone = <<>>) /\ InStep(r, down \o gone, values)
  BY DEF Followed
<1>12. down \o gone = t \o (d \o gone) /\ d \o gone \in Text
  <2>1. t \in Text /\ d \in Text
    BY <1>3, <1>4
  <2>2. \A u \in Text : (t \o d) \o u = t \o (d \o u)
    BY <2>1, TextIs, Zenon
  <2>3. d \o gone \in Text
    BY <2>1, TextIs
  <2>4. QED
    BY <1>5, <2>2, <2>3
<1>13. PICK y, u : y = down \o gone /\ u = d \o gone
  OBVIOUS
<1>14. InStep(r, y, values) /\ y = t \o u /\ u \in Text
  BY <1>11, <1>12, <1>13
<1>15. InStep(q, u, values)
  BY <1>3, <1>9, <1>10, <1>14, StepsFed
<1>16. QED
  BY <1>4, <1>9, <1>11, <1>13, <1>15 DEF Followed

\* A reader, and what follows it, when redisReaderGetReply returns or takes another turn.
After(r, down, open, values) ==
  IsReader(r) /\ ~r.err /\ Followed(r, down, open, values)

TurnFollowed(p, down, open, values) ==
  LET r == Discarded(p.reader)
  IN \/ p.reader.err
     \/ /\ ~p.ok /\ p.reader.rstack # <<>> /\ Stuck(r) /\ After(r, down, open, values)
     \/ /\ p.ok /\ p.reader.rstack # <<>> /\ After(p.reader, down, open, values)
     \/ /\ p.ok /\ p.reader.rstack = <<>>
        /\ After([r EXCEPT !.reply = NoReply], down, open, Tail(values))
        /\ values # <<>> /\ r.reply = Head(values)

LEMMA FollowedTurn ==
  ASSUME NEW r, IsReader(r), ~r.err, NEW down \in Text, NEW open, NEW values,
         Followed(r, down, open, values), NEW p, p = Turn(r)
  PROVE  TurnFollowed(p, down, open, values)
<1>1. PICK gone \in Text : (open => gone = <<>>) /\ InStep(r, down \o gone, values)
  BY DEF Followed
<1>2. PICK y \in Text : y = down \o gone
  BY TextIs
<1>3. TurnInStep(p, y, values)
  BY <1>1, <1>2, StepsTurn
<1>4. \A x : InStep(x, y, values) => Followed(x, down, open, values)
  BY <1>1, <1>2 DEF Followed
<1>5. PICK x, d : x = p.reader /\ d = Discarded(x)
  OBVIOUS
<1>6. CASE x.err
  BY <1>5, <1>6 DEF TurnFollowed
<1>7. CASE p = More(x) /\ Stuck(x) /\ ~x.err /\ InStep(x, y, values)
  <2>1. Stuck(d) /\ ~d.err
    BY <1>5, <1>7, DiscardedStuck
  <2>2. IsReader(x) /\ x.rstack # <<>> /\ ~p.ok
    BY <1>7 DEF Stuck, More
  <2>3. IsReader(d) /\ Rest(d) = Rest(x) /\ d.rstack = x.rstack /\ d.reply = x.reply
    BY <1>5, <2>2, DiscardedIs
  <2>4. InStep(d, y, values)
    BY <1>7, <2>2, <2>3, StepsSame
  <2>5. After(d, down, open, values)
    BY <1>4, <2>1, <2>3, <2>4 DEF After
  <2>6. QED
    BY <1>5, <2>1, <2>2, <2>5 DEF TurnFollowed
<1>8. CASE p.ok /\ x.rstack # <<>> /\ IsReader(x) /\ ~x.err /\ InStep(x, y, values)
  <2>1. After(x, down, open, values)
    BY <1>4, <1>8 DEF After
  <2>2. QED
    BY <1>5, <1>8, <2>1 DEF TurnFollowed
<1>9. CASE /\ p.ok /\ x.rstack = <<>> /\ IsReader(x) /\ ~x.err
           /\ values # <<>> /\ x.reply = Head(values)
           /\ Told(Rest(x) \o y, Tail(values))
  <2>1. /\ IsReader(d) /\ Rest(d) = Rest(x) /\ d.rstack = <<>> /\ d.reply = x.reply /\ ~d.err
    BY <1>5, <1>9, DiscardedIs
  <2>2. PICK q : q = [d EXCEPT !.reply = NoReply]
    OBVIOUS
  <2>3. q = [buf |-> d.buf, pos |-> d.pos, err |-> d.err, rstack |-> d.rstack, reply |-> NoReply]
    BY <2>1, <2>2 DEF IsReader
  <2>4. IsReader(q) /\ Rest(q) = Rest(d) /\ q.rstack = <<>> /\ q.reply = NoReply /\ ~q.err
    BY <2>1, <2>3 DEF IsReader, Rest
  <2>5. Told(Rest(q) \o y, Tail(values))
    BY <1>9, <2>1, <2>4
  <2>6. PICK t : t = Tail(values)
    OBVIOUS
  <2>7. InStep(q, y, t)
    BY <2>4, <2>5, <2>6, StepsStart
  <2>8. Followed(q, down, open, t)
    BY <1>1, <1>2, <2>7 DEF Followed
  <2>9. After([d EXCEPT !.reply = NoReply], down, open, Tail(values))
    BY <2>2, <2>4, <2>6, <2>8 DEF After
  <2>10. QED
    BY <1>5, <1>9, <2>1, <2>9 DEF TurnFollowed
<1>10. QED
  BY <1>3, <1>5, <1>6, <1>7, <1>8, <1>9 DEF TurnInStep

-----------------------------------------------------------------------------
(* The worker in step with Redis. *)

Errors == {"none", "io", "eof", "protocol", "other"}

\* A reader that gives nothing before more has come.
Held(r) == r.err \/ r.buf = <<>> \/ Stuck(r)

\* No more than l answers are still to get: those that Redis has sent, and those to the
\* commands it has not executed.
Outstanding(values, up, obuf, l) == 2 * Len(values) + Len(up) + Len(obuf) <= 2 * l

Worker ==
  /\ c.fd \in BOOLEAN /\ c.err \in Errors /\ call \in Calls /\ left \in Nat /\ addr \in 1 .. Addrs
  /\ IsReader(c.reader) /\ net.down \in Text /\ answers \in Seq(Values)
  /\ c.reader.err => c.err # "none"
  /\ c.err # "none" => call \in {"idle", "get", "write"}
  /\ c.err # "none" \/ call \in {"write", "read"} => Held(c.reader)
  /\ call \in {"connect", "poll"} =>
       c.reader = redisReaderCreate /\ net = Closed /\ answers = <<>>
  /\ call \in {"idle", "connect", "poll"} => left = 0 /\ todo = <<>>
  /\ c.err = "none" /\ call \notin {"connect", "poll"} => c.fd

\* Without an error the reader is in step with the answers, and the caller knows how many.
InOrder ==
  c.err = "none" =>
    /\ Outstanding(answers, net.up, c.obuf, left)
    /\ Followed(c.reader, net.down, net.open, answers)

ReplyInv == Worker /\ InOrder /\ last.reply = last.answer

LEMMA ContextParts ==
  ASSUME NEW x, ContextShape(x), NEW y, NEW v, NEW w
  PROVE  /\ y = [x EXCEPT !.fd = v] =>
              y.fd = v /\ y.err = x.err /\ y.obuf = x.obuf /\ y.reader = x.reader
         /\ y = [x EXCEPT !.err = v] =>
              y.fd = x.fd /\ y.err = v /\ y.obuf = x.obuf /\ y.reader = x.reader
         /\ y = [x EXCEPT !.obuf = v] =>
              y.fd = x.fd /\ y.err = x.err /\ y.obuf = v /\ y.reader = x.reader
         /\ y = [x EXCEPT !.reader = v] =>
              y.fd = x.fd /\ y.err = x.err /\ y.obuf = x.obuf /\ y.reader = v
         /\ y = [x EXCEPT !.err = v, !.fd = w] =>
              y.fd = w /\ y.err = v /\ y.obuf = x.obuf /\ y.reader = x.reader
         /\ y = [x EXCEPT !.err = v, !.reader = w] =>
              y.fd = x.fd /\ y.err = v /\ y.obuf = x.obuf /\ y.reader = w
<1>1. PICK f, e, o, r : x = [fd |-> f, err |-> e, obuf |-> o, reader |-> r]
  BY DEF ContextShape
<1>2. /\ [x EXCEPT !.fd = v] = [fd |-> v, err |-> e, obuf |-> o, reader |-> r]
      /\ [x EXCEPT !.err = v] = [fd |-> f, err |-> v, obuf |-> o, reader |-> r]
      /\ [x EXCEPT !.obuf = v] = [fd |-> f, err |-> e, obuf |-> v, reader |-> r]
      /\ [x EXCEPT !.reader = v] = [fd |-> f, err |-> e, obuf |-> o, reader |-> v]
  BY <1>1
<1>3. ASSUME y = [x EXCEPT !.err = v, !.fd = w]
      PROVE  y = [fd |-> w, err |-> v, obuf |-> o, reader |-> r]
  BY <1>1, <1>3
<1>4. ASSUME y = [x EXCEPT !.err = v, !.reader = w]
      PROVE  y = [fd |-> f, err |-> v, obuf |-> o, reader |-> w]
  BY <1>1, <1>4
<1>5. QED
  BY <1>1, <1>2, <1>3, <1>4

LEMMA NetParts ==
  ASSUME NEW x, NetShape(x), NEW y, NEW v
  PROVE  /\ y = [x EXCEPT !.up = v] => y.up = v /\ y.down = x.down /\ y.open = x.open
         /\ y = [x EXCEPT !.down = v] => y.up = x.up /\ y.down = v /\ y.open = x.open
<1>1. PICK u, d, o : x = [up |-> u, down |-> d, open |-> o]
  BY DEF NetShape
<1>2. /\ [x EXCEPT !.up = v] = [up |-> v, down |-> d, open |-> o]
      /\ [x EXCEPT !.down = v] = [up |-> u, down |-> v, open |-> o]
  BY <1>1
<1>3. QED
  BY <1>1, <1>2

LEMMA Streams ==
  ASSUME ExecInv
  PROVE  /\ net.up \in Seq(CellType) /\ Len(net.up) \in Nat
         /\ c.obuf \in Seq(CellType) /\ Len(c.obuf) \in Nat /\ asked \in Nat
<1>1. asked \in Nat
  BY DEF ExecInv
<1>2. PICK b \in 0 .. 2 * asked : StreamOk(c.obuf, net.up, asked, b)
  BY DEF ExecInv, Border
<1>3. PICK u, o, m : u = Len(net.up) /\ o = Len(c.obuf) /\ m = b + u
  OBVIOUS
<1>4. /\ net.up = Cells(b, u) /\ c.obuf = Cells(m, o) /\ u \in Nat /\ o \in Nat
      /\ b \in Nat /\ m \in Nat
  BY <1>1, <1>2, <1>3 DEF StreamOk
<1>5. Cells(b, u) \in Seq(CellType) /\ Cells(m, o) \in Seq(CellType)
  BY <1>4, CellsType
<1>6. QED
  BY <1>1, <1>3, <1>4, <1>5

LEMMA NoneOutstanding == Outstanding(<<>>, <<>>, <<>>, 0)
<1>1. Len(<<>>) = 0
  BY TextIs
<1>2. QED
  BY <1>1 DEF Outstanding

-----------------------------------------------------------------------------
(* The steps. *)

LEMMA ReplyInit == Init => ReplyInv
<1> SUFFICES ASSUME Init PROVE ReplyInv
  OBVIOUS
<1>1. /\ c = [redisContextInit EXCEPT !.fd = TRUE] /\ net = [Closed EXCEPT !.open = TRUE]
      /\ call = "idle" /\ left = 0 /\ todo = <<>> /\ addr = 1 /\ answers = <<>>
      /\ last = [reply |-> NoReply, answer |-> NoReply]
  BY DEF Init
<1>2. c.fd = TRUE /\ c.err = "none" /\ c.obuf = <<>> /\ c.reader = redisReaderCreate
  BY <1>1 DEF redisContextInit
<1>3. net.up = <<>> /\ net.down = <<>>
  BY <1>1 DEF Closed
<1>4. Addrs \in Nat \ {0}
  BY RedisClientAssumption
<1>5. <<>> \in Seq(Values) /\ <<>> \in Text
  BY EmptySeq, TextIs
<1>6. Worker
  BY <1>1, <1>2, <1>3, <1>4, <1>5, FollowedNew DEF Worker, Errors, Calls, Held
<1>7. InOrder
  BY <1>1, <1>2, <1>3, FollowedNew, NoneOutstanding DEF InOrder
<1>8. QED
  BY <1>1, <1>6, <1>7 DEF ReplyInv

\* redisAppendCommand: n answers more to come.
LEMMA Issued ==
  ASSUME ExecInv, NEW ctx, ContextShape(ctx), ctx.obuf = c.obuf, NEW n \in Nat \ {0},
         AppendCommands(ctx, n), NEW values \in Seq(Values), Outstanding(values, net.up, c.obuf, 0)
  PROVE  /\ c'.fd = ctx.fd /\ c'.err = ctx.err /\ c'.reader = ctx.reader
         /\ left' = n /\ call' = "get" /\ Outstanding(values, net.up, c'.obuf, n)
<1>1. PICK f : f = FlattenSeq([k \in 1 .. n |-> Bytes(asked + k)])
  OBVIOUS
<1>2. c' = [ctx EXCEPT !.obuf = @ \o f] /\ left' = n /\ call' = "get"
  BY <1>1 DEF AppendCommands
<1>3. PICK o, w : o = ctx.obuf /\ w = o \o f
  OBVIOUS
<1>4. c' = [ctx EXCEPT !.obuf = w]
  <2>1. [ctx EXCEPT !.obuf = @ \o f] = [ctx EXCEPT !.obuf = ctx.obuf \o f]
    BY DEF ContextShape
  <2>2. QED
    BY <1>2, <1>3, <2>1
<1>5. c'.fd = ctx.fd /\ c'.err = ctx.err /\ c'.reader = ctx.reader /\ c'.obuf = w
  <2>1. PICK y : y = c'
    OBVIOUS
  <2>2. y = [ctx EXCEPT !.obuf = w]
    BY <1>4, <2>1
  <2>3. y.fd = ctx.fd /\ y.err = ctx.err /\ y.reader = ctx.reader /\ y.obuf = w
    BY <2>2 DEF ContextShape
  <2>4. QED
    BY <2>1, <2>3
<1>6. o \in Seq(CellType) /\ asked \in Nat /\ Len(o) \in Nat /\ Len(net.up) \in Nat /\ c.obuf = o
  BY <1>3, Streams
<1>7. f \in Seq(CellType) /\ Len(f) = 2 * n
  <2>1. f = Cells(2 * asked, 2 * n)
    BY <1>1, <1>6, CommandCells
  <2>2. 2 * asked \in Nat /\ 2 * n \in Nat
    BY <1>6
  <2>3. QED
    BY <2>1, <2>2, CellsType
<1>8. Len(w) = Len(o) + 2 * n
  <2>1. Len(o \o f) = Len(o) + Len(f)
    BY <1>6, <1>7, ConcatProperties
  <2>2. QED
    BY <1>3, <1>7, <2>1
<1>9. Outstanding(values, net.up, w, n)
  <2>1. PICK a, u, k : a = Len(values) /\ u = Len(net.up) /\ k = Len(o)
    OBVIOUS
  <2>2. a \in Nat /\ u \in Nat /\ k \in Nat
    BY <1>6, <2>1, LenProperties
  <2>3. 2 * a + u + k <= 2 * 0
    BY <1>6, <2>1 DEF Outstanding
  <2>4. 2 * a + u + (k + 2 * n) <= 2 * n
    BY <2>2, <2>3
  <2>5. QED
    BY <1>8, <2>1, <2>4 DEF Outstanding
<1>10. QED
  BY <1>2, <1>5, <1>9

LEMMA ReplyRequest ==
  ASSUME ExecInv, ReplyInv, NEW p \in Requests, ProcPkgCli(p)
  PROVE  ReplyInv'
<1>1. /\ p \in Seq(Nat \ {0}) /\ p # <<>> /\ call = "idle"
      /\ AppendCommands(c, Head(p)) /\ UNCHANGED <<net, addr, answers, last>>
  BY RedisClientAssumption DEF ProcPkgCli
<1>2. PICK n : n = Head(p)
  OBVIOUS
<1>3. n \in Nat \ {0} /\ AppendCommands(c, n)
  BY <1>1, <1>2, HeadTailProperties
<1>4. Worker /\ InOrder /\ last.reply = last.answer
  BY DEF ReplyInv
<1>5. /\ left = 0 /\ answers \in Seq(Values) /\ ContextShape(c) /\ c.obuf = c.obuf
      /\ c.err \in Errors /\ c.fd \in BOOLEAN
  BY <1>1, <1>4 DEF Worker, ExecInv
<1>6. call' = "get" /\ left' = n
  BY <1>3 DEF AppendCommands
<1>7. /\ c'.fd = c.fd /\ c'.err = c.err /\ c'.reader = c.reader
  <2>1. PICK w : c' = [c EXCEPT !.obuf = w]
    <3>1. [c EXCEPT !.obuf = @ \o FlattenSeq([k \in 1 .. n |-> Bytes(asked + k)])]
            = [c EXCEPT !.obuf = c.obuf \o FlattenSeq([k \in 1 .. n |-> Bytes(asked + k)])]
      BY <1>5 DEF ContextShape
    <3>2. QED
      BY <1>3, <3>1 DEF AppendCommands
  <2>2. QED
    BY <1>5, <2>1, ContextParts
<1>8. Worker'
  BY <1>1, <1>3, <1>4, <1>6, <1>7 DEF Worker, Calls
<1>9. InOrder'
  <2>1. SUFFICES ASSUME c'.err = "none" PROVE InOrder'
    BY DEF InOrder
  <2>2. Outstanding(answers, net.up, c.obuf, 0) /\ Followed(c.reader, net.down, net.open, answers)
    BY <1>4, <1>5, <1>7, <2>1 DEF InOrder
  <2>3. Outstanding(answers, net.up, c'.obuf, n)
    BY <1>3, <1>5, <2>2, Issued
  <2>4. QED
    BY <1>1, <1>6, <1>7, <2>2, <2>3 DEF InOrder
<1>10. QED
  BY <1>1, <1>4, <1>8, <1>9 DEF ReplyInv

\* The reply handed out is the first answer outstanding.
LEMMA ReplyHandOut ==
  ASSUME ExecInv, ReplyInv, c.err = "none", call \in {"get", "got"}, NEW rd, NEW reply,
         answers # <<>>, reply = Head(answers),
         After(rd, net.down, net.open, Tail(answers)),
         HandOut(rd, reply), UNCHANGED <<net, addr>>
  PROVE  ReplyInv'
<1>1. PICK ctx, values : ctx = [c EXCEPT !.reader = rd] /\ values = Tail(answers)
  OBVIOUS
<1>2. /\ ContextShape(ctx) /\ ctx.obuf = c.obuf
      /\ ctx.fd = c.fd /\ ctx.err = c.err /\ ctx.reader = rd
  <2>1. ContextShape(c)
    BY DEF ExecInv
  <2>2. ContextShape(ctx) /\ ctx.obuf = c.obuf
    BY <1>1, <2>1, ContextWith
  <2>3. QED
    BY <1>1, <2>1, <2>2 DEF ContextShape
<1>3. Worker /\ InOrder
  BY DEF ReplyInv
<1>4. /\ answers \in Seq(Values) /\ values \in Seq(Values) /\ Len(values) \in Nat
      /\ Len(answers) = Len(values) + 1
  <2>1. answers \in Seq(Values)
    BY <1>3 DEF Worker
  <2>2. /\ Tail(answers) \in Seq(Values) /\ Len(Tail(answers)) = Len(answers) - 1
        /\ Len(answers) \in Nat
    BY <2>1, HeadTailProperties, LenProperties
  <2>3. QED
    BY <1>1, <2>1, <2>2, LenProperties
<1>5. left \in Nat /\ (left >= 1 => Outstanding(values, net.up, c.obuf, left - 1))
  <2>1. PICK a, u, o : a = Len(values) /\ u = Len(net.up) /\ o = Len(c.obuf)
    OBVIOUS
  <2>2. a \in Nat /\ u \in Nat /\ o \in Nat /\ left \in Nat
    BY <1>3, <1>4, <2>1, Streams DEF Worker
  <2>3. 2 * (a + 1) + u + o <= 2 * left
    BY <1>3, <1>4, <2>1 DEF InOrder, Outstanding
  <2>4. 2 * a + u + o <= 2 * (left - 1)
    BY <2>2, <2>3
  <2>5. QED
    BY <2>1, <2>2, <2>4 DEF Outstanding
<1>6. answers' = values /\ last'.reply = last'.answer
  BY <1>1 DEF HandOut
<1>7. IsReader(rd) /\ ~rd.err /\ Followed(rd, net.down, net.open, values)
  BY <1>1 DEF After
<1>8. /\ c'.fd = c.fd /\ c'.err = c.err /\ c'.reader = rd /\ left' \in Nat
      /\ call' \in {"idle", "get"} /\ (call' = "idle" => left' = 0 /\ todo' = <<>>)
      /\ Outstanding(values, net.up, c'.obuf, left')
  <2>1. CASE left > 1 /\ c' = ctx /\ left' = left - 1 /\ call' = "get"
    BY <1>2, <1>5, <2>1
  <2>2. CASE left = 1 /\ todo # <<>> /\ AppendCommands(ctx, Head(todo))
    <3>1. PICK n : n = Head(todo)
      OBVIOUS
    <3>2. n \in Nat \ {0}
      BY <2>2, <3>1, HeadTailProperties DEF ExecInv
    <3>3. AppendCommands(ctx, n) /\ Outstanding(values, net.up, c.obuf, 0)
      BY <1>5, <2>2, <3>1
    <3>4. /\ c'.fd = ctx.fd /\ c'.err = ctx.err /\ c'.reader = ctx.reader
          /\ left' = n /\ call' = "get" /\ Outstanding(values, net.up, c'.obuf, n)
      BY <1>2, <1>4, <3>2, <3>3, Issued
    <3>5. QED
      BY <1>2, <3>2, <3>4
  <2>3. CASE left = 1 /\ todo = <<>> /\ c' = ctx /\ left' = 0 /\ call' = "idle" /\ todo' = todo
    BY <1>2, <1>5, <2>3
  <2>4. QED
    BY <1>1, <2>1, <2>2, <2>3 DEF HandOut
<1>9. Worker'
  BY <1>3, <1>4, <1>6, <1>7, <1>8 DEF Worker, Calls
<1>10. InOrder'
  BY <1>6, <1>7, <1>8 DEF InOrder
<1>11. QED
  BY <1>6, <1>9, <1>10 DEF ReplyInv

\* A turn of the reader; what a failed context holds is not handed out.
LEMMA ReplyTurn ==
  ASSUME ExecInv, ReplyInv, call \in {"get", "got"}, ~c.reader.err,
         c.err # "none" => c.reader.buf # <<>> /\ call = "get",
         NEW after, after = IF call = "get" THEN "write" ELSE "read",
         GetReplyFromReader(after), UNCHANGED <<net, addr>>
  PROVE  ReplyInv' /\ (c.err # "none" => last' = last)
<1>1. PICK p, r : p = Turn(c.reader) /\ r = Discarded(p.reader)
  OBVIOUS
<1>2. Worker /\ InOrder /\ last.reply = last.answer /\ ContextShape(c)
  BY DEF ReplyInv, ExecInv
<1>3. /\ IsReader(c.reader) /\ net.down \in Text /\ answers \in Seq(Values)
      /\ c.fd \in BOOLEAN /\ c.err \in Errors /\ left \in Nat /\ addr \in 1 .. Addrs
      /\ (c.err = "none" => c.fd)
  BY <1>2 DEF Worker
<1>4. p.reader.err => IsReader(p.reader) /\ ~p.ok
  <2>1. PICK x : x = c.reader
    OBVIOUS
  <2>2. \/ p = SetError(x)
        \/ p = More(p.reader) /\ Stuck(p.reader) /\ p.reader.err = x.err
        \/ p.ok /\ IsReader(p.reader) /\ p.reader.err = x.err
    BY <1>1, <1>3, <2>1, TurnIs
  <2>3. ~x.err
    BY <2>1
  <2>4. p = SetError(x) => ~p.ok /\ IsReader(p.reader)
    BY ErrorIs
  <2>5. QED
    BY <2>2, <2>3, <2>4
<1>5. CASE c.err # "none"
  <2>1. Stuck(c.reader) /\ Turn(c.reader) = More(c.reader)
    BY <1>2, <1>5 DEF Worker, Held, Stuck
  <2>2. ~p.ok /\ p.reader = c.reader
    BY <1>1, <2>1 DEF More
  <2>3. Stuck(r) /\ ~r.err
    <3>1. PICK x : x = c.reader
      OBVIOUS
    <3>2. Stuck(x) /\ ~x.err /\ r = Discarded(x)
      BY <1>1, <2>1, <2>2, <3>1
    <3>3. QED
      BY <3>2, DiscardedStuck
  <2>4. c' = [c EXCEPT !.reader = r] /\ call' = after /\ UNCHANGED <<work, history>>
    BY <1>1, <2>2 DEF GetReplyFromReader
  <2>5. c'.fd = c.fd /\ c'.err = c.err /\ c'.reader = r
    BY <1>2, <2>4 DEF ContextShape
  <2>6. /\ left' = left /\ todo' = todo /\ answers' = answers /\ last' = last /\ call' = "write"
    BY <1>5, <2>4 DEF work, history
  <2>7. IsReader(r)
    BY <2>3 DEF Stuck
  <2>8. Worker'
    BY <1>3, <1>5, <2>3, <2>5, <2>6, <2>7 DEF Worker, Calls, Held
  <2>9. InOrder'
    BY <1>5, <2>5 DEF InOrder
  <2>10. QED
    BY <1>2, <2>6, <2>8, <2>9 DEF ReplyInv
<1>6. CASE c.err = "none"
  <2>1. /\ Followed(c.reader, net.down, net.open, answers)
        /\ Outstanding(answers, net.up, c.obuf, left)
    BY <1>2, <1>6 DEF InOrder
  <2>2. TurnFollowed(p, net.down, net.open, answers)
    <3>1. PICK x, d, o, values : x = c.reader /\ d = net.down /\ o = net.open /\ values = answers
      OBVIOUS
    <3>2. IsReader(x) /\ ~x.err /\ d \in Text /\ Followed(x, d, o, values) /\ p = Turn(x)
      BY <1>1, <1>3, <2>1, <3>1
    <3>3. TurnFollowed(p, d, o, values)
      BY <3>2, FollowedTurn
    <3>4. QED
      BY <3>1, <3>3
  <2>3. CASE p.reader.err
    <3>1. c' = [c EXCEPT !.err = "protocol", !.reader = p.reader] /\ GiveUp /\ UNCHANGED history
      BY <1>1, <1>4, <2>3 DEF GetReplyFromReader
    <3>2. c'.fd = c.fd /\ c'.err = "protocol" /\ c'.reader = p.reader
      BY <1>2, <3>1 DEF ContextShape
    <3>3. call' = "idle" /\ left' = 0 /\ todo' = <<>> /\ answers' = answers /\ last' = last
      BY <3>1 DEF GiveUp, history
    <3>4. Worker'
      BY <1>3, <1>4, <2>3, <3>2, <3>3 DEF Worker, Errors, Calls, Held
    <3>5. InOrder'
      BY <3>2 DEF InOrder
    <3>6. QED
      BY <1>2, <1>6, <3>3, <3>4, <3>5 DEF ReplyInv
  <2>4. CASE /\ ~p.reader.err /\ ~p.ok /\ p.reader.rstack # <<>> /\ Stuck(r)
             /\ After(r, net.down, net.open, answers)
    <3>1. c' = [c EXCEPT !.reader = r] /\ call' = after /\ UNCHANGED <<work, history>>
      BY <1>1, <2>4 DEF GetReplyFromReader
    <3>2. c'.fd = c.fd /\ c'.err = c.err /\ c'.reader = r /\ c'.obuf = c.obuf
      BY <1>2, <3>1 DEF ContextShape
    <3>3. /\ left' = left /\ todo' = todo /\ answers' = answers /\ last' = last
          /\ call' \in {"write", "read"}
      BY <3>1 DEF work, history
    <3>4. IsReader(r) /\ ~r.err /\ Followed(r, net.down, net.open, answers)
      BY <2>4 DEF After
    <3>5. Worker'
      BY <1>3, <1>6, <2>4, <3>2, <3>3, <3>4 DEF Worker, Calls, Held
    <3>6. InOrder'
      BY <2>1, <3>2, <3>3, <3>4 DEF InOrder
    <3>7. QED
      BY <1>2, <1>6, <3>3, <3>5, <3>6 DEF ReplyInv
  <2>5. CASE /\ ~p.reader.err /\ p.ok /\ p.reader.rstack # <<>>
             /\ After(p.reader, net.down, net.open, answers)
    <3>1. c' = [c EXCEPT !.reader = p.reader] /\ UNCHANGED <<call, work, history>>
      BY <1>1, <2>5 DEF GetReplyFromReader
    <3>2. c'.fd = c.fd /\ c'.err = c.err /\ c'.reader = p.reader /\ c'.obuf = c.obuf
      BY <1>2, <3>1 DEF ContextShape
    <3>3. /\ left' = left /\ todo' = todo /\ answers' = answers /\ last' = last /\ call' = call
      BY <3>1 DEF work, history
    <3>4. /\ IsReader(p.reader) /\ ~p.reader.err
          /\ Followed(p.reader, net.down, net.open, answers)
      BY <2>5 DEF After
    <3>5. Worker'
      BY <1>2, <1>3, <1>6, <3>2, <3>3, <3>4 DEF Worker
    <3>6. InOrder'
      BY <2>1, <3>2, <3>3, <3>4 DEF InOrder
    <3>7. QED
      BY <1>2, <1>6, <3>3, <3>5, <3>6 DEF ReplyInv
  <2>6. CASE /\ ~p.reader.err /\ p.ok /\ p.reader.rstack = <<>>
             /\ After([r EXCEPT !.reply = NoReply], net.down, net.open, Tail(answers))
             /\ answers # <<>> /\ r.reply = Head(answers)
    <3>1. HandOut([r EXCEPT !.reply = NoReply], r.reply)
      BY <1>1, <2>6 DEF GetReplyFromReader
    <3>2. PICK rd, reply : rd = [r EXCEPT !.reply = NoReply] /\ reply = r.reply
      OBVIOUS
    <3>3. /\ After(rd, net.down, net.open, Tail(answers)) /\ answers # <<>>
          /\ reply = Head(answers) /\ HandOut(rd, reply)
      BY <2>6, <3>1, <3>2
    <3>4. ReplyInv'
      BY <1>6, <3>3, ReplyHandOut
    <3>5. QED
      BY <1>6, <3>4
  <2>7. QED
    BY <1>1, <2>2, <2>3, <2>4, <2>5, <2>6 DEF TurnFollowed
<1>7. QED
  BY <1>5, <1>6

\* redisGetReply.
LEMMA ReplyGet ==
  ASSUME ExecInv, ReplyInv, RedisGetReply \/ ReplyRead
  PROVE  ReplyInv' /\ (c.err # "none" => last' = last)
<1>1. Worker /\ InOrder /\ last.reply = last.answer /\ ContextShape(c)
  BY DEF ReplyInv, ExecInv
<1>2. UNCHANGED <<net, addr>> /\ call \in {"get", "got"} /\ (call = "got" => c.err = "none")
  BY <1>1 DEF RedisGetReply, ReplyRead, Worker
<1>3. CASE call = "get" /\ c.reader.err
  <2>1. c' = [c EXCEPT !.err = "protocol"] /\ GiveUp /\ UNCHANGED history
    BY <1>3 DEF RedisGetReply, ReplyRead, SetContextError
  <2>2. c'.fd = c.fd /\ c'.err = "protocol" /\ c'.reader = c.reader
    BY <1>1, <2>1 DEF ContextShape
  <2>3. call' = "idle" /\ left' = 0 /\ todo' = <<>> /\ answers' = answers /\ last' = last
    BY <2>1 DEF GiveUp, history
  <2>4. Worker'
    BY <1>1, <1>2, <1>3, <2>2, <2>3 DEF Worker, Errors, Calls, Held
  <2>5. InOrder'
    BY <2>2 DEF InOrder
  <2>6. QED
    BY <1>1, <2>3, <2>4, <2>5 DEF ReplyInv
<1>4. CASE call = "get" /\ ~c.reader.err /\ c.reader.buf = <<>>
  <2>1. call' = "write" /\ UNCHANGED <<c, work, history>>
    BY <1>4 DEF RedisGetReply, ReplyRead
  <2>2. left' = left /\ todo' = todo /\ answers' = answers /\ last' = last /\ c' = c
    BY <2>1 DEF work, history
  <2>3. Worker'
    BY <1>1, <1>2, <1>4, <2>1, <2>2 DEF Worker, Calls, Held
  <2>4. InOrder'
    BY <1>1, <1>2, <2>2 DEF InOrder
  <2>5. QED
    BY <1>1, <2>2, <2>3, <2>4 DEF ReplyInv
<1>5. CASE call = "got" \/ (call = "get" /\ ~c.reader.err /\ c.reader.buf # <<>>)
  <2>1. ~c.reader.err
    BY <1>1, <1>2, <1>5 DEF Worker
  <2>2. PICK after : after = IF call = "get" THEN "write" ELSE "read"
    OBVIOUS
  <2>3. GetReplyFromReader(after)
    BY <1>5, <2>2 DEF RedisGetReply, ReplyRead
  <2>4. c.err # "none" => c.reader.buf # <<>> /\ call = "get"
    BY <1>2, <1>5
  <2>5. QED
    BY <1>2, <2>1, <2>2, <2>3, <2>4, ReplyTurn
<1>6. QED
  BY <1>2, <1>3, <1>4, <1>5

LEMMA ReplyWrite ==
  ASSUME ExecInv, ReplyInv, BufferWrite
  PROVE  ReplyInv'
<1>1. Worker /\ InOrder /\ last.reply = last.answer /\ ContextShape(c) /\ NetShape(net)
  BY DEF ReplyInv, ExecInv
<1>2. call = "write" /\ UNCHANGED <<addr, answers, last>>
  BY DEF BufferWrite, history
<1>3. CASE c.err # "none"
  <2>1. UNCHANGED <<c, net>> /\ call' = "idle" /\ left' = 0 /\ todo' = <<>>
    BY <1>3 DEF BufferWrite, GiveUp
  <2>2. Worker'
    BY <1>1, <1>2, <1>3, <2>1 DEF Worker, Calls
  <2>3. InOrder'
    BY <1>3, <2>1 DEF InOrder
  <2>4. QED
    BY <1>1, <1>2, <2>2, <2>3 DEF ReplyInv
<1>4. CASE c.err = "none" /\ c.obuf = <<>>
  <2>1. UNCHANGED <<c, net, left, todo>> /\ call' = "read"
    BY <1>4 DEF BufferWrite, work
  <2>2. Worker'
    BY <1>1, <1>2, <1>4, <2>1 DEF Worker, Calls
  <2>3. InOrder'
    BY <1>1, <1>2, <2>1 DEF InOrder
  <2>4. QED
    BY <1>1, <1>2, <2>2, <2>3 DEF ReplyInv
<1>5. CASE c.err = "none" /\ c.obuf # <<>>
  <2>1. PICK n \in 1 .. Len(c.obuf) :
          /\ net' = [net EXCEPT !.up = @ \o SubSeq(c.obuf, 1, n)]
          /\ c' = [c EXCEPT !.obuf = SubSeq(@, n + 1, Len(@))]
          /\ call' = IF n = Len(c.obuf) THEN "read" ELSE "write"
    BY <1>5 DEF BufferWrite
  <2>2. left' = left /\ todo' = todo
    BY <1>5 DEF BufferWrite, work
  <2>3. PICK o, u : o = c.obuf /\ u = net.up
    OBVIOUS
  <2>4. o \in Seq(CellType) /\ Len(o) \in Nat /\ u \in Seq(CellType) /\ Len(u) \in Nat
    BY <2>3, Streams
  <2>5. PICK s, t : s = SubSeq(o, 1, n) /\ t = SubSeq(o, n + 1, Len(o))
    OBVIOUS
  <2>6. /\ net'.up = u \o s /\ net'.down = net.down /\ net'.open = net.open
    BY <1>1, <2>1, <2>3, <2>5 DEF NetShape
  <2>7. c'.fd = c.fd /\ c'.err = c.err /\ c'.reader = c.reader /\ c'.obuf = t
    BY <1>1, <2>1, <2>3, <2>5 DEF ContextShape
  <2>8. s \in Seq(CellType) /\ Len(s) = n /\ t \in Seq(CellType) /\ Len(t) = Len(o) - n
    <3>1. n \in Nat /\ n \in 1 .. Len(o) /\ \A i \in 1 .. Len(o) : o[i] \in CellType
      BY <2>1, <2>3, <2>4, ElementOfSeq
    <3>2. \A i \in 1 .. n : o[i] \in CellType
      BY <2>4, <3>1
    <3>3. \A i \in n + 1 .. Len(o) : o[i] \in CellType
      BY <2>4, <3>1
    <3>4. /\ SubSeq(o, 1, n) \in Seq(CellType)
          /\ Len(SubSeq(o, 1, n)) = IF 1 <= n THEN n - 1 + 1 ELSE 0
      BY <3>1, <3>2, SubSeqProperties
    <3>5. /\ SubSeq(o, n + 1, Len(o)) \in Seq(CellType)
          /\ Len(SubSeq(o, n + 1, Len(o))) = IF n + 1 <= Len(o) THEN Len(o) - (n + 1) + 1 ELSE 0
      BY <2>4, <3>1, <3>3, SubSeqProperties
    <3>6. /\ (IF 1 <= n THEN n - 1 + 1 ELSE 0) = n
          /\ (IF n + 1 <= Len(o) THEN Len(o) - (n + 1) + 1 ELSE 0) = Len(o) - n
      BY <2>4, <3>1
    <3>7. QED
      BY <2>5, <3>4, <3>5, <3>6
  <2>9. Outstanding(answers, u \o s, t, left)
    <3>1. Len(u \o s) = Len(u) + Len(s)
      BY <2>4, <2>8, ConcatProperties
    <3>2. PICK a, k, m : a = Len(answers) /\ k = Len(u) /\ m = Len(o)
      OBVIOUS
    <3>3. a \in Nat /\ k \in Nat /\ m \in Nat /\ n \in Nat /\ left \in Nat
      BY <1>1, <2>1, <2>4, <3>2, LenProperties DEF Worker
    <3>4. 2 * a + k + m <= 2 * left
      BY <1>1, <1>5, <2>3, <3>2 DEF InOrder, Outstanding
    <3>5. 2 * a + (k + n) + (m - n) <= 2 * left
      BY <3>3, <3>4
    <3>6. QED
      BY <2>8, <3>1, <3>2, <3>5 DEF Outstanding
  <2>10. call' \in {"read", "write"}
    BY <2>1
  <2>11. Worker'
    BY <1>1, <1>2, <1>5, <2>2, <2>6, <2>7, <2>10 DEF Worker, Calls
  <2>12. InOrder'
    BY <1>1, <1>2, <1>5, <2>2, <2>6, <2>7, <2>9 DEF InOrder
  <2>13. QED
    BY <1>1, <1>2, <2>11, <2>12 DEF ReplyInv
<1>6. QED
  BY <1>3, <1>4, <1>5

LEMMA ReplyReceived ==
  ASSUME ExecInv, ReplyInv, BufferRead
  PROVE  ReplyInv'
<1>1. Worker /\ InOrder /\ last.reply = last.answer /\ ContextShape(c) /\ NetShape(net)
  BY DEF ReplyInv, ExecInv
<1>2. /\ call = "read" /\ c.err = "none" /\ call' = "got"
      /\ UNCHANGED <<addr, left, todo, answers, last>>
  BY DEF BufferRead, work, history
<1>3. PICK n \in 1 .. Len(net.down) :
        /\ net' = [net EXCEPT !.down = SubSeq(@, n + 1, Len(@))]
        /\ c' = [c EXCEPT !.reader = RedisReaderFeed(@, SubSeq(net.down, 1, n))]
  BY DEF BufferRead
<1>4. PICK x, d, q, t : /\ x = c.reader /\ d = net.down /\ q = RedisReaderFeed(x, SubSeq(d, 1, n))
                        /\ t = SubSeq(d, n + 1, Len(d))
  OBVIOUS
<1>5. c'.fd = c.fd /\ c'.err = c.err /\ c'.reader = q /\ c'.obuf = c.obuf
  BY <1>1, <1>3, <1>4 DEF ContextShape
<1>6. net'.up = net.up /\ net'.down = t /\ net'.open = net.open
  BY <1>1, <1>3, <1>4 DEF NetShape
<1>7. PICK o, values : o = net.open /\ values = answers
  OBVIOUS
<1>8. IsReader(x) /\ ~x.err /\ d \in Text /\ Followed(x, d, o, values) /\ n \in 1 .. Len(d)
  BY <1>1, <1>2, <1>3, <1>4, <1>7 DEF Worker, InOrder
<1>9. IsReader(q) /\ ~q.err /\ t \in Text /\ Followed(q, t, o, values)
  <2>1. PICK k \in 1 .. Len(d) : k = n
    BY <1>8
  <2>2. q = RedisReaderFeed(x, SubSeq(d, 1, k)) /\ t = SubSeq(d, k + 1, Len(d))
    BY <1>4, <2>1
  <2>3. IsReader(x) /\ ~x.err /\ d \in Text /\ Followed(x, d, o, values)
    BY <1>8
  <2>4. k \in 1 .. Len(d)
    OBVIOUS
  <2>5. \A b : b = SubSeq(d, k + 1, Len(d)) =>
               IsReader(q) /\ ~q.err /\ b \in Text /\ Followed(q, b, o, values)
    BY <2>2, <2>3, <2>4, FollowedRead
  <2>6. QED
    BY <2>2, <2>5
<1>10. Worker'
  BY <1>1, <1>2, <1>5, <1>6, <1>9 DEF Worker, Calls
<1>11. InOrder'
  BY <1>1, <1>2, <1>5, <1>6, <1>7, <1>9 DEF InOrder
<1>12. QED
  BY <1>1, <1>2, <1>10, <1>11 DEF ReplyInv

LEMMA ReplyFails ==
  ASSUME ExecInv, ReplyInv, CallFails
  PROVE  ReplyInv'
<1>1. Worker /\ InOrder /\ last.reply = last.answer /\ ContextShape(c)
  BY DEF ReplyInv, ExecInv
<1>2. /\ call \in {"write", "read"} /\ call' = "idle" /\ left' = 0 /\ todo' = <<>>
      /\ UNCHANGED <<net, addr, answers, last>>
  BY DEF CallFails, GiveUp, history
<1>3. PICK kind \in {"io", "eof"} : c' = [c EXCEPT !.err = kind]
  BY DEF CallFails, SetContextError
<1>4. c'.fd = c.fd /\ c'.err = kind /\ c'.reader = c.reader
  BY <1>1, <1>3 DEF ContextShape
<1>5. Worker'
  BY <1>1, <1>2, <1>4 DEF Worker, Calls, Errors
<1>6. InOrder'
  BY <1>4 DEF InOrder
<1>7. QED
  BY <1>1, <1>2, <1>5, <1>6 DEF ReplyInv

LEMMA ReplyReconnect ==
  ASSUME ExecInv, ReplyInv, Reconnect
  PROVE  ReplyInv'
<1>1. Worker /\ last.reply = last.answer
  BY DEF ReplyInv
<1>2. /\ call = "idle" /\ c' = redisContextInit /\ net' = Closed /\ answers' = <<>> /\ addr' = 1
      /\ call' = "connect" /\ UNCHANGED <<left, todo, last>>
  BY DEF Reconnect
<1>3. c'.fd = FALSE /\ c'.err = "none" /\ c'.obuf = <<>> /\ c'.reader = redisReaderCreate
  BY <1>2 DEF redisContextInit
<1>4. net'.up = <<>> /\ net'.down = <<>> /\ net'.open = FALSE
  BY <1>2 DEF Closed
<1>5. Addrs \in Nat \ {0} /\ <<>> \in Seq(Values) /\ <<>> \in Text
  BY RedisClientAssumption, EmptySeq, TextIs
<1>6. left = 0 /\ todo = <<>>
  BY <1>1, <1>2 DEF Worker
<1>7. Worker'
  <2>1. addr' \in 1 .. Addrs /\ left' = 0 /\ todo' = <<>> /\ left' \in Nat
    BY <1>2, <1>5, <1>6
  <2>2. /\ IsReader(c'.reader) /\ ~c'.reader.err /\ Held(c'.reader)
    BY <1>3, FollowedNew DEF Held
  <2>3. net'.down \in Text /\ answers' \in Seq(Values)
    BY <1>2, <1>4, <1>5
  <2>4. QED
    BY <1>2, <1>3, <2>1, <2>2, <2>3 DEF Worker, Errors, Calls
<1>8. InOrder'
  BY <1>2, <1>3, <1>4, <1>6, FollowedNew, NoneOutstanding DEF InOrder
<1>9. QED
  BY <1>1, <1>2, <1>7, <1>8 DEF ReplyInv

LEMMA ReplyConnect ==
  ASSUME ExecInv, ReplyInv, ConnectTcp \/ WaitReady
  PROVE  ReplyInv'
<1>1. Worker /\ InOrder /\ last.reply = last.answer /\ ContextShape(c)
  BY DEF ReplyInv, ExecInv
<1>2. /\ call \in {"connect", "poll"} /\ UNCHANGED <<left, todo, answers, last>>
  BY DEF ConnectTcp, WaitReady, work, history
<1>3. /\ c.reader = redisReaderCreate /\ net = Closed /\ answers = <<>> /\ left = 0 /\ todo = <<>>
      /\ c.err = "none" /\ c.obuf = <<>> /\ addr \in 1 .. Addrs
  BY <1>1, <1>2 DEF Worker, ExecInv
<1>4. CASE Connected /\ UNCHANGED addr
  <2>1. /\ c' = [c EXCEPT !.fd = TRUE] /\ net' = [Closed EXCEPT !.open = TRUE]
        /\ call' = "idle"
    BY <1>4 DEF Connected
  <2>2. c'.fd = TRUE /\ c'.err = "none" /\ c'.reader = redisReaderCreate /\ c'.obuf = <<>>
    BY <1>1, <1>3, <2>1 DEF ContextShape
  <2>3. net'.up = <<>> /\ net'.down = <<>>
    BY <2>1 DEF Closed
  <2>4. <<>> \in Seq(Values) /\ <<>> \in Text
    BY EmptySeq, TextIs
  <2>5. Worker'
    BY <1>2, <1>3, <1>4, <2>1, <2>2, <2>3, <2>4, FollowedNew DEF Worker, Errors, Calls, Held
  <2>6. InOrder'
    BY <1>2, <1>3, <2>2, <2>3, FollowedNew, NoneOutstanding DEF InOrder
  <2>7. QED
    BY <1>1, <1>2, <2>5, <2>6 DEF ReplyInv
<1>5. CASE c' = [c EXCEPT !.fd = TRUE] /\ call' = "poll" /\ UNCHANGED <<net, addr>>
  <2>1. c'.fd = TRUE /\ c'.err = c.err /\ c'.reader = c.reader /\ c'.obuf = c.obuf
    BY <1>1, <1>5 DEF ContextShape
  <2>2. Worker'
    BY <1>1, <1>2, <1>3, <1>5, <2>1 DEF Worker, Errors, Calls
  <2>3. InOrder'
    BY <1>1, <1>2, <1>5, <2>1 DEF InOrder
  <2>4. QED
    BY <1>1, <1>2, <2>2, <2>3 DEF ReplyInv
<1>6. CASE addr < Addrs /\ addr' = addr + 1 /\ UNCHANGED <<c, net, call>>
  <2>1. addr' \in 1 .. Addrs
    BY <1>3, <1>6, RedisClientAssumption
  <2>2. Worker'
    BY <1>1, <1>2, <1>6, <2>1 DEF Worker
  <2>3. InOrder'
    BY <1>1, <1>2, <1>6 DEF InOrder
  <2>4. QED
    BY <1>1, <1>2, <2>2, <2>3 DEF ReplyInv
<1>7. CASE \E kind \in {"io", "other"}, keep \in BOOLEAN :
             ConnectError(kind, keep) /\ UNCHANGED addr
  <2>1. PICK kind \in {"io", "other"}, keep \in BOOLEAN :
             ConnectError(kind, keep) /\ UNCHANGED addr
    BY <1>7
  <2>2. /\ c' = [c EXCEPT !.err = kind, !.fd = keep] /\ call' = "idle"
        /\ UNCHANGED <<net, addr>>
    BY <2>1 DEF ConnectError
  <2>3. c'.fd = keep /\ c'.err = kind /\ c'.reader = redisReaderCreate
    BY <1>1, <1>3, <2>2 DEF ContextShape
  <2>4. Worker'
    BY <1>1, <1>2, <1>3, <2>2, <2>3, FollowedNew DEF Worker, Errors, Calls, Held
  <2>5. InOrder'
    BY <2>3 DEF InOrder
  <2>6. QED
    BY <1>1, <1>2, <2>4, <2>5 DEF ReplyInv
<1>8. QED
  BY <1>4, <1>5, <1>6, <1>7 DEF ConnectTcp, WaitReady

LEMMA ReplyExecute ==
  ASSUME ExecInv, ReplyInv, Execute
  PROVE  ReplyInv'
<1>1. Worker /\ InOrder /\ last.reply = last.answer
  BY DEF ReplyInv
<1>2. PICK a \in Answers :
        /\ net' = [net EXCEPT !.up = SubSeq(net.up, 3, Len(net.up)), !.down = @ \o a.wire]
        /\ answers' = Append(answers, a.value)
  BY DEF Execute
<1>3. net.open /\ Len(net.up) >= 2 /\ UNCHANGED <<c, call, addr, left, todo, last>>
  BY DEF Execute, work
<1>4. PICK u, d, o : net = [up |-> u, down |-> d, open |-> o]
  BY DEF ExecInv, NetShape
<1>5. PICK s : s = SubSeq(net.up, 3, Len(net.up))
  OBVIOUS
<1>6. net'.up = s /\ net'.down = net.down \o a.wire /\ net'.open = net.open
  BY <1>2, <1>4, <1>5
<1>7. u \in Seq(CellType) /\ Len(u) \in Nat /\ Len(u) >= 2 /\ Len(c.obuf) \in Nat
  BY <1>3, <1>4, Streams
<1>8. Len(s) = Len(u) - 2
  <2>1. \A i \in 3 .. Len(u) : u[i] \in CellType
    BY <1>7, ElementOfSeq
  <2>2. Len(SubSeq(u, 3, Len(u))) = IF 3 <= Len(u) THEN Len(u) - 3 + 1 ELSE 0
    BY <1>7, <2>1, SubSeqProperties
  <2>3. PICK m : m = Len(u)
    OBVIOUS
  <2>4. Len(SubSeq(u, 3, m)) = IF 3 <= m THEN m - 3 + 1 ELSE 0
    BY <2>2, <2>3
  <2>5. m \in Nat /\ m >= 2
    BY <1>7, <2>3
  <2>6. (IF 3 <= m THEN m - 3 + 1 ELSE 0) = m - 2
    BY <2>5
  <2>7. net.up = u
    BY <1>4
  <2>8. s = SubSeq(u, 3, m)
    BY <1>5, <2>3, <2>7
  <2>9. QED
    BY <2>3, <2>4, <2>6, <2>8
<1>9. /\ IsReader(c.reader) /\ d \in Text /\ answers \in Seq(Values)
      /\ call \notin {"connect", "poll"}
  <2>1. ~Closed.open
    BY DEF Closed
  <2>2. QED
    BY <1>1, <1>3, <1>4, <2>1 DEF Worker
<1>10. net'.down \in Text /\ answers' \in Seq(Values)
  <2>1. a.wire \in Text /\ a.value \in Values
    BY AnswerLeads DEF Values
  <2>2. d \o a.wire \in Text
    BY <1>9, <2>1, TextIs
  <2>3. Append(answers, a.value) \in Seq(Values)
    BY <1>9, <2>1, AppendProperties
  <2>4. QED
    BY <1>2, <1>4, <1>6, <2>2, <2>3
<1>11. Worker'
  BY <1>1, <1>3, <1>9, <1>10 DEF Worker
<1>12. InOrder'
  <2>1. SUFFICES ASSUME c.err = "none" PROVE InOrder'
    BY <1>3 DEF InOrder
  <2>2. /\ Outstanding(answers, net.up, c.obuf, left)
        /\ Followed(c.reader, net.down, net.open, answers)
    BY <1>1, <2>1 DEF InOrder
  <2>3. Followed(c.reader, net.down \o a.wire, net.open, Append(answers, a.value))
    <3>1. PICK x, values : x = c.reader /\ values = answers
      OBVIOUS
    <3>2. IsReader(x) /\ d \in Text /\ values \in Seq(Values) /\ o /\ Followed(x, d, o, values)
      BY <1>3, <1>4, <1>9, <2>2, <3>1
    <3>3. Followed(x, d \o a.wire, o, Append(values, a.value))
      BY <3>2, FollowedAnswer
    <3>4. QED
      BY <1>4, <3>1, <3>3
  <2>4. Outstanding(Append(answers, a.value), s, c.obuf, left)
    <3>1. PICK k, m, l : k = Len(answers) /\ m = Len(u) /\ l = Len(c.obuf)
      OBVIOUS
    <3>2. k \in Nat /\ m \in Nat /\ l \in Nat /\ left \in Nat
      BY <1>1, <1>7, <1>9, <3>1, LenProperties DEF Worker
    <3>3. 2 * k + m + l <= 2 * left
      BY <1>4, <2>2, <3>1 DEF Outstanding
    <3>4. 2 * (k + 1) + (m - 2) + l <= 2 * left
      BY <3>2, <3>3
    <3>5. Len(Append(answers, a.value)) = k + 1
      <4>1. a.value \in Values
        BY DEF Values
      <4>2. QED
        BY <1>9, <3>1, <4>1, AppendProperties
    <3>6. QED
      BY <1>8, <3>1, <3>4, <3>5 DEF Outstanding
  <2>5. QED
    BY <1>2, <1>3, <1>6, <1>5, <2>3, <2>4 DEF InOrder
<1>13. QED
  BY <1>1, <1>3, <1>11, <1>12 DEF ReplyInv

LEMMA ReplyCloses ==
  ASSUME ExecInv, ReplyInv, RedisCloses
  PROVE  ReplyInv'
<1>1. Worker /\ InOrder /\ last.reply = last.answer
  BY DEF ReplyInv
<1>2. PICK kept \in {net.down, <<>>} : net' = [Closed EXCEPT !.down = kept]
  BY DEF RedisCloses
<1>3. net.open /\ UNCHANGED <<c, call, addr, left, todo, answers, last>>
  BY DEF RedisCloses, work, history
<1>4. net'.up = <<>> /\ net'.down = kept /\ net'.open = FALSE
  BY <1>2 DEF Closed
<1>5. net.down \in Text /\ answers \in Seq(Values) /\ call \notin {"connect", "poll"}
  <2>1. ~Closed.open
    BY DEF Closed
  <2>2. QED
    BY <1>1, <1>3, <2>1 DEF Worker
<1>6. kept \in Text
  BY <1>2, <1>5, TextIs
<1>7. Worker'
  BY <1>1, <1>3, <1>4, <1>5, <1>6 DEF Worker
<1>8. InOrder'
  <2>1. SUFFICES ASSUME c.err = "none" PROVE InOrder'
    BY <1>3 DEF InOrder
  <2>2. /\ Outstanding(answers, net.up, c.obuf, left)
        /\ Followed(c.reader, net.down, net.open, answers)
    BY <1>1, <2>1 DEF InOrder
  <2>3. Followed(c.reader, kept, FALSE, answers)
    <3>1. PICK x, d, o, values : x = c.reader /\ d = net.down /\ o = net.open /\ values = answers
      OBVIOUS
    <3>2. d \in Text /\ o /\ Followed(x, d, o, values) /\ kept \in {d, <<>>}
      BY <1>2, <1>3, <1>5, <2>2, <3>1
    <3>3. Followed(x, kept, FALSE, values)
      BY <3>2, FollowedClose
    <3>4. QED
      BY <3>1, <3>3
  <2>4. Outstanding(answers, <<>>, c.obuf, left)
    <3>1. PICK k, m, l : k = Len(answers) /\ m = Len(net.up) /\ l = Len(c.obuf)
      OBVIOUS
    <3>2. k \in Nat /\ m \in Nat /\ l \in Nat /\ left \in Nat
      BY <1>1, <1>5, <3>1, Streams, LenProperties DEF Worker
    <3>3. 2 * k + m + l <= 2 * left
      BY <2>2, <3>1 DEF Outstanding
    <3>4. 2 * k + 0 + l <= 2 * left /\ Len(<<>>) = 0
      BY <3>2, <3>3, TextIs
    <3>5. QED
      BY <3>1, <3>4 DEF Outstanding
  <2>5. QED
    BY <1>3, <1>4, <2>3, <2>4 DEF InOrder
<1>9. QED
  BY <1>1, <1>3, <1>7, <1>8 DEF ReplyInv

LEMMA ReplyStep == ExecInv /\ ReplyInv /\ [Next]_vars => ReplyInv'
<1> SUFFICES ASSUME ExecInv, ReplyInv, [Next]_vars PROVE ReplyInv'
  OBVIOUS
<1>1. CASE \E p \in Requests : ProcPkgCli(p)
  BY <1>1, ReplyRequest
<1>2. CASE RedisGetReply \/ ReplyRead
  BY <1>2, ReplyGet
<1>3. CASE BufferWrite
  BY <1>3, ReplyWrite
<1>4. CASE BufferRead
  BY <1>4, ReplyReceived
<1>5. CASE CallFails
  BY <1>5, ReplyFails
<1>6. CASE TimeEvent \/ MasterChange
  <2>1. CASE NoSentinel
    <3>1. UNCHANGED <<c, net, call, addr, left, todo, answers, last>>
      BY <2>1 DEF NoSentinel, work, history
    <3>2. QED
      BY <3>1 DEF ReplyInv, Worker, InOrder
  <2>2. QED
    BY <1>6, <2>1, ReplyReconnect DEF TimeEvent, MasterChange
<1>7. CASE ConnectTcp \/ WaitReady
  BY <1>7, ReplyConnect
<1>8. CASE Execute
  BY <1>8, ReplyExecute
<1>9. CASE RedisCloses
  BY <1>9, ReplyCloses
<1>10. CASE ExecuteLate \/ DropLate \/ UNCHANGED vars
  <2>1. UNCHANGED <<c, net, call, addr, left, todo, answers, last>>
    BY <1>10 DEF ExecuteLate, DropLate, vars, work, history
  <2>2. QED
    BY <2>1 DEF ReplyInv, Worker, InOrder
<1>11. QED
  BY <1>1, <1>2, <1>3, <1>4, <1>5, <1>6, <1>7, <1>8, <1>9, <1>10 DEF Next

LEMMA ReplyAlways == Spec => [](ExecInv /\ ReplyInv)
<1>1. Init => ExecInv /\ ReplyInv
  BY ExecInit, ReplyInit
<1>2. ExecInv /\ ReplyInv /\ [Next]_vars => ExecInv' /\ ReplyInv'
  BY ExecStep, ReplyStep
<1>3. QED
  BY <1>1, <1>2, PTL DEF Spec

\* The reader's place, its tasks and every other variable keep to what the code makes of
\* them.
LEMMA ReplyTypes == ExecInv /\ ReplyInv => TypeOK
<1> SUFFICES ASSUME ExecInv, ReplyInv PROVE TypeOK
  OBVIOUS
<1>1. Worker
  BY DEF ReplyInv
<1>2. PICK r : r = c.reader
  OBVIOUS
<1>3. IsReader(r)
  BY <1>1, <1>2 DEF Worker
<1>4. /\ r.pos \in 0 .. Len(r.buf) /\ Len(r.rstack) <= MaxDepth + 1
      /\ \A k \in 2 .. Len(r.rstack) :
           /\ r.rstack[k - 1].type = "array"
           /\ r.rstack[k].idx \in 0 .. r.rstack[k - 1].elements - 1
  BY <1>3 DEF IsReader, StackOK
<1>5. DOMAIN executed = Commands
  <2>1. OnceOk(executed, asked, CHOOSE b \in 0 .. 2 * asked : Border(b))
    BY DEF ExecInv, Border
  <2>2. executed \in Seq(Nat) /\ Len(executed) = asked
    BY <2>1 DEF OnceOk
  <2>3. QED
    BY <2>2, LenProperties DEF Commands
<1>6. QED
  BY <1>1, <1>2, <1>4, <1>5 DEF Worker, TypeOK, Errors

\* What redisGetReply hands out is what Redis answered to the command on this connection,
\* however the bytes are cut, whatever array an answer is, and whatever fails.
THEOREM AlwaysInOrder == Spec => []RepliesInOrder
<1>1. ReplyInv => RepliesInOrder
  BY DEF ReplyInv, RepliesInOrder
<1>2. QED
  BY <1>1, ReplyAlways, PTL

\* Between two requests a context without an error is connected and owes and is owed
\* nothing.
THEOREM AlwaysIdleInStep == Spec => []IdleInStep
<1>1. ExecInv /\ ReplyInv => IdleInStep
  <2> SUFFICES ASSUME ExecInv, ReplyInv PROVE IdleInStep
    OBVIOUS
  <2>1. TypeOK
    BY ReplyTypes
  <2>2. SUFFICES ASSUME call = "idle", c.err = "none"
        PROVE  /\ c.fd
               /\ c.obuf = <<>> /\ net.up = <<>> /\ net.down = <<>> /\ answers = <<>>
               /\ c.reader.pos = Len(c.reader.buf) /\ c.reader.reply = NoReply
    BY <2>1 DEF IdleInStep
  <2>3. /\ c.fd /\ left = 0 /\ IsReader(c.reader) /\ net.down \in Text /\ answers \in Seq(Values)
        /\ Outstanding(answers, net.up, c.obuf, 0)
        /\ Followed(c.reader, net.down, net.open, answers)
    BY <2>2 DEF ReplyInv, Worker, InOrder
  <2>4. answers = <<>> /\ net.up = <<>> /\ c.obuf = <<>>
    <3>1. PICK k, m, l : k = Len(answers) /\ m = Len(net.up) /\ l = Len(c.obuf)
      OBVIOUS
    <3>2. k \in Nat /\ m \in Nat /\ l \in Nat
      BY <2>3, <3>1, Streams, LenProperties
    <3>3. 2 * k + m + l <= 2 * 0
      BY <2>3, <3>1 DEF Outstanding
    <3>4. k = 0 /\ m = 0 /\ l = 0
      BY <3>2, <3>3
    <3>5. QED
      BY <2>3, <3>1, <3>4, Streams, EmptySeq
  <2>5. net.down = <<>> /\ Rest(c.reader) = <<>> /\ c.reader.reply = NoReply
    BY <2>3, <2>4, FollowedEnd
  <2>6. c.reader.pos = Len(c.reader.buf)
    BY <2>3, <2>5, NoRest
  <2>7. QED
    BY <2>3, <2>4, <2>5, <2>6
<1>2. QED
  BY <1>1, ReplyAlways, PTL

\* A context with an error hands out nothing, not even a reply that has come in whole.
THEOREM FailedHandsOutNothing == Spec => FailedGivesNothing
<1>1. ExecInv /\ ReplyInv /\ [Next]_vars => [c.err # "none" => last' = last]_vars
  <2> SUFFICES ASSUME ExecInv, ReplyInv, Next, c.err # "none" PROVE last' = last
    OBVIOUS
  <2>1. CASE RedisGetReply \/ ReplyRead
    BY <2>1, ReplyGet
  <2>2. CASE ~(RedisGetReply \/ ReplyRead)
    BY <2>2 DEF Next, ProcPkgCli, BufferWrite, BufferRead, CallFails, TimeEvent, NoSentinel,
                MasterChange, Reconnect, ConnectTcp, WaitReady, Execute, ExecuteLate, DropLate, RedisCloses,
                history
  <2>3. QED
    BY <2>1, <2>2
<1>2. QED
  BY <1>1, ReplyAlways, PTL DEF Spec, FailedGivesNothing
=============================================================================
