--------------------------- MODULE ShmRingProofs ---------------------------
(***************************************************************************)
(* ShmRing, for every size of the ring, of the block head and of the       *)
(* payloads: the inductive invariant, and the refinement of BlockFifo.     *)
(***************************************************************************)
EXTENDS ShmRing, SequenceTheorems, TLAPS

-----------------------------------------------------------------------------
(***************************************************************************)
(* Arithmetic of the positions.                                            *)
(***************************************************************************)

LEMMA TotalType ==
  ASSUME NEW b \in Blocks
  PROVE  /\ b.len \in Nat
         /\ b.id \in Ids
         /\ Total(b) \in Nat
         /\ Total(b) = HeadLen + b.len
         /\ HeadLen \in Nat
         /\ HeadLen >= 1
<1>1. b.id \in Ids /\ b.len \in Lens
  BY DEF Blocks
<1>2. HeadLen \in Nat \ {0} /\ b.len \in Nat
  BY <1>1, RingAssumption
<1>3. QED
  BY <1>1, <1>2 DEF Total

LEMMA PositionTypes ==
  ASSUME NEW p \in Positions, NEW r \in Positions
  PROVE  /\ Used(p, r) \in 0 .. Size
         /\ Free(p, r) = Size - Used(p, r)
         /\ \A n \in 0 .. Size : Advance(p, n) \in Positions
         /\ \A k \in 1 .. Size : Cell(p, k) \in 0 .. Size - 1
         /\ \A c \in 0 .. Size - 1 : Offset(p, c) \in 1 .. Size
BY RingAssumption DEF Positions, Used, Free, Advance, Cell, Offset

\* Offset is the inverse of Cell.
LEMMA OffsetOfCell ==
  ASSUME NEW p \in Positions, NEW k \in 1 .. Size
  PROVE  Offset(p, Cell(p, k)) = k
BY RingAssumption DEF Positions, Cell, Offset

LEMMA AdvanceTwice ==
  ASSUME NEW p \in Positions, NEW m \in Nat, NEW n \in Nat, m + n <= Size
  PROVE  Advance(Advance(p, m), n) = Advance(p, m + n)
BY RingAssumption DEF Positions, Advance

LEMMA CellAfterAdvance ==
  ASSUME NEW p \in Positions, NEW m \in Nat, NEW k \in 1 .. Size, m + k <= Size
  PROVE  Cell(Advance(p, m), k) = Cell(p, m + k)
BY RingAssumption DEF Positions, Advance, Cell

\* Advancing a position that is not ahead of the writer adds to its distance.
LEMMA UsedAdvance ==
  ASSUME NEW p \in Positions, NEW r \in Positions, NEW n \in Nat,
         Used(p, r) + n <= Size - 1
  PROVE  Used(Advance(p, n), r) = Used(p, r) + n
BY RingAssumption DEF Positions, Advance, Used

\* Once the reader has advanced by n, every position it has not passed is n
\* bytes nearer.
LEMMA UsedAfterRead ==
  ASSUME NEW p \in Positions, NEW r \in Positions, NEW n \in Nat,
         n <= Used(p, r), Used(p, r) <= Size - 1
  PROVE  Used(p, Advance(r, n)) = Used(p, r) - n
BY RingAssumption DEF Positions, Advance, Used

\* Two bytes at different distances from the reader are in different cells.
LEMMA CellsApart ==
  ASSUME NEW r \in Positions, NEW p \in Positions, NEW q \in Positions,
         NEW j \in 1 .. Size, NEW k \in 1 .. Size,
         Used(p, r) + j <= Size, Used(q, r) + k <= Size,
         Used(p, r) <= Size - 1, Used(q, r) <= Size - 1,
         Used(p, r) + j # Used(q, r) + k
  PROVE  Cell(p, j) # Cell(q, k)
BY RingAssumption DEF Positions, Used, Cell

-----------------------------------------------------------------------------
(***************************************************************************)
(* What memcpy to the ring writes and what it keeps.                       *)
(***************************************************************************)

LEMMA CopyInWrites ==
  ASSUME TypeOK, NEW b \in Blocks, NEW lo \in Nat, NEW n \in 0 .. Size,
         NEW pos \in Positions
  PROVE  /\ CopyIn(b, lo, n, pos) \in [0 .. Size - 1 -> Bytes]
         /\ \A k \in 1 .. n : CopyIn(b, lo, n, pos)[Cell(pos, k)] = <<b, lo + k>>
<1>1. ASSUME NEW c \in 0 .. Size - 1
      PROVE  lo + Offset(pos, c) \in Nat /\ base[c] \in Bytes
  <2>1. Offset(pos, c) \in 1 .. Size
    BY PositionTypes
  <2>2. base \in [0 .. Size - 1 -> Bytes]
    BY DEF TypeOK
  <2>3. QED
    BY <2>1, <2>2, RingAssumption
<1>2. CopyIn(b, lo, n, pos) \in [0 .. Size - 1 -> Bytes]
  <2>1. \A m \in Nat : <<b, m>> \in Bytes
    BY DEF Bytes
  <2>2. QED
    BY <1>1, <2>1 DEF CopyIn
<1>3. ASSUME NEW k \in 1 .. n
      PROVE  CopyIn(b, lo, n, pos)[Cell(pos, k)] = <<b, lo + k>>
  <2>1. k \in 1 .. Size
    BY RingAssumption
  <2>2. Cell(pos, k) \in 0 .. Size - 1 /\ Offset(pos, Cell(pos, k)) = k
    BY <2>1, PositionTypes, OffsetOfCell
  <2>3. QED
    BY <2>2 DEF CopyIn
<1>4. QED
  BY <1>2, <1>3

\* A copy to a free place behind w_pos leaves a byte alone that is nearer to
\* the reader.
LEMMA CopyInKeeps ==
  ASSUME TypeOK, NEW b \in Blocks, NEW lo \in Nat, NEW n \in 0 .. Size,
         NEW pos \in Positions, Used(pos, r_pos) + n <= Size - 1,
         NEW p \in Positions, NEW k \in 1 .. Size,
         Used(p, r_pos) + k <= Used(pos, r_pos)
  PROVE  CopyIn(b, lo, n, pos)[Cell(p, k)] = base[Cell(p, k)]
<1>1. /\ Used(pos, r_pos) \in 0 .. Size
      /\ Used(p, r_pos) \in 0 .. Size
      /\ Cell(p, k) \in 0 .. Size - 1
      /\ r_pos \in Positions
  BY PositionTypes DEF TypeOK
<1> DEFINE m == Offset(pos, Cell(p, k))
<1>2. m \in 1 .. Size /\ Cell(pos, m) = Cell(p, k)
  BY <1>1, RingAssumption DEF Positions, Offset, Cell
<1>3. m > n
  <2> SUFFICES ASSUME m <= n PROVE FALSE
    BY <1>2, RingAssumption
  <2>1. Used(p, r_pos) + k <= Size /\ Used(pos, r_pos) + m <= Size
    BY <1>1, <1>2, RingAssumption
  <2>2. Used(p, r_pos) <= Size - 1 /\ Used(pos, r_pos) <= Size - 1
    BY <1>1, RingAssumption
  <2>3. Used(p, r_pos) + k # Used(pos, r_pos) + m
    BY <1>1, <1>2, RingAssumption
  <2>4. Cell(p, k) # Cell(pos, m)
    BY <1>1, <1>2, <2>1, <2>2, <2>3, CellsApart
  <2>5. QED
    BY <1>2, <2>4
<1>4. QED
  BY <1>1, <1>2, <1>3 DEF CopyIn

-----------------------------------------------------------------------------
(***************************************************************************)
(* The bytes copied by shmq_pull.                                          *)
(***************************************************************************)

LEMMA FunctionIsSeq ==
  ASSUME NEW S, NEW n \in Nat, NEW f \in [1 .. n -> S]
  PROVE  f \in Seq(S) /\ Len(f) = n
<1>1. f \in UNION {[1 .. m -> S] : m \in Nat}
  OBVIOUS
<1>2. f \in Seq(S)
  BY <1>1, SeqDef, Zenon
<1>3. DOMAIN f = 1 .. Len(f) /\ Len(f) \in Nat
  BY <1>2, LenProperties
<1>4. QED
  BY <1>2, <1>3

LEMMA CopyOutType ==
  ASSUME TypeOK, NEW n \in 0 .. Size, NEW pos \in Positions
  PROVE  /\ CopyOut(n, pos) \in Seq(Bytes)
         /\ Len(CopyOut(n, pos)) = n
         /\ \A k \in 1 .. n : CopyOut(n, pos)[k] = base[Cell(pos, k)]
<1>1. n \in Nat
  BY RingAssumption
<1>2. ASSUME NEW k \in 1 .. n
      PROVE  base[Cell(pos, k)] \in Bytes
  <2>1. k \in 1 .. Size
    BY RingAssumption
  <2>2. Cell(pos, k) \in 0 .. Size - 1
    BY <2>1, PositionTypes
  <2>3. base \in [0 .. Size - 1 -> Bytes]
    BY DEF TypeOK
  <2>4. QED
    BY <2>2, <2>3
<1>3. CopyOut(n, pos) \in [1 .. n -> Bytes]
  BY <1>2 DEF CopyOut
<1>4. QED
  BY <1>1, <1>3, FunctionIsSeq DEF CopyOut

LEMMA EncodeType ==
  ASSUME NEW b \in Blocks
  PROVE  /\ Encode(b) \in Seq(Bytes)
         /\ Len(Encode(b)) = Total(b)
         /\ \A k \in 1 .. Total(b) : Encode(b)[k] = <<b, k>>
<1>1. Total(b) \in Nat
  BY TotalType
<1>2. Encode(b) \in [1 .. Total(b) -> Bytes]
  BY <1>1 DEF Encode, Bytes
<1>3. QED
  BY <1>1, <1>2, FunctionIsSeq DEF Encode

-----------------------------------------------------------------------------
(***************************************************************************)
(* The invariant holds initially, and every step keeps it.                 *)
(***************************************************************************)

LEMMA InitIInv == Init => IInv
<1> SUFFICES ASSUME Init PROVE IInv
  OBVIOUS
<1> USE RingAssumption DEF Init
<1>1. TypeOK
  <2>1. <<ZeroBlock, 0>> \in Bytes
    BY DEF Bytes
  <2>2. base \in [0 .. Size - 1 -> Bytes]
    BY <2>1
  <2>3. w_pos \in Positions /\ r_pos \in Positions
    BY DEF Positions
  <2>4. out \in Seq(Bytes) /\ queue \in Seq(Blocks) /\ starts \in Seq(Positions)
    BY EmptySeq
  <2>5. QED
    BY <2>2, <2>3, <2>4 DEF TypeOK
<1>2. RoomOK
  BY DEF RoomOK, Used, Idle
<1>3. ChainOK
  <2>1. Len(queue) = 0 /\ Len(starts) = 0
    BY EmptySeq
  <2>2. QED
    BY <2>1 DEF ChainOK
<1>4. UnreadIntact
  <2>1. Len(queue) = 0
    BY EmptySeq
  <2>2. QED
    BY <2>1 DEF UnreadIntact
<1>5. PushOK /\ PullOK
  BY DEF PushOK, PullOK, Idle
<1>6. QED
  BY <1>1, <1>2, <1>3, <1>4, <1>5 DEF IInv

\* Where a block of the queue lies.
LEMMA QueuedBlock ==
  ASSUME IInv, NEW i \in 1 .. Len(queue)
  PROVE  /\ queue[i] \in Blocks
         /\ Total(queue[i]) \in 1 .. Size - 1
         /\ starts[i] \in Positions
         /\ Used(starts[i], r_pos) \in Nat
         /\ Used(starts[i], r_pos) + Total(queue[i]) <= Used(w_pos, r_pos)
         /\ Used(w_pos, r_pos) \in 0 .. Size - 1
<1>1. /\ queue \in Seq(Blocks) /\ starts \in Seq(Positions)
      /\ r_pos \in Positions /\ w_pos \in Positions
  BY DEF IInv, TypeOK
<1>2. Len(starts) = Len(queue)
  BY DEF IInv, ChainOK
<1>3. queue[i] \in Blocks /\ starts[i] \in Positions
  BY <1>1, <1>2, ElementOfSeq
<1>4. Total(queue[i]) \in Nat /\ Total(queue[i]) >= 1
  BY <1>3, TotalType
<1>5. Used(starts[i], r_pos) \in 0 .. Size /\ Used(w_pos, r_pos) \in 0 .. Size
  BY <1>1, <1>3, PositionTypes
<1>6. Used(starts[i], r_pos) + Total(queue[i]) <= Used(w_pos, r_pos)
  BY DEF IInv, ChainOK
<1>7. Used(w_pos, r_pos) <= Size - 1
  BY DEF IInv, RoomOK
<1>8. QED
  BY <1>3, <1>4, <1>5, <1>6, <1>7, RingAssumption

\* The oldest block lies at the reader's position.
LEMMA OldestBlock ==
  ASSUME IInv, queue # <<>>
  PROVE  /\ Head(queue) = queue[1]
         /\ Len(queue) \in Nat /\ Len(queue) >= 1
         /\ starts[1] = r_pos
         /\ r_pos \in Positions
         /\ Head(queue) \in Blocks
         /\ Total(Head(queue)) \in 1 .. Size - 1
         /\ Total(Head(queue)) <= Used(w_pos, r_pos)
         /\ \A k \in 1 .. Total(Head(queue)) : base[Cell(r_pos, k)] = <<Head(queue), k>>
<1>1. queue \in Seq(Blocks) /\ r_pos \in Positions
  BY DEF IInv, TypeOK
<1>2. Len(queue) \in Nat /\ Len(queue) >= 1
  BY <1>1, EmptySeq
<1>3. Head(queue) = queue[1]
  BY <1>1
<1>4. starts[1] = r_pos
  BY DEF IInv, ChainOK
<1>5. 1 \in 1 .. Len(queue)
  BY <1>2
<1>6. Used(r_pos, r_pos) = 0
  BY <1>1 DEF Used, Positions
<1>7. \A k \in 1 .. Total(queue[1]) : base[Cell(starts[1], k)] = <<queue[1], k>>
  BY <1>5 DEF IInv, UnreadIntact
<1>8. QED
  BY <1>1, <1>2, <1>3, <1>4, <1>5, <1>6, <1>7, QueuedBlock

LEMMA QueueFrame ==
  ASSUME ChainOK, UnreadIntact, UNCHANGED <<base, w_pos, r_pos, queue, starts>>
  PROVE  ChainOK' /\ UnreadIntact'
BY DEF ChainOK, UnreadIntact

\* The block being pushed.
LEMMA PushedBlock ==
  ASSUME TypeOK, RoomOK, push.at # "idle"
  PROVE  /\ push \in [at : {"head", "body", "publish"}, sb : Blocks, pos : Positions]
         /\ push.sb \in Blocks
         /\ push.pos \in Positions
         /\ HeadLen \in Nat /\ HeadLen >= 1
         /\ push.sb.len \in Nat
         /\ Total(push.sb) = HeadLen + push.sb.len
         /\ Used(w_pos, r_pos) \in Nat
         /\ Used(w_pos, r_pos) + Total(push.sb) <= Size - 1
<1>1. push \in [at : {"head", "body", "publish"}, sb : Blocks, pos : Positions]
  BY DEF TypeOK, Idle
<1>2. push.sb \in Blocks /\ push.pos \in Positions
  BY <1>1
<1>3. Used(w_pos, r_pos) \in 0 .. Size
  BY PositionTypes DEF TypeOK
<1>4. QED
  BY <1>1, <1>2, <1>3, TotalType DEF RoomOK

LEMMA PushBeginStep ==
  ASSUME IInv, NEW b \in Blocks, PushBegin(b)
  PROVE  IInv'
<1> USE DEF PushBegin, ring, puller, history
<1>1. TypeOK'
  BY DEF IInv, TypeOK
<1>2. RoomOK'
  <2>1. Free(w_pos, r_pos) = Size - Used(w_pos, r_pos) /\ Used(w_pos, r_pos) \in 0 .. Size
    BY PositionTypes DEF IInv, TypeOK
  <2>2. Used(w_pos, r_pos) + Total(b) <= Size - 1
    BY <2>1, TotalType, RingAssumption
  <2>3. QED
    BY <2>2 DEF IInv, RoomOK
<1>3. ChainOK' /\ UnreadIntact'
  BY QueueFrame DEF IInv
<1>4. PushOK'
  BY DEF PushOK
<1>5. PullOK'
  BY DEF IInv, PullOK
<1>6. QED
  BY <1>1, <1>2, <1>3, <1>4, <1>5 DEF IInv

LEMMA PushHeadStep ==
  ASSUME IInv, PushHead
  PROVE  IInv'
<1> USE DEF PushHead, puller, history
<1>1. /\ push.at = "head" /\ push.pos = w_pos
      /\ TypeOK /\ RoomOK
  BY DEF IInv, PushOK
<1>2. /\ push \in [at : {"head", "body", "publish"}, sb : Blocks, pos : Positions]
      /\ push.sb \in Blocks
      /\ w_pos \in Positions /\ r_pos \in Positions
      /\ HeadLen \in 0 .. Size
      /\ Used(w_pos, r_pos) + HeadLen <= Size - 1
      /\ Used(w_pos, r_pos) \in Nat
      /\ Advance(w_pos, HeadLen) \in Positions
  <2>1. HeadLen \in 0 .. Size /\ Used(w_pos, r_pos) + HeadLen <= Size - 1
    BY <1>1, PushedBlock, RingAssumption
  <2>2. QED
    BY <1>1, <2>1, PushedBlock, PositionTypes DEF TypeOK
<1>3. /\ base' \in [0 .. Size - 1 -> Bytes]
      /\ \A k \in 1 .. HeadLen : base'[Cell(w_pos, k)] = <<push.sb, k>>
  BY <1>1, <1>2, CopyInWrites
<1>4. push' = [at |-> "body", sb |-> push.sb, pos |-> Advance(w_pos, HeadLen)]
  BY <1>1, <1>2
<1>5. TypeOK'
  BY <1>1, <1>2, <1>3, <1>4 DEF TypeOK
<1>6. RoomOK'
  BY <1>1, <1>4 DEF RoomOK
<1>7. ChainOK'
  BY DEF IInv, ChainOK
<1>8. UnreadIntact'
  <2> SUFFICES ASSUME NEW i \in 1 .. Len(queue), NEW k \in 1 .. Total(queue[i])
               PROVE  base'[Cell(starts[i], k)] = <<queue[i], k>>
    BY DEF UnreadIntact
  <2>1. k \in 1 .. Size /\ Used(starts[i], r_pos) + k <= Used(w_pos, r_pos)
    BY QueuedBlock, RingAssumption
  <2>2. base' = CopyIn(push.sb, 0, HeadLen, w_pos) /\ starts[i] \in Positions
    BY <1>1, QueuedBlock
  <2>3. CopyIn(push.sb, 0, HeadLen, w_pos)[Cell(starts[i], k)] = base[Cell(starts[i], k)]
    BY <1>1, <1>2, <2>1, <2>2, CopyInKeeps
  <2>4. QED
    BY <2>2, <2>3 DEF IInv, UnreadIntact
<1>9. PushOK'
  <2>1. w_pos' = w_pos
    OBVIOUS
  <2> HIDE DEF PushHead
  <2>2. push'.at = "body" /\ push'.sb = push.sb /\ push'.pos = Advance(w_pos, HeadLen)
    BY <1>4
  <2>3. QED
    BY <1>3, <2>1, <2>2 DEF PushOK
<1>10. PullOK'
  BY DEF IInv, PullOK
<1>11. QED
  BY <1>5, <1>6, <1>7, <1>8, <1>9, <1>10 DEF IInv

LEMMA PushBodyStep ==
  ASSUME IInv, PushBody
  PROVE  IInv'
<1> USE DEF PushBody, puller, history
<1> DEFINE n == push.sb.len
<1>1. /\ push.at = "body" /\ push.pos = Advance(w_pos, HeadLen)
      /\ \A k \in 1 .. HeadLen : base[Cell(w_pos, k)] = <<push.sb, k>>
      /\ TypeOK /\ RoomOK
  BY DEF IInv, PushOK
<1>2. /\ push \in [at : {"head", "body", "publish"}, sb : Blocks, pos : Positions]
      /\ push.sb \in Blocks /\ push.pos \in Positions
      /\ w_pos \in Positions /\ r_pos \in Positions
      /\ HeadLen \in Nat /\ n \in 0 .. Size
      /\ Total(push.sb) = HeadLen + n
      /\ Used(w_pos, r_pos) \in Nat
      /\ Used(w_pos, r_pos) + HeadLen + n <= Size - 1
  BY <1>1, PushedBlock, RingAssumption DEF TypeOK
<1>3. Used(push.pos, r_pos) = Used(w_pos, r_pos) + HeadLen
  BY <1>1, <1>2, UsedAdvance, RingAssumption
<1>4. /\ base' \in [0 .. Size - 1 -> Bytes]
      /\ \A k \in 1 .. n : base'[Cell(push.pos, k)] = <<push.sb, HeadLen + k>>
  BY <1>1, <1>2, CopyInWrites
<1>5. ASSUME NEW p \in Positions, NEW k \in 1 .. Size,
             Used(p, r_pos) + k <= Used(w_pos, r_pos) + HeadLen
      PROVE  base'[Cell(p, k)] = base[Cell(p, k)]
  <2>1. Used(push.pos, r_pos) + n <= Size - 1
    BY <1>2, <1>3, RingAssumption
  <2>2. QED
    BY <1>1, <1>2, <1>3, <1>5, <2>1, CopyInKeeps
<1>6. /\ Advance(push.pos, n) = Advance(w_pos, Total(push.sb))
      /\ Advance(push.pos, n) \in Positions
  <2>1. HeadLen + n <= Size
    BY <1>2, RingAssumption
  <2>2. Advance(Advance(w_pos, HeadLen), n) = Advance(w_pos, HeadLen + n)
    BY <1>2, <2>1, AdvanceTwice, RingAssumption
  <2>3. Advance(push.pos, n) \in Positions
    BY <1>2, PositionTypes
  <2>4. QED
    BY <1>1, <1>2, <2>2, <2>3
<1>7. push' = [at |-> "publish", sb |-> push.sb, pos |-> Advance(push.pos, n)]
  BY <1>1, <1>2
<1>8. TypeOK'
  BY <1>1, <1>2, <1>4, <1>6, <1>7 DEF TypeOK
<1>9. RoomOK'
  BY <1>1, <1>7 DEF RoomOK
<1>10. ChainOK'
  BY DEF IInv, ChainOK
<1>11. UnreadIntact'
  <2> SUFFICES ASSUME NEW i \in 1 .. Len(queue), NEW k \in 1 .. Total(queue[i])
               PROVE  base'[Cell(starts[i], k)] = <<queue[i], k>>
    BY DEF UnreadIntact
  <2>1. k \in 1 .. Size /\ Used(starts[i], r_pos) + k <= Used(w_pos, r_pos) + HeadLen
    BY <1>2, QueuedBlock, RingAssumption
  <2>2. base'[Cell(starts[i], k)] = base[Cell(starts[i], k)]
    BY <1>5, <2>1, QueuedBlock
  <2>3. QED
    BY <2>2 DEF IInv, UnreadIntact
<1>12. PushOK'
  <2> SUFFICES ASSUME NEW k \in 1 .. Total(push.sb)
               PROVE  base'[Cell(w_pos, k)] = <<push.sb, k>>
    BY <1>6, <1>7 DEF PushOK
  <2>1. CASE k <= HeadLen
    <3>1. k \in 1 .. Size /\ k \in 1 .. HeadLen
      BY <1>2, <2>1, RingAssumption
    <3>2. base'[Cell(w_pos, k)] = base[Cell(w_pos, k)]
      BY <1>2, <1>5, <2>1, <3>1
    <3>3. QED
      BY <1>1, <3>1, <3>2
  <2>2. CASE k > HeadLen
    <3>1. /\ k - HeadLen \in 1 .. n /\ k - HeadLen \in 1 .. Size
          /\ HeadLen + (k - HeadLen) = k /\ k <= Size
      BY <1>2, <2>2, RingAssumption
    <3>2. Cell(push.pos, k - HeadLen) = Cell(w_pos, k)
      BY <1>1, <1>2, <3>1, CellAfterAdvance
    <3>3. base'[Cell(push.pos, k - HeadLen)] = <<push.sb, k>>
      BY <1>4, <3>1
    <3>4. QED
      BY <3>2, <3>3
  <2>3. QED
    BY <1>2, <2>1, <2>2
<1>13. PullOK'
  BY DEF IInv, PullOK
<1>14. QED
  BY <1>8, <1>9, <1>10, <1>11, <1>12, <1>13 DEF IInv

LEMMA PushPublishStep ==
  ASSUME IInv, PushPublish
  PROVE  IInv'
<1> USE DEF PushPublish, puller
<1> DEFINE n == Len(queue)
           b == push.sb
<1>1. /\ push.at = "publish" /\ push.pos = Advance(w_pos, Total(b))
      /\ \A k \in 1 .. Total(b) : base[Cell(w_pos, k)] = <<b, k>>
      /\ TypeOK /\ RoomOK
  BY DEF IInv, PushOK
<1>2. /\ b \in Blocks /\ push.pos \in Positions
      /\ w_pos \in Positions /\ r_pos \in Positions
      /\ Total(b) \in Nat /\ Total(b) >= 1
      /\ Used(w_pos, r_pos) \in Nat
      /\ Used(w_pos, r_pos) + Total(b) <= Size - 1
  BY <1>1, PushedBlock DEF TypeOK
<1>3. /\ w_pos' = push.pos /\ r_pos' = r_pos /\ base' = base
      /\ Used(w_pos', r_pos) = Used(w_pos, r_pos) + Total(b)
  BY <1>1, <1>2, UsedAdvance
<1>4. /\ queue \in Seq(Blocks) /\ starts \in Seq(Positions)
      /\ n \in Nat /\ Len(starts) = n
  BY DEF IInv, TypeOK, ChainOK
<1>5. /\ queue' \in Seq(Blocks) /\ starts' \in Seq(Positions)
      /\ Len(queue') = n + 1 /\ Len(starts') = n + 1
      /\ \A i \in 1 .. n : queue'[i] = queue[i] /\ starts'[i] = starts[i]
      /\ queue'[n + 1] = b /\ starts'[n + 1] = w_pos
  BY <1>2, <1>4
<1>6. TypeOK'
  BY <1>1, <1>2, <1>3, <1>5 DEF TypeOK
<1>7. RoomOK'
  BY <1>2, <1>3 DEF RoomOK, Idle
<1>8. ChainOK'
  <2>1. /\ starts'[1] = r_pos
        /\ w_pos' = Advance(starts'[n + 1], Total(queue'[n + 1]))
    <3>1. CASE n = 0
      <4>1. queue = <<>>
        BY <1>4, <3>1
      <4>2. w_pos = r_pos
        BY <4>1 DEF IInv, ChainOK
      <4>3. QED
        BY <1>1, <1>3, <1>5, <3>1, <4>2
    <3>2. CASE n # 0
      <4>1. queue # <<>> /\ 1 \in 1 .. n
        BY <1>4, <3>2
      <4>2. starts[1] = r_pos
        BY <4>1 DEF IInv, ChainOK
      <4>3. QED
        BY <1>1, <1>3, <1>5, <4>1, <4>2
    <3>3. QED
      BY <3>1, <3>2
  <2>2. ASSUME NEW i \in 1 .. n + 1
        PROVE  Used(starts'[i], r_pos') + Total(queue'[i]) <= Used(w_pos', r_pos')
    <3>1. CASE i \in 1 .. n
      <4>1. /\ Used(starts[i], r_pos) + Total(queue[i]) <= Used(w_pos, r_pos)
            /\ Used(starts[i], r_pos) \in Nat /\ Total(queue[i]) \in Nat
        BY <3>1, QueuedBlock
      <4>2. QED
        BY <1>2, <1>3, <1>5, <3>1, <4>1
    <3>2. CASE i = n + 1
      BY <1>2, <1>3, <1>5, <3>2
    <3>3. QED
      BY <1>4, <3>1, <3>2
  <2>3. ASSUME NEW i \in 1 .. n
        PROVE  starts'[i + 1] = Advance(starts'[i], Total(queue'[i]))
    <3>1. CASE i \in 1 .. n - 1
      <4>1. i + 1 \in 1 .. n
        BY <1>4, <3>1
      <4>2. starts[i + 1] = Advance(starts[i], Total(queue[i]))
        BY <3>1 DEF IInv, ChainOK
      <4>3. QED
        BY <1>5, <4>1, <4>2
    <3>2. CASE i = n
      <4>1. queue # <<>>
        BY <1>4, <3>2
      <4>2. w_pos = Advance(starts[n], Total(queue[n]))
        BY <4>1 DEF IInv, ChainOK
      <4>3. QED
        BY <1>5, <3>2, <4>2
    <3>3. QED
      BY <1>4, <3>1, <3>2
  <2>4. ASSUME NEW i \in 1 .. n + 1, NEW j \in 1 .. n + 1, i < j
        PROVE  Used(starts'[i], r_pos') + Total(queue'[i]) <= Used(starts'[j], r_pos')
    <3>1. i \in 1 .. n
      BY <1>4, <2>4
    <3>2. CASE j \in 1 .. n
      <4>1. Used(starts[i], r_pos) + Total(queue[i]) <= Used(starts[j], r_pos)
        BY <2>4, <3>1, <3>2 DEF IInv, ChainOK
      <4>2. QED
        BY <1>3, <1>5, <3>1, <3>2, <4>1
    <3>3. CASE j = n + 1
      BY <1>3, <1>5, <3>1, <3>3, QueuedBlock
    <3>4. QED
      BY <1>4, <3>2, <3>3
  <2>5. queue' # <<>>
    BY <1>4, <1>5
  <2>6. Len(queue') - 1 = n
    BY <1>4, <1>5
  <2>7. QED
    BY <1>3, <1>5, <2>1, <2>2, <2>3, <2>4, <2>5, <2>6 DEF ChainOK
<1>9. UnreadIntact'
  <2> SUFFICES ASSUME NEW i \in 1 .. n + 1, NEW k \in 1 .. Total(queue'[i])
               PROVE  base'[Cell(starts'[i], k)] = <<queue'[i], k>>
    <3>1. Len(queue') = n + 1
      BY <1>5
    <3> HIDE DEF n, PushPublish
    <3>2. QED
      BY <3>1 DEF UnreadIntact
  <2>1. CASE i \in 1 .. n
    BY <1>3, <1>5, <2>1 DEF IInv, UnreadIntact
  <2>2. CASE i = n + 1
    BY <1>1, <1>3, <1>5, <2>2
  <2>3. QED
    BY <1>4, <2>1, <2>2
<1>10. PushOK'
  BY DEF PushOK, Idle
<1>11. PullOK'
  <2>1. pull.at # "idle" => queue # <<>>
    BY DEF IInv, PullOK
  <2>2. queue # <<>> => Head(queue') = Head(queue) /\ queue' # <<>>
    BY <1>2, <1>4, <1>5
  <2>3. QED
    BY <1>3, <2>1, <2>2 DEF IInv, PullOK
<1>12. QED
  BY <1>6, <1>7, <1>8, <1>9, <1>10, <1>11 DEF IInv

\* What taking the oldest block out of the ring does to the others.
LEMMA OldestGone ==
  ASSUME IInv, queue # <<>>, ForgetHead,
         r_pos' = Advance(r_pos, Total(Head(queue))),
         UNCHANGED <<base, w_pos>>
  PROVE  /\ r_pos' \in Positions
         /\ queue' \in Seq(Blocks) /\ starts' \in Seq(Positions)
         /\ Used(w_pos', r_pos') = Used(w_pos, r_pos) - Total(Head(queue))
         /\ ChainOK' /\ UnreadIntact'
<1> DEFINE n == Len(queue)
           t == Total(Head(queue))
<1>1. /\ queue \in Seq(Blocks) /\ starts \in Seq(Positions) /\ Len(starts) = n
      /\ r_pos \in Positions /\ w_pos \in Positions
  BY DEF IInv, TypeOK, ChainOK
<1>2. /\ n \in Nat /\ n >= 1 /\ starts[1] = r_pos /\ Head(queue) = queue[1]
      /\ Head(queue) \in Blocks /\ t \in 1 .. Size - 1 /\ t <= Used(w_pos, r_pos)
  BY OldestBlock
<1>3. starts # <<>>
  BY <1>1, <1>2
<1>4. /\ queue' \in Seq(Blocks) /\ starts' \in Seq(Positions)
      /\ Len(queue') = n - 1 /\ Len(starts') = n - 1
      /\ \A i \in 1 .. n - 1 : queue'[i] = queue[i + 1] /\ starts'[i] = starts[i + 1]
  BY <1>1, <1>2, <1>3, HeadTailProperties DEF ForgetHead
<1>5. r_pos' \in Positions
  BY <1>1, <1>2, PositionTypes, RingAssumption
<1>6. Used(w_pos, r_pos) \in 0 .. Size - 1
  <2>1. 1 \in 1 .. n
    BY <1>2
  <2>2. QED
    BY <2>1, QueuedBlock
<1>7. Used(w_pos', r_pos') = Used(w_pos, r_pos) - t
  BY <1>1, <1>2, <1>6, UsedAfterRead, RingAssumption
<1>8. ASSUME NEW i \in 1 .. n - 1
      PROVE  /\ i \in 1 .. n /\ i + 1 \in 1 .. n
             /\ starts'[i] = starts[i + 1] /\ starts[i + 1] \in Positions
             /\ queue'[i] = queue[i + 1] /\ Total(queue[i + 1]) \in 1 .. Size - 1
             /\ Used(starts[i + 1], r_pos) \in Nat
             /\ Used(starts[i + 1], r_pos) + Total(queue[i + 1]) <= Used(w_pos, r_pos)
             /\ Used(starts'[i], r_pos') = Used(starts[i + 1], r_pos) - t
  <2>1. i \in 1 .. n /\ i + 1 \in 1 .. n /\ 1 \in 1 .. n /\ 1 < i + 1
    BY <1>2
  <2>2. Used(starts[1], r_pos) + Total(queue[1]) <= Used(starts[i + 1], r_pos)
    BY <2>1 DEF IInv, ChainOK
  <2>3. Used(r_pos, r_pos) = 0
    BY <1>1 DEF Used, Positions
  <2>4. t <= Used(starts[i + 1], r_pos)
    BY <1>2, <2>2, <2>3
  <2>5. /\ starts[i + 1] \in Positions /\ Total(queue[i + 1]) \in 1 .. Size - 1
        /\ Used(starts[i + 1], r_pos) \in Nat
        /\ Used(starts[i + 1], r_pos) + Total(queue[i + 1]) <= Used(w_pos, r_pos)
    BY <2>1, QueuedBlock
  <2>6. Used(starts[i + 1], r_pos) <= Size - 1
    BY <1>6, <2>5, RingAssumption
  <2>7. Used(starts[i + 1], r_pos') = Used(starts[i + 1], r_pos) - t
    BY <1>1, <1>2, <2>4, <2>5, <2>6, UsedAfterRead, RingAssumption
  <2>8. QED
    BY <1>4, <2>1, <2>5, <2>7
<1>9. ChainOK'
  <2>1. queue' = <<>> => w_pos' = r_pos'
    <3> SUFFICES ASSUME queue' = <<>> PROVE w_pos' = r_pos'
      OBVIOUS
    <3>1. n = 1
      BY <1>2, <1>4, EmptySeq
    <3>2. w_pos = Advance(starts[n], Total(queue[n]))
      BY <1>2, EmptySeq DEF IInv, ChainOK
    <3>3. QED
      BY <1>2, <3>1, <3>2
  <2>2. queue' # <<>> =>
          /\ starts'[1] = r_pos'
          /\ w_pos' = Advance(starts'[Len(queue')], Total(queue'[Len(queue')]))
    <3> SUFFICES ASSUME queue' # <<>>
                 PROVE  /\ starts'[1] = r_pos'
                        /\ w_pos' = Advance(starts'[n - 1], Total(queue'[n - 1]))
      BY <1>4
    <3>1. n - 1 \in 1 .. n - 1 /\ 1 \in 1 .. n - 1 /\ (n - 1) + 1 = n
      BY <1>2, <1>4, EmptySeq
    <3>2. starts[1 + 1] = Advance(starts[1], Total(queue[1]))
      BY <3>1 DEF IInv, ChainOK
    <3>3. w_pos = Advance(starts[n], Total(queue[n]))
      BY <1>2, EmptySeq DEF IInv, ChainOK
    <3>4. QED
      BY <1>2, <1>4, <3>1, <3>2, <3>3
  <2>3. ASSUME NEW i \in 1 .. n - 1
        PROVE  Used(starts'[i], r_pos') + Total(queue'[i]) <= Used(w_pos', r_pos')
    BY <1>2, <1>6, <1>7, <1>8
  <2>4. ASSUME NEW i \in 1 .. (n - 1) - 1
        PROVE  starts'[i + 1] = Advance(starts'[i], Total(queue'[i]))
    <3>1. i \in 1 .. n - 1 /\ i + 1 \in 1 .. n - 1
      BY <1>2
    <3>2. starts[(i + 1) + 1] = Advance(starts[i + 1], Total(queue[i + 1]))
      BY <3>1 DEF IInv, ChainOK
    <3>3. QED
      BY <1>8, <3>1, <3>2
  <2>5. ASSUME NEW i \in 1 .. n - 1, NEW j \in 1 .. n - 1, i < j
        PROVE  Used(starts'[i], r_pos') + Total(queue'[i]) <= Used(starts'[j], r_pos')
    <3>1. i + 1 \in 1 .. n /\ j + 1 \in 1 .. n /\ i + 1 < j + 1
      BY <1>2, <2>5
    <3>2. Used(starts[i + 1], r_pos) + Total(queue[i + 1]) <= Used(starts[j + 1], r_pos)
      BY <3>1 DEF IInv, ChainOK
    <3>3. QED
      BY <1>2, <1>8, <3>2
  <2>6. QED
    BY <1>4, <2>1, <2>2, <2>3, <2>4, <2>5 DEF ChainOK
<1>10. UnreadIntact'
  <2> SUFFICES ASSUME NEW i \in 1 .. n - 1, NEW k \in 1 .. Total(queue'[i])
               PROVE  base'[Cell(starts'[i], k)] = <<queue'[i], k>>
    BY <1>4 DEF UnreadIntact
  <2>1. base[Cell(starts[i + 1], k)] = <<queue[i + 1], k>>
    BY <1>8 DEF IInv, UnreadIntact
  <2>2. QED
    BY <1>8, <2>1
<1>11. QED
  BY <1>4, <1>5, <1>7, <1>9, <1>10

\* What a pull that is under way has in its hands.
LEMMA PulledBlock ==
  ASSUME IInv, pull.at # "idle"
  PROVE  /\ pull \in [at : {"head", "body", "publish"}, pos : Positions, got : Seq(Bytes)]
         /\ queue # <<>>
         /\ Head(queue) \in Blocks
         /\ HeadLen \in 0 .. Size /\ HeadLen >= 1
         /\ Head(queue).len \in 0 .. Size
         /\ Total(Head(queue)) = HeadLen + Head(queue).len
         /\ Total(Head(queue)) <= Size - 1
         /\ r_pos \in Positions
         /\ Advance(r_pos, HeadLen) \in Positions
         /\ Advance(r_pos, Total(Head(queue))) \in Positions
         /\ Advance(Advance(r_pos, HeadLen), Head(queue).len)
              = Advance(r_pos, Total(Head(queue)))
<1> DEFINE h == Head(queue)
<1>1. pull \in [at : {"head", "body", "publish"}, pos : Positions, got : Seq(Bytes)]
  BY DEF IInv, TypeOK, Idle
<1>2. queue # <<>>
  BY DEF IInv, PullOK
<1>3. /\ h \in Blocks /\ Total(h) \in 1 .. Size - 1 /\ r_pos \in Positions
      /\ Total(h) = HeadLen + h.len /\ HeadLen \in Nat /\ HeadLen >= 1 /\ h.len \in Nat
  BY <1>2, OldestBlock, TotalType
<1>4. HeadLen \in 0 .. Size /\ h.len \in 0 .. Size /\ Total(h) \in 0 .. Size
  BY <1>3, RingAssumption
<1>5. Advance(Advance(r_pos, HeadLen), h.len) = Advance(r_pos, HeadLen + h.len)
  BY <1>3, <1>4, AdvanceTwice, RingAssumption
<1>6. Advance(r_pos, HeadLen) \in Positions /\ Advance(r_pos, Total(h)) \in Positions
  BY <1>3, <1>4, PositionTypes
<1> HIDE DEF h
<1>7. Total(h) <= Size - 1
  BY <1>3, RingAssumption
<1>8. QED
  BY <1>1, <1>2, <1>3, <1>4, <1>5, <1>6, <1>7 DEF h

LEMMA PullBeginStep ==
  ASSUME IInv, PullBegin
  PROVE  IInv'
<1> USE DEF PullBegin, ring, pusher, history
<1>1. TypeOK'
  <2>1. <<>> \in Seq(Bytes) /\ r_pos \in Positions
    BY EmptySeq DEF IInv, TypeOK
  <2>2. QED
    BY <2>1 DEF IInv, TypeOK
<1>2. queue # <<>>
  <2>1. w_pos = r_pos => Used(w_pos, r_pos) = 0
    BY DEF IInv, TypeOK, Positions, Used
  <2>2. QED
    BY <2>1 DEF IInv, ChainOK
<1>3. PullOK'
  BY <1>2 DEF PullOK
<1>4. QED
  BY <1>1, <1>3, QueueFrame DEF IInv, RoomOK, PushOK

LEMMA PullHeadStep ==
  ASSUME IInv, PullHead
  PROVE  IInv'
<1> USE DEF PullHead, ring, pusher, history
<1>1. pull.at = "head" /\ pull.pos = r_pos /\ TypeOK
  BY DEF IInv, PullOK
<1>2. /\ queue # <<>> /\ HeadLen \in 0 .. Size /\ r_pos \in Positions
      /\ Advance(r_pos, HeadLen) \in Positions
  BY <1>1, PulledBlock
<1>3. /\ CopyOut(HeadLen, r_pos) \in Seq(Bytes)
      /\ CopyOut(HeadLen, r_pos) = [k \in 1 .. HeadLen |-> <<Head(queue), k>>]
  <2>1. CopyOut(HeadLen, r_pos) \in Seq(Bytes)
    BY <1>1, <1>2, CopyOutType
  <2>2. ASSUME NEW k \in 1 .. HeadLen
        PROVE  base[Cell(r_pos, k)] = <<Head(queue), k>>
    <3>1. k \in 1 .. Total(Head(queue))
      BY <1>1, PulledBlock, RingAssumption
    <3>2. QED
      BY <1>2, <3>1, OldestBlock
  <2>3. QED
    BY <2>1, <2>2 DEF CopyOut
<1>4. pull' = [at |-> "body", pos |-> Advance(r_pos, HeadLen),
               got |-> [k \in 1 .. HeadLen |-> <<Head(queue), k>>]]
  BY <1>1, <1>3
<1>5. TypeOK'
  BY <1>1, <1>2, <1>3, <1>4 DEF TypeOK
<1>6. PullOK'
  BY <1>2, <1>4 DEF PullOK
<1>7. QED
  BY <1>5, <1>6, QueueFrame DEF IInv, RoomOK, PushOK

\* The length the puller reads in the head it copied is the length of the
\* oldest block.
LEMMA PulledLength ==
  ASSUME IInv, pull.at = "body"
  PROVE  PulledLen = Head(queue).len
<1>1. pull.got = [k \in 1 .. HeadLen |-> <<Head(queue), k>>]
  BY DEF IInv, PullOK
<1>2. 1 \in 1 .. HeadLen
  BY RingAssumption
<1>3. QED
  BY <1>1, <1>2 DEF PulledLen

LEMMA PullBodyStep ==
  ASSUME IInv, PullBody
  PROVE  IInv'
<1> DEFINE h == Head(queue)
           n == h.len
<1>1. /\ pull.at = "body" /\ pull.pos = Advance(r_pos, HeadLen) /\ TypeOK
      /\ pull.got = [k \in 1 .. HeadLen |-> <<h, k>>]
  BY DEF IInv, PullOK, PullBody
<1>2. PulledLen = n
  BY <1>1, PulledLength
<1>3. /\ queue # <<>> /\ h \in Blocks /\ r_pos \in Positions
      /\ HeadLen \in 0 .. Size /\ n \in 0 .. Size /\ HeadLen \in Nat /\ n \in Nat
      /\ Total(h) = HeadLen + n /\ Total(h) <= Size - 1
      /\ pull.pos \in Positions
      /\ pull.got \in Seq(Bytes)
      /\ Advance(pull.pos, n) = Advance(r_pos, Total(h))
      /\ Advance(r_pos, Total(h)) \in Positions
  <2>1. pull.at # "idle"
    BY <1>1
  <2>2. pull \in [at : {"head", "body", "publish"}, pos : Positions, got : Seq(Bytes)]
    BY <2>1, PulledBlock
  <2>3. pull.got \in Seq(Bytes) /\ pull.pos \in Positions
    BY <2>2
  <2>4. HeadLen \in 0 .. Size /\ h.len \in 0 .. Size
    BY <2>1, PulledBlock
  <2>5. HeadLen \in Nat /\ h.len \in Nat
    BY <2>4, RingAssumption
  <2>6. QED
    BY <1>1, <2>1, <2>3, <2>4, <2>5, PulledBlock
<1> DEFINE tail == CopyOut(n, pull.pos)
<1>4. /\ tail \in Seq(Bytes) /\ Len(tail) = n
      /\ \A k \in 1 .. n : tail[k] = base[Cell(pull.pos, k)]
  BY <1>1, <1>3, CopyOutType
<1> HIDE DEF tail
<1>5. Len(pull.got) = HeadLen
  <2>1. DOMAIN pull.got = 1 .. HeadLen
    BY <1>1
  <2>2. DOMAIN pull.got = 1 .. Len(pull.got) /\ Len(pull.got) \in Nat
    BY <1>3, LenProperties
  <2>3. QED
    BY <1>3, <2>1, <2>2
<1>6. pull.got \o tail = Encode(h)
  <2>1. /\ pull.got \o tail \in Seq(Bytes)
        /\ Len(pull.got \o tail) = HeadLen + n
        /\ \A i \in 1 .. HeadLen + n :
             (pull.got \o tail)[i] = IF i <= HeadLen THEN pull.got[i] ELSE tail[i - HeadLen]
    <3>1. pull.got \in Seq(Bytes) /\ tail \in Seq(Bytes)
      BY <1>3, <1>4
    <3>2. /\ pull.got \o tail \in Seq(Bytes)
          /\ Len(pull.got \o tail) = Len(pull.got) + Len(tail)
          /\ \A i \in 1 .. Len(pull.got) + Len(tail) :
               (pull.got \o tail)[i]
                 = IF i <= Len(pull.got) THEN pull.got[i] ELSE tail[i - Len(pull.got)]
      BY <3>1, ConcatProperties
    <3>3. QED
      BY <1>4, <1>5, <3>2
  <2>2. /\ Encode(h) \in Seq(Bytes) /\ Len(Encode(h)) = HeadLen + n
        /\ \A k \in 1 .. HeadLen + n : Encode(h)[k] = <<h, k>>
    BY <1>3, EncodeType
  <2>3. ASSUME NEW i \in 1 .. HeadLen + n
        PROVE  (pull.got \o tail)[i] = <<h, i>>
    <3>1. HeadLen \in Nat /\ n \in Nat
      BY <1>3
    <3> HIDE DEF n
    <3>2. i \in Nat
      BY <3>1
    <3>3. CASE i <= HeadLen
      <4>1. i \in 1 .. HeadLen /\ pull.got[i] = <<h, i>>
        BY <1>1, <1>3, <3>3
      <4>2. (pull.got \o tail)[i] = pull.got[i]
        BY <2>1, <3>1, <3>2, <3>3
      <4>3. QED
        BY <4>1, <4>2
    <3>4. CASE i > HeadLen
      <4>1. /\ i - HeadLen \in 1 .. n /\ i - HeadLen \in 1 .. Size
            /\ HeadLen + (i - HeadLen) = i /\ i <= Size /\ i \in 1 .. Total(h)
        BY <1>3, <3>4, RingAssumption DEF n
      <4>2. Cell(pull.pos, i - HeadLen) = Cell(r_pos, i)
        BY <1>1, <1>3, <4>1, CellAfterAdvance
      <4>3. base[Cell(r_pos, i)] = <<h, i>>
        BY <1>3, <4>1, OldestBlock
      <4>4. tail[i - HeadLen] = base[Cell(pull.pos, i - HeadLen)]
        BY <1>4, <4>1
      <4>5. (pull.got \o tail)[i] = tail[i - HeadLen]
        BY <2>1, <3>1, <3>2, <3>4
      <4>6. QED
        BY <4>2, <4>3, <4>4, <4>5
    <3>5. i <= HeadLen \/ i > HeadLen
      BY <3>1, <3>2
    <3>6. QED
      BY <3>3, <3>4, <3>5, Zenon
  <2>4. QED
    BY <2>1, <2>2, <2>3, SeqEqual
<1>7. pull' = [at |-> "publish", pos |-> Advance(r_pos, Total(h)), got |-> Encode(h)]
  BY <1>2, <1>3, <1>6 DEF PullBody, tail
<1>8. TypeOK'
  <2>1. Encode(h) \in Seq(Bytes)
    BY <1>3, EncodeType
  <2>2. pull_len' \in Nat
    BY <1>1, <1>2, <1>3 DEF TypeOK, PullBody
  <2>3. pull' \in [at : {"head", "body", "publish"}, pos : Positions, got : Seq(Bytes)]
    BY <1>3, <1>7, <2>1
  <2>4. QED
    BY <1>1, <2>2, <2>3 DEF TypeOK, PullBody, ring, pusher, history
<1>9. PullOK'
  <2>1. /\ pull'.at = "publish" /\ pull'.got = Encode(h)
        /\ pull'.pos = Advance(r_pos, Total(h))
    BY <1>7
  <2>2. UNCHANGED <<queue, r_pos>>
    BY DEF PullBody, ring, history
  <2>3. QED
    BY <1>3, <2>1, <2>2 DEF PullOK
<1>10. QED
  BY <1>8, <1>9, QueueFrame DEF IInv, RoomOK, PushOK, PullBody, ring, pusher, history

\* The end of a pull, whether it delivers the block or skips it.
LEMMA PullEnds ==
  ASSUME IInv, queue # <<>>, ForgetHead,
         r_pos' = Advance(r_pos, Total(Head(queue))),
         pull' = Idle, pull_len' = pull_len,
         pull_ret' \in {-1, 0, 1}, out' \in Seq(Bytes),
         UNCHANGED <<base, w_pos, pusher>>
  PROVE  IInv'
<1> USE DEF pusher
<1>1. /\ r_pos' \in Positions
      /\ queue' \in Seq(Blocks) /\ starts' \in Seq(Positions)
      /\ Used(w_pos', r_pos') = Used(w_pos, r_pos) - Total(Head(queue))
      /\ ChainOK' /\ UnreadIntact'
  BY OldestGone
<1>2. TypeOK'
  BY <1>1 DEF IInv, TypeOK
<1>3. RoomOK'
  <2>1. Total(Head(queue)) \in 1 .. Size - 1
    BY OldestBlock
  <2>2. Used(w_pos, r_pos) \in 0 .. Size
    BY PositionTypes DEF IInv, TypeOK
  <2>3. push.at # "idle" => Total(push.sb) \in Nat
    BY PushedBlock DEF IInv
  <2>4. QED
    BY <1>1, <2>1, <2>2, <2>3, RingAssumption DEF IInv, RoomOK
<1>4. PushOK'
  BY DEF IInv, PushOK
<1>5. PullOK'
  BY DEF PullOK, Idle
<1>6. QED
  BY <1>1, <1>2, <1>3, <1>4, <1>5 DEF IInv

LEMMA PullNoMemoryStep ==
  ASSUME IInv, PullNoMemory
  PROVE  IInv'
<1> USE DEF PullNoMemory
<1>1. queue # <<>> /\ r_pos' = Advance(r_pos, Total(Head(queue)))
  BY PulledBlock, PulledLength DEF IInv, PullOK
<1>2. out' \in Seq(Bytes)
  BY DEF IInv, TypeOK
<1>3. QED
  BY <1>1, <1>2, PullEnds

LEMMA PullPublishStep ==
  ASSUME IInv, PullPublish
  PROVE  IInv'
<1> USE DEF PullPublish
<1>1. queue # <<>> /\ r_pos' = Advance(r_pos, Total(Head(queue)))
  BY PulledBlock DEF IInv, PullOK
<1>2. out' \in Seq(Bytes)
  BY PulledBlock
<1>3. QED
  BY <1>1, <1>2, PullEnds

(***************************************************************************)
(* The invariant of shmq_push and shmq_pull, for every ring: the unread    *)
(* blocks lie one behind the other, none of their bytes is ever written    *)
(* over, and what a pull has copied is the oldest of them - whatever the   *)
(* sizes, however the calls of the two processes interleave, and wherever  *)
(* one of them is killed.                                                  *)
(***************************************************************************)
THEOREM RingInvariant == Spec => []IInv
<1>1. Init => IInv
  BY InitIInv
<1>2. IInv /\ [Next]_vars => IInv'
  <2> SUFFICES ASSUME IInv, [Next]_vars PROVE IInv'
    OBVIOUS
  <2>1. ASSUME NEW b \in Blocks, PushBegin(b) PROVE IInv'
    BY <2>1, PushBeginStep
  <2>2. ASSUME NEW b \in Blocks, PushFull(b) PROVE IInv'
    BY <2>2, QueueFrame
       DEF PushFull, ring, puller, history, IInv, TypeOK, RoomOK, PushOK, PullOK
  <2>3. CASE PushHead
    BY <2>3, PushHeadStep
  <2>4. CASE PushBody
    BY <2>4, PushBodyStep
  <2>5. CASE PushPublish
    BY <2>5, PushPublishStep
  <2>6. CASE PullBegin
    BY <2>6, PullBeginStep
  <2>7. CASE PullEmpty
    BY <2>7, QueueFrame
       DEF PullEmpty, ring, pusher, history, IInv, TypeOK, RoomOK, PushOK, PullOK
  <2>8. CASE PullHead
    BY <2>8, PullHeadStep
  <2>9. CASE PullBody
    BY <2>9, PullBodyStep
  <2>10. CASE PullNoMemory
    BY <2>10, PullNoMemoryStep
  <2>11. CASE PullPublish
    BY <2>11, PullPublishStep
  <2>12. CASE PusherRestart
    BY <2>12, QueueFrame
       DEF PusherRestart, Idle, ring, puller, history, IInv, TypeOK, RoomOK, PushOK, PullOK
  <2>13. CASE PullerRestart
    BY <2>13, QueueFrame, RingAssumption
       DEF PullerRestart, Idle, ring, pusher, history, IInv, TypeOK, RoomOK, PushOK, PullOK
  <2>14. CASE UNCHANGED vars
    BY <2>14, QueueFrame
       DEF vars, ring, pusher, puller, history, IInv, TypeOK, RoomOK, PushOK, PullOK
  <2>15. QED
    BY <2>1, <2>2, <2>3, <2>4, <2>5, <2>6, <2>7, <2>8, <2>9, <2>10, <2>11, <2>12,
       <2>13, <2>14 DEF Next
<1>3. QED
  BY <1>1, <1>2, PTL DEF Spec

\* Every variable of the ring keeps to its range.
THEOREM RingTypes == Spec => []TypeOK
BY RingInvariant, PTL DEF IInv

-----------------------------------------------------------------------------
(***************************************************************************)
(* The refinement of BlockFifo.                                            *)
(***************************************************************************)

\* The bytes of a whole block decode to that block.
LEMMA DecodeEncode ==
  ASSUME NEW b \in Blocks
  PROVE  Decode(Encode(b)) = b
<1>1. /\ Encode(b) \in Seq(Bytes) /\ Len(Encode(b)) >= 1
      /\ Encode(b)[1] = <<b, 1>>
  BY EncodeType, TotalType
<1>2. Encode(b) # <<>>
  BY <1>1, EmptySeq
<1>3. Encode(b)[1][1] = b
  BY <1>1
<1>4. QED
  BY <1>2, <1>3 DEF Decode

LEMMA FifoStutter ==
  ASSUME UNCHANGED <<w_pos, r_pos, push_ret, pull_ret, out, queue>>
  PROVE  UNCHANGED Fifo!vars
BY DEF Fifo!vars, Used, Decode

LEMMA FifoPush ==
  ASSUME IInv, PushPublish
  PROVE  Fifo!Push(push.sb) /\ push.sb \in Fifo!Blocks
<1>1. /\ push.at = "publish" /\ push.pos = Advance(w_pos, Total(push.sb))
      /\ TypeOK /\ RoomOK
  BY DEF IInv, PushPublish, PushOK
<1>2. /\ push.sb \in Blocks /\ w_pos \in Positions /\ r_pos \in Positions
      /\ Total(push.sb) \in Nat
      /\ Used(w_pos, r_pos) \in Nat
      /\ Used(w_pos, r_pos) + Total(push.sb) <= Size - 1
  BY <1>1, PushedBlock DEF TypeOK
<1>3. Used(w_pos', r_pos') = Used(w_pos, r_pos) + Total(push.sb)
  BY <1>1, <1>2, UsedAdvance DEF PushPublish
<1>4. Fifo!Total(push.sb) = Total(push.sb) /\ push.sb \in Fifo!Blocks
  BY <1>2 DEF Fifo!Total, Total, Fifo!Blocks, Blocks
<1>5. UNCHANGED <<pull_ret, Decode(out)>>
  BY DEF PushPublish, puller, Decode
<1>6. QED
  BY <1>2, <1>3, <1>4, <1>5 DEF Fifo!Push, PushPublish

LEMMA FifoRefuse ==
  ASSUME IInv, NEW b \in Blocks, PushFull(b)
  PROVE  Fifo!Refuse(b) /\ b \in Fifo!Blocks
<1>1. /\ Free(w_pos, r_pos) = Size - Used(w_pos, r_pos)
      /\ Used(w_pos, r_pos) \in 0 .. Size
  BY PositionTypes DEF IInv, TypeOK
<1>2. Used(w_pos, r_pos) + Total(b) > Size - 1
  BY <1>1, TotalType, RingAssumption DEF PushFull
<1>3. Fifo!Total(b) = Total(b) /\ b \in Fifo!Blocks
  BY DEF Fifo!Total, Total, Fifo!Blocks, Blocks
<1>4. UNCHANGED <<queue, Used(w_pos, r_pos), pull_ret, Decode(out)>>
  BY DEF PushFull, ring, puller, history, Used, Decode
<1>5. QED
  BY <1>2, <1>3, <1>4 DEF Fifo!Refuse, PushFull

LEMMA FifoRemoveHead ==
  ASSUME IInv, queue # <<>>, ForgetHead,
         r_pos' = Advance(r_pos, Total(Head(queue))),
         UNCHANGED <<base, w_pos>>
  PROVE  Fifo!RemoveHead
<1>1. Used(w_pos', r_pos') = Used(w_pos, r_pos) - Total(Head(queue))
  BY OldestGone
<1>2. Fifo!Total(Head(queue)) = Total(Head(queue))
  BY DEF Fifo!Total, Total
<1>3. QED
  BY <1>1, <1>2 DEF Fifo!RemoveHead, ForgetHead

LEMMA FifoPull ==
  ASSUME IInv, PullPublish
  PROVE  Fifo!Pull
<1>1. /\ queue # <<>> /\ Head(queue) \in Blocks
      /\ r_pos' = Advance(r_pos, Total(Head(queue)))
      /\ out' = Encode(Head(queue))
  BY PulledBlock DEF IInv, PullOK, PullPublish
<1>2. Fifo!RemoveHead
  BY <1>1, FifoRemoveHead DEF PullPublish
<1>3. Decode(out') = Head(queue)
  BY <1>1, DecodeEncode
<1>4. pull_ret' = 0 /\ push_ret' = push_ret
  BY DEF PullPublish, pusher
<1>5. QED
  BY <1>2, <1>3, <1>4 DEF Fifo!Pull, Decode

LEMMA FifoSkip ==
  ASSUME IInv, PullNoMemory
  PROVE  Fifo!Skip
<1>1. queue # <<>> /\ r_pos' = Advance(r_pos, Total(Head(queue)))
  BY PulledBlock, PulledLength DEF IInv, PullOK, PullNoMemory
<1>2. Fifo!RemoveHead
  BY <1>1, FifoRemoveHead DEF PullNoMemory
<1>3. pull_ret' = -1 /\ UNCHANGED <<push_ret, Decode(out)>>
  BY DEF PullNoMemory, pusher, Decode
<1>4. QED
  BY <1>2, <1>3 DEF Fifo!Skip

LEMMA FifoFindEmpty ==
  ASSUME IInv, PullEmpty
  PROVE  Fifo!FindEmpty
<1>1. queue = <<>>
  <2> SUFFICES ASSUME queue # <<>> PROVE FALSE
    OBVIOUS
  <2>1. Total(Head(queue)) \in 1 .. Size - 1 /\ Total(Head(queue)) <= Used(w_pos, r_pos)
    BY OldestBlock
  <2>2. Used(w_pos, r_pos) = 0
    BY DEF PullEmpty
  <2>3. QED
    BY <2>1, <2>2
<1>2. UNCHANGED <<queue, Used(w_pos, r_pos), push_ret, Decode(out)>>
  BY DEF PullEmpty, ring, pusher, history, Used, Decode
<1>3. QED
  BY <1>1, <1>2 DEF Fifo!FindEmpty, PullEmpty

(***************************************************************************)
(* shmq_push and shmq_pull implement a bounded FIFO of whole blocks, for   *)
(* every size of the ring and of the blocks: what a pull hands to the      *)
(* worker is, byte for byte, the oldest block pushed, each block once; a   *)
(* push is refused exactly when the block does not fit; a process killed   *)
(* inside a call is not noticed by the other one.                          *)
(***************************************************************************)
THEOREM RingImplementsFifo == Spec => ImplementsFifo
<1>1. Init => Fifo!Init
  BY RingAssumption DEF Init, Fifo!Init, Used, Decode
<1>2. IInv /\ [Next]_vars => [Fifo!Next]_(Fifo!vars)
  <2> SUFFICES ASSUME IInv, [Next]_vars PROVE [Fifo!Next]_(Fifo!vars)
    OBVIOUS
  <2>1. ASSUME NEW b \in Blocks, PushBegin(b) PROVE UNCHANGED Fifo!vars
    BY <2>1, FifoStutter DEF PushBegin, ring, puller, history
  <2>2. ASSUME NEW b \in Blocks, PushFull(b) PROVE Fifo!Next
    BY <2>2, FifoRefuse DEF Fifo!Next
  <2>3. CASE PushHead
    BY <2>3, FifoStutter DEF PushHead, puller, history
  <2>4. CASE PushBody
    BY <2>4, FifoStutter DEF PushBody, puller, history
  <2>5. CASE PushPublish
    BY <2>5, FifoPush DEF Fifo!Next
  <2>6. CASE PullBegin
    BY <2>6, FifoStutter DEF PullBegin, ring, pusher, history
  <2>7. CASE PullEmpty
    BY <2>7, FifoFindEmpty DEF Fifo!Next
  <2>8. CASE PullHead
    BY <2>8, FifoStutter DEF PullHead, ring, pusher, history
  <2>9. CASE PullBody
    BY <2>9, FifoStutter DEF PullBody, ring, pusher, history
  <2>10. CASE PullNoMemory
    BY <2>10, FifoSkip DEF Fifo!Next
  <2>11. CASE PullPublish
    BY <2>11, FifoPull DEF Fifo!Next
  <2>12. CASE PusherRestart
    BY <2>12, FifoStutter DEF PusherRestart, ring, puller, history
  <2>13. CASE PullerRestart
    BY <2>13, FifoStutter DEF PullerRestart, ring, pusher, history
  <2>14. CASE UNCHANGED vars
    BY <2>14, FifoStutter DEF vars, ring, pusher, puller, history
  <2>15. QED
    BY <2>1, <2>2, <2>3, <2>4, <2>5, <2>6, <2>7, <2>8, <2>9, <2>10, <2>11, <2>12,
       <2>13, <2>14 DEF Next
<1>3. QED
  BY <1>1, <1>2, RingInvariant, PTL DEF Spec, ImplementsFifo, Fifo!Spec

=============================================================================
