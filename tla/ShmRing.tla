------------------------------ MODULE ShmRing ------------------------------
(***************************************************************************)
(* One shared-memory queue of async-server (shmq.cpp), at the level of the *)
(* positions and the bytes of its ring.  One process pushes (shmq_push),   *)
(* another one pulls (shmq_pull), and the only words they share are w_pos, *)
(* r_pos and the bytes.  Each call is cut where the other process can see  *)
(* a difference: the read of the positions, the copy of the block head,    *)
(* the copy of the payload, and the store that publishes the new position. *)
(* A process may be killed between any two of these steps; MAIN forks a    *)
(* new one that goes on with the positions and the bytes it finds.         *)
(***************************************************************************)
EXTENDS Integers, Sequences

CONSTANTS Size,     \* shm_queue_t.size: bytes of the ring
          HeadLen,  \* sizeof(struct shm_block_t), 16 in the code
          Ids,      \* what tells two blocks apart (fd, id, type and payload)
          Lens,     \* shm_block_t.len of the blocks pushed
          PullLen,  \* bytes malloc'ed for pull_buf by shmq_init, 8192
          NoId      \* the id read from a byte of the ring never written

ASSUME RingAssumption ==
  /\ Size \in Nat \ {0}
  /\ HeadLen \in Nat \ {0}
  /\ Lens \subseteq Nat
  /\ PullLen \in Nat
  /\ NoId \notin Ids

Blocks == [id : Ids, len : Lens]
Total(b) == b.len + HeadLen

\* mmap returns zeroed pages: a head read from them has length 0.
ZeroBlock == [id |-> NoId, len |-> 0]
\* The k-th byte of a block tells the block and k; the head is its first
\* HeadLen bytes and the payload follows.
Bytes == (Blocks \X Nat) \cup {<<ZeroBlock, 0>>}
Encode(b) == [k \in 1 .. Total(b) |-> <<b, k>>]

VARIABLES
  base,      \* the bytes of the ring
  w_pos,     \* shm_head_t.w_pos
  r_pos,     \* shm_head_t.r_pos
  push,      \* the pushing process: where it is, the block, its local pos
  push_ret,  \* what its last finished shmq_push returned
  pull,      \* the pulling process: where it is, its local pos, bytes copied
  pull_len,  \* shm_queue_t.pull_len of the pulling process
  pull_ret,  \* what its last finished shmq_pull returned
  out,       \* the bytes handed to the caller by the last successful pull
  queue,     \* history: the blocks published and not yet pulled ...
  starts     \* ... and the position at which each of them was written

ring == <<base, w_pos, r_pos>>
pusher == <<push, push_ret>>
puller == <<pull, pull_len, pull_ret, out>>
history == <<queue, starts>>
vars == <<ring, pusher, puller, history>>

-----------------------------------------------------------------------------
(***************************************************************************)
(* Arithmetic of the positions, as shmq.cpp computes it.  A position may   *)
(* be Size, which is the same cell as 0.                                   *)
(***************************************************************************)

\* Bytes a pull finds.
Used(w, r) == IF w >= r THEN w - r ELSE Size - r + w

\* Bytes a push finds free.
Free(w, r) == IF w >= r THEN Size - w + r ELSE r - w

\* The position n bytes after pos.
Advance(pos, n) == IF pos + n <= Size THEN pos + n ELSE n - (Size - pos)

\* The cell of the k-th byte copied to or from pos, and the k of a cell.
Cell(pos, k) == IF pos + k <= Size THEN pos + k - 1 ELSE pos + k - 1 - Size
Offset(pos, c) == IF c >= pos THEN c - pos + 1 ELSE c - pos + 1 + Size

\* memcpy of the n bytes of block b behind its first lo to the cells from pos.
CopyIn(b, lo, n, pos) ==
  [c \in 0 .. Size - 1 |->
     IF Offset(pos, c) <= n THEN <<b, lo + Offset(pos, c)>> ELSE base[c]]

\* memcpy of the n cells from pos.
CopyOut(n, pos) == [k \in 1 .. n |-> base[Cell(pos, k)]]

-----------------------------------------------------------------------------
Idle == [at |-> "idle"]

Init ==
  /\ base = [c \in 0 .. Size - 1 |-> <<ZeroBlock, 0>>]
  /\ w_pos = 0
  /\ r_pos = 0
  /\ push = Idle
  /\ push_ret = 0
  /\ pull = Idle
  /\ pull_len = PullLen
  /\ pull_ret = 1
  /\ out = <<>>
  /\ queue = <<>>
  /\ starts = <<>>

(* shmq_push reads both positions once; w_pos is its own. *)
PushBeginLastByte(b) ==  \* mutant: the byte kept free is given away
  /\ push.at = "idle"
  /\ Free(w_pos, r_pos) >= Total(b)
  /\ push' = [at |-> "head", sb |-> b, pos |-> w_pos]
  /\ UNCHANGED <<ring, push_ret, puller, history>>

PushBegin(b) ==
  /\ push.at = "idle"
  /\ Free(w_pos, r_pos) >= Total(b) + 1
  /\ push' = [at |-> "head", sb |-> b, pos |-> w_pos]
  /\ UNCHANGED <<ring, push_ret, puller, history>>

PushFull(b) ==
  /\ push.at = "idle"
  /\ Free(w_pos, r_pos) < Total(b) + 1
  /\ push_ret' = 1
  /\ UNCHANGED <<ring, push, puller, history>>

PushHead ==
  /\ push.at = "head"
  /\ base' = CopyIn(push.sb, 0, HeadLen, push.pos)
  /\ push' = [push EXCEPT !.at = "body", !.pos = Advance(push.pos, HeadLen)]
  /\ UNCHANGED <<w_pos, r_pos, push_ret, puller, history>>

PushBody ==
  /\ push.at = "body"
  /\ base' = CopyIn(push.sb, HeadLen, push.sb.len, push.pos)
  /\ push' = [push EXCEPT !.at = "publish", !.pos = Advance(push.pos, push.sb.len)]
  /\ UNCHANGED <<w_pos, r_pos, push_ret, puller, history>>

PushPublish ==
  /\ push.at = "publish"
  /\ w_pos' = push.pos
  /\ push' = Idle
  /\ push_ret' = 0
  /\ queue' = Append(queue, push.sb)
  /\ starts' = Append(starts, w_pos)
  /\ UNCHANGED <<base, r_pos, puller>>

(* shmq_pull reads both positions once; r_pos is its own. *)
PullBegin ==
  /\ pull.at = "idle"
  /\ Used(w_pos, r_pos) # 0
  /\ pull' = [at |-> "head", pos |-> r_pos, got |-> <<>>]
  /\ UNCHANGED <<ring, pusher, pull_len, pull_ret, out, history>>

PullEmpty ==
  /\ pull.at = "idle"
  /\ Used(w_pos, r_pos) = 0
  /\ pull_ret' = 1
  /\ UNCHANGED <<ring, pusher, pull, pull_len, out, history>>

PullHead ==
  /\ pull.at = "head"
  /\ pull' = [at |-> "body", pos |-> Advance(pull.pos, HeadLen),
              got |-> CopyOut(HeadLen, pull.pos)]
  /\ UNCHANGED <<ring, pusher, pull_len, pull_ret, out, history>>

\* The head copied says how long the payload is.
PulledLen == pull.got[1][1].len

PullBody ==
  /\ pull.at = "body"
  /\ pull_len' = IF PulledLen > pull_len THEN PulledLen ELSE pull_len
  /\ pull' = [at |-> "publish", pos |-> Advance(pull.pos, PulledLen),
              got |-> pull.got \o CopyOut(PulledLen, pull.pos)]
  /\ UNCHANGED <<ring, pusher, pull_ret, out, history>>

ForgetHead ==
  /\ queue' = Tail(queue)
  /\ starts' = Tail(starts)

\* realloc of pull_buf failed: the block is skipped.
PullNoMemoryHeadOnly ==  \* mutant: only the head is skipped
  /\ pull.at = "body"
  /\ PulledLen > pull_len
  /\ r_pos' = pull.pos
  /\ pull' = Idle
  /\ pull_ret' = -1
  /\ ForgetHead
  /\ UNCHANGED <<base, w_pos, pusher, pull_len, out>>

PullNoMemory ==
  /\ pull.at = "body"
  /\ PulledLen > pull_len
  /\ r_pos' = Advance(pull.pos, PulledLen)
  /\ pull' = Idle
  /\ pull_ret' = -1
  /\ ForgetHead
  /\ UNCHANGED <<base, w_pos, pusher, pull_len, out>>

PullPublish ==
  /\ pull.at = "publish"
  /\ r_pos' = pull.pos
  /\ pull' = Idle
  /\ pull_ret' = 0
  /\ out' = pull.got
  /\ ForgetHead
  /\ UNCHANGED <<base, w_pos, pusher, pull_len>>

(* A process killed inside a call, and its successor forked from MAIN. *)
PusherRestart ==
  /\ push.at # "idle"
  /\ push' = Idle
  /\ UNCHANGED <<ring, push_ret, puller, history>>

PullerRestart ==
  /\ pull.at # "idle"
  /\ pull' = Idle
  /\ pull_len' = PullLen
  /\ UNCHANGED <<ring, pusher, pull_ret, out, history>>

Next ==
  \/ \E b \in Blocks : PushBegin(b) \/ PushFull(b)
  \/ PushHead
  \/ PushBody
  \/ PushPublish
  \/ PullBegin
  \/ PullEmpty
  \/ PullHead
  \/ PullBody
  \/ PullNoMemory
  \/ PullPublish
  \/ PusherRestart
  \/ PullerRestart

Spec == Init /\ [][Next]_vars
-----------------------------------------------------------------------------
(***************************************************************************)
(* Properties.                                                             *)
(***************************************************************************)
Positions == 0 .. Size

\* Every variable keeps to its range; the copying steps leave the local
\* position of a process inside the ring.
TypeOK ==
  /\ base \in [0 .. Size - 1 -> Bytes]
  /\ w_pos \in Positions
  /\ r_pos \in Positions
  /\ push \in {Idle} \cup [at : {"head", "body", "publish"}, sb : Blocks, pos : Positions]
  /\ push_ret \in {0, 1}
  /\ pull \in {Idle} \cup [at : {"head", "body", "publish"}, pos : Positions, got : Seq(Bytes)]
  /\ pull_len \in Nat
  /\ pull_ret \in {-1, 0, 1}
  /\ out \in Seq(Bytes)
  /\ queue \in Seq(Blocks)
  /\ starts \in Seq(Positions)

(***************************************************************************)
(* The invariant that is inductive, in the parts it is made of.            *)
(***************************************************************************)

\* The ring is never full to the last byte, so that w_pos = r_pos can only
\* mean empty; a push in progress has its room reserved.
RoomOK ==
  /\ Used(w_pos, r_pos) <= Size - 1
  /\ push.at # "idle" => Used(w_pos, r_pos) + Total(push.sb) <= Size - 1

\* The unread blocks lie one behind the other from r_pos to w_pos.
ChainOK ==
  /\ Len(starts) = Len(queue)
  /\ queue = <<>> => w_pos = r_pos
  /\ queue # <<>> =>
       /\ starts[1] = r_pos
       /\ w_pos = Advance(starts[Len(queue)], Total(queue[Len(queue)]))
  /\ \A i \in 1 .. Len(queue) :
       Used(starts[i], r_pos) + Total(queue[i]) <= Used(w_pos, r_pos)
  /\ \A i \in 1 .. Len(queue) - 1 :
       starts[i + 1] = Advance(starts[i], Total(queue[i]))
  /\ \A i, j \in 1 .. Len(queue) :
       i < j => Used(starts[i], r_pos) + Total(queue[i]) <= Used(starts[j], r_pos)

\* The bytes of every block that is published and not yet pulled are intact:
\* no push, not even one that wraps around the end of the ring or that is
\* killed half way, has written over them.
UnreadIntact ==
  \A i \in 1 .. Len(queue) : \A k \in 1 .. Total(queue[i]) :
    base[Cell(starts[i], k)] = <<queue[i], k>>

\* How far the push in progress has come.
PushOK ==
  /\ push.at = "head" => push.pos = w_pos
  /\ push.at = "body" =>
       /\ push.pos = Advance(w_pos, HeadLen)
       /\ \A k \in 1 .. HeadLen : base[Cell(w_pos, k)] = <<push.sb, k>>
  /\ push.at = "publish" =>
       /\ push.pos = Advance(w_pos, Total(push.sb))
       /\ \A k \in 1 .. Total(push.sb) : base[Cell(w_pos, k)] = <<push.sb, k>>

\* How far the pull in progress has come.
PullOK ==
  /\ pull.at # "idle" => queue # <<>>
  /\ pull.at = "head" => pull.pos = r_pos /\ pull.got = <<>>
  /\ pull.at = "body" =>
       /\ pull.pos = Advance(r_pos, HeadLen)
       /\ pull.got = [k \in 1 .. HeadLen |-> <<Head(queue), k>>]
  /\ pull.at = "publish" =>
       /\ pull.pos = Advance(r_pos, Total(Head(queue)))
       /\ pull.got = Encode(Head(queue))

IInv == TypeOK /\ RoomOK /\ ChainOK /\ UnreadIntact /\ PushOK /\ PullOK

(***************************************************************************)
(* The ring implements the bounded FIFO of whole blocks: shmq_pull hands   *)
(* out, byte for byte, the oldest block shmq_push published, each block    *)
(* once and in order; shmq_push answers "full" only when the block does    *)
(* not fit into Size - 1 bytes; and a process killed inside a call changes *)
(* nothing for the other one.                                              *)
(***************************************************************************)
NoBlock == [id |-> NoId, len |-> -1]
Torn == [id |-> NoId, len |-> -2]
Decode(got) ==
  IF got = <<>> THEN NoBlock
  ELSE IF got = Encode(got[1][1]) THEN got[1][1] ELSE Torn

Fifo == INSTANCE BlockFifo WITH Capacity <- Size - 1,
                                bytes <- Used(w_pos, r_pos),
                                out <- Decode(out)
ImplementsFifo == Fifo!Spec
=============================================================================
