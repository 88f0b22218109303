----------------------------- MODULE BlockFifo -----------------------------
(***************************************************************************)
(* What one shared-memory queue (shmq_push / shmq_pull) promises to the    *)
(* process that pushes and to the process that pulls: a bounded FIFO of    *)
(* whole blocks.  A push is refused exactly when the block does not fit    *)
(* into the bytes that are left, a pull finds nothing exactly when the     *)
(* queue is empty, and what a pull delivers is the oldest block.           *)
(***************************************************************************)
EXTENDS Integers, Sequences

CONSTANTS Ids,      \* what tells two blocks apart (fd, id, type and payload)
          Lens,     \* payload lengths
          HeadLen,  \* sizeof(struct shm_block_t)
          Capacity, \* bytes the queue holds when it is full
          NoBlock   \* nothing delivered yet

Blocks == [id : Ids, len : Lens]
Total(b) == b.len + HeadLen

VARIABLES queue,    \* the blocks pushed and not yet pulled, oldest first
          bytes,    \* their size
          push_ret, \* what the last finished push returned
          pull_ret, \* what the last finished pull returned
          out       \* the block the last successful pull delivered

vars == <<queue, bytes, push_ret, pull_ret, out>>

Init ==
  /\ queue = <<>>
  /\ bytes = 0
  /\ push_ret = 0
  /\ pull_ret = 1
  /\ out = NoBlock

Push(b) ==
  /\ bytes + Total(b) <= Capacity
  /\ queue' = Append(queue, b)
  /\ bytes' = bytes + Total(b)
  /\ push_ret' = 0
  /\ UNCHANGED <<pull_ret, out>>

\* "recv queue is full"
Refuse(b) ==
  /\ bytes + Total(b) > Capacity
  /\ push_ret' = 1
  /\ UNCHANGED <<queue, bytes, pull_ret, out>>

RemoveHead ==
  /\ queue # <<>>
  /\ queue' = Tail(queue)
  /\ bytes' = bytes - Total(Head(queue))

Pull ==
  /\ RemoveHead
  /\ out' = Head(queue)
  /\ pull_ret' = 0
  /\ UNCHANGED push_ret

\* The puller has no memory for the payload: the block is skipped.
Skip ==
  /\ RemoveHead
  /\ pull_ret' = -1
  /\ UNCHANGED <<push_ret, out>>

FindEmpty ==
  /\ queue = <<>>
  /\ pull_ret' = 1
  /\ UNCHANGED <<queue, bytes, push_ret, out>>

Next ==
  \/ \E b \in Blocks : Push(b) \/ Refuse(b)
  \/ Pull
  \/ Skip
  \/ FindEmpty

Spec == Init /\ [][Next]_vars
=============================================================================
