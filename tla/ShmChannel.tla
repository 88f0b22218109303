----------------------------- MODULE ShmChannel -----------------------------
(***************************************************************************)
(* One direction of one channel between CONN and a WORK process: the       *)
(* shared-memory queue (BlockFifo, which ShmRing implements), the pipe     *)
(* that wakes its reader, and the writer's private push_list.              *)
(*                                                                         *)
(* Writer: recv_push / send_push and pruge_recv / pruge_send (shmq.cpp),   *)
(* the latter also called once per turn of the process's main loop.        *)
(* Reader: c_revent::handle_input / c_sevent::handle_input, which empties  *)
(* the pipe first and pulls afterwards.  Each is cut where the other       *)
(* process can run in between.  Both may be killed at any point; what is   *)
(* in shared memory and in the pipe survives, push_list does not.          *)
(***************************************************************************)
EXTENDS Integers, Sequences

CONSTANTS Lens,      \* payload lengths
          HeadLen,   \* sizeof(struct shm_block_t)
          Size,      \* shm_queue_t.size
          PipeCap,   \* bytes the pipe holds, 65536 on Linux
          TrashLen,  \* bytes pruge_pipe reads at once, 1024
          PullMax,   \* blocks handle_input pulls at most, 1024
          MaxCalls,  \* bound: pushes
          MaxFaults, \* bound: processes killed and allocations failed
          NoBlock,   \* out before the first pull
          NoCall     \* pruge called from the main loop

ASSUME ChannelAssumption ==
  /\ Lens \subseteq Nat
  /\ HeadLen \in Nat \ {0}
  /\ Size \in Nat \ {0}
  /\ PipeCap \in Nat \ {0}
  /\ TrashLen \in Nat \ {0}
  /\ PullMax \in Nat
  /\ TrashLen <= PullMax
  /\ MaxCalls \in Nat
  /\ MaxFaults \in Nat

\* A block's id is the number of the call that pushed it.
Ids == 1 .. MaxCalls

VARIABLES
  queue, bytes, push_ret, pull_ret, out,  \* the shared-memory queue
  pipe,       \* bytes in the pipe
  push_list,  \* blocks the writer holds back
  w_at,       \* where the writer is
  call,       \* the block and the flag "safe" of its call
  ret,        \* what its last pruge returned
  r_at,       \* where the reader is
  count,      \* blocks it may still pull in this handle_input
  report,     \* history: flag and result of every call that ended
  handled,    \* history: ids of the blocks handled, in that order
  faults      \* history: kills and failed allocations so far

Fifo == INSTANCE BlockFifo WITH Capacity <- Size - 1
Blocks == Fifo!Blocks

fifo == <<queue, bytes, push_ret, pull_ret, out>>
writer == <<push_list, w_at, call, ret, report>>
reader == <<r_at, count, handled>>
vars == <<fifo, pipe, writer, reader, faults>>

Init ==
  /\ Fifo!Init
  /\ pipe = 0
  /\ push_list = <<>>
  /\ w_at = "loop"
  /\ call = NoCall
  /\ ret = 0
  /\ r_at = "wait"
  /\ count = 0
  /\ report = <<>>
  /\ handled = <<>>
  /\ faults = 0

-----------------------------------------------------------------------------
(* The writer. *)

NeverReturned == 1

\* recv_push(channel, sb, buf, safe) is called.
Call(len, safe) ==
  /\ w_at = "loop"
  /\ Len(report) < MaxCalls
  /\ call' = [sb |-> [id |-> Len(report) + 1, len |-> len], safe |-> safe]
  /\ w_at' = "purge"
  /\ UNCHANGED <<fifo, pipe, push_list, ret, report, reader, faults>>

\* mutant: the main loop does not call pruge
TickForgotten == w_at = "loop" /\ UNCHANGED vars

\* The main loop calls pruge after every handle_event.
Tick ==
  /\ w_at = "loop"
  /\ w_at' = "purge"
  /\ call' = NoCall
  /\ UNCHANGED <<fifo, pipe, push_list, ret, report, reader, faults>>

PurgeOne ==
  /\ w_at = "purge"
  /\ push_list # <<>>
  /\ Fifo!Push(Head(push_list))
  /\ w_at' = "purge_wake"
  /\ UNCHANGED <<pipe, push_list, call, ret, report, reader, faults>>

\* write_pipe: the pipe does not block, a byte too many is dropped.
WakeReader == pipe' = IF pipe < PipeCap THEN pipe + 1 ELSE pipe

PurgeWakeLast ==  \* mutant: one byte when everything held back is pushed
  /\ w_at = "purge_wake"
  /\ IF Len(push_list) = 1 THEN WakeReader ELSE UNCHANGED pipe
  /\ push_list' = Tail(push_list)
  /\ w_at' = "purge"
  /\ UNCHANGED <<fifo, call, ret, report, reader, faults>>

PurgeWake ==
  /\ w_at = "purge_wake"
  /\ WakeReader
  /\ push_list' = Tail(push_list)
  /\ w_at' = "purge"
  /\ UNCHANGED <<fifo, call, ret, report, reader, faults>>

AfterPurge(r) ==
  /\ ret' = r
  /\ w_at' = IF call = NoCall THEN "loop" ELSE "push"
  /\ UNCHANGED <<pipe, push_list, call, report, reader, faults>>

PurgeDone ==
  /\ w_at = "purge"
  /\ push_list = <<>>
  /\ AfterPurge(0)
  /\ UNCHANGED fifo

\* mutant: a block that does not fit is no reason to hold back later ones
PurgeStopForgotten ==
  /\ w_at = "purge"
  /\ push_list # <<>>
  /\ Fifo!Refuse(Head(push_list))
  /\ AfterPurge(0)

PurgeStop ==
  /\ w_at = "purge"
  /\ push_list # <<>>
  /\ Fifo!Refuse(Head(push_list))
  /\ AfterPurge(-1)

Return(r) ==
  /\ report' = Append(report, [safe |-> call.safe, ret |-> r])
  /\ call' = NoCall
  /\ w_at' = "loop"

PushTooLong ==
  /\ w_at = "push"
  /\ call.sb.len >= Size
  /\ Return(-1)
  /\ UNCHANGED <<fifo, pipe, push_list, ret, reader, faults>>

PushRing ==
  /\ w_at = "push"
  /\ call.sb.len < Size
  /\ ret = 0
  /\ Fifo!Push(call.sb)
  /\ w_at' = "push_wake"
  /\ UNCHANGED <<pipe, push_list, call, ret, report, reader, faults>>

PushWake ==
  /\ w_at = "push_wake"
  /\ WakeReader
  /\ Return(0)
  /\ UNCHANGED <<fifo, push_list, ret, reader, faults>>

\* Older blocks wait in push_list, or the queue has no room for this one.
CannotPush ==
  /\ w_at = "push"
  /\ call.sb.len < Size
  /\ \/ ret = 0 /\ Fifo!Refuse(call.sb)
     \/ ret = -1 /\ UNCHANGED fifo
  /\ w_at' = "defer"
  /\ UNCHANGED <<pipe, push_list, call, ret, report, reader, faults>>

\* The result is pruge's: 0 when only this block did not fit.
PushDropAny ==  \* mutant: the flag "safe" is not looked at
  /\ w_at = "defer"
  /\ Return(ret)
  /\ UNCHANGED <<fifo, pipe, push_list, ret, reader, faults>>

PushDrop ==
  /\ w_at = "defer"
  /\ ~call.safe
  /\ Return(ret)
  /\ UNCHANGED <<fifo, pipe, push_list, ret, reader, faults>>

PushDefer ==
  /\ w_at = "defer"
  /\ call.safe
  /\ push_list' = Append(push_list, call.sb)
  /\ Return(0)
  /\ UNCHANGED <<fifo, pipe, ret, reader, faults>>

PushDeferNoMemory ==
  /\ w_at = "defer"
  /\ call.safe
  /\ Return(-1)
  /\ UNCHANGED <<fifo, pipe, push_list, ret, reader, faults>>

WriterKilled ==
  /\ faults < MaxFaults
  /\ faults' = faults + 1
  /\ report' = IF call = NoCall THEN report
               ELSE Append(report, [safe |-> call.safe, ret |-> NeverReturned])
  /\ push_list' = <<>>
  /\ w_at' = "loop"
  /\ call' = NoCall
  /\ UNCHANGED <<fifo, pipe, ret, reader>>

-----------------------------------------------------------------------------
(* The reader. *)

\* epoll reports the pipe readable; pruge_pipe.
ReadPipe == pipe' = IF pipe > TrashLen THEN pipe - TrashLen ELSE 0

Wake ==
  /\ r_at = "wait"
  /\ pipe > 0
  /\ ReadPipe
  /\ r_at' = "pull"
  /\ count' = PullMax
  /\ UNCHANGED <<fifo, writer, handled, faults>>

Pull ==
  /\ r_at = "pull"
  /\ count > 0
  /\ Fifo!Pull
  /\ r_at' = "handle"
  /\ count' = count - 1
  /\ UNCHANGED <<pipe, writer, handled, faults>>

Handle ==
  /\ r_at = "handle"
  /\ r_at' = "pull"
  /\ handled' = Append(handled, out.id)
  /\ UNCHANGED <<fifo, pipe, writer, count, faults>>

EndPull ==
  /\ r_at' = "wait"
  /\ UNCHANGED <<pipe, writer, count, handled>>

PullEmpty ==
  /\ r_at = "pull"
  /\ count > 0
  /\ Fifo!FindEmpty
  /\ EndPull
  /\ UNCHANGED faults

PullBatchEnd ==
  /\ r_at = "pull"
  /\ count = 0
  /\ EndPull
  /\ UNCHANGED <<fifo, faults>>

\* shmq_pull answers -1: the block is gone and the loop is left.
PullNoMemory ==
  /\ r_at = "pull"
  /\ count > 0
  /\ faults < MaxFaults
  /\ Fifo!Skip
  /\ EndPull
  /\ faults' = faults + 1

ReaderKilled ==
  /\ r_at # "wait"
  /\ faults < MaxFaults
  /\ faults' = faults + 1
  /\ r_at' = "wait"
  /\ UNCHANGED <<fifo, pipe, writer, count, handled>>

-----------------------------------------------------------------------------
WriterStep ==
  \/ Tick \/ PurgeOne \/ PurgeWake \/ PurgeDone \/ PurgeStop
  \/ PushTooLong \/ PushRing \/ PushWake \/ CannotPush
  \/ PushDrop \/ PushDefer \/ PushDeferNoMemory

ReaderStep == Wake \/ Pull \/ Handle \/ PullEmpty \/ PullBatchEnd

Next ==
  \/ \E len \in Lens, safe \in BOOLEAN : Call(len, safe)
  \/ WriterStep
  \/ WriterKilled
  \/ ReaderStep
  \/ PullNoMemory
  \/ ReaderKilled

Spec == Init /\ [][Next]_vars

\* epoll_wait times out after a second, so that each main loop turns for ever.
FairSpec == Spec /\ WF_vars(WriterStep) /\ WF_vars(ReaderStep)
-----------------------------------------------------------------------------
(***************************************************************************)
(* Properties.                                                             *)
(***************************************************************************)
Calls == [sb : Blocks, safe : BOOLEAN]

\* Every variable keeps to its range; a call is in progress exactly where
\* recv_push uses its arguments.
TypeOK ==
  /\ queue \in Seq(Blocks)
  /\ bytes \in Int
  /\ push_ret \in {0, 1}
  /\ pull_ret \in {-1, 0, 1}
  /\ out \in Blocks \cup {NoBlock}
  /\ pipe \in 0 .. PipeCap
  /\ push_list \in Seq(Blocks)
  /\ w_at \in {"loop", "purge", "purge_wake", "push", "push_wake", "defer"}
  /\ call \in Calls \cup {NoCall}
  /\ w_at \in {"push", "push_wake", "defer"} => call # NoCall
  /\ w_at = "loop" => call = NoCall
  /\ ret \in {-1, 0}
  /\ r_at \in {"wait", "pull", "handle"}
  /\ r_at = "handle" => out \in Blocks
  /\ count \in 0 .. PullMax
  /\ report \in Seq([safe : BOOLEAN, ret : {-1, 0, NeverReturned}])
  /\ handled \in Seq(Ids)
  /\ faults \in 0 .. MaxFaults

\* The blocks on their way, oldest first: in the reader's hands, in shared
\* memory, held back.  A block being purged is in shared memory already.
InHand == IF r_at = "handle" THEN <<out>> ELSE <<>>
HeldBack == IF w_at = "purge_wake" THEN Tail(push_list) ELSE push_list
OnTheWay == InHand \o queue \o HeldBack

\* Blocks are handled at most once and in the order of the calls that pushed
\* them, whichever of them were held back, dropped or lost in a crash (and every variable
\* keeps to its range).
InOrder ==
  LET way == [i \in 1 .. Len(OnTheWay) |-> OnTheWay[i].id]
      all == handled \o way
  IN /\ TypeOK
     /\ \A i, j \in 1 .. Len(all) : i < j => all[i] < all[j]
     /\ \A i \in 1 .. Len(all) :
          all[i] <= IF w_at = "push_wake" THEN Len(report) + 1 ELSE Len(report)

Known(id) ==
  \/ \E i \in 1 .. Len(handled) : handled[i] = id
  \/ \E i \in 1 .. Len(OnTheWay) : OnTheWay[i].id = id

\* What recv_push answers is what happens to the block: after -1 it is never
\* handled, and after 0 to a caller that said "safe" it is on its way or
\* handled, unless a process was killed or out of memory.
ReportsTruly ==
  \A i \in 1 .. Len(report) :
    /\ report[i].ret = -1 => ~Known(i)
    /\ report[i].ret = 0 /\ report[i].safe /\ faults = 0 => Known(i)

\* Bytes still to be written, and pulls the reader will still try.
ToWrite == IF w_at \in {"purge_wake", "push_wake"} THEN 1 ELSE 0
ToPull == IF r_at = "wait" THEN 0 ELSE count

\* Every block in shared memory has a byte in the pipe, a byte about to be
\* written or a pull about to be made: the reader never waits on an empty pipe
\* while a block is left behind.  This holds while the queue holds no more
\* blocks than the pipe holds bytes.
EveryBlockWakes == faults = 0 => Len(queue) <= pipe + ToWrite + ToPull

Fits(b) == b.len + HeadLen <= Size - 1

\* What recv_push accepts into push_list can be pushed some day: no payload
\* is shorter than the ring and too long for it together with its head.
NoGap == \A len \in Lens : len + HeadLen <= Size - 1 \/ len >= Size

\* A block on its way is handled in the end, unless a process is killed or
\* out of memory (and, see EveryBlockWakes, as long as the pipe is not full).
Delivered ==
  \A id \in Ids :
    (\E i \in 1 .. Len(OnTheWay) : OnTheWay[i].id = id)
      ~> \/ \E i \in 1 .. Len(handled) : handled[i] = id
         \/ faults > 0
=============================================================================
