-------------------------- MODULE ShmChannelProofs --------------------------
(***************************************************************************)
(* For any number of calls, payload lengths, kills and failed allocations  *)
(* a channel keeps its blocks in order and answers its callers truly; and  *)
(* no reader is left waiting beside a block, whatever the sizes of the     *)
(* ring, the pipe and a reader's batch, while the ring holds no more       *)
(* blocks than the pipe holds bytes.                                       *)
(***************************************************************************)
EXTENDS ShmChannel, SequenceTheorems, WellFoundedInduction, TLAPS

\* Where recv_push is in its code tells what it has found out: it pushes the
\* block of its caller past the ones held back only if there are none, and the
\* id of that block is the next one.
Calling ==
  /\ w_at = "purge_wake" => push_list # <<>>
  /\ w_at = "push" /\ ret = 0 => push_list = <<>>
  /\ call # NoCall => call.sb.id = Len(report) + 1 /\ Len(report) < MaxCalls

(* The ids of the blocks in each place; a block goes from one to the next. *)
IdsOf(s) == {s[i].id : i \in 1 .. Len(s)}
Handled == {handled[i] : i \in 1 .. Len(handled)}
InHandIds == IdsOf(InHand)
QueueIds == IdsOf(queue)
HeldIds == IdsOf(HeldBack)

Ascending(s) == \A i, j \in 1 .. Len(s) : i < j => s[i].id < s[j].id
Older(A, B) == \A a \in A, b \in B : a < b

Newest == IF w_at = "push_wake" THEN Len(report) + 1 ELSE Len(report)

\* The ids in D are greater than those in C, these than those in B, and so on.
InTurn(A, B, C, D) ==
  Older(A, B) /\ Older(A \cup B, C) /\ Older(A \cup B \cup C, D)

KnownIds == Handled \cup InHandIds \cup QueueIds \cup HeldIds

\* InOrder, place by place: within each the ids ascend, and those of a later
\* place are greater.
Ordered ==
  /\ \A i, j \in 1 .. Len(handled) : i < j => handled[i] < handled[j]
  /\ Ascending(queue)
  /\ Ascending(HeldBack)
  /\ InTurn(Handled, InHandIds, QueueIds, HeldIds)
  /\ \A id \in KnownIds : id <= Newest

\* ReportsTruly, and the block recv_push is about to report as pushed.
Reported ==
  /\ \A i \in 1 .. Len(report) :
       /\ report[i].ret = -1 => i \notin KnownIds
       /\ report[i].ret = 0 /\ report[i].safe /\ faults = 0 => i \in KnownIds
  /\ w_at = "push_wake" /\ faults = 0 => Len(report) + 1 \in KnownIds

OrderInv == TypeOK /\ Calling /\ Ordered /\ Reported

\* The blocks of q lie one behind the other in n bytes: pos[i] is where the
\* i-th of them ends.
LaidOut(q, n) ==
  \E pos \in [0 .. Len(q) -> Int] :
    /\ pos[0] = 0
    /\ pos[Len(q)] = n
    /\ \A i \in 1 .. Len(q) : pos[i] = pos[i - 1] + Fifo!Total(q[i])

Laid == LaidOut(queue, bytes) /\ bytes <= Size - 1

\* The ring holds no more blocks than the pipe holds bytes; and, what makes
\* sure that it does, the ring is too small for more.
QueueInPipe == Len(queue) <= PipeCap
PipeHoldsRing == Size - 1 < HeadLen * (PipeCap + 1)

WakeInv == TypeOK /\ Calling /\ EveryBlockWakes

-----------------------------------------------------------------------------
(***************************************************************************)
(* Sequences of blocks and their ids.                                      *)
(***************************************************************************)

\* What Append does to a sequence of blocks.
LEMMA AppendIds ==
  ASSUME NEW s \in Seq(Blocks), NEW b \in Blocks
  PROVE  /\ Append(s, b) \in Seq(Blocks)
         /\ IdsOf(Append(s, b)) = IdsOf(s) \cup {b.id}
         /\ Ascending(s) /\ Older(IdsOf(s), {b.id}) => Ascending(Append(s, b))
<1> DEFINE t == Append(s, b)
<1>1. /\ t \in Seq(Blocks) /\ Len(t) = Len(s) + 1 /\ Len(s) \in Nat
      /\ \A i \in 1 .. Len(s) : t[i] = s[i]
      /\ t[Len(s) + 1] = b
  BY AppendProperties, LenProperties
<1> HIDE DEF t
<1>2. IdsOf(t) = IdsOf(s) \cup {b.id}
  BY <1>1 DEF IdsOf
<1>3. ASSUME Ascending(s), Older(IdsOf(s), {b.id}) PROVE Ascending(t)
  BY <1>1, <1>3 DEF Ascending, Older, IdsOf
<1>4. QED
  BY <1>1, <1>2, <1>3 DEF t

\* What Head and Tail take from one.
LEMMA TailIds ==
  ASSUME NEW s \in Seq(Blocks), s # <<>>
  PROVE  /\ Head(s) \in Blocks /\ Tail(s) \in Seq(Blocks)
         /\ IdsOf(s) = IdsOf(Tail(s)) \cup {Head(s).id}
         /\ Ascending(s) => Ascending(Tail(s)) /\ Older({Head(s).id}, IdsOf(Tail(s)))
<1> DEFINE t == Tail(s)  h == Head(s)
<1>1. /\ h \in Blocks /\ t \in Seq(Blocks) /\ Len(t) = Len(s) - 1 /\ h = s[1]
      /\ \A i \in 1 .. Len(t) : t[i] = s[i + 1]
      /\ Len(s) \in Nat \ {0}
  BY HeadTailProperties, EmptySeq
<1> HIDE DEF t, h
<1>2. IdsOf(s) = IdsOf(t) \cup {h.id}
  <2>1. \A i \in 1 .. Len(s) : i = 1 \/ (i - 1 \in 1 .. Len(t) /\ s[i] = t[i - 1])
    BY <1>1
  <2>2. \A i \in 1 .. Len(t) : i + 1 \in 1 .. Len(s)
    BY <1>1
  <2>3. 1 \in 1 .. Len(s)
    BY <1>1
  <2>4. IdsOf(s) \subseteq IdsOf(t) \cup {h.id}
    BY <1>1, <2>1 DEF IdsOf
  <2>5. IdsOf(t) \subseteq IdsOf(s)
    BY <1>1, <2>2 DEF IdsOf
  <2>6. h.id \in IdsOf(s)
    BY <1>1, <2>3 DEF IdsOf
  <2>7. QED
    BY <2>4, <2>5, <2>6
<1>3. ASSUME Ascending(s) PROVE Ascending(t) /\ Older({h.id}, IdsOf(t))
  <2>1. ASSUME NEW i \in 1 .. Len(t), NEW j \in 1 .. Len(t), i < j
        PROVE  t[i].id < t[j].id
    <3>1. i + 1 \in 1 .. Len(s) /\ j + 1 \in 1 .. Len(s) /\ i + 1 < j + 1
      BY <1>1, <2>1
    <3>2. s[i + 1].id < s[j + 1].id
      BY <1>3, <3>1 DEF Ascending
    <3>3. QED
      BY <1>1, <3>2
  <2>2. ASSUME NEW i \in 1 .. Len(t) PROVE h.id < t[i].id
    <3>1. 1 \in 1 .. Len(s) /\ i + 1 \in 1 .. Len(s) /\ 1 < i + 1
      BY <1>1
    <3>2. s[1].id < s[i + 1].id
      BY <1>3, <3>1 DEF Ascending
    <3>3. QED
      BY <1>1, <3>2
  <2>3. QED
    BY <2>1, <2>2 DEF Ascending, Older, IdsOf
<1>4. QED
  BY <1>1, <1>2, <1>3 DEF t, h

\* One sequence of blocks behind another.
LEMMA ConcatIds ==
  ASSUME NEW s \in Seq(Blocks), NEW t \in Seq(Blocks)
  PROVE  /\ s \o t \in Seq(Blocks)
         /\ IdsOf(s \o t) = IdsOf(s) \cup IdsOf(t)
         /\ Ascending(s) /\ Ascending(t) /\ Older(IdsOf(s), IdsOf(t)) => Ascending(s \o t)
<1> DEFINE c == s \o t
<1>1. /\ c \in Seq(Blocks) /\ Len(c) = Len(s) + Len(t)
      /\ \A i \in 1 .. Len(s) + Len(t) : c[i] = IF i <= Len(s) THEN s[i] ELSE t[i - Len(s)]
      /\ Len(s) \in Nat /\ Len(t) \in Nat
  BY ConcatProperties, LenProperties
<1> HIDE DEF c
<1>2. \A i \in 1 .. Len(s) : i \in 1 .. Len(c) /\ c[i] = s[i]
  BY <1>1
<1>3. \A i \in 1 .. Len(t) : i + Len(s) \in 1 .. Len(c) /\ c[i + Len(s)] = t[i]
  <2>1. SUFFICES ASSUME NEW i \in 1 .. Len(t)
                 PROVE  i + Len(s) \in 1 .. Len(c) /\ c[i + Len(s)] = t[i]
    OBVIOUS
  <2>2. /\ i + Len(s) \in 1 .. Len(s) + Len(t) /\ ~(i + Len(s) <= Len(s))
        /\ (i + Len(s)) - Len(s) = i
    BY <1>1
  <2>3. QED
    BY <1>1, <2>2
<1>4. \A i \in 1 .. Len(c) :
        \/ i \in 1 .. Len(s) /\ c[i] = s[i]
        \/ i - Len(s) \in 1 .. Len(t) /\ c[i] = t[i - Len(s)] /\ i > Len(s)
  BY <1>1
<1>5. IdsOf(c) = IdsOf(s) \cup IdsOf(t)
  <2>1. IdsOf(s) \subseteq IdsOf(c)
    BY <1>2 DEF IdsOf
  <2>2. IdsOf(t) \subseteq IdsOf(c)
    BY <1>3 DEF IdsOf
  <2>3. IdsOf(c) \subseteq IdsOf(s) \cup IdsOf(t)
    BY <1>4 DEF IdsOf
  <2>4. QED
    BY <2>1, <2>2, <2>3
<1>6. ASSUME Ascending(s), Ascending(t), Older(IdsOf(s), IdsOf(t)),
             NEW i \in 1 .. Len(c), NEW j \in 1 .. Len(c), i < j
      PROVE  c[i].id < c[j].id
  <2>1. CASE j \in 1 .. Len(s) /\ c[j] = s[j]
    <3>1. i \in 1 .. Len(s) /\ c[i] = s[i]
      BY <1>1, <1>2, <1>6, <2>1
    <3>2. QED
      BY <1>6, <2>1, <3>1 DEF Ascending
  <2>2. CASE j - Len(s) \in 1 .. Len(t) /\ c[j] = t[j - Len(s)]
    <3>1. CASE i \in 1 .. Len(s) /\ c[i] = s[i]
      BY <1>6, <2>2, <3>1 DEF Older, IdsOf
    <3>2. CASE i - Len(s) \in 1 .. Len(t) /\ c[i] = t[i - Len(s)]
      <4>1. i - Len(s) < j - Len(s)
        BY <1>1, <1>6
      <4>2. QED
        BY <1>6, <2>2, <3>2, <4>1 DEF Ascending
    <3>3. QED
      BY <1>4, <3>1, <3>2
  <2>3. QED
    BY <1>4, <2>1, <2>2
<1>7. QED
  BY <1>1, <1>5, <1>6 DEF c, Ascending

-----------------------------------------------------------------------------
(***************************************************************************)
(* Types, and where recv_push is.                                          *)
(***************************************************************************)

LEMMA TypeInit == Init => TypeOK /\ Calling
<1>1. PipeCap \in Nat \ {0} /\ MaxFaults \in Nat /\ PullMax \in Nat
  BY ChannelAssumption
<1>2. QED
  BY <1>1 DEF Init, Fifo!Init, TypeOK, Calling

\* The block of a call in progress, and what it says of the reports.
LEMMA CallIsBlock ==
  ASSUME TypeOK, Calling, call # NoCall
  PROVE  /\ call.sb \in Blocks /\ call.safe \in BOOLEAN
         /\ call.sb.id = Len(report) + 1
         /\ Len(report) \in Nat /\ Len(report) < MaxCalls
<1>1. call \in Calls
  BY DEF TypeOK
<1>2. Len(report) \in Nat
  BY LenProperties DEF TypeOK
<1>3. QED
  BY <1>1, <1>2 DEF Calls, Calling

LEMMA TypeStepWriter ==
  ASSUME TypeOK, Calling,
         (\E len \in Lens, safe \in BOOLEAN : Call(len, safe)) \/ WriterStep \/ WriterKilled
  PROVE  TypeOK' /\ Calling'
<1>1. /\ Lens \subseteq Nat /\ PipeCap \in Nat \ {0} /\ MaxFaults \in Nat
      /\ MaxCalls \in Nat /\ PullMax \in Nat /\ HeadLen \in Nat
  BY ChannelAssumption
<1>2. Len(report) \in Nat
  BY LenProperties DEF TypeOK
<1>3. ASSUME NEW len \in Lens, NEW safe \in BOOLEAN, Call(len, safe)
      PROVE  TypeOK' /\ Calling'
  <2>1. [id |-> Len(report) + 1, len |-> len] \in Blocks
    BY <1>1, <1>2, <1>3 DEF Call, Blocks, Fifo!Blocks, Ids
  <2>2. call' \in Calls /\ call'.sb.id = Len(report) + 1 /\ Len(report) < MaxCalls
    BY <1>3, <2>1 DEF Call, Calls
  <2>3. TypeOK'
    BY <1>3, <2>2 DEF Call, TypeOK, fifo, reader
  <2>4. Calling'
    BY <1>3, <2>2 DEF Call, Calling
  <2>5. QED
    BY <2>3, <2>4
<1>4. CASE Tick
  BY <1>4 DEF Tick, TypeOK, Calling, fifo, reader
<1>5. ASSUME push_list # <<>>
      PROVE  Head(push_list) \in Blocks /\ Tail(push_list) \in Seq(Blocks)
  BY <1>5, TailIds DEF TypeOK
<1>6. \A b \in Blocks : b.len \in Nat /\ b.id \in Ids
  BY <1>1 DEF Blocks, Fifo!Blocks
<1>7. CASE PurgeOne
  <2>1. Append(queue, Head(push_list)) \in Seq(Blocks)
    BY <1>5, <1>7, AppendIds DEF PurgeOne, TypeOK
  <2>2. bytes' \in Int
    BY <1>1, <1>5, <1>6, <1>7 DEF PurgeOne, TypeOK, Fifo!Push, Fifo!Total
  <2>3. QED
    BY <1>7, <2>1, <2>2 DEF PurgeOne, TypeOK, Calling, Fifo!Push, reader
<1>8. CASE PurgeWake
  <2>1. pipe' \in 0 .. PipeCap
    BY <1>1, <1>8 DEF PurgeWake, WakeReader, TypeOK
  <2>2. push_list' \in Seq(Blocks)
    BY <1>5, <1>8 DEF PurgeWake, Calling
  <2>3. QED
    BY <1>8, <2>1, <2>2 DEF PurgeWake, TypeOK, Calling, fifo, reader
<1>9. CASE PurgeDone
  BY <1>9 DEF PurgeDone, AfterPurge, TypeOK, Calling, fifo, reader
<1>10. CASE PurgeStop
  BY <1>10 DEF PurgeStop, AfterPurge, Fifo!Refuse, TypeOK, Calling, reader
<1>11. ASSUME NEW r \in {-1, 0, NeverReturned}, call # NoCall
       PROVE  Append(report, [safe |-> call.safe, ret |-> r])
                \in Seq([safe : BOOLEAN, ret : {-1, 0, NeverReturned}])
  <2>1. call.safe \in BOOLEAN
    BY <1>11, CallIsBlock
  <2>2. QED
    BY <2>1, AppendProperties DEF TypeOK
<1>12. w_at \in {"push", "push_wake", "defer"} => call # NoCall
  BY DEF TypeOK
<1>13. CASE PushTooLong
  BY <1>11, <1>12, <1>13 DEF PushTooLong, Return, TypeOK, Calling, fifo, reader
<1>14. CASE PushRing
  <2>1. call.sb \in Blocks
    BY <1>12, <1>14, CallIsBlock DEF PushRing
  <2>2. Append(queue, call.sb) \in Seq(Blocks)
    BY <2>1, AppendIds DEF TypeOK
  <2>3. bytes' \in Int
    <3>1. call.sb.len \in Nat
      BY <1>6, <2>1
    <3>2. bytes' = bytes + (call.sb.len + HeadLen) /\ bytes \in Int
      BY <1>14 DEF PushRing, TypeOK, Fifo!Push, Fifo!Total
    <3>3. QED
      BY <1>1, <3>1, <3>2
  <2>4. QED
    BY <1>14, <2>2, <2>3 DEF PushRing, TypeOK, Calling, Fifo!Push, reader
<1>15. CASE PushWake
  <2>1. pipe' \in 0 .. PipeCap
    BY <1>1, <1>15 DEF PushWake, WakeReader, TypeOK
  <2>2. QED
    BY <1>11, <1>12, <1>15, <2>1 DEF PushWake, Return, TypeOK, Calling, fifo, reader
<1>16. CASE CannotPush
  BY <1>16 DEF CannotPush, Fifo!Refuse, TypeOK, Calling, fifo, reader
<1>17. CASE PushDrop
  <2>1. ret \in {-1, 0, NeverReturned}
    BY DEF TypeOK
  <2>2. QED
    BY <1>11, <1>12, <1>17, <2>1 DEF PushDrop, Return, TypeOK, Calling, fifo, reader
<1>18. CASE PushDefer
  <2>1. Append(push_list, call.sb) \in Seq(Blocks)
    BY <1>12, <1>18, CallIsBlock, AppendIds DEF PushDefer, TypeOK
  <2>2. QED
    BY <1>11, <1>12, <1>18, <2>1 DEF PushDefer, Return, TypeOK, Calling, fifo, reader
<1>19. CASE PushDeferNoMemory
  BY <1>11, <1>12, <1>19 DEF PushDeferNoMemory, Return, TypeOK, Calling, fifo, reader
<1>20. CASE WriterKilled
  <2>1. report' \in Seq([safe : BOOLEAN, ret : {-1, 0, NeverReturned}])
    BY <1>11, <1>20 DEF WriterKilled, TypeOK
  <2>2. faults' \in 0 .. MaxFaults
    BY <1>1, <1>20 DEF WriterKilled, TypeOK
  <2>3. <<>> \in Seq(Blocks)
    OBVIOUS
  <2>4. QED
    BY <1>20, <2>1, <2>2, <2>3 DEF WriterKilled, TypeOK, Calling, fifo, reader
<1>21. QED
  BY <1>3, <1>4, <1>7, <1>8, <1>9, <1>10, <1>13, <1>14, <1>15, <1>16, <1>17, <1>18,
     <1>19, <1>20 DEF WriterStep

LEMMA TypeStepReader ==
  ASSUME TypeOK, Calling, ReaderStep \/ PullNoMemory \/ ReaderKilled \/ UNCHANGED vars
  PROVE  TypeOK' /\ Calling'
<1>1. /\ PipeCap \in Nat \ {0} /\ TrashLen \in Nat \ {0} /\ MaxFaults \in Nat
      /\ PullMax \in Nat /\ HeadLen \in Nat /\ Lens \subseteq Nat
  BY ChannelAssumption
<1>2. \A b \in Blocks : b.len \in Nat /\ b.id \in Ids
  BY <1>1 DEF Blocks, Fifo!Blocks
<1>3. ASSUME Fifo!RemoveHead
      PROVE  Head(queue) \in Blocks /\ queue' \in Seq(Blocks) /\ bytes' \in Int
  <2>1. Head(queue) \in Blocks /\ Tail(queue) \in Seq(Blocks)
    BY <1>3, TailIds DEF TypeOK, Fifo!RemoveHead
  <2>2. bytes' \in Int
    BY <1>1, <1>2, <1>3, <2>1 DEF TypeOK, Fifo!RemoveHead, Fifo!Total
  <2>3. QED
    BY <1>3, <2>1, <2>2 DEF Fifo!RemoveHead
<1>4. CASE Wake
  <2>1. pipe' \in 0 .. PipeCap
    BY <1>1, <1>4 DEF Wake, ReadPipe, TypeOK
  <2>2. PullMax \in 0 .. PullMax
    BY <1>1
  <2>3. QED
    BY <1>4, <2>1, <2>2 DEF Wake, TypeOK, Calling, fifo, writer
<1>5. CASE Pull
  <2>1. count' \in 0 .. PullMax
    BY <1>1, <1>5 DEF Pull, TypeOK
  <2>2. QED
    BY <1>3, <1>5, <2>1 DEF Pull, Fifo!Pull, TypeOK, Calling, writer
<1>6. CASE Handle
  <2>1. out.id \in Ids
    BY <1>2, <1>6 DEF Handle, TypeOK
  <2>2. Append(handled, out.id) \in Seq(Ids)
    BY <2>1, AppendProperties DEF TypeOK
  <2>3. QED
    BY <1>6, <2>2 DEF Handle, TypeOK, Calling, fifo, writer
<1>7. CASE PullEmpty
  BY <1>7 DEF PullEmpty, EndPull, Fifo!FindEmpty, TypeOK, Calling, writer
<1>8. CASE PullBatchEnd
  BY <1>8 DEF PullBatchEnd, EndPull, TypeOK, Calling, fifo, writer
<1>9. CASE PullNoMemory
  <2>1. faults' \in 0 .. MaxFaults
    BY <1>1, <1>9 DEF PullNoMemory, TypeOK
  <2>2. QED
    BY <1>3, <1>9, <2>1 DEF PullNoMemory, EndPull, Fifo!Skip, TypeOK, Calling, writer
<1>10. CASE ReaderKilled
  <2>1. faults' \in 0 .. MaxFaults
    BY <1>1, <1>10 DEF ReaderKilled, TypeOK
  <2>2. QED
    BY <1>10, <2>1 DEF ReaderKilled, TypeOK, Calling, fifo, writer
<1>11. CASE UNCHANGED vars
  BY <1>11 DEF vars, TypeOK, Calling, fifo, writer, reader
<1>12. QED
  BY <1>4, <1>5, <1>6, <1>7, <1>8, <1>9, <1>10, <1>11 DEF ReaderStep

-----------------------------------------------------------------------------
(***************************************************************************)
(* Blocks keep their order, and recv_push answers truly.                   *)
(***************************************************************************)

\* The four places hold blocks.
LEMMA Places ==
  ASSUME TypeOK, Calling
  PROVE  /\ InHand \in Seq(Blocks) /\ HeldBack \in Seq(Blocks)
         /\ KnownIds \subseteq Ids
         /\ Len(report) \in Nat /\ Ids \subseteq Nat /\ faults \in Nat
<1>1. MaxCalls \in Nat /\ MaxFaults \in Nat
  BY ChannelAssumption
<1>2. InHand \in Seq(Blocks)
  BY DEF InHand, TypeOK
<1>3. HeldBack \in Seq(Blocks)
  BY TailIds DEF HeldBack, TypeOK, Calling
<1>4. ASSUME NEW s \in Seq(Blocks) PROVE IdsOf(s) \subseteq Ids
  <2>1. \A i \in 1 .. Len(s) : s[i] \in Blocks
    BY ElementOfSeq
  <2>2. QED
    BY <2>1 DEF IdsOf, Blocks, Fifo!Blocks
<1>5. Handled \subseteq Ids
  BY ElementOfSeq DEF Handled, TypeOK
<1>6. KnownIds \subseteq Ids
  BY <1>2, <1>3, <1>4, <1>5 DEF KnownIds, InHandIds, QueueIds, HeldIds, TypeOK
<1>7. Len(report) \in Nat /\ faults \in Nat
  BY <1>1, LenProperties DEF TypeOK
<1>8. QED
  BY <1>1, <1>2, <1>3, <1>6, <1>7 DEF Ids

\* What Append does to the reports.
LEMMA AppendReport ==
  ASSUME TypeOK, NEW x \in [safe : BOOLEAN, ret : {-1, 0, NeverReturned}],
         report' = Append(report, x)
  PROVE  /\ Len(report') = Len(report) + 1
         /\ \A i \in 1 .. Len(report') :
              \/ i \in 1 .. Len(report) /\ report'[i] = report[i]
              \/ i = Len(report) + 1 /\ report'[i] = x
<1>1. report \in Seq([safe : BOOLEAN, ret : {-1, 0, NeverReturned}])
  BY DEF TypeOK
<1>2. Len(report) \in Nat
  BY <1>1, LenProperties
<1>3. QED
  BY <1>1, <1>2, AppendProperties

LEMMA OrderInit == Init => Ordered /\ Reported
<1> SUFFICES ASSUME Init PROVE Ordered /\ Reported
  OBVIOUS
<1>1. /\ handled = <<>> /\ queue = <<>> /\ HeldBack = <<>> /\ InHand = <<>>
      /\ report = <<>> /\ w_at = "loop"
  BY DEF Init, Fifo!Init, HeldBack, InHand
<1>2. KnownIds = {} /\ Handled = {} /\ QueueIds = {} /\ HeldIds = {} /\ InHandIds = {}
  BY <1>1 DEF KnownIds, Handled, QueueIds, HeldIds, InHandIds, IdsOf
<1>3. Ordered
  BY <1>1, <1>2 DEF Ordered, Ascending, InTurn, Older
<1>4. Reported
  BY <1>1 DEF Reported
<1>5. QED
  BY <1>3, <1>4

LEMMA OrderStepWriter ==
  ASSUME OrderInv, TypeOK', Calling',
         (\E len \in Lens, safe \in BOOLEAN : Call(len, safe)) \/ WriterStep \/ WriterKilled
  PROVE  Ordered' /\ Reported'
<1>1. TypeOK /\ Calling /\ Ordered /\ Reported
  BY DEF OrderInv
<1>2. /\ InHand \in Seq(Blocks) /\ HeldBack \in Seq(Blocks) /\ queue \in Seq(Blocks)
      /\ push_list \in Seq(Blocks)
      /\ KnownIds \subseteq Ids
      /\ Len(report) \in Nat /\ Ids \subseteq Nat /\ faults \in Nat
  BY <1>1, Places DEF TypeOK
<1>3. Handled' = Handled /\ InHandIds' = InHandIds /\ handled' = handled
  BY DEF WriterStep, WriterKilled, Call, Tick, PurgeOne, PurgeWake, PurgeDone, PurgeStop,
     PushTooLong, PushRing, PushWake, CannotPush, PushDrop, PushDefer, PushDeferNoMemory,
     Fifo!Push, Fifo!Refuse, AfterPurge, Return, fifo, reader, Handled, InHandIds, InHand, IdsOf
<1>4. CASE (\E len \in Lens, safe \in BOOLEAN : Call(len, safe)) \/ Tick \/ PurgeWake
           \/ PurgeDone \/ PurgeStop \/ CannotPush
  <2>1. queue' = queue /\ HeldBack' = HeldBack /\ report' = report /\ faults' = faults
    BY <1>4 DEF Call, Tick, PurgeWake, PurgeDone, PurgeStop, CannotPush, AfterPurge,
       Fifo!Refuse, fifo, HeldBack
  <2>2. w_at # "push_wake" /\ w_at' # "push_wake"
    BY <1>4 DEF Call, Tick, PurgeWake, PurgeDone, PurgeStop, CannotPush, AfterPurge
  <2>3. QueueIds' = QueueIds /\ HeldIds' = HeldIds /\ KnownIds' = KnownIds /\ Newest' = Newest
    BY <1>3, <2>1, <2>2 DEF QueueIds, HeldIds, KnownIds, Newest
  <2>4. Ordered'
    BY <1>1, <1>3, <2>1, <2>3 DEF Ordered, Ascending
  <2>5. Reported'
    BY <1>1, <2>1, <2>2, <2>3 DEF Reported
  <2>6. QED
    BY <2>4, <2>5
<1>5. CASE PurgeOne
  <2> DEFINE b == Head(push_list)
  <2>1. /\ push_list # <<>> /\ queue' = Append(queue, b) /\ HeldBack = push_list
        /\ HeldBack' = Tail(push_list) /\ report' = report /\ faults' = faults
        /\ w_at # "push_wake" /\ w_at' # "push_wake"
    BY <1>5 DEF PurgeOne, Fifo!Push, HeldBack
  <2>2. /\ b \in Blocks /\ HeldIds = HeldIds' \cup {b.id}
        /\ Ascending(HeldBack') /\ Older({b.id}, HeldIds')
    BY <1>1, <1>2, <2>1, TailIds DEF HeldIds, Ordered
  <2> HIDE DEF b
  <2>3. Older(QueueIds, {b.id})
    BY <1>1, <2>2 DEF Ordered, InTurn, Older
  <2>4. QueueIds' = QueueIds \cup {b.id} /\ Ascending(queue')
    BY <1>1, <1>2, <2>1, <2>2, <2>3, AppendIds DEF QueueIds, Ordered
  <2>5. KnownIds' = KnownIds /\ Newest' = Newest
    BY <1>3, <2>1, <2>2, <2>4 DEF KnownIds, Newest
  <2>6. InTurn(Handled', InHandIds', QueueIds', HeldIds')
    BY <1>1, <1>3, <2>2, <2>4 DEF Ordered, InTurn, Older
  <2>7. Ordered'
    BY <1>1, <1>3, <2>2, <2>4, <2>5, <2>6 DEF Ordered
  <2>8. Reported'
    BY <1>1, <2>1, <2>5 DEF Reported
  <2>9. QED
    BY <2>7, <2>8
<1>6. ASSUME w_at \in {"push", "push_wake", "defer"}
      PROVE  /\ call # NoCall /\ call.sb \in Blocks /\ call.safe \in BOOLEAN
             /\ call.sb.id = Len(report) + 1
  BY <1>1, <1>6, CallIsBlock DEF TypeOK
<1>7. CASE PushRing
  <2>1. /\ push_list = <<>> /\ queue' = Append(queue, call.sb) /\ HeldBack' = push_list
        /\ report' = report /\ faults' = faults
        /\ w_at = "push" /\ w_at' = "push_wake"
    BY <1>1, <1>7 DEF PushRing, Fifo!Push, HeldBack, Calling
  <2>2. HeldIds' = {} /\ HeldIds = {}
    BY <2>1 DEF HeldIds, HeldBack, IdsOf
  <2>3. Newest = Len(report) /\ Newest' = Len(report) + 1
    BY <2>1 DEF Newest
  <2>4. Older(KnownIds, {call.sb.id})
    BY <1>1, <1>2, <1>6, <2>1, <2>3 DEF Older, Ordered
  <2>5. Older(QueueIds, {call.sb.id})
    BY <2>4 DEF Older, KnownIds
  <2>6. QueueIds' = QueueIds \cup {call.sb.id} /\ Ascending(queue')
    BY <1>1, <1>2, <1>6, <2>1, <2>5, AppendIds DEF QueueIds, Ordered
  <2>7. KnownIds' = KnownIds \cup {Len(report) + 1}
    BY <1>3, <1>6, <2>1, <2>2, <2>6 DEF KnownIds
  <2>8. InTurn(Handled', InHandIds', QueueIds', HeldIds')
    BY <1>1, <1>3, <2>2, <2>4, <2>6 DEF Ordered, InTurn, Older, KnownIds
  <2>9. \A id \in KnownIds' : id <= Newest'
    BY <1>1, <1>2, <2>3, <2>7 DEF Ordered
  <2>10. Ascending(HeldBack')
    BY <2>1 DEF Ascending
  <2>11. Ordered'
    BY <1>1, <1>3, <2>6, <2>8, <2>9, <2>10 DEF Ordered
  <2>12. Reported'
    BY <1>1, <1>2, <2>1, <2>7 DEF Reported
  <2>13. QED
    BY <2>11, <2>12
<1>8. ASSUME NEW r \in {-1, 0, NeverReturned}, call # NoCall,
             report' = Append(report, [safe |-> call.safe, ret |-> r])
      PROVE  /\ Len(report') = Len(report) + 1
             /\ \A i \in 1 .. Len(report') :
                  \/ i \in 1 .. Len(report) /\ report'[i] = report[i]
                  \/ /\ i = Len(report) + 1
                     /\ report'[i].safe = call.safe /\ report'[i].ret = r
  <2>1. [safe |-> call.safe, ret |-> r] \in [safe : BOOLEAN, ret : {-1, 0, NeverReturned}]
    BY <1>1, <1>8, CallIsBlock
  <2>2. QED
    BY <1>1, <1>8, <2>1, AppendReport
<1>9. CASE PushWake
  <2>1. /\ queue' = queue /\ HeldBack' = HeldBack /\ faults' = faults
        /\ w_at = "push_wake" /\ w_at' = "loop"
        /\ report' = Append(report, [safe |-> call.safe, ret |-> 0])
    BY <1>9 DEF PushWake, Return, fifo, HeldBack
  <2>2. /\ Len(report') = Len(report) + 1
        /\ \A i \in 1 .. Len(report') :
             \/ i \in 1 .. Len(report) /\ report'[i] = report[i]
             \/ /\ i = Len(report) + 1
                /\ report'[i].safe = call.safe /\ report'[i].ret = 0
    BY <1>6, <1>8, <2>1
  <2>3. QueueIds' = QueueIds /\ HeldIds' = HeldIds /\ KnownIds' = KnownIds /\ Newest' = Newest
    BY <1>3, <2>1, <2>2 DEF QueueIds, HeldIds, KnownIds, Newest
  <2>4. Ordered'
    BY <1>1, <1>3, <2>1, <2>3 DEF Ordered, Ascending
  <2>5. Reported'
    BY <1>1, <2>1, <2>2, <2>3 DEF Reported
  <2>6. QED
    BY <2>4, <2>5
<1>10. CASE PushTooLong \/ PushDrop \/ PushDeferNoMemory
  <2>1. /\ queue' = queue /\ HeldBack' = HeldBack /\ faults' = faults
        /\ w_at \in {"push", "defer"} /\ w_at' = "loop"
    BY <1>10 DEF PushTooLong, PushDrop, PushDeferNoMemory, Return, fifo, HeldBack
  <2>2. PICK r \in {-1, 0, NeverReturned} :
          /\ report' = Append(report, [safe |-> call.safe, ret |-> r])
          /\ r = -1 \/ ~call.safe
    BY <1>1, <1>10 DEF PushTooLong, PushDrop, PushDeferNoMemory, Return, TypeOK
  <2>3. /\ Len(report') = Len(report) + 1
        /\ \A i \in 1 .. Len(report') :
             \/ i \in 1 .. Len(report) /\ report'[i] = report[i]
             \/ /\ i = Len(report) + 1
                /\ report'[i].safe = call.safe /\ report'[i].ret = r
    BY <1>6, <1>8, <2>1, <2>2
  <2>4. Newest = Len(report) /\ Newest' = Len(report) + 1
    BY <2>1, <2>3 DEF Newest
  <2>5. QueueIds' = QueueIds /\ HeldIds' = HeldIds /\ KnownIds' = KnownIds
    BY <1>3, <2>1 DEF QueueIds, HeldIds, KnownIds
  <2>6. \A id \in KnownIds : id <= Newest'
    BY <1>1, <1>2, <2>4 DEF Ordered
  <2>7. Ordered'
    BY <1>1, <1>3, <2>1, <2>5, <2>6 DEF Ordered, Ascending
  <2>8. Len(report) + 1 \notin KnownIds
    BY <1>1, <1>2, <2>4 DEF Ordered
  <2>9. Reported'
    BY <1>1, <2>1, <2>2, <2>3, <2>5, <2>8 DEF Reported
  <2>10. QED
    BY <2>7, <2>9
<1>11. CASE PushDefer
  <2>1. /\ queue' = queue /\ HeldBack = push_list /\ HeldBack' = Append(push_list, call.sb)
        /\ faults' = faults /\ w_at = "defer" /\ w_at' = "loop"
        /\ report' = Append(report, [safe |-> call.safe, ret |-> 0])
    BY <1>11 DEF PushDefer, Return, fifo, HeldBack
  <2>2. /\ Len(report') = Len(report) + 1
        /\ \A i \in 1 .. Len(report') :
             \/ i \in 1 .. Len(report) /\ report'[i] = report[i]
             \/ /\ i = Len(report) + 1
                /\ report'[i].safe = call.safe /\ report'[i].ret = 0
    BY <1>6, <1>8, <2>1
  <2>3. Newest = Len(report) /\ Newest' = Len(report) + 1
    BY <2>1, <2>2 DEF Newest
  <2>4. Older(KnownIds, {call.sb.id})
    BY <1>1, <1>2, <1>6, <2>1, <2>3 DEF Older, Ordered
  <2>5. Older(HeldIds, {call.sb.id})
    BY <2>4 DEF Older, KnownIds
  <2>6. HeldIds' = HeldIds \cup {call.sb.id} /\ Ascending(HeldBack')
    BY <1>1, <1>2, <1>6, <2>1, <2>5, AppendIds DEF HeldIds, Ordered
  <2>7. QueueIds' = QueueIds /\ KnownIds' = KnownIds \cup {Len(report) + 1}
    BY <1>3, <1>6, <2>1, <2>6 DEF KnownIds, QueueIds
  <2>8. InTurn(Handled', InHandIds', QueueIds', HeldIds')
    BY <1>1, <1>3, <2>4, <2>6, <2>7 DEF Ordered, InTurn, Older, KnownIds
  <2>9. \A id \in KnownIds' : id <= Newest'
    BY <1>1, <1>2, <2>3, <2>7 DEF Ordered
  <2>10. Ordered'
    BY <1>1, <1>3, <2>1, <2>6, <2>8, <2>9 DEF Ordered, Ascending
  <2>11. Reported'
    BY <1>1, <2>1, <2>2, <2>7 DEF Reported
  <2>12. QED
    BY <2>10, <2>11
<1>12. CASE WriterKilled
  <2>1. /\ queue' = queue /\ HeldBack' = <<>> /\ faults' = faults + 1 /\ w_at' = "loop"
        /\ \/ call = NoCall /\ report' = report
           \/ /\ call # NoCall
              /\ report' = Append(report, [safe |-> call.safe, ret |-> NeverReturned])
    BY <1>12 DEF WriterKilled, fifo, HeldBack
  <2>2. /\ \/ call = NoCall /\ Len(report') = Len(report)
           \/ call # NoCall /\ Len(report') = Len(report) + 1
        /\ \A i \in 1 .. Len(report') :
             \/ i \in 1 .. Len(report) /\ report'[i] = report[i]
             \/ i = Len(report) + 1 /\ report'[i].ret = NeverReturned
    BY <1>8, <2>1
  <2>3. HeldIds' = {} /\ QueueIds' = QueueIds
    BY <2>1 DEF HeldIds, QueueIds, IdsOf
  <2>4. KnownIds' \subseteq KnownIds
    BY <1>3, <2>3 DEF KnownIds
  <2>5. Newest <= Newest' /\ Newest' \in Nat /\ Newest \in Nat
    <3>1. /\ Newest' = Len(report')
          /\ w_at = "push_wake" => call # NoCall
      BY <1>1, <2>1 DEF Newest, TypeOK
    <3>2. Len(report') \in {Len(report), Len(report) + 1}
      BY <2>2
    <3>3. w_at = "push_wake" => Len(report') = Len(report) + 1
      BY <2>2, <3>1
    <3>4. Newest \in {Len(report), Len(report) + 1} /\ (w_at # "push_wake" => Newest = Len(report))
      BY DEF Newest
    <3>5. Len(report) \in Nat
      BY <1>2
    <3>6. Newest <= Newest' /\ Newest' \in Nat
      BY <3>1, <3>2, <3>3, <3>5 DEF Newest
    <3>7. QED
      BY <3>4, <3>5, <3>6
  <2>6. InTurn(Handled', InHandIds', QueueIds', HeldIds')
    BY <1>1, <1>3, <2>3 DEF Ordered, InTurn, Older
  <2>7. \A id \in KnownIds' : id <= Newest'
    BY <1>1, <1>2, <2>4, <2>5 DEF Ordered
  <2>8. Ordered'
    BY <1>1, <1>3, <2>1, <2>6, <2>7 DEF Ordered, Ascending
  <2>9. faults' # 0 /\ NeverReturned # -1 /\ NeverReturned # 0
    BY <1>2, <2>1 DEF NeverReturned
  <2>10. Reported'
    BY <1>1, <2>1, <2>2, <2>4, <2>9 DEF Reported
  <2>11. QED
    BY <2>8, <2>10
<1>13. QED
  BY <1>4, <1>5, <1>7, <1>9, <1>10, <1>11, <1>12 DEF WriterStep

LEMMA OrderStepReader ==
  ASSUME OrderInv, TypeOK', Calling',
         ReaderStep \/ PullNoMemory \/ ReaderKilled \/ UNCHANGED vars
  PROVE  Ordered' /\ Reported'
<1>1. TypeOK /\ Calling /\ Ordered /\ Reported
  BY DEF OrderInv
<1>2. /\ InHand \in Seq(Blocks) /\ queue \in Seq(Blocks)
      /\ KnownIds \subseteq Ids
      /\ Len(report) \in Nat /\ Ids \subseteq Nat /\ faults \in Nat
  BY <1>1, Places DEF TypeOK
<1>3. /\ HeldBack' = HeldBack /\ HeldIds' = HeldIds
      /\ w_at' = w_at /\ report' = report /\ Newest' = Newest
  BY DEF ReaderStep, PullNoMemory, ReaderKilled, Wake, Pull, Handle, PullEmpty, PullBatchEnd,
     EndPull, vars, writer, HeldBack, HeldIds, IdsOf, Newest
<1>4. InHandIds = IF r_at = "handle" THEN {out.id} ELSE {}
  <2>1. CASE r_at = "handle"
    <3>1. InHand = <<out>>
      BY <2>1 DEF InHand
    <3>2. Len(InHand) = 1 /\ InHand[1] = out
      BY <3>1
    <3>3. QED
      BY <2>1, <3>2 DEF InHandIds, IdsOf
  <2>2. CASE r_at # "handle"
    BY <2>2 DEF InHandIds, InHand, IdsOf
  <2>3. QED
    BY <2>1, <2>2
<1>5. InHandIds' = IF r_at' = "handle" THEN {out'.id} ELSE {}
  <2>1. CASE r_at' = "handle"
    <3>1. InHand' = <<out'>>
      BY <2>1 DEF InHand
    <3>2. Len(InHand') = 1 /\ InHand'[1] = out'
      BY <3>1
    <3>3. QED
      BY <2>1, <3>2 DEF InHandIds, IdsOf
  <2>2. CASE r_at' # "handle"
    BY <2>2 DEF InHandIds, InHand, IdsOf
  <2>3. QED
    BY <2>1, <2>2
<1>6. CASE Wake \/ PullEmpty \/ PullBatchEnd \/ UNCHANGED vars
  <2>1. queue' = queue /\ handled' = handled /\ faults' = faults
    BY <1>6 DEF Wake, PullEmpty, PullBatchEnd, EndPull, Fifo!FindEmpty, vars, fifo, reader
  <2>2. InHandIds' = InHandIds
    BY <1>4, <1>5, <1>6 DEF Wake, PullEmpty, PullBatchEnd, EndPull, vars, fifo, reader
  <2>3. Handled' = Handled /\ QueueIds' = QueueIds /\ KnownIds' = KnownIds
    BY <1>3, <2>1, <2>2 DEF Handled, QueueIds, KnownIds
  <2>4. Ordered'
    BY <1>1, <1>3, <2>1, <2>2, <2>3 DEF Ordered, Ascending
  <2>5. Reported'
    BY <1>1, <1>3, <2>1, <2>3 DEF Reported
  <2>6. QED
    BY <2>4, <2>5
<1>7. ASSUME Fifo!RemoveHead
      PROVE  /\ Head(queue) \in Blocks /\ QueueIds = QueueIds' \cup {Head(queue).id}
             /\ Ascending(queue') /\ Older({Head(queue).id}, QueueIds')
  BY <1>1, <1>2, <1>7, TailIds DEF Fifo!RemoveHead, QueueIds, Ordered
<1>8. CASE Pull
  <2> DEFINE b == Head(queue)
  <2>1. /\ b \in Blocks /\ QueueIds = QueueIds' \cup {b.id}
        /\ Ascending(queue') /\ Older({b.id}, QueueIds')
    BY <1>7, <1>8 DEF Pull, Fifo!Pull
  <2>2. /\ out' = b /\ r_at # "handle" /\ r_at' = "handle"
        /\ handled' = handled /\ faults' = faults
    BY <1>8 DEF Pull, Fifo!Pull
  <2> HIDE DEF b
  <2>3. InHandIds = {} /\ InHandIds' = {b.id} /\ Handled' = Handled
    BY <1>4, <1>5, <2>2 DEF Handled
  <2>4. KnownIds' = KnownIds
    BY <1>3, <2>1, <2>3 DEF KnownIds
  <2>5. InTurn(Handled', InHandIds', QueueIds', HeldIds')
    BY <1>1, <1>3, <2>1, <2>3 DEF Ordered, InTurn, Older
  <2>6. Ordered'
    BY <1>1, <1>3, <2>1, <2>2, <2>4, <2>5 DEF Ordered, Ascending
  <2>7. Reported'
    BY <1>1, <1>3, <2>2, <2>4 DEF Reported
  <2>8. QED
    BY <2>6, <2>7
<1>9. CASE Handle
  <2>1. /\ r_at = "handle" /\ r_at' = "pull" /\ handled' = Append(handled, out.id)
        /\ queue' = queue /\ faults' = faults
    BY <1>9 DEF Handle, fifo
  <2>2. InHandIds = {out.id} /\ InHandIds' = {} /\ QueueIds' = QueueIds
    BY <1>4, <1>5, <2>1 DEF QueueIds
  <2>3. handled \in Seq(Ids) /\ out.id \in Ids
    BY <1>1, <2>1 DEF TypeOK, Blocks, Fifo!Blocks
  <2>4. /\ Len(handled') = Len(handled) + 1 /\ Len(handled) \in Nat
        /\ \A i \in 1 .. Len(handled) : handled'[i] = handled[i]
        /\ handled'[Len(handled) + 1] = out.id
    BY <2>1, <2>3, AppendProperties, LenProperties
  <2>5. Handled' = Handled \cup {out.id}
    BY <2>4 DEF Handled
  <2>6. KnownIds' = KnownIds
    BY <1>3, <2>2, <2>5 DEF KnownIds
  <2>7. Older(Handled, {out.id})
    BY <1>1, <2>2 DEF Ordered, InTurn
  <2>8. \A i, j \in 1 .. Len(handled') : i < j => handled'[i] < handled'[j]
    BY <1>1, <2>4, <2>7 DEF Older, Handled, Ordered
  <2>9. InTurn(Handled', InHandIds', QueueIds', HeldIds')
    BY <1>1, <1>3, <2>2, <2>5 DEF Ordered, InTurn, Older
  <2>10. Ordered'
    BY <1>1, <1>3, <2>1, <2>6, <2>8, <2>9 DEF Ordered, Ascending
  <2>11. Reported'
    BY <1>1, <1>3, <2>1, <2>6 DEF Reported
  <2>12. QED
    BY <2>10, <2>11
<1>10. CASE PullNoMemory \/ ReaderKilled
  <2>1. handled' = handled /\ Handled' = Handled /\ faults' = faults + 1
    BY <1>10 DEF PullNoMemory, ReaderKilled, EndPull, Handled
  <2>2. InHandIds' = {}
    BY <1>5, <1>10 DEF PullNoMemory, ReaderKilled, EndPull
  <2>3. QueueIds' \subseteq QueueIds /\ Ascending(queue')
    <3>1. CASE PullNoMemory
      BY <1>7, <3>1 DEF PullNoMemory, Fifo!Skip
    <3>2. CASE ReaderKilled
      BY <1>1, <3>2 DEF ReaderKilled, fifo, QueueIds, Ordered, Ascending
    <3>3. QED
      BY <1>10, <3>1, <3>2
  <2>4. KnownIds' \subseteq KnownIds
    BY <1>3, <2>1, <2>2, <2>3 DEF KnownIds
  <2>5. InTurn(Handled', InHandIds', QueueIds', HeldIds')
    BY <1>1, <1>3, <2>1, <2>2, <2>3 DEF Ordered, InTurn, Older
  <2>6. Ordered'
    BY <1>1, <1>3, <2>1, <2>3, <2>4, <2>5 DEF Ordered, Ascending
  <2>7. faults' # 0
    BY <1>2, <2>1
  <2>8. Reported'
    BY <1>1, <1>3, <2>4, <2>7 DEF Reported
  <2>9. QED
    BY <2>6, <2>8
<1>11. QED
  BY <1>6, <1>8, <1>9, <1>10 DEF ReaderStep

LEMMA OrderInductive == OrderInv /\ [Next]_vars => OrderInv'
<1> SUFFICES ASSUME OrderInv, [Next]_vars PROVE OrderInv'
  OBVIOUS
<1>1. TypeOK /\ Calling
  BY DEF OrderInv
<1>2. CASE (\E len \in Lens, safe \in BOOLEAN : Call(len, safe)) \/ WriterStep \/ WriterKilled
  BY <1>1, <1>2, TypeStepWriter, OrderStepWriter DEF OrderInv
<1>3. CASE ReaderStep \/ PullNoMemory \/ ReaderKilled \/ UNCHANGED vars
  BY <1>1, <1>3, TypeStepReader, OrderStepReader DEF OrderInv
<1>4. QED
  BY <1>2, <1>3 DEF Next

\* The places one behind the other are OnTheWay.
LEMMA OnTheWayIds ==
  ASSUME OrderInv
  PROVE  /\ OnTheWay \in Seq(Blocks) /\ Ascending(OnTheWay)
         /\ IdsOf(OnTheWay) = InHandIds \cup QueueIds \cup HeldIds
<1>1. /\ InHand \in Seq(Blocks) /\ HeldBack \in Seq(Blocks) /\ queue \in Seq(Blocks)
      /\ Ordered
  BY Places DEF OrderInv, TypeOK
<1> DEFINE s == InHand \o queue
<1>2. Ascending(InHand)
  <2>1. Len(InHand) \in {0, 1}
    BY DEF InHand
  <2>2. QED
    BY <2>1 DEF Ascending
<1>3. Older(InHandIds, QueueIds) /\ Older(InHandIds \cup QueueIds, HeldIds)
  BY <1>1 DEF Ordered, InTurn, Older
<1>4. s \in Seq(Blocks) /\ IdsOf(s) = InHandIds \cup QueueIds /\ Ascending(s)
  BY <1>1, <1>2, <1>3, ConcatIds DEF InHandIds, QueueIds, Ordered
<1> HIDE DEF s
<1>5. /\ s \o HeldBack \in Seq(Blocks) /\ Ascending(s \o HeldBack)
      /\ IdsOf(s \o HeldBack) = InHandIds \cup QueueIds \cup HeldIds
  BY <1>1, <1>3, <1>4, ConcatIds DEF HeldIds, Ordered
<1>6. QED
  BY <1>5 DEF s, OnTheWay

LEMMA OrderImplies == OrderInv => InOrder /\ ReportsTruly
<1> SUFFICES ASSUME OrderInv PROVE InOrder /\ ReportsTruly
  OBVIOUS
<1>1. /\ TypeOK /\ Ordered /\ Reported
      /\ KnownIds \subseteq Ids /\ Ids \subseteq Nat /\ Len(report) \in Nat
  BY Places DEF OrderInv
<1> DEFINE way == [i \in 1 .. Len(OnTheWay) |-> OnTheWay[i].id]
           all == handled \o way
<1>2. /\ OnTheWay \in Seq(Blocks) /\ Ascending(OnTheWay)
      /\ IdsOf(OnTheWay) = InHandIds \cup QueueIds \cup HeldIds
  BY OnTheWayIds
<1>3. Len(OnTheWay) \in Nat /\ handled \in Seq(Ids)
  BY <1>1, <1>2, LenProperties DEF TypeOK
<1>4. way \in Seq(Ids) /\ Len(way) = Len(OnTheWay)
      /\ \A i \in 1 .. Len(way) : way[i] = OnTheWay[i].id
  <2>1. \A i \in 1 .. Len(OnTheWay) : OnTheWay[i].id \in Ids
    <3>1. \A i \in 1 .. Len(OnTheWay) : OnTheWay[i] \in Blocks
      BY <1>2, ElementOfSeq
    <3>2. QED
      BY <3>1 DEF Blocks, Fifo!Blocks
  <2>2. way \in [1 .. Len(OnTheWay) -> Ids]
    BY <2>1
  <2>3. QED
    BY <1>3, <2>2, SeqDef
<1> HIDE DEF way
<1>5. /\ Len(all) = Len(handled) + Len(way) /\ Len(handled) \in Nat /\ Len(way) \in Nat
      /\ \A i \in 1 .. Len(all) :
           \/ i \in 1 .. Len(handled) /\ all[i] = handled[i]
           \/ /\ i > Len(handled) /\ i - Len(handled) \in 1 .. Len(way)
              /\ all[i] = way[i - Len(handled)]
  <2>1. /\ Len(all) = Len(handled) + Len(way)
        /\ \A i \in 1 .. Len(handled) + Len(way) :
             all[i] = IF i <= Len(handled) THEN handled[i] ELSE way[i - Len(handled)]
    BY <1>3, <1>4, ConcatProperties
  <2>2. Len(handled) \in Nat /\ Len(way) \in Nat
    BY <1>3, <1>4, LenProperties
  <2> HIDE DEF all
  <2>3. QED
    BY <2>1, <2>2
<1> HIDE DEF all
<1>6. \A i \in 1 .. Len(way) : way[i] \in InHandIds \cup QueueIds \cup HeldIds
  BY <1>2, <1>4 DEF IdsOf
<1>7. \A i \in 1 .. Len(handled) : handled[i] \in Handled
  BY DEF Handled
<1>8. Older(Handled, InHandIds \cup QueueIds \cup HeldIds)
  BY <1>1 DEF Ordered, InTurn, Older
<1>9. ASSUME NEW i \in 1 .. Len(all), NEW j \in 1 .. Len(all), i < j
      PROVE  all[i] < all[j]
  <2>1. CASE j \in 1 .. Len(handled) /\ all[j] = handled[j]
    <3>1. i \in 1 .. Len(handled) /\ all[i] = handled[i]
      BY <1>5, <1>9, <2>1
    <3>2. QED
      BY <1>1, <1>9, <2>1, <3>1 DEF Ordered
  <2>2. CASE j - Len(handled) \in 1 .. Len(way) /\ all[j] = way[j - Len(handled)]
    <3>1. CASE i \in 1 .. Len(handled) /\ all[i] = handled[i]
      BY <1>6, <1>7, <1>8, <2>2, <3>1 DEF Older
    <3>2. CASE i - Len(handled) \in 1 .. Len(way) /\ all[i] = way[i - Len(handled)]
      <4>1. i - Len(handled) < j - Len(handled)
        BY <1>5, <1>9
      <4>2. QED
        BY <1>2, <1>4, <2>2, <3>2, <4>1 DEF Ascending
    <3>3. QED
      BY <1>5, <3>1, <3>2
  <2>3. QED
    BY <1>5, <2>1, <2>2
<1>10. ASSUME NEW i \in 1 .. Len(all) PROVE all[i] \in KnownIds
  BY <1>5, <1>6, <1>7 DEF KnownIds
<1>11. InOrder
  <2>1. \A i \in 1 .. Len(all) : all[i] <= Newest
    BY <1>1, <1>10 DEF Ordered
  <2>2. QED
    BY <1>1, <1>9, <2>1 DEF InOrder, all, way, Newest
<1>12. \A id : Known(id) <=> id \in KnownIds
  BY <1>2 DEF Known, KnownIds, Handled, IdsOf
<1>13. ReportsTruly
  BY <1>1, <1>12 DEF ReportsTruly, Reported
<1>14. QED
  BY <1>11, <1>13

\* Blocks are handled at most once and in the order of the calls of recv_push
\* (send_push), whichever were held back, dropped or lost in a crash: InOrder.
THEOREM OrderKept == Spec => []InOrder
<1>1. Init => OrderInv
  BY TypeInit, OrderInit DEF OrderInv
<1>2. OrderInv => InOrder
  BY OrderImplies
<1>3. QED
  BY <1>1, <1>2, OrderInductive, PTL DEF Spec

\* A block recv_push (send_push) said it would not send is never handled, and
\* one it accepted with "safe" is not lost while nobody is killed: ReportsTruly.
THEOREM ReportsAreTrue == Spec => []ReportsTruly
<1>1. Init => OrderInv
  BY TypeInit, OrderInit DEF OrderInv
<1>2. OrderInv => ReportsTruly
  BY OrderImplies
<1>3. QED
  BY <1>1, <1>2, OrderInductive, PTL DEF Spec

-----------------------------------------------------------------------------
(***************************************************************************)
(* No block is left behind.                                                *)
(***************************************************************************)

\* A set of natural numbers has a least one: what an induction rests on.
LEMMA LeastOne ==
  ASSUME NEW T \in SUBSET Nat, T # {}
  PROVE  \E m \in T : \A n \in T : m <= n
<1> DEFINE R == OpToRel(<, Nat)
<1>1. IsWellFoundedOn(R, Nat)
  BY NatLessThanWellFounded
<1>2. \A m, n \in Nat : m < n => <<m, n>> \in R
  BY DEF OpToRel
<1> HIDE DEF R
<1>3. PICK m \in T : \A n \in T : <<n, m>> \notin R
  BY <1>1, WFMin
<1>4. \A n \in T : ~(n < m)
  BY <1>2, <1>3
<1>5. QED
  BY <1>4

LEMMA TotalType == \A b \in Blocks : Fifo!Total(b) \in Nat /\ Fifo!Total(b) >= HeadLen
<1>1. HeadLen \in Nat /\ Lens \subseteq Nat
  BY ChannelAssumption
<1>2. SUFFICES ASSUME NEW b \in Blocks
               PROVE  Fifo!Total(b) \in Nat /\ Fifo!Total(b) >= HeadLen
  OBVIOUS
<1>3. b.len \in Nat
  BY <1>1 DEF Blocks, Fifo!Blocks
<1>4. QED
  BY <1>1, <1>3 DEF Fifo!Total

\* A block more, behind the others ...
LEMMA LaidPush ==
  ASSUME NEW q \in Seq(Blocks), NEW n \in Int, NEW b \in Blocks, LaidOut(q, n)
  PROVE  LaidOut(Append(q, b), n + Fifo!Total(b))
<1>1. PICK pos \in [0 .. Len(q) -> Int] :
        /\ pos[0] = 0 /\ pos[Len(q)] = n
        /\ \A i \in 1 .. Len(q) : pos[i] = pos[i - 1] + Fifo!Total(q[i])
  BY DEF LaidOut
<1> DEFINE t == Append(q, b)  m == n + Fifo!Total(b)
<1>2. /\ Len(t) = Len(q) + 1 /\ Len(q) \in Nat
      /\ \A i \in 1 .. Len(q) : t[i] = q[i]
      /\ t[Len(q) + 1] = b
  BY AppendProperties, LenProperties
<1>3. m \in Int
  BY TotalType
<1> DEFINE new == [i \in 0 .. Len(t) |-> IF i = Len(t) THEN m ELSE pos[i]]
<1>4. m = n + Fifo!Total(b)
  OBVIOUS
<1> HIDE DEF t, m
<1>5. new \in [0 .. Len(t) -> Int]
  BY <1>2, <1>3
<1>6. new[0] = 0 /\ new[Len(t)] = m
  BY <1>1, <1>2
<1>7. ASSUME NEW i \in 1 .. Len(t) PROVE new[i] = new[i - 1] + Fifo!Total(t[i])
  <2>1. CASE i = Len(t)
    <3>1. i - 1 = Len(q) /\ i - 1 \in 0 .. Len(t) /\ i - 1 # Len(t) /\ t[i] = b
      BY <1>2, <2>1
    <3>2. new[i - 1] = n /\ new[i] = m
      BY <1>1, <2>1, <3>1
    <3>3. QED
      BY <1>4, <3>1, <3>2
  <2>2. CASE i # Len(t)
    <3>1. i \in 1 .. Len(q) /\ i - 1 # Len(t) /\ i - 1 \in 0 .. Len(t) /\ t[i] = q[i]
      BY <1>2, <2>2
    <3>2. new[i - 1] = pos[i - 1] /\ new[i] = pos[i]
      BY <2>2, <3>1
    <3>3. QED
      BY <1>1, <3>1, <3>2
  <2>3. QED
    BY <2>1, <2>2
<1>8. LaidOut(t, m)
  <2> HIDE DEF new
  <2>1. QED
    BY <1>5, <1>6, <1>7 DEF LaidOut
<1>9. QED
  BY <1>8 DEF t, m

\* ... and the first one less.
LEMMA LaidPull ==
  ASSUME NEW q \in Seq(Blocks), q # <<>>, NEW n \in Int, LaidOut(q, n)
  PROVE  LaidOut(Tail(q), n - Fifo!Total(Head(q)))
<1>1. PICK pos \in [0 .. Len(q) -> Int] :
        /\ pos[0] = 0 /\ pos[Len(q)] = n
        /\ \A i \in 1 .. Len(q) : pos[i] = pos[i - 1] + Fifo!Total(q[i])
  BY DEF LaidOut
<1> DEFINE t == Tail(q)  k == Fifo!Total(Head(q))  m == n - k
<1>2. /\ Len(t) = Len(q) - 1 /\ Head(q) = q[1] /\ Head(q) \in Blocks
      /\ \A i \in 1 .. Len(t) : t[i] = q[i + 1]
      /\ Len(q) \in Nat \ {0}
  BY HeadTailProperties, EmptySeq
<1>3. k \in Int
  BY <1>2, TotalType
<1>4. pos[1] = k /\ m = n - k
  <2>1. 1 \in 1 .. Len(q) /\ 1 - 1 = 0
    BY <1>2
  <2>2. pos[1] = pos[0] + Fifo!Total(q[1])
    BY <1>1, <2>1
  <2>3. QED
    BY <1>1, <1>2, <1>3, <2>2
<1> DEFINE new == [i \in 0 .. Len(t) |-> pos[i + 1] - k]
<1> HIDE DEF t, k, m
<1>5. new \in [0 .. Len(t) -> Int]
  BY <1>2, <1>3
<1>6. new[0] = 0 /\ new[Len(t)] = m
  BY <1>1, <1>2, <1>3, <1>4
<1>7. ASSUME NEW i \in 1 .. Len(t) PROVE new[i] = new[i - 1] + Fifo!Total(t[i])
  <2>1. i + 1 \in 1 .. Len(q) /\ (i + 1) - 1 = i /\ (i - 1) + 1 = i
        /\ i - 1 \in 0 .. Len(t) /\ i \in 0 .. Len(t) /\ i \in 0 .. Len(q) /\ i + 1 \in 0 .. Len(q)
    BY <1>2
  <2>2. new[i - 1] = pos[i] - k /\ new[i] = pos[i + 1] - k /\ t[i] = q[i + 1]
    BY <1>2, <2>1
  <2>3. pos[i + 1] = pos[i] + Fifo!Total(q[i + 1])
    BY <1>1, <2>1
  <2>4. q[i + 1] \in Blocks
    BY <2>1, ElementOfSeq
  <2>5. Fifo!Total(q[i + 1]) \in Int /\ pos[i] \in Int
    <3>1. pos[i] \in Int
      BY <1>1, <2>1
    <3>2. Fifo!Total(q[i + 1]) \in Nat
      BY <2>4, TotalType
    <3>3. QED
      BY <3>1, <3>2
  <2>6. QED
    BY <1>3, <2>2, <2>3, <2>5
<1>8. LaidOut(t, m)
  <2> HIDE DEF new
  <2>1. QED
    BY <1>5, <1>6, <1>7 DEF LaidOut
<1>9. QED
  BY <1>8 DEF t, m, k

\* Each block takes its head at least, by induction on their number.
LEMMA LaidBound ==
  ASSUME NEW q \in Seq(Blocks), NEW n \in Int, LaidOut(q, n)
  PROVE  Len(q) \in Nat /\ HeadLen * Len(q) <= n
<1>1. PICK pos \in [0 .. Len(q) -> Int] :
        /\ pos[0] = 0 /\ pos[Len(q)] = n
        /\ \A i \in 1 .. Len(q) : pos[i] = pos[i - 1] + Fifo!Total(q[i])
  BY DEF LaidOut
<1>2. Len(q) \in Nat /\ HeadLen \in Nat
  BY LenProperties, ChannelAssumption
<1> DEFINE Bad == {i \in 0 .. Len(q) : ~(HeadLen * i <= pos[i])}
<1>3. ASSUME Bad # {} PROVE FALSE
  <2>1. Bad \in SUBSET Nat
    BY <1>2
  <2>2. PICK m \in Bad : \A i \in Bad : m <= i
    <3> HIDE DEF Bad
    <3>1. QED
      BY <1>3, <2>1, LeastOne
  <2>3. m # 0
    <3>1. HeadLen * 0 = 0
      BY <1>2, SMT
    <3>2. QED
      BY <1>1, <2>2, <3>1
  <2>4. m \in 1 .. Len(q) /\ m - 1 \in 0 .. Len(q) /\ m - 1 \in Nat /\ m - 1 < m
    BY <1>2, <2>2, <2>3
  <2>5. HeadLen * (m - 1) <= pos[m - 1]
    BY <2>2, <2>4
  <2>6. HeadLen * m = HeadLen * (m - 1) + HeadLen /\ HeadLen * (m - 1) \in Int
    BY <1>2, <2>4, SMT
  <2>7. q[m] \in Blocks
    BY <2>4, ElementOfSeq
  <2>8. Fifo!Total(q[m]) \in Nat /\ Fifo!Total(q[m]) >= HeadLen
    BY <2>7, TotalType
  <2>9. pos[m] = pos[m - 1] + Fifo!Total(q[m]) /\ pos[m - 1] \in Int
    BY <1>1, <2>4
  <2>10. HeadLen * m <= pos[m]
    <3> HIDE DEF Bad
    <3> DEFINE x == HeadLen * (m - 1)  y == pos[m - 1]  z == Fifo!Total(q[m])
    <3>1. x \in Int /\ y \in Int /\ z \in Nat /\ x <= y /\ HeadLen <= z
      BY <2>5, <2>6, <2>8, <2>9
    <3>2. HeadLen * m = x + HeadLen /\ pos[m] = y + z
      BY <2>6, <2>9
    <3> HIDE DEF x, y, z
    <3>3. QED
      BY <1>2, <3>1, <3>2
  <2>11. QED
    BY <2>2, <2>10
<1>4. Len(q) \in 0 .. Len(q) /\ Len(q) \notin Bad
  BY <1>2, <1>3
<1>5. QED
  BY <1>1, <1>2, <1>4

\* The bytes of the ring are what its blocks take, and never more than it has.
LEMMA LaidStep ==
  ASSUME TypeOK, Calling, Laid, [Next]_vars
  PROVE  Laid'
<1>1. bytes \in Int /\ queue \in Seq(Blocks) /\ Size \in Nat
  BY ChannelAssumption DEF TypeOK
<1>2. ASSUME NEW b \in Blocks, Fifo!Push(b) PROVE Laid'
  BY <1>1, <1>2, LaidPush DEF Fifo!Push, Laid
<1>3. ASSUME Fifo!RemoveHead PROVE Laid'
  <2>1. queue # <<>> /\ queue' = Tail(queue) /\ bytes' = bytes - Fifo!Total(Head(queue))
    BY <1>3 DEF Fifo!RemoveHead
  <2>2. Head(queue) \in Blocks
    BY <1>1, <2>1, TailIds
  <2>3. Fifo!Total(Head(queue)) \in Nat
    BY <2>2, TotalType
  <2>4. LaidOut(queue', bytes')
    BY <1>1, <2>1, LaidPull DEF Laid
  <2>5. bytes' <= Size - 1
    BY <1>1, <2>1, <2>3 DEF Laid
  <2>6. QED
    BY <2>4, <2>5 DEF Laid
<1>4. ASSUME UNCHANGED <<queue, bytes>> PROVE Laid'
  BY <1>4 DEF Laid
<1>5. CASE PurgeOne
  <2>1. Head(push_list) \in Blocks
    BY <1>5, TailIds DEF PurgeOne, TypeOK
  <2>2. QED
    BY <1>2, <1>5, <2>1 DEF PurgeOne
<1>6. CASE PushRing
  <2>1. call.sb \in Blocks
    BY <1>6, CallIsBlock DEF PushRing, TypeOK
  <2>2. QED
    BY <1>2, <1>6, <2>1 DEF PushRing
<1>7. CASE Pull \/ PullNoMemory
  BY <1>3, <1>7 DEF Pull, PullNoMemory, Fifo!Pull, Fifo!Skip
<1>8. CASE \/ \E len \in Lens, safe \in BOOLEAN : Call(len, safe)
           \/ Tick \/ PurgeWake \/ PurgeDone \/ PurgeStop \/ PushTooLong \/ PushWake
           \/ CannotPush \/ PushDrop \/ PushDefer \/ PushDeferNoMemory \/ WriterKilled
  BY <1>4, <1>8 DEF Call, Tick, PurgeWake, PurgeDone, PurgeStop, PushTooLong, PushWake,
     CannotPush, PushDrop, PushDefer, PushDeferNoMemory, WriterKilled, Fifo!Refuse, fifo
<1>9. CASE Wake \/ Handle \/ PullEmpty \/ PullBatchEnd \/ ReaderKilled \/ UNCHANGED vars
  BY <1>4, <1>9 DEF Wake, Handle, PullEmpty, PullBatchEnd, ReaderKilled, Fifo!FindEmpty,
     vars, fifo
<1>10. QED
  BY <1>5, <1>6, <1>7, <1>8, <1>9 DEF Next, WriterStep, ReaderStep

\* The ring never holds more blocks than the pipe holds bytes.
LEMMA PipeSuffices ==
  ASSUME PipeHoldsRing, TypeOK, Laid
  PROVE  QueueInPipe
<1>1. HeadLen \in Nat \ {0} /\ PipeCap \in Nat /\ Size \in Nat
  BY ChannelAssumption
<1>2. Len(queue) \in Nat /\ HeadLen * Len(queue) <= bytes /\ bytes \in Int
  BY LaidBound DEF TypeOK, Laid
<1>3. HeadLen * Len(queue) \in Int /\ HeadLen * (PipeCap + 1) \in Int
  BY <1>1, <1>2, SMT
<1>4. HeadLen * Len(queue) < HeadLen * (PipeCap + 1)
  BY <1>1, <1>2, <1>3 DEF PipeHoldsRing, Laid
<1>5. ASSUME Len(queue) > PipeCap PROVE FALSE
  <2>1. HeadLen * Len(queue) >= HeadLen * (PipeCap + 1)
    BY <1>1, <1>2, <1>5, SMT
  <2>2. QED
    BY <1>3, <1>4, <2>1
<1>6. QED
  BY <1>1, <1>2, <1>5 DEF QueueInPipe

LEMMA WakeStepWriter ==
  ASSUME QueueInPipe, WakeInv, TypeOK',
         (\E len \in Lens, safe \in BOOLEAN : Call(len, safe)) \/ WriterStep \/ WriterKilled
  PROVE  EveryBlockWakes'
<1>1. TypeOK /\ Calling /\ EveryBlockWakes
  BY DEF WakeInv
<1>2. Len(queue) \in Nat /\ Len(queue) <= PipeCap
  BY <1>1, LenProperties DEF QueueInPipe, TypeOK
<1>3. /\ PipeCap \in Nat /\ pipe \in 0 .. PipeCap /\ faults \in Nat /\ ToPull \in Nat
      /\ ToWrite \in {0, 1} /\ ToPull' = ToPull
  <2>1. PipeCap \in Nat /\ PullMax \in Nat /\ MaxFaults \in Nat
    BY ChannelAssumption
  <2>2. ToPull' = ToPull
    BY DEF WriterStep, WriterKilled, Call, Tick, PurgeOne, PurgeWake, PurgeDone, PurgeStop,
       PushTooLong, PushRing, PushWake, CannotPush, PushDrop, PushDefer, PushDeferNoMemory,
       AfterPurge, reader, ToPull
  <2>3. QED
    BY <1>1, <2>1, <2>2 DEF TypeOK, ToPull, ToWrite
<1>4. CASE \/ \E len \in Lens, safe \in BOOLEAN : Call(len, safe)
           \/ Tick \/ PurgeDone \/ PurgeStop \/ PushTooLong
           \/ CannotPush \/ PushDrop \/ PushDefer \/ PushDeferNoMemory
  <2>1. /\ queue' = queue /\ pipe' = pipe /\ faults' = faults
        /\ ToWrite = 0 /\ ToWrite' = 0
    BY <1>4 DEF Call, Tick, PurgeDone, PurgeStop, PushTooLong, CannotPush, PushDrop,
       PushDefer, PushDeferNoMemory, AfterPurge, Return, Fifo!Refuse, fifo, ToWrite
  <2>2. QED
    BY <1>1, <1>3, <2>1 DEF EveryBlockWakes
<1>5. CASE PurgeOne \/ PushRing
  <2>1. PICK b : queue' = Append(queue, b)
    BY <1>5 DEF PurgeOne, PushRing, Fifo!Push
  <2>2. pipe' = pipe /\ faults' = faults /\ ToWrite = 0 /\ ToWrite' = 1
    BY <1>5 DEF PurgeOne, PushRing, ToWrite
  <2>3. Len(queue') = Len(queue) + 1
    BY <1>1, <2>1 DEF TypeOK
  <2>4. QED
    BY <1>1, <1>2, <1>3, <2>2, <2>3 DEF EveryBlockWakes
<1>6. CASE PurgeWake \/ PushWake
  <2>1. /\ queue' = queue /\ faults' = faults /\ ToWrite = 1 /\ ToWrite' = 0
        /\ pipe' = IF pipe < PipeCap THEN pipe + 1 ELSE pipe
    BY <1>6 DEF PurgeWake, PushWake, Return, WakeReader, fifo, ToWrite
  <2>2. QED
    BY <1>1, <1>2, <1>3, <2>1 DEF EveryBlockWakes
<1>7. CASE WriterKilled
  <2>1. faults' # 0
    BY <1>3, <1>7 DEF WriterKilled
  <2>2. QED
    BY <2>1 DEF EveryBlockWakes
<1>8. QED
  BY <1>4, <1>5, <1>6, <1>7 DEF WriterStep

LEMMA WakeStepReader ==
  ASSUME WakeInv, TypeOK', ReaderStep \/ PullNoMemory \/ ReaderKilled \/ UNCHANGED vars
  PROVE  EveryBlockWakes'
<1>1. TypeOK /\ EveryBlockWakes /\ queue \in Seq(Blocks)
  BY DEF WakeInv, TypeOK
<1>2. /\ PullMax \in Nat /\ TrashLen \in Nat /\ TrashLen <= PullMax
      /\ pipe \in Nat /\ faults \in Nat /\ count \in Nat /\ Len(queue) \in Nat
  <2>1. PipeCap \in Nat /\ PullMax \in Nat /\ MaxFaults \in Nat /\ TrashLen \in Nat
        /\ TrashLen <= PullMax
    BY ChannelAssumption
  <2>2. QED
    BY <1>1, <2>1, LenProperties DEF TypeOK
<1>3. ToWrite' = ToWrite /\ ToWrite \in {0, 1}
  BY DEF ReaderStep, PullNoMemory, ReaderKilled, Wake, Pull, Handle, PullEmpty, PullBatchEnd,
     EndPull, vars, writer, ToWrite
<1>4. CASE Wake
  <2>1. /\ queue' = queue /\ faults' = faults
        /\ pipe' = IF pipe > TrashLen THEN pipe - TrashLen ELSE 0
        /\ ToPull = 0 /\ ToPull' = PullMax
    BY <1>4 DEF Wake, ReadPipe, fifo, ToPull
  <2>2. QED
    BY <1>1, <1>2, <1>3, <2>1 DEF EveryBlockWakes
<1>5. CASE Pull
  <2>1. /\ queue # <<>> /\ queue' = Tail(queue) /\ pipe' = pipe /\ faults' = faults
        /\ count > 0 /\ ToPull = count /\ ToPull' = count - 1
    BY <1>5 DEF Pull, Fifo!Pull, Fifo!RemoveHead, ToPull
  <2>2. Len(queue') = Len(queue) - 1
    BY <1>1, <2>1, HeadTailProperties
  <2>3. QED
    BY <1>1, <1>2, <1>3, <2>1, <2>2 DEF EveryBlockWakes
<1>6. CASE Handle \/ UNCHANGED vars
  <2>1. queue' = queue /\ pipe' = pipe /\ faults' = faults /\ ToPull' = ToPull
    BY <1>6 DEF Handle, vars, fifo, reader, ToPull
  <2>2. QED
    BY <1>1, <1>3, <2>1 DEF EveryBlockWakes
<1>7. CASE PullEmpty
  <2>1. queue' = <<>> /\ pipe' = pipe /\ ToPull' = 0
    BY <1>7 DEF PullEmpty, EndPull, Fifo!FindEmpty, ToPull
  <2>2. QED
    BY <1>2, <1>3, <2>1 DEF EveryBlockWakes
<1>8. CASE PullBatchEnd
  <2>1. /\ queue' = queue /\ pipe' = pipe /\ faults' = faults /\ ToPull = 0 /\ ToPull' = 0
    BY <1>8 DEF PullBatchEnd, EndPull, fifo, ToPull
  <2>2. QED
    BY <1>1, <1>3, <2>1 DEF EveryBlockWakes
<1>9. CASE PullNoMemory \/ ReaderKilled
  <2>1. faults' # 0
    BY <1>2, <1>9 DEF PullNoMemory, ReaderKilled
  <2>2. QED
    BY <2>1 DEF EveryBlockWakes
<1>10. QED
  BY <1>4, <1>5, <1>6, <1>7, <1>8, <1>9 DEF ReaderStep

\* The reader never waits on an empty pipe while a block is left in shared
\* memory, as long as no more blocks are in it than the pipe holds bytes:
\* EveryBlockWakes.
THEOREM NoBlockLeftBehind == Spec /\ []QueueInPipe => []EveryBlockWakes
<1>1. Init => WakeInv
  <2>1. Init => EveryBlockWakes
    BY DEF Init, Fifo!Init, EveryBlockWakes, ToWrite, ToPull
  <2>2. QED
    BY <2>1, TypeInit DEF WakeInv
<1>2. WakeInv /\ QueueInPipe /\ [Next]_vars => WakeInv'
  <2>1. SUFFICES ASSUME WakeInv, QueueInPipe, [Next]_vars PROVE WakeInv'
    OBVIOUS
  <2>2. TypeOK /\ Calling
    BY <2>1 DEF WakeInv
  <2>3. CASE (\E len \in Lens, safe \in BOOLEAN : Call(len, safe)) \/ WriterStep \/ WriterKilled
    BY <2>1, <2>2, <2>3, TypeStepWriter, WakeStepWriter DEF WakeInv
  <2>4. CASE ReaderStep \/ PullNoMemory \/ ReaderKilled \/ UNCHANGED vars
    BY <2>1, <2>2, <2>4, TypeStepReader, WakeStepReader DEF WakeInv
  <2>5. QED
    BY <2>1, <2>3, <2>4 DEF Next
<1>3. WakeInv => EveryBlockWakes
  BY DEF WakeInv
<1>4. QED
  BY <1>1, <1>2, <1>3, PTL DEF Spec

\* That is always so in a ring that is small enough, because the bytes of the
\* ring are those of the blocks that lie in it.
THEOREM SmallRingInPipe ==
  ASSUME PipeHoldsRing
  PROVE  Spec => []QueueInPipe
<1> DEFINE Inv == PipeHoldsRing /\ TypeOK /\ Calling /\ Laid
<1>1. Init => Laid
  <2>1. SUFFICES ASSUME Init PROVE Laid
    OBVIOUS
  <2>2. queue = <<>> /\ bytes = 0 /\ Size \in Nat \ {0}
    BY <2>1, ChannelAssumption DEF Init, Fifo!Init
  <2>3. Len(<<>>) = 0
    OBVIOUS
  <2>4. LaidOut(<<>>, 0)
    <3> DEFINE pos == [i \in 0 .. 0 |-> 0]
    <3>1. pos \in [0 .. Len(<<>>) -> Int] /\ pos[0] = 0 /\ pos[Len(<<>>)] = 0
      BY <2>3
    <3>2. \A i \in 1 .. Len(<<>>) : pos[i] = pos[i - 1] + Fifo!Total(<<>>[i])
      BY <2>3
    <3> HIDE DEF pos
    <3>3. QED
      BY <3>1, <3>2 DEF LaidOut
  <2>5. QED
    BY <2>2, <2>4 DEF Laid
<1>2. Init => Inv
  BY <1>1, TypeInit
<1>3. Inv /\ [Next]_vars => Inv'
  <2>1. SUFFICES ASSUME Inv, [Next]_vars PROVE Inv'
    OBVIOUS
  <2>2. Laid'
    BY <2>1, LaidStep
  <2>3. TypeOK' /\ Calling'
    BY <2>1, TypeStepWriter, TypeStepReader DEF Next
  <2>4. PipeHoldsRing'
    BY <2>1 DEF PipeHoldsRing
  <2>5. QED
    BY <2>2, <2>3, <2>4
<1>4. Inv => QueueInPipe
  BY PipeSuffices
<1>5. PipeHoldsRing
  OBVIOUS
<1>6. QED
  BY <1>2, <1>3, <1>4, PTL DEF Spec
=============================================================================
