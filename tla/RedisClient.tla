---------------------------- MODULE RedisClient ----------------------------
(***************************************************************************)
(* The connection of one Proxy worker to Redis (hiredis, the blocking      *)
(* part): commands are appended to an output buffer, redisGetReply writes  *)
(* it out and reads until the reader has taken one whole reply off the     *)
(* bytes received.  Writes and reads cut the two streams anywhere.         *)
(*                                                                         *)
(* The reader keeps its place inside a reply, nested arrays included, as a *)
(* stack of tasks, and an unfinished reply as the tree built so far.  An   *)
(* error stays in the context: Proxy::TimeEvent sees it and makes a new    *)
(* connection.  What Redis does is external: it executes whole commands,   *)
(* in order, and answers each once.                                        *)
(***************************************************************************)
EXTENDS Integers, Sequences, FiniteSets, SequencesExt

CONSTANTS Requests,  \* what a request does: the sizes of its pipelines, in order
          Answers,   \* what the other end may answer: records [value, wire]
          MaxDepth,  \* redisReader: the rstack index at which an array is refused (8)
          Discard,   \* redisReaderGetReply: bytes consumed that are worth a move (1024)
          ReadMax,   \* redisBufferRead: the size of its buffer (16384)
          IntMax, LlongMax,  \* INT_MAX and LLONG_MAX
          Addrs,     \* addresses getaddrinfo returns
          MaxRequests, \* bound: requests
          MaxFaults    \* bound: failed calls, the sentinel's too, late answers, connections
                       \* Redis closes

ASSUME RedisClientAssumption ==
  /\ Requests \subseteq Seq(Nat \ {0}) \ {<<>>}
  /\ MaxDepth \in Nat \ {0} /\ Discard \in Nat \ {0} /\ ReadMax \in Nat \ {0}
  /\ IntMax \in Nat /\ LlongMax \in Nat /\ Addrs \in Nat \ {0}
  /\ MaxRequests \in Nat /\ MaxFaults \in Nat

VARIABLES
  c,       \* redisContext: [fd, err, obuf, reader]
  net,     \* the connection: [up, down, open], bytes not yet read by either end
  late,    \* closed connections: commands Redis has received on each
  call,    \* where the worker is in a call
  left,    \* replies still to get in this pipeline
  todo,    \* pipelines this request still has to send
  addr,    \* the address being connected to
  asked,   \* commands issued so far
  answers, \* history: what Redis has answered on this connection, not yet handed out
  last,    \* history: the latest reply handed out, and the answer it stands for
  executed, \* history: how often Redis has executed a command
  requests, faults

work == <<left, todo, requests>>
history == <<asked, answers, last, executed>>
vars == <<c, net, late, call, addr, work, history, faults>>

Calls == {"idle", "get", "write", "read", "got", "connect", "poll"}
Commands == 1 .. asked

-----------------------------------------------------------------------------
(* Replies and the reader's state. *)

Node(type) == [type |-> type, integer |-> 0, str |-> <<>>, element |-> <<>>]
NoReply == Node("null")

\* A task whose type byte has not been read.
Task(idx) == [type |-> "none", elements |-> -1, idx |-> idx]

redisReaderCreate ==
  [buf |-> <<>>, pos |-> 0, err |-> FALSE, rstack |-> <<>>, reply |-> NoReply]

\* The array elements that lead to the item of the topmost task.
Path(rstack) == [k \in 1 .. Len(rstack) - 1 |-> rstack[k + 1].idx + 1]

\* The tree with obj at that place: the store through task->parent->obj, or into
\* r->reply for the root.
Attach(tree, path, obj) ==
  LET at[k \in 0 .. Len(path)] == IF k = 0 THEN tree ELSE at[k - 1].element[path[k]]
      new[k \in 0 .. Len(path)] ==
        IF k = Len(path) THEN obj ELSE [at[k] EXCEPT !.element[path[k + 1]] = new[k + 1]]
  IN new[0]

\* Length of the line that s starts with, -1 when its end has not come.
SeekNewline(s) ==
  LET ends == {i \in 1 .. Len(s) - 1 : s[i] = "cr" /\ s[i + 1] = "lf"}
  IN IF ends = {} THEN -1 ELSE (CHOOSE i \in ends : \A j \in ends : i <= j) - 1

Digits == <<"0", "1", "2", "3", "4", "5", "6", "7", "8", "9">>
Digit(ch) == (CHOOSE i \in 1 .. 10 : Digits[i] = ch) - 1

\* string2ll: the number, and whether s is one that fits.
String2ll(s) ==
  LET UllongMax == 2 * LlongMax + 1
      negative == s # <<>> /\ Head(s) = "-"
      p == IF negative THEN Tail(s) ELSE s
      isNumber == p # <<>> /\ ToSet(p) \subseteq ToSet(Digits) /\ Head(p) # "0"
      \* -1 after an overflow
      AddDigit(n, ch) ==
        IF n = -1 \/ n > UllongMax \div 10 \/ n * 10 > UllongMax - Digit(ch) THEN -1
        ELSE n * 10 + Digit(ch)
      value[i \in 0 .. Len(p)] == IF i = 0 THEN 0 ELSE AddDigit(value[i - 1], p[i])
      v == value[Len(p)]
  IN IF s = <<"0">> THEN [ok |-> TRUE, n |-> 0]
     ELSE IF ~isNumber THEN [ok |-> FALSE, n |-> 0]
     ELSE IF v = -1 THEN [ok |-> FALSE, n |-> 0]
     ELSE IF negative THEN [ok |-> v <= LlongMax + 1, n |-> -v]
     ELSE [ok |-> v <= LlongMax, n |-> v]

-----------------------------------------------------------------------------
(* One item of a reply. *)

Rest(r) == SubSeq(r.buf, r.pos + 1, Len(r.buf))
Line(r) == SubSeq(Rest(r), 1, SeekNewline(Rest(r)))
LineEnded(r) == SeekNewline(Rest(r)) # -1
Ok(r) == [reader |-> r, ok |-> TRUE]
More(r) == [reader |-> r, ok |-> FALSE]

\* __redisReaderSetError.
SetError(r) == More([redisReaderCreate EXCEPT !.err = TRUE])

\* moveToNextTask: up to the innermost array with an element to come.
MoveToNextTask(rstack) ==
  LET open == {k \in 2 .. Len(rstack) : rstack[k].idx # rstack[k - 1].elements - 1}
      top == CHOOSE k \in open : \A j \in open : j <= k
  IN IF open = {} THEN <<>>
     ELSE [SubSeq(rstack, 1, top) EXCEPT ![top] = Task(rstack[top].idx + 1)]

\* An item that has no elements of its own is complete: n bytes, object obj.
Complete(r, n, obj) ==
  Ok([r EXCEPT !.pos = @ + n, !.reply = Attach(@, Path(r.rstack), obj),
               !.rstack = MoveToNextTask(@)])

ProcessLineItem(r) ==
  LET type == Last(r.rstack).type
      value == String2ll(Line(r))
      size == Len(Line(r)) + 2
  IN IF ~LineEnded(r) THEN More(r)
     ELSE IF type # "integer" THEN Complete(r, size, [Node(type) EXCEPT !.str = Line(r)])
     ELSE IF value.ok THEN Complete(r, size, [Node(type) EXCEPT !.integer = value.n])
     ELSE SetError(r)

ProcessBulkItem(r) ==
  LET len == String2ll(Line(r))
      head == Len(Line(r)) + 2
      size == head + len.n + 2
  IN IF ~LineEnded(r) THEN More(r)
     ELSE IF ~len.ok \/ len.n < -1 THEN SetError(r)
     ELSE IF len.n = -1 THEN Complete(r, head, Node("nil"))
     ELSE IF r.pos + size > Len(r.buf) THEN More(r)
     ELSE Complete(r, size, [Node("string") EXCEPT !.str = SubSeq(Rest(r), head + 1, size - 2)])

ProcessMultiBulkItem(r) ==
  LET elements == String2ll(Line(r))
      size == Len(Line(r)) + 2
      obj == [Node("array") EXCEPT !.element = [i \in 1 .. elements.n |-> NoReply]]
  IN IF Len(r.rstack) = MaxDepth + 1 THEN SetError(r)
     ELSE IF ~LineEnded(r) THEN More(r)
     ELSE IF ~elements.ok \/ elements.n < -1 \/ elements.n > IntMax THEN SetError(r)
     ELSE IF elements.n = -1 THEN Complete(r, size, Node("nil"))
     ELSE IF elements.n = 0 THEN Complete(r, size, obj)
     ELSE Ok([r EXCEPT !.pos = @ + size, !.reply = Attach(@, Path(r.rstack), obj),
                       !.rstack = Append([@ EXCEPT ![Len(@)].elements = elements.n], Task(0))])

TypeByte == [ch \in {"-", "+", ":", "$", "*"} |->
  CASE ch = "-" -> "error" [] ch = "+" -> "status" [] ch = ":" -> "integer"
    [] ch = "$" -> "string" [] ch = "*" -> "array"]

ProcessItem(r) ==
  LET needsType == Last(r.rstack).type = "none"
      byte == r.buf[r.pos + 1]
      typed == IF needsType
               THEN [r EXCEPT !.pos = @ + 1, !.rstack[Len(r.rstack)].type = TypeByte[byte]]
               ELSE r
  IN IF needsType /\ r.pos = Len(r.buf) THEN More(r)
     ELSE IF needsType /\ byte \notin DOMAIN TypeByte THEN SetError(r)
     ELSE CASE Last(typed.rstack).type = "string" -> ProcessBulkItem(typed)
            [] Last(typed.rstack).type = "array" -> ProcessMultiBulkItem(typed)
            [] OTHER -> ProcessLineItem(typed)

\* redisReaderGetReply: one turn of its loop, ...
Turn(r) == ProcessItem(IF r.rstack = <<>> THEN [r EXCEPT !.rstack = <<Task(-1)>>] ELSE r)

\* Mutant: with the bytes consumed goes the place in the reply.
DiscardedAnew(r) ==
  IF r.pos >= Discard THEN [r EXCEPT !.buf = Rest(r), !.pos = 0, !.rstack = <<>>] ELSE r

\* ... and what it does after the last.
Discarded(r) == IF r.pos >= Discard THEN [r EXCEPT !.buf = Rest(r), !.pos = 0] ELSE r

RedisReaderFeed(r, bytes) == IF r.err THEN r ELSE [r EXCEPT !.buf = @ \o bytes]

\* What an answer says is what the reader makes of its bytes when they come in one
\* piece: turn by turn, it takes all of them and has the value, or refuses them.
ASSUME AnswersAssumption ==
  \A a \in Answers :
    LET read[k \in 0 .. Len(a.wire)] ==
          IF k = 0 THEN [redisReaderCreate EXCEPT !.buf = a.wire] ELSE Turn(read[k - 1]).reader
    IN /\ a.wire \in Seq(STRING)
       /\ \E n \in 1 .. Len(a.wire) :
            /\ \A k \in 1 .. n - 1 : Turn(read[k - 1]).ok /\ read[k].rstack # <<>>
            /\ \/ read[n].err
               \/ /\ Turn(read[n - 1]).ok /\ read[n].rstack = <<>>
                  /\ Rest(read[n]) = <<>> /\ read[n].reply = a.value

-----------------------------------------------------------------------------
(* The connection. *)

\* A command is cut in writes: two cells of the stream stand for its bytes.
Bytes(n) == <<<<n, "first">>, <<n, "last">>>>
Received(cells) == [k \in 1 .. Len(cells) \div 2 |-> cells[2 * k][1]]
Closed == [up |-> <<>>, down |-> <<>>, open |-> FALSE]

redisContextInit == [fd |-> FALSE, err |-> "none", obuf |-> <<>>, reader |-> redisReaderCreate]
SetContextError(kind) == c' = [c EXCEPT !.err = kind]

Init ==
  /\ c = [redisContextInit EXCEPT !.fd = TRUE]
  /\ net = [Closed EXCEPT !.open = TRUE]
  /\ late = {}
  /\ call = "idle" /\ left = 0 /\ todo = <<>>
  /\ addr = 1
  /\ asked = 0 /\ answers = <<>> /\ executed = <<>>
  /\ last = [reply |-> NoReply, answer |-> NoReply]
  /\ requests = 0 /\ faults = 0

Fault == faults < MaxFaults /\ faults' = faults + 1

\* Redis, external: it executes the next whole command and answers it.
Execute ==
  /\ net.open /\ Len(net.up) >= 2 /\ SubSeq(net.up, 1, 2) = Bytes(net.up[1][1])
  /\ \E a \in Answers :
       /\ net' = [net EXCEPT !.up = SubSeq(@, 3, Len(@)), !.down = @ \o a.wire]
       /\ answers' = Append(answers, a.value)
  /\ executed' = [executed EXCEPT ![net.up[1][1]] = @ + 1]
  /\ UNCHANGED <<c, late, call, addr, work, asked, last, faults>>

\* It executes what it had received on a connection closed since, or drops it.
ExecuteLate ==
  \E q \in late :
    /\ late' = IF Len(q) > 1 THEN (late \ {q}) \cup {Tail(q)} ELSE late \ {q}
    /\ executed' = [executed EXCEPT ![Head(q)] = @ + 1]
    /\ UNCHANGED <<c, net, call, addr, work, asked, answers, last, faults>>
DropLate ==
  \E q \in late :
    /\ late' = late \ {q}
    /\ UNCHANGED <<c, net, call, addr, work, history, faults>>

\* Redis goes away, or closes the connection; what it has sent may be lost.
RedisCloses ==
  /\ net.open /\ Fault
  /\ \E kept \in {net.down, <<>>} : net' = [Closed EXCEPT !.down = kept]
  /\ UNCHANGED <<c, late, call, addr, work, history>>

-----------------------------------------------------------------------------
(* A request. *)

\* redisAppendCommand, for every command of the pipeline, on context ctx.
AppendCommands(ctx, n) ==
  /\ c' = [ctx EXCEPT !.obuf = @ \o FlattenSeq([k \in 1 .. n |-> Bytes(asked + k)])]
  /\ asked' = asked + n
  /\ executed' = executed \o [k \in 1 .. n |-> 0]
  /\ left' = n
  /\ call' = "get"

\* ProcPkgCli calls a BufProcessor function.
ProcPkgCli(pipelines) ==
  /\ call = "idle" /\ requests < MaxRequests
  /\ requests' = requests + 1
  /\ AppendCommands(c, Head(pipelines))
  /\ todo' = Tail(pipelines)
  /\ UNCHANGED <<net, late, addr, answers, last, faults>>

\* REDIS_ERR: the function gives the request up.
GiveUp == call' = "idle" /\ left' = 0 /\ todo' = <<>> /\ UNCHANGED requests

\* Mutant: the next redisGetReply reads before it looks at what is there.
HandOutReads(reader, reply) ==
  LET ctx == [c EXCEPT !.reader = reader]
  IN /\ last' = [reply |-> reply, answer |-> IF answers = <<>> THEN NoReply ELSE Head(answers)]
     /\ answers' = IF answers = <<>> THEN <<>> ELSE Tail(answers)
     /\ \/ /\ left > 1
           /\ c' = ctx /\ left' = left - 1 /\ call' = "read"
           /\ UNCHANGED <<asked, executed, todo>>
        \/ /\ left = 1 /\ todo # <<>>
           /\ AppendCommands(ctx, Head(todo)) /\ todo' = Tail(todo)
        \/ /\ left = 1 /\ todo = <<>>
           /\ c' = ctx /\ left' = 0 /\ call' = "idle"
           /\ UNCHANGED <<asked, executed, todo>>
     /\ UNCHANGED requests

\* redisGetReply hands out the reply; the caller wants the next one, sends its next
\* pipeline or has done.
HandOut(reader, reply) ==
  LET ctx == [c EXCEPT !.reader = reader]
  IN /\ last' = [reply |-> reply, answer |-> IF answers = <<>> THEN NoReply ELSE Head(answers)]
     /\ answers' = IF answers = <<>> THEN <<>> ELSE Tail(answers)
     /\ \/ /\ left > 1
           /\ c' = ctx /\ left' = left - 1 /\ call' = "get"
           /\ UNCHANGED <<asked, executed, todo>>
        \/ /\ left = 1 /\ todo # <<>>
           /\ AppendCommands(ctx, Head(todo)) /\ todo' = Tail(todo)
        \/ /\ left = 1 /\ todo = <<>>
           /\ c' = ctx /\ left' = 0 /\ call' = "idle"
           /\ UNCHANGED <<asked, executed, todo>>
     /\ UNCHANGED requests

\* redisGetReplyFromReader, one turn of the reader's loop: more items to come, the
\* last one, a reply that is not all there, or none that can be read.
GetReplyFromReader(after) ==
  LET turn == Turn(c.reader)
      r == Discarded(turn.reader)
  IN \/ /\ turn.ok /\ turn.reader.rstack # <<>>
        /\ c' = [c EXCEPT !.reader = turn.reader]
        /\ UNCHANGED <<call, work, history>>
     \/ /\ turn.ok /\ turn.reader.rstack = <<>>
        /\ HandOut([r EXCEPT !.reply = NoReply], r.reply)
     \/ /\ ~turn.ok /\ ~turn.reader.err
        /\ c' = [c EXCEPT !.reader = r]
        /\ call' = after /\ UNCHANGED <<work, history>>
     \/ /\ turn.reader.err
        /\ c' = [c EXCEPT !.err = "protocol", !.reader = turn.reader]
        /\ GiveUp /\ UNCHANGED history

\* redisGetReply: replies already there, before anything is written, ...
RedisGetReply ==
  /\ call = "get"
  /\ IF c.reader.err
     THEN SetContextError("protocol") /\ GiveUp /\ UNCHANGED history
     ELSE IF c.reader.buf = <<>> THEN call' = "write" /\ UNCHANGED <<c, work, history>>
     ELSE GetReplyFromReader("write")
  /\ UNCHANGED <<net, late, addr, faults>>

\* ... and in the loop that reads until there is one.
ReplyRead ==
  /\ call = "got"
  /\ GetReplyFromReader("read")
  /\ UNCHANGED <<net, late, addr, faults>>

\* Mutant: what has been written stays in the buffer until all is.
BufferWriteKeeps ==
  /\ call = "write"
  /\ IF c.err # "none" THEN UNCHANGED <<c, net>> /\ GiveUp
     ELSE IF c.obuf = <<>> THEN UNCHANGED <<c, net, work>> /\ call' = "read"
     ELSE /\ net.open
          /\ \E n \in 1 .. Len(c.obuf) :
               /\ net' = [net EXCEPT !.up = @ \o SubSeq(c.obuf, 1, n)]
               /\ c' = [c EXCEPT !.obuf = IF n = Len(@) THEN <<>> ELSE @]
               /\ call' = IF n = Len(c.obuf) THEN "read" ELSE "write"
          /\ UNCHANGED work
  /\ UNCHANGED <<late, addr, history, faults>>

\* redisBufferWrite, in the loop until all is written.
BufferWrite ==
  /\ call = "write"
  /\ IF c.err # "none" THEN UNCHANGED <<c, net>> /\ GiveUp
     ELSE IF c.obuf = <<>> THEN UNCHANGED <<c, net, work>> /\ call' = "read"
     ELSE /\ net.open
          /\ \E n \in 1 .. Len(c.obuf) :
               /\ net' = [net EXCEPT !.up = @ \o SubSeq(c.obuf, 1, n)]
               /\ c' = [c EXCEPT !.obuf = SubSeq(@, n + 1, Len(@))]
               /\ call' = IF n = Len(c.obuf) THEN "read" ELSE "write"
          /\ UNCHANGED work
  /\ UNCHANGED <<late, addr, history, faults>>

\* redisBufferRead.
BufferRead ==
  /\ call = "read" /\ c.err = "none" /\ net.down # <<>>
  /\ \E n \in 1 .. Len(net.down) :
       /\ n <= ReadMax
       /\ net' = [net EXCEPT !.down = SubSeq(@, n + 1, Len(@))]
       /\ c' = [c EXCEPT !.reader = RedisReaderFeed(@, SubSeq(net.down, 1, n))]
  /\ call' = "got"
  /\ UNCHANGED <<late, addr, work, history, faults>>

\* Mutant: a read that times out is to be tried again, by another call.
CallFailsQuietly ==
  /\ call \in {"write", "read"} /\ c.err = "none"
  /\ \/ call = "write" /\ c.obuf # <<>> /\ ~net.open /\ SetContextError("io") /\ UNCHANGED faults
     \/ call = "write" /\ c.obuf # <<>> /\ Fault /\ SetContextError("io")
     \/ call = "read" /\ Fault /\ UNCHANGED c
     \/ call = "read" /\ net.down = <<>> /\ ~net.open /\ SetContextError("eof") /\ UNCHANGED faults
  /\ GiveUp
  /\ UNCHANGED <<net, late, addr, history>>

\* write or read fails: the other end is gone, or a timeout ran out.
CallFails ==
  /\ call \in {"write", "read"} /\ c.err = "none"
  /\ \/ call = "write" /\ c.obuf # <<>> /\ ~net.open /\ SetContextError("io") /\ UNCHANGED faults
     \/ call = "write" /\ c.obuf # <<>> /\ Fault /\ SetContextError("io")
     \/ call = "read" /\ Fault /\ SetContextError("io")
     \/ call = "read" /\ net.down = <<>> /\ ~net.open /\ SetContextError("eof") /\ UNCHANGED faults
  /\ GiveUp
  /\ UNCHANGED <<net, late, addr, history>>

-----------------------------------------------------------------------------
(* A new connection. *)

\* RedisMasterInfo, external: redisFree, then redisConnectWithTimeout up to connect().
Reconnect ==
  /\ call = "idle"
  /\ c' = redisContextInit
  /\ net' = Closed
  /\ late' = IF net.open /\ Len(net.up) >= 2 THEN late \cup {Received(net.up)} ELSE late
  /\ answers' = <<>>
  /\ addr' = 1
  /\ call' = "connect"
  /\ UNCHANGED <<left, todo, asked, last, executed, faults>>

\* Mutant: only what the system calls report is an error.
TimeEventIo == c.err \in {"io", "eof", "other"} /\ Reconnect /\ UNCHANGED requests

\* CheckOrUpdate gets no master from the sentinel: all stays as it is until the next time.
NoSentinel ==
  /\ call = "idle"
  /\ Fault
  /\ UNCHANGED <<c, net, late, call, addr, work, history>>

\* Proxy::TimeEvent.
TimeEvent == c.err # "none" /\ (NoSentinel \/ (Reconnect /\ UNCHANGED requests))

\* MASTER_CHANGE, the one request that replaces a connection in order.
MasterChange == requests < MaxRequests /\ Reconnect /\ requests' = requests + 1

Connected ==
  /\ c' = [c EXCEPT !.fd = TRUE]
  /\ net' = [Closed EXCEPT !.open = TRUE]
  /\ call' = "idle"

\* The connection cannot be made; redisContextCloseFd unless keepFd.
ConnectError(kind, keepFd) ==
  /\ c' = [c EXCEPT !.err = kind, !.fd = keepFd]
  /\ call' = "idle"
  /\ UNCHANGED net

\* _redisContextConnectTcp, one address: connected at once, under way, not to be
\* reached, or refused.
ConnectTcp ==
  /\ call = "connect"
  /\ \/ Connected /\ UNCHANGED <<addr, faults>>
     \/ c' = [c EXCEPT !.fd = TRUE] /\ call' = "poll" /\ UNCHANGED <<net, addr, faults>>
     \/ /\ Fault
        /\ IF addr < Addrs THEN addr' = addr + 1 /\ UNCHANGED <<c, net, call>>
           ELSE ConnectError("other", FALSE) /\ UNCHANGED addr
     \/ Fault /\ ConnectError("io", FALSE) /\ UNCHANGED addr
  /\ UNCHANGED <<late, work, history>>

\* redisContextWaitReady: poll says it can be written to, times out or fails; then
\* redisCheckConnectDone, and redisCheckSocketError for what went wrong.
WaitReady ==
  /\ call = "poll"
  /\ \/ Connected /\ UNCHANGED faults
     \/ Fault /\ ConnectError("io", FALSE)
     \/ Fault /\ ConnectError("io", TRUE)
  /\ UNCHANGED <<late, addr, work, history>>

Next ==
  \/ \E p \in Requests : ProcPkgCli(p)
  \/ RedisGetReply \/ BufferWrite \/ BufferRead \/ ReplyRead \/ CallFails
  \/ TimeEvent \/ MasterChange \/ ConnectTcp \/ WaitReady
  \/ Execute \/ ExecuteLate \/ DropLate \/ RedisCloses

Spec == Init /\ [][Next]_vars

\* The worker runs, its timer fires, a call that can end does; Redis executes what it
\* has received.  A reader that has been called can always take its turn, so its weak
\* fairness is written without ENABLED, which TLC evaluates slowly here.
ReaderRuns ==
  []<>(call \notin {"get", "got"}) \/ []<><<RedisGetReply \/ ReplyRead>>_vars

Fairness ==
  /\ ReaderRuns
  /\ WF_vars(BufferWrite) /\ WF_vars(BufferRead) /\ WF_vars(CallFails)
  /\ WF_vars(TimeEvent) /\ WF_vars(ConnectTcp) /\ WF_vars(WaitReady)
  /\ WF_vars(Execute)

FairSpec == Spec /\ Fairness

-----------------------------------------------------------------------------
(* Properties. *)

\* The state has the shape the code gives it: the task stack describes arrays, and
\* what has been consumed is in the buffer.
TypeOK ==
  /\ c.fd \in BOOLEAN /\ c.err \in {"none", "io", "eof", "protocol", "other"}
  /\ c.reader.pos \in 0 .. Len(c.reader.buf)
  /\ Len(c.reader.rstack) <= MaxDepth + 1
  /\ \A k \in 2 .. Len(c.reader.rstack) :
       /\ c.reader.rstack[k - 1].type = "array"
       /\ c.reader.rstack[k].idx \in 0 .. c.reader.rstack[k - 1].elements - 1
  /\ call \in Calls /\ left \in Nat /\ addr \in 1 .. Addrs
  /\ DOMAIN executed = Commands

\* redisGetReply hands out, as the reply to a command, what Redis answered to that
\* command on this connection: however reads cut the answers, an array comes whole
\* with its elements in place, and no answer stands for the one before or after it,
\* nor one on an earlier connection.  What is no answer of Redis is never handed out.
RepliesInOrder == last.reply = last.answer

\* Between two requests a context without an error is in step with Redis: it is
\* connected, nothing is left to write, no answer is outstanding and none is half
\* read.  One out of step carries an error, or TimeEvent would never replace it.  (And
\* every variable keeps to its range.)
IdleInStep ==
  /\ TypeOK
  /\ call = "idle" /\ c.err = "none" =>
       /\ c.fd
       /\ c.obuf = <<>> /\ net.up = <<>> /\ net.down = <<>> /\ answers = <<>>
       /\ c.reader.pos = Len(c.reader.buf) /\ c.reader.reply = NoReply

\* A command is executed at most once, on whatever connections: what was appended to
\* a context that failed is not written to the one that replaces it.
ExecutedOnce == \A n \in Commands : executed[n] <= 1

\* A context with an error hands out no reply, not even one that has come in whole,
\* until it has been replaced: a pipeline that was cut off is never resumed.
FailedGivesNothing == [][c.err # "none" => last' = last]_vars

\* Every request ends, and the worker gets a connection that works again.
Recovers == []<>(call = "idle" /\ c.err = "none")
===========================================================================
