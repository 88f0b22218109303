# Verification of friend_serv

friend_serv stores who attends to whose feed. Clients talk TCP to a small
pre-forking server (`src/async-server`), whose worker processes run a plugin
(`src/async-proxy`) that turns each request into commands to Redis. A library
of clients for other servers (`src/common`) belongs to the repository as well.
This directory holds TLA+ models of these parts, the TLC runs that check them
on small instances, and theorems that TLAPS proves for every value of the
constants: about every part modelled here, in eight modules.

Contents: 1 the system, 2 what is hard about it, 3 the modules and the code
they stand for, 4 the runs, 5 fairness, 6 what is proved, 7 disagreements
found, 8 what is not modelled, 9 the plan.

## 1. The system

### 1.1 Processes

| process | code | state it keeps | what it does |
|---|---|---|---|
| MAIN | `async-server/src/main.cpp` | `g_work_confs` and the pids of its children, `g_stop` | forks `work_num` workers and one CONN, waits, forks again what crashed, ends all on SIGTERM |
| CONN | `conn.cpp`, `tcp_accept.cpp`, `tcp_socket.cpp`, `shm_sevent.cpp`, `reactor.cpp` | the handler of each descriptor (`m_handlers`), the counter `m_id` of connection ids, receive and send buffers, an overflow list for each channel | accepts clients, cuts their bytes into packages, hands these to workers in turn, sends replies back |
| Proxy workers | `work.cpp`, `shm_revent.cpp`, `net.cpp`, `tcp_linker.cpp`, `tcp_async_linker.cpp`; plugin: `async-proxy/src/server.cpp`, `proxy.cpp`, `buf_processor.cpp`; `hiredis` | `g_link_flags` (id of the connection on each descriptor), an overflow list, links to other servers, one `redisContext` | take requests from their channel, run Redis commands, push replies |
| Control worker | the same, `control.cpp`, `common/log_processor.cpp` | the days after which logs are archived and removed | the last worker; gets no requests, tidies the log directory |

Every process writes its own log files (`log.cpp`): one open file for each
level, the sequence number of that file, and `max_log_files`.

### 1.2 What they share

Each worker has a *channel* (`shmq.cpp`): two queues in shared memory, one from
CONN to the worker (`recv_*`) and one back (`send_*`), each with a pipe that
wakes the reader through epoll. A queue is a ring of bytes with two positions,
`w_pos` written by one process and `r_pos` written by the other; there is no
lock. A block that does not fit is dropped or kept in the writer's private
`push_list` (`safe`), which `pruge_recv` / `pruge_send` empties before the next
push and once per turn of the main loop. Shared memory and pipes are made
before the forks and outlive any process but MAIN.

Blocks have a type: `LOGIN_BLOCK` and `CLOSE_BLOCK` tell every worker that a
connection began or ended, `PROTO_BLOCK` carries a request to one worker or a
reply to CONN, and a `CLOSE_BLOCK` from a worker asks CONN to end a connection.
A connection is named by its descriptor, which is used again at once, and an id
that CONN gives it.

### 1.3 Requests

`BufProcessor` translates a request into one to five Redis commands, sent as a
pipeline, and reads their answers through hiredis' blocking client. An error
stays in the context until `Proxy::TimeEvent` replaces it; the management
command `MASTER_CHANGE` replaces it at once. The same fact is stored in several keys:
whom `u` attends to (`list`), in which group (`flist` for each group, `glist`
for each pair), and who attends to `m` (`fans`). Nothing makes the commands of
a request one transaction.

### 1.4 The library of src/common

`ServiceGroup`, `ServiceReplicas` and `Service` form a tree over the hosts of
another server. An element is enabled while one of its children is; a
`Strategy` picks the child a request goes to. A `SyncService` owns a blocking
`TcpClient`, an `AsyncService` a link of the reactor (`c_tcp_async_linker`).
Services without a connection wait in `ReInitable::reinit_set` for a timer. The
message handlers (`proto_handler.cpp`) own a group and can replace it while the
process runs. No plugin of the repository calls the library; what a plugin has
to call (`SetServiceConnected`, `ProcessReInit`, ...) is taken from its
interface.

### 1.5 Components and the properties that make them correct

| component | operations | correct when |
|---|---|---|
| shared-memory queue | `shmq_push`, `shmq_pull`, death of either process inside them | it is a bounded FIFO of whole blocks |
| channel | `recv_push`, `send_push`, `pruge_*`, `write_pipe`, `pruge_pipe`, the readers' loops | blocks keep their order, results are true, no block is slept over |
| connections | accept, notify all, request, reply, close from either side, restarts | a reply reaches who asked, at most once; workers agree with CONN about connections |
| receiving | `c_tcp_socket::handle_input` | packages come out whole, in order and at once, however TCP cut them |
| sending | `send_pkg`, `handle_output`, `shut` | bytes leave in order, memory is bounded, a shut ends |
| supervisor | fork, crash, exit 10, SIGTERM | crashed processes are replaced; a stop ends and leaves nobody |
| feed store | all requests of `BufProcessor` | what was answered with success is what Redis holds, and a repeated request repairs a failed one |
| services | creation, connect, retry, loss, request, reload | a request finds a service iff one is connected; no link leaks; everyone is connected again in the end |
| Redis client | append, write, read, the parser of replies, errors, `TimeEvent`, `MASTER_CHANGE` | a reply is the answer to its own command, nothing runs twice, a broken connection is noticed and replaced |
| links to other servers | `handle_event`, both linkers, the plugin's callbacks, `net_send_ser`, `net_close_ser` | no event reaches a deleted link, callbacks come in order, each descriptor is given back |
| log files | `write_log`, `shift_fd`, recycling; the Control's removal and archiving | lines are kept as long as configured, files stay within `maxfiles`, the oldest go first |
| timers, configuration, plugin loader, utilities, the rest of hiredis | | not modelled, see 8 |

## 2. What is hard about it

The list with lines is `hazards` in PROJECT.json. In short:

* Two processes use a ring without a lock, and either may be killed at any
  point, also between copying bytes and publishing a position.
* A wake-up byte and the block it stands for are written, read and lost
  separately. The reader takes out bytes before it pulls.
* Some blocks wait in a private list while others find room: they must not
  overtake, and the list must be emptied when nothing else happens.
* A descriptor is used for another client while replies for the former one are
  in a queue, and workers hear of connections at different times.
* TCP cuts anywhere; the buffer is exactly full, must grow, or holds half a
  length. A send takes half of a buffer while the connection is to be ended.
* A signal comes between the test of a flag and the system call it should
  interrupt. A child dies while MAIN is being stopped or is replacing another.
* A request to Redis fails half way, or is answered too late and executed after
  the client has asked again; another worker's request comes in between.
* Services come and go in any order under walks that stop early; descriptors
  are reused while an old link still sends; a reload makes new services before
  the old ones are deleted; an answer arrives after its timeout.
* A reply of Redis is cut anywhere, with arrays in arrays; a context is given up
  while commands are on their way, and they may still be executed.
* A plugin sends on or closes any link from inside a callback, while the rest of
  a batch of events, or of a buffer of packages, is still to be handled.
* The process that writes log files and the one that removes them share a
  directory without a lock; numbers come round, days pass, either is restarted.

## 3. The modules and the code they stand for

| module | models | state | actions |
|---|---|---|---|
| `BlockFifo` | what a queue promises (abstract) | queue of blocks, results | `Push`, `Refuse`, `Pull`, `Skip`, `FindEmpty` |
| `ShmRing` | `shmq_push`, `shmq_pull` (`shmq.cpp` 14-178) | bytes of the ring, `w_pos`, `r_pos`, locals of both calls | one per visible step: positions read, head copied, payload copied, position published; kill of either process |
| `ShmChannel` | `recv_push`/`send_push`, `pruge_*`, the pipe, `c_revent`/`c_sevent::handle_input` | a `BlockFifo` (INSTANCE), pipe bytes, `push_list`, program counters | one per step of writer and reader; kill, failed allocation |
| `ConnWork` | CONN, workers, connections | `m_handlers`, `m_id`, per channel queue and list in both directions, `g_link_flags` | `Accept`, `NotifyNext`, `Request`, `ClientGone`, `Flush`, `Deliver`, `Shut`, `WorkPull`, `WorkLogin`, `WorkProto`, `WorkProtoSilent`, ..., ticks, restarts |
| `TcpRecv` | `c_tcp_socket::handle_input` | buffer, its size, bytes of the net | one per turn of the READ loop |
| `TcpSend` | `send_pkg`, `handle_output`, `shut` | list of buffers, position, interest in EPOLLOUT | `SendNow`, `SendCutOff`, `SendQueued`, `SendFull`, `Writable`, `Output`, ... |
| `Supervisor` | `main.cpp`, `fork_work`, `fork_conn`, `server.sh stop` | place in MAIN's loops, `g_stop`, table of pids, each child | `ForkAll`, `WaitExited`, `Refork`, `KillAll`, `DrainExited`, `Sigterm`, `Crash`, ... |
| `FeedStore` | `Proxy::ProcPkgCli`, `BufProcessor` | the Redis keys, the requests, `m_ctx->err` | `ProcPkgCli`, one per Redis command, `Answer`, `AnswerLost`, `WorkerKilled`, `TimeEvent` |
| `Services` | `service.cpp`, `strategy.cpp`, `service_replicas.cpp`, `service_group.cpp`, `proto_handler.cpp`, `tcp_async_linker.cpp` | the tree, `reinit_set`, links, `fd_service_map`, strategies' counters | `CreateService`, `ReloadServiceGroup`, `DeleteOld`, `ProcessReInit`, `Visit`, `Connected`, `Lost`, `SendRequest`, `Exchange`, ... |
| `TcpSocket` | one `c_tcp_socket` as a whole | `TcpRecv` and `TcpSend` on one descriptor, sharing `m_is_closed` | theirs, one at a time: `Receive`, `HandleOutput`, `SendPkg`, `Closes`, ... |
| `Linkers` | `reactor.cpp` `handle_event`, `tcp_linker.cpp`, `tcp_async_linker.cpp`, `net.cpp` | slots, sockets, what the plugin has seen of each link, the batch, the place in the handler | `EpollWait`, `HandleEvent`, `HandleInput`, `ProcPkgSer`, `HandleOutput`, `PluginDoes`, `CallReturns`, `TimeEvent`, the other side's |
| `RedisClient` | `hiredis.c`, `read.c`, `net.c` as `proxy.cpp` uses them; `TimeEvent`, `MASTER_CHANGE` | `redisContext` with output buffer and reader (stack of tasks, reply so far), both directions of the connection | `ProcPkgCli`, `RedisGetReply`, `BufferWrite`, `BufferRead`, `CallFails`, `TimeEvent`, `MasterChange`, `ConnectTcp`, `WaitReady`, `Execute`, ... |
| `LogFiles` | `log.cpp` by size; `control.cpp`, `log_processor.cpp` | files of the directory with their lines, open file and number of each level, the Control's pass, archives | `WriteLog` (with `shift_fd`), `Tick`, `DoRemove`, `SortFilesToMap`, `TarDate`, `TarEnds`, restarts |
| `Tcp` | a reactor's two kinds of sockets | `TcpSocket` (a client's, of CONN) and `Linkers` (a worker's), one of them in each behaviour | theirs |
| `ShmRingProofs`, `ShmChannelProofs`, `ConnWorkProofs`, `TcpProofs` (`TcpSend`, `TcpSocket`, `Linkers`), `RecoveryProofs` (`Supervisor`, `Services`), `RedisClientProofs`, `FeedStoreProofs`, `LogFilesProofs` | theorems of section 6 | | |
| `MC*` | the values TLC uses | | |

The name of a definition is that of the function it stands for where there is
one; the line numbers are in `map` of PROJECT.json.

### How they fit together

`ShmRing` implements `BlockFifo` (checked and proved). `ShmChannel` builds on
`BlockFifo`, so that pulling and pushing are single steps in it, and adds what
the ring does not have: the pipe and the list. `ConnWork` in turn uses what
`ShmChannel` establishes (order kept, nothing handled twice, nothing slept
over) and takes a queue plus a list for each direction, with one step for a
push or a pull. `TcpSocket` composes `TcpRecv` and `TcpSend`, the two halves of
a client's `c_tcp_socket`, which `ConnWork` sees as a handler with `sending` and
`m_is_closed`. `Linkers` is the same reactor seen from a worker, with links in
place of clients: there the hard part is who may end whom during a batch, and
what is inside a package is left to `TcpRecv` and `TcpSend`, whose loops are the
same. `Tcp` holds the two together: clients' sockets and links share the code of
the reactor and no state, so a behaviour is one of either. `Services` is one
user of such links. `Supervisor` justifies the restarts in `ShmRing`,
`ShmChannel` and `ConnWork`: a process that is killed is forked again with the
same shared memory and empty private state. `FeedStore` is what a worker does
between pulling a `PROTO_BLOCK` and pushing the reply; it takes each Redis
command as one step that is executed and answered, or fails and leaves
`m_ctx->err`, which is what `RedisClient` establishes of the bytes
(`RepliesInOrder`, `ExecutedOnce`, `FailedGivesNothing`). `LogFiles` stands
alone: processes share the directory with the Control and nothing else.

### Decisions worth knowing

* *ShmRing.* Each process owns the position it writes, so reading both
  positions is one step. Bytes are written before the position by program
  order; that the other process sees them in that order rests on `volatile`
  and on x86, which the code relies on and the model takes over. A byte of the
  ring names its block and its place in it, so torn or overwritten blocks are
  visible.
* *ShmChannel.* Both ends of a pipe are non-blocking (`work.cpp` 76-79,
  `conn.cpp` 45-48), so a full pipe drops a byte. Failing `malloc` is a fault.
  `recv_push` refuses a block that is as long as the ring or longer. One that is
  shorter, but does not fit with its head even when the ring is empty, would
  stay at the front of `push_list` for ever and hold up all behind it; `Delivered`
  is checked with lengths among which there is none (`NoGap`, an assumption of
  `MCShmChannel`).
* *ConnWork.* "Delivered" means handed to `send_pkg`. The number a connection
  has in `link` is history, used only by properties. `make_id` is modelled with
  its wrap (`IntMax`), which the runs do not reach (2^31 connections). A plugin
  that closes connections itself (`closes`) and kills are *upsets*: after one a
  worker's view may differ from CONN's until the next notification, and
  `FlagsFollow` and `LinksPaired` are about behaviours without any. What a request
  asks for plays no part, but for one kind: a `MASTER_CHANGE` that succeeds leaves
  `pkg_len` 0 (`proxy.cpp` 134-147), `net_send_cli` refuses a reply of that length,
  and there is none (`WorkProtoSilent`).
* *TcpSocket.* CONN has one thread, so that `handle_input`, `handle_output` and
  `send_pkg` do not overlap, but an end met by one is the end of the others.
* *Linkers.* Inside `proc_pkg_ser`, `link_up_ser` and `link_down_ser`, and in its
  timer, the plugin may send on links and close them as often as it likes
  (`PluginDoes`, one operation a step). `link_down_ser` comes before
  `handle_fini`, in the model after it: what is done in between is done to other
  links, so the order does not show. New links are made between two batches,
  which is what `Services` does; a plugin that makes one from inside a callback could find its
  descriptor in the rest of the batch. `at.pc = "dead"` is a call through an
  empty slot or a double delete (`net.cpp` 66), which ends the process. Twice
  the code uses a linker that a callback has deleted: reading its `m_fd`
  (`tcp_linker.cpp` 114) is taken to give a number that is no slot's, and setting
  its `m_is_connected` (`tcp_async_linker.cpp` 168) to change nobody else's
  memory. `handle_ctl` is taken to succeed in `send_pkg`.
* *RedisClient.* A command is two symbols and any of `Answers`, so that writes
  can be cut inside one; answers are bytes, because the parser works on them, with
  carriage return and line feed as symbols. `IntMax` and `LlongMax` are the
  limits the parser checks numbers against. What was written to a connection
  that is closed may be executed later (`late`). The other workers, which never
  hear of a `MASTER_CHANGE`, are not modelled: what they meet at the former
  master is outside the repository. `TimeEvent` asks the sentinel first; if it is not
  reached nothing changes until the next time (`NoSentinel`).
* *LogFiles.* `max_log_files` is one variable for all levels (`log.cpp`
  237-242), so that one level that uses up its numbers turns recycling off for all
  of them; a restart over night takes the greatest name for the newest one,
  which it need not be. Both set `disturbed`, and `FilesBounded` and
  `OldestRecycled` are about behaviours without them. The Control waits for one
  second of the day, which can pass unseen (`control.cpp` 54), so that a pass
  may be missed or come twice; one that starts is over by midnight. What tar packs
  of a date it removes, and nothing else (taken for granted); that may be a part,
  since `.tmp` may have been cut short (`log_processor.cpp` 127) or tar may fail, and
  its result is not looked at (173). The rest stays where it is. A later pass packs it
  into the same archive, and what the archive held is lost. `repacked` collects these
  dates, of which `LinesKept` says nothing. `shift_fd` opens a file twice when there
  is none open and the one that is opened is full; either may fail.
* *TcpRecv.* The length at the head of a package is any of `Lens`; lengths 1 to
  3, shorter than the length field itself, are excluded by assumption.
  `memcpy` of overlapping bytes (`tcp_socket.cpp` 195) is undefined: the model
  lets it work, or garble the bytes as a copy from the end does; what follows a
  garbled buffer is not explored and the properties say so. A plugin's
  `shmq_pushed` may end the connection after a package (`Package`), which that
  of the Proxy does not.
* *Supervisor.* `Fork` includes a SIGTERM that comes between the test of
  `g_stop` and `fork`, which the child inherits. A child that exits with 10 is
  not forked again, as in the code.
* *FeedStore.* Redis runs one command at a time. `DropAttention` has two
  oddities that are modelled: `gname` is used uninitialised when the pair has
  no group, or Redis refuses to say which (any group), and two format strings ask
  for one argument more than is given (any number `x`). `disturbed` collects keys on which two requests
  met or such a number hit; the properties leave these out, since requests are
  not transactions and promise nothing there.
* *Services.* One thread, so an action is a whole handler, or one visit of the
  two calls that visit many services. `ProcessReInit` keeps an iterator on a
  node its callee erases: the model goes on from any later node or ends; a
  crash is not modelled. A wait that times out costs a fault. A reload makes a new
  object, `Successor` of the group it replaces, which is none that exists. The sizes of
  `INT_REGION` groups divide 100 (assumption), as otherwise the index can pass
  the end.

## 4. The runs

`tlc -config X.cfg M` in this directory repeats each. Sizes are distinct states.

| run | cfg | bounds | size | shows |
|---|---|---|---|---|
| `ring` | `MCShmRing` | ring of 6 cells, head of 2, payloads of 0, 1, 2, two ids, 1 byte allocated at first; any number of calls and kills | 1.1 M | `IInv`, and that the ring implements `BlockFifo` |
| `channel` | `MCShmChannel` | 4 usable bytes, head of 2, lengths 0, 2 and one that is refused, pipe of 2 bytes, 3 calls, 1 kill or failed allocation | 76 k | `InOrder`, `ReportsTruly`, `EveryBlockWakes`, `Delivered` |
| `channel_pipe` | `MCShmChannelPipe` | as above with a pipe of 1 byte | | `Delivered` fails, see 7 |
| `conn_work` | `MCConnWork` | 1 descriptor, 1 Proxy and the Control, queues of 1 block, 3 connections, 2 requests, 1 close by the plugin, 1 `MASTER_CHANGE`, 1 kill of CONN, 1 of a worker; 5 events together, of which a close, a change and a kill count two | 169 k | `RepliesToAskerUnlessRestarted`, `AnsweredOnce`, `FlagsFollow`, `LinksPaired`, `RequestsAnswered` |
| `conn_restart` | `MCConnRestart` | 1 Proxy, 2 connections, 2 requests, 1 kill of CONN | | `RepliesToAsker` fails, see 7 |
| `tcp` | `MCTcp` | client: receive buffer of 3, length field of 2, packages of 2, 3, 5 bytes, lengths 0 and 6; send buffers of 2 bytes, limit of 2, packages of 1 and 3; 3 packages together. Servers: 2 descriptors, 2 links, 2 packages, lists of 2, 1 fault | 82 k | `PackagesIntact`, `RoomToRecv`, `EveryPackageHandedOn`, `StreamIntact`, `ListBounded`, `AllSent`; `NoEmptySlot`, `CallbacksOrdered`, `Released` |
| `feed` | `MCFeedStore` | 2 users, 2 groups, 2 workers, ten scripts of two or three requests in any interleaving, 1 command refused, answer lost or worker killed | 600 k | `OkStands`, `LeavesGroup`, `RelationTells` |
| `feed_regroup` | `MCFeedRegroup` | one script, no fault | | `GroupsHoldAttended` fails, see 7 |
| `services` | `MCServices` | 6 services under 4 replicas and 3 groups, 3 descriptors, seeds 0 and 99, 3 failures, one reload | 22 k | `EnabledByChild`, `EnabledOrRetried`, `LinksOwned`, `RollFair`, `NoLateAnswer`, `AllBack` |
| `supervisor` | `MCSupervisor` | 2 workers, 3 crashes or failures | 16 k | `KnowsItsChildren`, `StopEnds`, `Serving` |
| `redis` | `MCRedisClient` | 2 requests or changes of the master, pipelines of 1 and 2 commands, 4 good answers and 2 that Redis does not give, arrays nested 2 deep, reads of up to 5 bytes, 2 addresses, 2 faults | 598 k | `RepliesInOrder`, `IdleInStep`, `ExecutedOnce`, `FailedGivesNothing`, `Recovers` |
| `logs` | `MCLogFiles` | 2 levels, 2 files of 1 line each, archived after 1 day and removed after 2, 5 days, 5 lines, 1 date a pass, 1 restart, 1 fault | 2.15 M | `LinesKept`, `FilesBounded`, `OldestRecycled` |

Type invariants are a conjunct of one invariant of each module (`IInv`,
`InOrder`, `RepliesToAskerUnlessRestarted`, `PackagesIntact`, `NoEmptySlot`,
`OkStands`, `EnabledOrRetried`, `IdleInStep`, `LinesKept`); those of
`Supervisor` and `TcpSend` are theorems. In `tcp` each behaviour has either a
client or links, since the two share nothing but the reactor's code.

### Why these bounds are enough

* `ring`: with 6 cells and a head of 2, heads and payloads wrap at every place,
  two blocks fit at once, and the queue gets exactly full and exactly empty.
  Nothing in the module counts calls, so the run is exhaustive for this size;
  the theorems cover all sizes.
* `channel`: two empty blocks fit, or one with a payload, so that a block waits
  in the list while a shorter one would fit; the third call is the one that
  could overtake. The pipe holds as many bytes as the queue holds blocks, which
  is what `EveryBlockWakes` needs, and one batch of the reader is as large as a
  batch of bytes, as in the code (1024 and 1024).
* `conn_work`: a queue of one block makes nearly every notification wait in the
  list. Three connections on one descriptor give a stale block for the one
  before and the one before that. Two workers are enough for the loop over the
  channels to be half done; they do not talk to each other. One kill of each
  kind comes at every place, with a second connection on the descriptor to
  receive a wrong reply. The joint bound leaves three connections with two
  requests, or two upsets with one connection, or one with three events.
* `tcp`: a package that fills the receive buffer exactly, two of them in one
  receive, a growing buffer, a half length field, a package behind an error; a
  package that tops up a buffer and goes on in the next, a list at and above its
  limit (the last package may exceed it, which `ListBounded` states), a shut
  with something left to send while more comes in. Two links are what it takes
  for one to end the other later in the batch, and two packages for one to be
  left in a buffer when its link is closed, or in the list when it is shut.
* `redis`: two pipelined commands are needed for an answer to stand for another;
  the answers have line ends inside a payload and arrays in arrays, and reads of
  up to five bytes cut the longest one in several places, also between carriage return
  and line feed; one more nesting than the parser takes, and a number too large,
  are among what Redis does not give. Two faults make the new connection fail too.
* `logs`: five lines go round the numbers of a level twice, and past them within
  one day; five days take a date through archiving to removal; with one date a
  pass a second one has to wait.
* `feed`: the failures of interest are one command that fails inside a request
  and what a second request makes of it; two failures only repeat this. The
  scripts are those in which a request repeats, undoes or reads another; the
  workers are symmetric.
* `services`: three failures make all children of a group fail one after the
  other, or one fail again while it is retried; the descriptors run out while
  an old link drains.
* `supervisor`: three faults make each process fail once, or one three times.

Deadlock is checked except where the system may end: in `tcp` the connection
ends, in `feed` and `redis` the clients have asked for everything, in `logs` the
last day is over, and in `supervisor` MAIN has stopped.

Each property has a mutant of a definition (`mutants` in PROJECT.json; in the
modules these are marked `mutant:`) under which it fails, so that none holds
merely by the shape of the model.

### What the properties say

*Channel.* `InOrder`: what is handled, in flight and held back is in the order
of the calls, without repetition. `ReportsTruly`: -1 means the block is never
handled, 0 for a `safe` call means it is on its way, unless there was a fault.
`EveryBlockWakes`: blocks in the queue never outnumber bytes in the pipe,
about to be written, and pulls to be made, so the reader does not sleep with
blocks left. `Delivered`: what is on its way is handled.

*ConnWork.* `FlagsFollow`: the flag a worker will have after handling all that
is under way to it is what CONN has told it, for every worker and descriptor.
`LinksPaired`: `link_up_cli` and `link_down_cli` alternate.
`RepliesToAsker`: a reply goes to the connection its request came from or to
nobody; it holds while CONN is not restarted. `AnsweredOnce`.
`RequestsAnswered`: a request in a queue is answered, or is the `MASTER_CHANGE`,
its connection ends, or CONN or a worker is killed.

*A client's connection.* `PackagesIntact`: packages come out whole and in the
order they were sent, whatever TCP makes of them. `RoomToRecv`: `recv` is never
called with no room, which would look like the end of the connection.
`EveryPackageHandedOn`: a package that has come in is handed on without waiting
for the next. `StreamIntact`, `ListBounded`; `AllSent`: what is in the list is
sent, and a connection that was shut ends after that.

*Links.* `NoEmptySlot`: no event is handled through an empty slot, although
`handle_event` does not look again between input and output; the reason is that
a link that waits to write has something in its list and so survives a close.
`CallbacksOrdered`: up, packages, down or shut, and no package after the end,
whatever the plugin does in its callbacks.
`Released`: links that ended give their descriptors back.

*Redis client.* `RepliesInOrder`: however answers are cut, the reply handed out
is what Redis answered to that very command. `IdleInStep`: between requests a
context is either in step with Redis or marked by an error. `ExecutedOnce`: what
was given up is not written again on the next connection.
`FailedGivesNothing`: an error is sticky. `Recovers`.

*FeedStore.* `OkStands`: as long as nobody asks otherwise and no two requests
meet, an attention answered with success is in all four keys, one given up is
in none of three, whatever failed half way before. `LeavesGroup`: one given up
with success is in no group, which depends on `ZREM` coming before `HDEL`.
`RelationTells`: the two halves of a relation, read from two keys, are right.

*Services.* `EnabledByChild`: the tree tells the truth although its walks stop
early. `EnabledOrRetried`: who is wanted and not enabled is exactly who waits
for the timer. `LinksOwned`: a link that is not draining belongs to one living
service, which knows it. `RollFair`: no enabled child is passed over more often
than it has siblings. `NoLateAnswer`: a socket with an answer still to come is
not used again. `AllBack`: when failures end everyone is connected again.

*Log files.* `LinesKept`: a line can be found, in its file or its archive, until
`log_remove_days` are over, unless its file was recycled; after tar has packed a
part of a date, as long as that date is not packed again. `FilesBounded`: a
level has at most `maxfiles` files. `OldestRecycled`: a file goes only when all
numbers are taken, and then one of the earliest date.

*Supervisor.* `KnowsItsChildren`: the table names the children there are and
no other. `StopEnds`. `Serving`: all processes are up again and again.

## 5. Fairness

Safety runs assume none. The others:

* `ShmChannel`: writer and reader take their next step. Both main loops turn for
  ever because `epoll_wait` has a timeout of one second, and epoll is
  level-triggered. Calls of `recv_push` and faults need not happen.
* `ConnWork`: CONN goes on with its loop over the channels, the loops call
  `pruge_*` each turn, and a channel that is readable again and again is
  served: `handle_event` serves every ready descriptor (strong fairness,
  because other handlers change what is enabled in between). Clients need not do
  anything.
* `TcpSocket`: every turn of the loop reports a descriptor that is readable and
  one that is writable, level-triggered, until all is read and the list empty,
  and the client reads again and again. The fairness is strong because receiving
  disables sending for a while and the other way round. `AllSent` would be void
  against a client that never reads; the code has no timeout for it either.
* `Linkers`: the loop runs, a connection that was begun is answered, and the
  other side reads in the end. Packages and ends need not come.
* `RedisClient`: the worker runs and its timer fires, calls that can go on do,
  and Redis executes what it has received. An answer that does not come before
  the timeout of the socket is a fault. Requests and faults need not come, and
  both are finitely many. A sentinel that is not reached is a fault too: `Recovers`
  takes for granted that it is reached in the end, since `proxy.cpp` 82-84 only
  logs it and nothing else makes a new connection.
* `Services`: calls return, the timer fires, and one turn of the loop serves
  every ready descriptor. Requests and reloads need not happen. Hosts accept
  and read unless a fault says otherwise, and faults are finitely many.
* `Supervisor`: the kernel runs every process, and `server.sh` sends SIGTERM
  each second until MAIN is gone (`server.sh` 96-113). Without the repetition
  `StopEnds` would be false: a signal between the test of `g_stop` and
  `waitpid` is not noticed.

## 6. What is proved

| theorem | says | rests on |
|---|---|---|
| `ShmRingProofs!RingInvariant` | `Spec => []IInv` | `RingAssumption` |
| `ShmRingProofs!RingTypes` | `Spec => []TypeOK` | `RingInvariant` |
| `ShmRingProofs!RingImplementsFifo` | `Spec => ImplementsFifo`, i.e. `BlockFifo!Spec` under the mapping at the end of `ShmRing` | `RingInvariant` |
| `ShmChannelProofs!OrderKept` | `Spec => []InOrder` | `ChannelAssumption` |
| `ShmChannelProofs!ReportsAreTrue` | `Spec => []ReportsTruly` | `ChannelAssumption` |
| `ShmChannelProofs!NoBlockLeftBehind` | `Spec /\ []QueueInPipe => []EveryBlockWakes` | `ChannelAssumption` |
| `ShmChannelProofs!SmallRingInPipe` | `Spec => []QueueInPipe`, if `PipeHoldsRing` | `ChannelAssumption`, `PipeHoldsRing` |
| `ConnWorkProofs!OnlyOneAnswer` | `Spec => []AnsweredOnce` | `ConnWorkAssumption`, `NothingAssumption` |
| `ConnWorkProofs!ReplyGoesToAsker` | `Spec => []RepliesToAskerUnlessRestarted`, if `IdsLast` | the same, `IdsLast` |
| `ConnWorkProofs!WorkersFollow` | `Spec => []FlagsFollow` | as `OnlyOneAnswer` |
| `ConnWorkProofs!CallbacksInPairs` | `Spec => []LinksPaired` | as `OnlyOneAnswer` |
| `RecoveryProofs!SupervisorTypes` | `SupervisorSpec => []SupervisorTypeOK` | `SupervisorAssumption` |
| `RecoveryProofs!ChildrenKnown` | `SupervisorSpec => []KnowsItsChildren` | `SupervisorTypes` |
| `RecoveryProofs!TreeTold` | `Spec => []EnabledByChild` | `TreeAssumption`, `StrategyAssumption` |
| `RecoveryProofs!NobodyForgotten` | `Spec => []EnabledOrRetried` | the same |
| `RecoveryProofs!LinksAreOwned` | `Spec => []LinksOwned` | the same |
| `RecoveryProofs!TurnsAreFair` | `Spec => []RollFair` | the same |
| `RecoveryProofs!NoAnswerIsLate` | `Spec => []NoLateAnswer` | the same |
| `TcpProofs!SendTypes` | `Spec => []TypeOK` | `TcpSendAssumption` |
| `TcpProofs!SendBounded` | `Spec => []ListBounded` | `TcpSendAssumption` |
| `TcpProofs!SendsWhole` | `Spec => []StreamIntact` | `TcpSendAssumption` |
| `TcpProofs!SocketSends` | `SocketSpec => Spec`, that of `TcpSend` | |
| `TcpProofs!SocketBounded` | `SocketSpec => []ListBounded` | `SocketSends`, `SendBounded` |
| `TcpProofs!SocketRoom` | `SocketSpec => []RoomToRecv` | `TcpRecvAssumption` |
| `TcpProofs!SocketSendsWhole` | `SocketSpec => []StreamIntact` | `SocketSends`, `SendsWhole` |
| `TcpProofs!PackagesHandedOn` | `SocketSpec => []PackagesIntact` | `TcpRecvAssumption` |
| `TcpProofs!SlotsFilled` | `L!Spec => []NoEmptySlot` | `IsFiniteSet(Fds)` |
| `TcpProofs!CallbacksInOrder` | `L!Spec => CallbacksOrdered` | `IsFiniteSet(Fds)` |
| `RedisClientProofs!ExecutedAtMostOnce` | `Spec => []ExecutedOnce` | `RedisClientAssumption` |
| `RedisClientProofs!AlwaysInOrder` | `Spec => []RepliesInOrder` | `RedisClientAssumption`, `AnswersAssumption` |
| `RedisClientProofs!AlwaysIdleInStep` | `Spec => []IdleInStep` | the same |
| `RedisClientProofs!FailedHandsOutNothing` | `Spec => FailedGivesNothing` | the same |
| `FeedStoreProofs!SuccessStands` | `Spec => []OkStands` | `FeedStoreAssumption` |
| `FeedStoreProofs!GivenUpLeavesGroup` | `Spec => []LeavesGroup` | `FeedStoreAssumption` |
| `FeedStoreProofs!RelationIsTold` | `Spec => []RelationTells` | `FeedStoreAssumption` |
| `LogFilesProofs!LinesAreKept` | `Spec => []LinesKept` | `LogFilesAssumption` |
| `LogFilesProofs!FilesAreBounded` | `Spec => []FilesBounded` | `LogFilesAssumption` |
| `LogFilesProofs!OldestIsRecycled` | `Spec => OldestRecycled` | `LogFilesAssumption` |

The assumptions are that a ring, a head, a pipe and what a reader takes out of
it at a time have at least one byte, that a reader pulls at least as many blocks
as it takes out bytes (both are 1024), lengths are naturals, and `NoId` is no id;
that there is at least one worker (in `ConnWork` two: the last is the Control);
that a buffer and the limit of a list are at least 1 and `MaxLen` bounds the
lengths of packages; that the length field fits into the receive buffer and that
buffer is at most `g_max_pkg_len`; that there are finitely many descriptors;
that every request to Redis sends pipelines of at least one command each; that
users and groups are different things (users are numbers, groups have names),
`NoUser` and `NoGroup` none of them, and `NoFile` no name of a file; that a log
file takes at least one line and the Control packs at least one date a pass. Of
the tree of services they say that it is one: services, replicas and groups are
different objects, each service and replicas has one parent and occurs once among
its children, and there are finitely many groups; that the regions of an
`INT_REGION` group divide 100, and that a reload keeps the kind of strategy.
`NothingAssumption` says that the values for "no handler", "no block" and "no
notification" are none of those they stand beside. Nothing is assumed of the
size of the ring against that of blocks, the number of workers, links or faults,
the size of a package against that of a buffer, the requests that meet, the number
of replicas or their services, or the limits for log files.

`AnswersAssumption` is about the answers of Redis, which are outside the
repository: an answer is given as its bytes and the reply they mean, and the
assumption is what "mean" says. A fresh reader that is given these bytes alone and
in one piece, turn by turn, takes all of them and has that reply, or refuses
them. It says nothing of bytes that come in parts, of an answer with others
behind it, or of a reader that has been used before: these are what the theorems
are about. Numbers, line ends and types may be anything the parser refuses. TLC
evaluates it for the six answers of `MCRedisClient`.

Two theorems have a condition of their own, and without it they would be false:

* `QueueInPipe`: no more blocks are unread than the pipe holds bytes. Finding 1
  of section 7 is what happens otherwise. `PipeHoldsRing` (the ring is shorter
  than the heads of one block more) is what guarantees it; the configuration
  that is shipped does not: with `shmq_size` 8192000 (`etc/bench.conf` 18) a
  ring can hold more blocks with a head of 16 bytes than a pipe holds bytes.
* `IdsLast`: CONN has not run out of ids. After 2^31 - 1 connections all have
  the id 1 (the hazard at `reactor.h` 72), and a reply can reach another client.

**The ring.** That a pull returns the oldest block is not inductive: it has to
be known where the block's bytes are, that no push has touched them, and how far
the two calls have come. `IInv` has a part for each:

* `RoomOK`: at most `Size - 1` bytes are used, also counting the push in
  progress. This is why `shmq_push` keeps one byte free: `w_pos = r_pos` then
  only means empty.
* `ChainOK`: the unread blocks lie one behind the other from `r_pos` to
  `w_pos`. Distances are measured from `r_pos` round the ring (`Used`), so that
  wrapping disappears from the argument.
* `UnreadIntact`: each byte of each unread block is in its cell.
* `PushOK`, `PullOK`: the local position of a call, and the bytes written or
  copied so far.

A copy of a push goes to the cells from `w_pos` on; by `RoomOK` they are at a
distance from `r_pos` at which no unread block lies, so `UnreadIntact` is kept
(lemmas `CellsApart`, `CopyInWrites`, `CopyInKeeps`). A publish appends a
block whose bytes are in place; a pull removes the first one, and the others'
distances shrink by its size (`OldestGone`). The lemmas on positions
(`AdvanceTwice`, `CellAfterAdvance`, `UsedAdvance`, ...) are proved once.

For the refinement, `queue` is the history variable, `bytes` is `Used(w_pos,
r_pos)` and `out` the decoded copy. Each step is a stutter or one of `Push`
(publish), `Refuse`, `Pull`, `Skip` and `FindEmpty`. The two that answer from
positions read (`PushFull`, `PullEmpty`) are exact because of `RoomOK` and
`ChainOK`.

**The channel.** `OrderInv` follows each block by its id through the places it
can be in: handled, in the reader's hand, in the queue, held back. Ids ascend
within each place, and every id in one place is less than those in the next
(`InTurn`); a step moves the oldest id of one place behind the newest of
another, or removes it. What makes it inductive is `Calling`: where
`recv_push` is tells what it has found out, above all that it pushes the
caller's block past the held ones only when there are none. For `ReportsTruly`
the ids accepted must be found again in one of the places (`Reported`).
`EveryBlockWakes` is inductive with the types and `Calling`, as long as
`QueueInPipe` holds in both states of a step. For `SmallRingInPipe` the blocks
lie end to end in the ring's bytes (`LaidOut`), so that each costs at least its head.

**Connections.** `BaseInv` says that what travels is sound: a block with a
request names one that was asked, by the connection whose id it has as long as
CONN was not killed (`Sound`), and connection ids are numbers of connections
(`IdsCount`). A reply is delivered where descriptor *and* id agree, so it goes
to the asker. `Unique` adds that a request is in one place only, across all
channels: in the stream to a worker, in its hand, in the stream back, or
answered. For `FlagsFollow`, `Following` runs a worker's flag along all that is
on its way to it (`Chained`): each LOGIN finds the flag 0, each CLOSE the id it
carries, and at the end of the stream is what CONN has told; `NoteRight` says the
same of a notification CONN is in the middle of, which some workers have and others
have not. Blocks about other descriptors leave the flag as it is, so that a
push at one end and a pull at the other are two lemmas.

**The supervisor.** `KnowsItsChildren` needs in addition that during the first
loop the slots not reached yet have neither a pid nor a process (`Unforked`).
With it each of MAIN's steps keeps the table true: a fork fills the slot
(`ForkFills`), a reap empties it or hands it to `refork` (`ReapKnown`), and a
child's own steps never make it disappear from the table (`StaysAChild`).

**The list of buffers.** `TypeOK` and `ListBounded` are inductive together with
`FromTheStart`: a list that begins again is sent from its first byte, since
`m_send_pos` went to 0 with the last buffer. `send_pkg` compares the list with
the limit before it appends, so the list passes the limit by what one package
adds. That is `Buffers(len + last) - 1`, with `last` the bytes of the last
buffer, which is filled first; it equals what the list really grows by
(`BuffersFilled`, `AppendedType`) and is at most `Buffers(MaxLen)`, as `last` is
at most one buffer (`BuffersMonotone`, `BuffersMore`). That no buffer is empty
is needed for `m_send_pos` to be inside the first one. The lemmas on `Buffers`
rest on its being the least number of buffers that hold the bytes.
`StreamIntact` is inductive with these: what the client has got, what is in the
list behind `m_send_pos`, and nothing else, is the packages accepted, end to end.
A list that grows has its last buffer filled first (`IsJoin`), which does not
change the bytes put end to end; a write moves a prefix of them.

The recursive function in `FlattenSeq` cannot be unfolded by induction here,
because the library's induction theorems take an operator as a parameter. The
proofs show that a function with its equations exists (`Joins`), and that two
with the same equations agree, since a least argument at which they differ
would have one before it; that there is a least one is `WFMin`, which takes no operator.
`ShmChannelProofs`, `ConnWorkProofs` and `RedisClientProofs` use the same argument,
and `LogFilesProofs` and `RecoveryProofs` use it over the subsets of a finite set
(`LeastSubset`), for sums of lines and for folds over the services of a group.

**The socket.** Every step of a `TcpSocket` is a step of `TcpSend` or leaves
its variables alone; an end that `handle_input` meets is `TcpSend`'s
`ClientGone`. That is all `SocketSends` needs, and the bound follows. For
`RoomToRecv` the invariant has to say, in addition, that what is about to be
moved to the front is shorter than the buffer (`in_at = "MOVE"`). There are four
ways there: the head is not complete and the buffer not full, the buffer has
grown, a package has been handed on, or the package is longer than what came
and not longer than the buffer. It also has to be known that each byte leads to
a package the client sent, so that `get_pkg_len_cli` gives a number.

`PackagesIntact` needs to know in which bytes `handle_input` reads a length. Its
invariant `PackInv` says that the packages handed on, the bytes in the buffer
from the loop's position on and those of the network, put end to end, are the
packages sent (`InStep`); hence what is at that position is the head of the
first package not handed on, and the length read there is its own. Turning the
loop, moving the rest to the front, growing and receiving keep that sequence;
handing on moves one package over. It is claimed until `shut`, from which on bytes
are thrown away, and until the `memcpy` between overlapping ranges garbles them.

**The links.** `NoEmptySlot` is not inductive: it must be known why the slot is
not emptied between `handle_input` and `handle_output` of the same event. The
invariant says that a link which waits for both events has something in its
list (`LinkOK`), so that an event that reports both was one of such a link
(`BatchFor`), and that a batch has one event of a descriptor at most
(`BatchType`). `PluginOK` is the heart: nothing that the plugin does from a
callback empties a list or ends a link that has one, unless memory fails
(`Keeps`); `shut` only marks it, and `send_pkg` adds to it. What one handler does
to its own link is not seen in the others' slots (`Others`), and its own is in
no later event. The type invariant is part of it.

`CallbacksOrdered` is about steps, and a handler may be several callbacks, in
each of which the plugin may act any number of times. `KInv` adds to that
invariant what the two sides know of each other (`Told`): a link is closed exactly when the plugin has shut it, and
otherwise connected exactly when the plugin has been told that it is up; no two
slots hold one link; and packages are only handed on from a link that is up.
Each operation on the world then makes one permitted change of what the plugin
knows (`OneHeard`), and permitted changes compose (`HeardTwice`). That packages
stop when a callback closes their link needs the link to be the same one before
and after the callback: the plugin makes no new link in a batch (`Remain`).

**The Redis client.** A command is two cells of the stream to Redis, so that a
write can cut it. `ExecInv` has a border `b`, the number of cells that were
executed, lost or left behind with an old connection: the pipe and the output
buffer together hold exactly the cells of the commands behind it, in order and
once each (`StreamOk`), no command with a cell behind it has been executed
(`OnceOk`), and those that Redis has received on connections closed since are
before it, not executed, and each in one place (`LateOk`). While the connection
is open the border is at the beginning of a command. Writing and issuing leave
it alone, executing moves it by two cells, a connection that closes moves it to
the end of the pipe, and a new one to the end of everything: `redisFree` drops
the output buffer, which is why no command comes again. A closed connection leaves
half a command in the border's way, and the proof shows that nothing is written
before it has been replaced (`net.open`).

For `RepliesInOrder` the parser has to be opened, and as it loops over the bytes
there is no closed formula for where it stands. The proof compares two readers
instead. `Does`: what one item makes of the bytes there are, unless it needs more,
is what it makes of them with any others behind (`Longer`), byte by byte the
same number of them taken; this goes through `seekNewline`, the line, the bulk,
the array and the type (`LineLonger`, `BulkDoes`, `MultiBulkDoes`, `TypedDoes`).
Hence a second reader, which has been given a whole answer and nothing else, can be
held in the same place as the one of the connection (`InPlace`), and whatever
the first one takes the second one takes too (`Reads`). The second one comes to the
value: `Leads(v, value)` says that there is a set of readers with `v` in it from
each of which one turn leads to the value, to an error or into the set again, so
that no induction over turns is needed; `AnswerLeads` has it from
`AnswersAssumption`. `InStep` puts the answers one behind another, each in the
bytes that follow those of the one before (`Told`), and `Followed` allows the last
bytes to be gone with a connection that was closed. `Discarded` and
`redisReaderFeed` leave the place as it is.

`ReplyInv` carries this through the actions. `Outstanding` counts commands in the
output buffer and the pipe and answers not handed out: no more than `left`, the
replies the caller still waits for, so that at `left = 0` every stream is empty
(`IdleInStep`). `Held` is the part for `FailedGivesNothing`: when the network is
called, or has failed, the reader has no bytes, refused them, or is `Stuck`, where
another turn needs more bytes and gives nothing. That is so because
`redisGetReply` only goes to the network after the reader has said so, and it
lasts because nothing feeds the reader of a context with an error.

**The feed store.** A request is several commands, and between two of them come
those of others. `Ordered` says when that is harmless: of two requests on a key,
the first of which was not done when the second came, the key is disturbed; so on
an undisturbed key at most one request is active (`Alone`). `Answered`: a
request is answered with success only after its last command, and with no error
in a command whose error the code looks at. The heart is `Effects`: each
command that was executed has left its mark in its key, and the mark stands as
long as no later request changes it (`Clear`), also when the request is half done,
and when it went on after an error, as pipelines do. `Others` and `Untouched` say
that commands about another pair leave this one alone. From these `OkStands`
follows. `RelationTells` needs to know what the last request on a pair
was: there was none (`Strangers`), or there is a last one (`LastWanted`),
whose success determines both sets (`LastTells`). For `LeavesGroup` the name a drop
reads must be the right one: `GroupKnown` says that `m` is in at most one group,
and that while it is in one the name of that group is stored, or an add is between
its first two commands (`Halfway`), and that a drop under way has read that name
or has nothing to remove (`Knows`).

**The log files.** `KeptInv` is `LinesKept` made inductive. `Found`: what a date
is owed is in its files and its archive together. `Packed`: a date with files to
pack is over and all its files are on the list, and a date whose archive holds
anything has no file, unless tar has packed a part of it (`partly`), so that no
other archive is written twice. For
`FilesBounded`, `Numbered` says that no two files of a level share a number, since
opening one with a number removes the one that had it. For `OldestRecycled`,
`Ringed` says that going back from the number in use (`Behind`) the files get
older, and none is missing up to the oldest; hence the next number, if it is
taken, is that of the oldest file. The Control could make a gap in the middle:
it does not as long as nothing fails, because what it removes is of
earlier dates than what stays (`PassOK`).

**The pool of services.** A handler calls many functions that each change
part of the state, so the invariant speaks of the state as a record and of the
set `W` of services that should be connected: `Sound(st, W)`. Its parts: an element
is enabled iff one of its children is (`Told`); those of `W` that are not enabled
are in `reinit_set`, and no other; a connected asynchronous service owns the link
at its descriptor, and the map has it there (`AsyncOK`, `MapOK`); the sockets of
synchronous ones (`SyncOK`); and for a strategy that takes turns, the choices
that passed over a child and the turns until it is its own are together fewer
than there are children (`TurnsOK`, `Ahead`): a child passed over has come
a step nearer. Each library function keeps this, with one service more or less in
`W` where it is called for that (`InitKeeps`, `ShutKeeps`, `VisitKeeps`,
`ConnectedKeeps`, `HandleErrorKeeps`, `SendKeeps`). While a call visits services one
after the other, the set that is due shrinks or grows in the same order (`Due`):
those that exist without those the call still has to reach. `Fresh` says
that what is not enabled has not been passed over. Two conditions turned out to
be needed: that no service occurs twice among the children, and that a reload
makes a group which is none of those that exist.

**Only model-checked**: all liveness (TLAPS does not handle `ENABLED`):
`Delivered`, `RequestsAnswered`, `EveryPackageHandedOn`, `AllSent`, `Released`,
`AllBack`, `StopEnds`, `Serving`, `Recovers`; and the runs of section 7. Each
invariant and each action property of a passing run has a theorem.

## 7. Disagreements found

1. *A reader sleeps over blocks* (`channel_pipe`, `shmq.cpp` 298). `write_pipe`
   does not look at the result of `write`, and the pipe does not block. With
   65536 bytes unread further bytes are dropped; a queue of 8 MB holds several
   hundred thousand blocks. As the reader takes one byte and one block each,
   the blocks without a byte stay until something else is pushed. `plugin.h` 55
   says that all workers are told of a new connection, which is such a block.
2. *A reply reaches a client that did not ask* (`conn_restart`, `reactor.cpp`
   26). A CONN that is forked again counts ids from 1 while replies of the
   former one are still in shared memory; descriptor and id can be equal.
3. *A user stays in a group after being dropped* (`feed_regroup`,
   `buf_processor.cpp` 41). `AddAttention` for another group overwrites the
   name of the group but does not remove the user from the former group's set,
   and `DropAttention` only knows the last one. `redis_command.h` 15 says the
   sets hold the attended users of each group.

A fourth has no run, because what waits is a script outside the processes
modelled: `alarm_friend_svr.py` sends a `MASTER_CHANGE` and waits for its answer,
and a change that succeeds gets none (`proxy.cpp` 134-147, `net.cpp` 132;
`WorkProtoSilent`). The lines that a date packed in part loses when it is packed again
(`log_processor.cpp` 127, 173; `repacked`) contradict no comment of the code, so
there is no run for them either.

## 8. What is not modelled

* *Timers* (`timer.cpp`, `list.h`): a list and a loop over it. No file calls it.
* *The servers behind Redis* (`MASTER_CHANGE` beyond the worker that gets it,
  `alarm_friend_svr.py`): the class that talks to the sentinels is not in the
  repository, nor is what a former master does. Writes that Redis loses when a
  replica takes over are not modelled either.
* *Rotation of log files by time* (`log_init_t`), multicast of lines, files
  without a date, the layout of a line. `DoRemove` keeps the date of the file
  before when a name has none (`log_processor.cpp` 200): every name is given one.
* *The loop in which a stopping worker empties its queue* (`work.cpp` 97-118):
  CONN is being stopped at the same time, so its replies reach nobody.
* *Paging and layout of answers*: the answer is a set.
* *Configuration managers, plugin loader, utilities*: they run once, or keep
  nothing.
* *hiredis* beyond the blocking client: the formatting of commands is text,
  `async.c` is not called, and `sds.c` is a library of strings.
* *A forbidden service as the target of a failed `Init`, wrong parameters*: they
  make `Init` fail once at start.

## 9. Plan

Written, in this order: `BlockFifo`, `ShmRing` and its proofs; `ShmChannel`;
`ConnWork`; `TcpRecv`; `TcpSend` and its proofs; `Supervisor` and its proofs;
`FeedStore`; `Services`; `RedisClient`; `LogFiles`; `Linkers` and its proofs;
`TcpSocket`, which composes `TcpRecv` and `TcpSend`, and its proofs; the proofs
of `ShmChannel`, `ConnWork` and `RedisClient`; those of `FeedStore`, `LogFiles` and
`Services`; `Tcp`, which holds `TcpSocket` and `Linkers` together; the proofs about the
parser of `RedisClient`.

Next, models:

1. The stop of a worker in `ConnWork`: draining, and what is lost with
   `push_list`, against the order in which MAIN sends SIGTERM.
2. The formatting of commands (`hiredis.c` 208-448), as far as the format strings
   of `redis_command.h` use it.
3. `RedisClient` under `FeedStore`, with its promises stated as a module of their
   own that it implements.

Next, theorems: that the well-formed answers of the protocol satisfy
`AnswersAssumption` (induction over data, for now TLC's for the answers given), and
`Recovers` and the other liveness properties once `ENABLED` is supported.
