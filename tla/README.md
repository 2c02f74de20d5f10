# php-nsq in TLA+

php-nsq is a PHP extension, written in C, that publishes to and consumes from
[NSQ](https://nsq.io). This directory holds its model: TLA+ modules translated
from the C code, TLC configurations that check them on small instances, and
proofs checked by TLAPS that hold for every instance. Line numbers are those of
the files next to this directory.

## 1. The system

| component | code | state it keeps | operations |
|---|---|---|---|
| frame reader | `sub.c` `readcb` | static `is_first`, `l`, `message`; `msg->size` | libevent's read callback: cut the stream into frames, answer heartbeats, queue messages |
| consumer worker | `sub.c`, `message.c`, `command.c` | static queue (`message_queue_head` ...), the bufferevent's buffers, the running callback | `subscribe`, `conn_eventcb`, `readcb`, `process_message_queue`, `NsqMessage::touch/finish/requeue` |
| reconnecting | `sub.c` `subscribe`, `conn_eventcb` | the stack of `subscribe()` calls, their event bases and bufferevents; `arg->bev_res` | connect, lose the connection, call `subscribe()` again from inside the loop |
| identify handshake | `common.c` `send_identify` | a 256-byte buffer on the stack, `l`, `msg_size` | two reading loops on a socket that does not block, inside `conn_eventcb` and `connect_nsqd` |
| process management | `nsq.c` `Nsq::subscribe`, `start_worker_process`, `signal_handle` | static `arg_arr`, `child_fd`, `master`, `is_init` | fork the workers, wait for children and replace them, SIGTERM |
| publisher | `pub.c` `publish`, `deferredPublish` | none between calls, except what it leaves in the socket | send a command, read frames until the answer, answer heartbeats |
| connector | `pub.c` `connect_nsqd`, `nsq.c` `connectNsqd`, `closeNsqdConnection` | the property `nsqd_connection_fds` of each Nsq object; the descriptors of the process | connect to each nsqd, close all, draw a socket for `publish` |
| lookup client | `nsq_lookupd.c` | the result of one HTTP request | `lookup`, `request`, `FinshCallback` |
| exceptions, registration, build | `nsq_exception.c`, `php_nsq.h`, `config.m4` | tables | none of their own |

How they interact. `Nsq::subscribe` asks lookupd for the producers of a topic
(HTTP) and forks `connect_num` workers for each of them. A worker calls
`subscribe` in `sub.c`, which opens a socket and enters a libevent loop: the
connection's callbacks are `conn_eventcb` and `readcb`, and a 1 ms timer runs
`process_message_queue`, which takes one message off the queue and calls the
PHP callback. All of this is one thread per worker. The callback may call
`touch`, `finish`, `requeue` on the message; with `auto_finish` the code answers
FIN (or REQ after an exception) itself. When a connection ends, `conn_eventcb`
calls `subscribe` again *inside the old event loop*; the static variables, the
queue included, live on; `event_base_dispatch` never returns, so the clean-up
behind it (`sub.c:247-250`) is never reached and the calls pile up. The publisher
is a separate use of the extension: an Nsq object's `connectNsqd` opens the
sockets (with the same handshake), `publish` draws one of them at random and
talks to nsqd on it, `closeNsqdConnection` closes all of them.

What is hard here:

* **Delivery in pieces.** TCP cuts frames anywhere. `readcb` keeps its place in
  static variables and clears them in some branches only.
* **State that outlives its connection.** Parser and queue survive a reconnect,
  and answers go out on a connection that does not have their message.
* **Three paths to one socket.** Commands go through the output buffer, or by
  `write` past it (`  V2`, IDENTIFY, TOUCH).
* **One thread.** Heartbeats, the PHP callback and the message timeout compete.
* **fork.** Everything is copied: the tables, the place in the loop, the handlers.
* **Sockets that do not block, read as if they did.** `read()` of -1 is tried again
  at once (`pub.c:206`) or added to the place in the buffer (`common.c:69`), and an
  end of the connection is told apart from silence in some places only.
* **Descriptors are numbers.** One that is closed is the next one given out,
  perhaps to another Nsq object; an array of them says nothing of whose they are.
* **Failure half way.** One address of several fails; a request ends without
  its callback; an exception is thrown and the code goes on.

What makes each component correct:

* *frame reader*: it does exactly what the frames ask for, in order, and gets
  back to the event loop; what is split or cut never leaves its variables in
  disagreement with each other.
* *consumer*: at-least-once delivery — a message is finished only after a
  callback has handled it, and every message is finished in the end; nothing
  nsqd has in flight is forgotten; nsqd is never sent a command out of turn; the
  queue is bounded.
* *consumer in time*: heartbeats are answered in time although callbacks hold
  them up; messages do not time out while they wait.
* *reconnecting*: one live connection per worker however often it was lost; what the
  loop writes to is not freed; what each loss leaves behind is bounded; and there
  is a connection again.
* *identify handshake*: it takes nsqd's reply off the connection and not a byte
  more, stays inside its buffer, and returns.
* *process management*: one worker per slot, always again; every child is known;
  no child survives the master, but for one it is just forking.
* *publisher*: the result of a call is nsqd's answer to that message, and every
  call returns.
* *connector*: the sockets of an object are open and its own; connecting is all or
  nothing; a script that goes by what it was returned cannot be crashed by a call.
* *lookup client*: workers are started for the last answer of nsqlookupd as it was given;
  each exception is thrown for what it says; crashes have known causes; asking again
  comes to an end.

## 2. The modules

| module | models | main variables ↔ code |
|---|---|---|
| `Wire` | frames on the wire, shared by the three readers | `readI32`, and `SizeIn`: a size of which only some bytes were read |
| `FrameReader` | `readcb`, one step per turn of its `while (1)` | `is_first`, `l`, `size`, `message`: the statics of the same name; `input`: the bufferevent's input; `effects`: what it has done; `pc`: whether control is in libevent or in `readcb` |
| `Consumer` | workers and the channel they share on nsqd, message by message | `queue`: the static queue; `outbuf`: the bufferevent's output; `toNsqd`/`toClient`: the sockets; `conn`, `up`: the innermost `subscribe()`; `current`, `called`: the running callback |
| `Delivery` | what a consumer promises: handled, then finished | refined by `Consumer` with `finished <- Finished` |
| `Heartbeat` | the event loop in discrete time against nsqd's heartbeats | `pc`: poll, I/O, timer, callback; `silence`: nsqd's clock for this client |
| `EventLoop` | `Heartbeat`'s loop with its queue, against nsqd's message timeout too | `ages`: of each message nsqd has out, in queue order; `queued`, `spent` |
| `Reconnect` | the `subscribe()` calls a worker piles up and what they hold | `frames`: the calls and where `conn_eventcb` is in each; `bevs`, `bases`; `bev_res`; `references`: of the configuration array |
| `Identify` | `send_identify`, one step per `read()` | `msg_size`, `l`; `low`, `high`: what has been written of the buffer |
| `Supervisor` | fork, wait and replace, SIGTERM | per process copies of `arg_arr`, `child_fd`, `master`, and of the place in the slot loop |
| `Publisher` | `publish`/`deferredPublish` on one connection | `msg_size`, `l`, `message`; `results`: what each call returned |
| `NsqdPool` | what an Nsq object promises: connected to all that was asked for, or to nothing | refined by `Connector` with `pool <-` the addresses of each object's sockets |
| `Connector` | `connectNsqd`, `closeNsqdConnection`, and which socket `publish` uses | `fds`, `isnull`: the property of each object; `told`: what its script was last returned (history); `open`, `peer`, `live`: the process's descriptors; `sock_arr`, `timeout`: inside `connect_nsqd` |
| `Lookup` | `Nsq::subscribe` up to the first fork, with `lookup` and `request` | `result`, `thrown`, `producers`; `known`, `registered`: nsqlookupd's; `latest`, `answers`: what it has answered (history) |
| `MC*` | values for the constants | |
| `*Proofs` | theorems (section 5): `SubscribeProofs` those about `Nsq::subscribe` (`Lookup`, `Supervisor`), `WorkerLoopProofs` those about a worker's event loops (`Heartbeat`, `EventLoop`, `Reconnect`), `WireProofs` the lemmas on bytes that `FrameReaderProofs`, `PublisherProofs` and `IdentifyProofs` share; the others are named for their component | |

Actions carry the names of the functions they translate. Some things a reader
of the code should know:

* **FrameReader.** `Fill` is what each turn of the loop begins with: read the
  size if `is_first`, then as much of the frame as is there. The type is read
  from `message` even if the allocation is shorter than four bytes
  (`FrameTypes`: any of 0..2); in particular the turn after the last frame finds an
  empty buffer, `size` 0 and a heap byte that may say anything. `readcb` then
  leaves by the first break or, if the garbage says 1 or 2, takes one more turn;
  the run's fairness is that the heap does not say so for ever. Sizes and
  types have `Width` digits of `Base` values instead of 4 of 256.
* **Consumer** takes frames whole. `FrameReader` says under which deliveries that
  is so: the two modules divide `readcb` between them, bytes there and messages
  here. Nested `subscribe()` calls are followed only in the innermost one, which
  is the one whose event loop runs.
* **Supervisor.** Every process has every variable since `fork()` copies all of
  them. A worker whose `subscribe()` returns (the connection could not be
  started, `sub.c:240-243`) goes on after `start_worker_process` as if it were
  the parent. `arg_arr` is allocated with `producers_count` entries
  (`nsq.c:424`): an entry past these may be lost (`Stored`). Other outcomes of
  the overflow, a crash for example, are the fault "exit". Process ids are not
  reused; SIGKILL is not modelled. A SIGTERM is "term", or "term_outside_fork": then
  neither it nor the ones it makes a master send are taken in a process that is between
  `fork()` and its entry in `child_fd` (`Interruptible`).
* **Publisher.** A command is cut into units of a NOP's length, because
  nsqd takes whatever follows a PUB as its body. `CleanSize` is the one fact taken from
  PHP's allocator: in a bin of eight bytes the byte after `OK` is the high byte
  of a free-list pointer, hence zero; the one after `_heartbeat_` is not. The
  comparison `msg_size < 4` of the code never matters: shorter frames are no
  frames of nsqd.
  A behaviour has all of `Hazards` or none, and at most `MaxEvents` calls,
  heartbeats and closes if it has them.
* **EventLoop** extends `Heartbeat`: its actions are `Heartbeat`'s with what they do
  to the queue, so that it implements it by construction of each action; what
  the composition adds is *when* a callback runs (only for a queued message).
* **Identify.** The socket does not block, neither the one libevent made nor the
  publisher's. `common.c:69` adds `read()`'s result to `l` even if it is -1:
  `l` is counted down to `-MaxMisses`. What the publisher and `Consumer` see of it is a
  handshake that takes the reply, or hangs.
* **Connector.** `connect_nsqd` walks its list backwards, from the last address to
  the first (`pub.c:85-106`). The timeout is set to zero after the first success
  (`pub.c:119-123`). No call looks whether the property is NULL. `Uses` says on which
  objects a script calls `publish()` and `closeNsqdConnection()`: on those `connectNsqd`
  has last returned true for, with no close since (`told`), or, with the hazard
  "unchecked", on any, and then a NULL property crashes (`Crash`). `ZVAL_NULL`
  (`nsq.c:179`) leaves the pointer to the freed array where the next call finds it: that
  call may also see the old descriptors, which by then may be another object's. This is
  the hazard "after_close", which the model has and the run and the theorems leave out.
* **Lookup.** libevent ends a request whose connection is closed by calling
  `ConnectionCloseCallback` and then `FinshCallback` with NULL. If the loop ends
  without any callback, `re->result` has never been written (`NoCallback`): it is no
  address and reading it crashes, or it is the address of a text that is empty or no
  JSON object. It is not that of an old answer: those are copied by `strdup()` to
  addresses that are kept in `re` only, and neither is ever freed.
* **Reconnect.** `send_identify` drops a reference to the configuration array it has
  not taken; `References` is how many there are to lose, 0 for an array that is
  not counted.
* **nsqd, the network, libevent, time and the operating system** are external:
  modelled only as far as the code's behaviour depends on them.
* Definitions commented `Slip:` are no part of the model. Each is a mistake the
  definition below it could plausibly have had (a reset forgotten, an off-by-one,
  a swapped order); putting one in its place must make a property fail, which shows that
  the property depends on the code.

## 3. What the runs check

| run | instance | what it shows |
|---|---|---|
| `frames` | 5 frames (heartbeat, OK, empty and longer message, error), streams of 2, 2 connections, every way to cut the stream | `FaithfulDecoding`, `ReadcbReturns` in behaviours without the four hazards below; `ReaderParked` in all |
| `consumer` | 2 messages, rdy 2, 1 worker, IDENTIFY, `auto_finish`, 4 connections, any 1 fault, 1 failing callback, 1 touch | refinement of `Delivery`; `InFlightAccounted`; `NothingToObject`; `BacklogBounded` |
| `consumer_shared` | 1 message, 2 workers, `auto_finish` off, 4 connections, any 1 fault, 1 failing callback | `EveryMessageFinishes`, `FinAfterHandling`, of a message that may be with two workers at once |
| `event_loop` | heartbeat interval 6, callbacks with a touch at least every 5 ticks and of up to 7; rdy 3, message timeout 22 | `NeverClosed`, `NeverTimedOut` |
| `supervisor` | 3 slots, 8 processes, 4 faults: workers die, SIGTERM | one worker per slot, each replaced, none left behind but a child the master was about to record (`OnlyNewbornLeft`) |
| `supervisor_faults` | 2 producers × 2 connections, 7 processes, 2 faults of every kind | `ChildrenRecorded` |
| `second_master` | 3 slots, 6 processes, a connect that fails, a SIGTERM that meets no process in the middle of a fork | **violated** `NoOrphans`: slot 1's worker cannot connect and forks a worker for slot 2; SIGTERM reaches it, but `master` is the first master there, so that it exits without killing its child |
| `publisher` | 3 calls, 3 heartbeats, 1 close; 3 of these in all with split frames, partial sends and a dirty heap | without hazards: results are truthful, heartbeats answered, calls return; with them: an exception means the connection is closed, and no more successes than OKs |
| `connector` | 2 objects, 2 nsqds, 4 descriptors, lists of up to 2 addresses (`MCLists`); nsqds stop and start, connects are refused or time out, objects are connected twice, with no address, or used whatever `connectNsqd` returned | sockets are open and their object's own; none lost while no connect fails; refinement of `NsqdPool`; the wait without a timeout is late; scripts that go by what they are returned survive, those that connect twice among them |
| `lookup` | 2 nsqds that come and go, every configuration, nsqlookupd stops and starts, requests cut, not JSON, without a callback | workers come from the last answer as it was given; exceptions have their reason, and crashes one of four; asking again ends once a producer stays |
| `identify` | 3 replies, 2 heartbeats behind them, any pieces, a close | takes the reply and nothing else, writes inside its buffer, returns; types in all |
| `reconnect` | 4 connections lost, 10 descriptors, 6 references, connects that fail, no event base | one connection, its bufferevent alive, one socket left behind per EOF, connected again |

The four hazards of `FrameReader` are a size split over two reads, an error
frame split over two reads, an error frame with something behind it in the same
read, and a connection cut inside a frame. Each alone breaks `FaithfulDecoding`.
In each module with `Hazards` a behaviour has a subset of them fixed at its start
(none, all, and in the smaller models each alone), so that one
run says both what is right without them and what stays right with them. A
property that holds only without some of them names them in its text.

Bounds, and why they are enough:

* *frames*: the parser's state is one frame; two frames per connection and two
  connections give every pair of neighbours, within a connection and across a reconnect. The five frames have
  sizes 3, 4 and 5, so that what follows an error frame (size 4) is shorter,
  as long, or longer. `MemoryLimit` 24 lets misread sizes be both affordable and
  fatal.
* *consumer*: a fault costs a connection or a worker, and answers left over from
  it may cost one connection more; the others are there for the messages to come
  back on. `MaxConnections` 4 does not cut anything off: with 5 both runs have
  the same states. Two messages with rdy 2 give a queue with something behind
  its head. With two workers one message is enough to be in two places.
  `consumer_shared` is without IDENTIFY because a connection closed during the
  handshake hangs the worker (section 4), and then messages do not finish.
* *event_loop*: D is the largest below the interval and C larger than D, so that
  only `touch()` keeps the connection; T is 3 C + 1, the tight case of
  `TimeoutSuffices` (374 867 states).
* *supervisor*: the slot loop, the dead worker's slot and another one to be
  skipped on the way need two slots, three give one on each side.
  `MaxProcs` is large enough for every fault's replacement.
* *publisher*: a call, its successor that may read its leftovers, and one more.
  With hazards `MaxEvents` 3 allows any three of calls, heartbeats and the close:
  two calls with a heartbeat cut in between are what a stale answer takes.
  (119 282 states.)
* *connector*: two objects with two sockets each use all four descriptors, so that
  descriptors are given out again to the other object, and failed connects make
  them run out (1 643 274 states). "No socket is lost" is stated where
  there are enough descriptors for all objects, as there are here.
* *identify*: frames of three sizes and two types; `MaxMisses` 4 lets `l` go
  farther below zero than the shortest frame is long.
* *reconnect*: four losses are two of each kind in either order. `MaxFiles` 10 is
  two descriptors for each `subscribe()`; with hazards fewer of them are in use.
* Deadlock is not checked where the system stops: budgets used up, all messages
  finished, all processes ended or crashed. `EventLoop` never stops,
  and there it is checked.

Fairness:

* `FrameReader`: once in `readcb`, the code runs. Nothing obliges bytes to come.
* `Consumer`: every handler whose event is ready is run by libevent; callbacks
  come to an end; nsqd delivers to a ready client and reads what it is sent; the
  master restarts dead workers (`Supervisor` says when). Faults, failures and
  touches are bounded and never obliged, so "every message finishes" means: once faults
  cease.
* `Supervisor`: a process that can run does. `Publisher`: the reading loop goes
  on, sent bytes arrive, nsqd answers what it has in full.
* `Identify`: the loops go on, nsqd answers IDENTIFY, bytes arrive. `Lookup`: the
  script runs, a request is answered or refused; producers come and go as they
  like, and only ones that stay oblige `RetryEnds`. `Reconnect`: the worker runs, and a
  connection that is not refused is accepted; losses are never obliged.
* The time modules and `Connector` are safety only.

## 4. Where code and documentation disagree

`second_master` ends in a counterexample, against the repository's `README.md:205`, "When the master
process exits, all child processes also exit". (With two slots and the same faults it
holds: slot 0's worker is forked before `is_init`, so that it becomes `master` in its
own eyes with its first child, and slot 1's has no slot left to fork for.) The same models show further
disagreements, found while the hazards were being separated. Those with a configuration are checked by
`tlc -config <cfg> <module>`; the others need the constants named here.

| module; configuration or constants | property that fails | what happens |
|---|---|---|
| MCFrameReader; `MCFrameReaderSplitHeader.cfg` | `HeartbeatsAnswered` | a size that arrives in two pieces and the parser is lost (`sub.c:300`) |
| FrameReader, `split_error` | `ReadcbReturns` without its first conjunct | `readcb` loops for ever: `l = size`, no branch for type 1 (`sub.c:319`) |
| FrameReader, `pipelined_error` | every message that has arrived is enqueued | the message behind an error frame is dropped (`sub.c:370`) |
| FrameReader, `cut_frame` | every enqueued message was sent on this connection | the rest of an old frame is taken from a new connection (`sub.c:282`) |
| Consumer, `Identify`, "close"; Identify, "closed" | a worker whose connection is closed leaves it; `send_identify` returns | `send_identify` reads 0 for ever (`common.c:57`) |
| Identify, "split_body" | `WritesInside` without its condition | `read()` of -1 moves the place in the buffer before its beginning (`common.c:69`) |
| EventLoop, HB 4, D 8 | `NeverClosed` | a callback of twice the interval costs the connection (`README.md:196`) |
| EventLoop, Rdy 2, C 4, T 6 | `NeverTimedOut` | a message times out in the queue though every callback is short (`README.md:179`) |
| Supervisor, "term" | `NoOrphans` | SIGTERM between `fork()` and `child_fd` (`nsq.c:285`) |
| Supervisor, "fork_fails" | `EverySlotStaffed` | a slot stays empty (`nsq.c:268`) |
| Supervisor, `ConnectNum` 2 | `EverySlotStaffed` | an entry past the end of `arg_arr` is lost (`nsq.c:424`) |
| Publisher, `split_body` | `HeartbeatsAnswered` without its condition | the second half of a heartbeat comes late and it is not recognised (`pub.c:214`), against `pub.c:310-311` |
| Publisher, `dirty_heap` | `FalseMeansRefused` without its condition | a heartbeat is not recognised and the call returns false (`pub.c:212`) |
| MCConnector; `MCConnectorHealthCheck.cfg` | `HealthCheck` | `connectNsqd` on an object that is connected returns true without looking at its sockets (`pub.c:72`), against `README.md:91` |
| MCConnector; `MCConnectorUnchecked.cfg` | `ExampleSurvives` | `publish()` after a `connectNsqd` that returned false reads a NULL property as an array (`nsq.c:198-205`), in the example of `README.md:40-45`, which does not test the result |
| MCConnector; `MCConnectorTimeout.cfg` | `ConnectBounded` | the addresses after the first that answers are connected to without the timeout (`pub.c:119-123`), against `README.md:102-103` |
| Lookup; `MCLookupMissingKey.cfg` | `MissingKeyIsThrown` | "Channel key is required" (`nsq_exception.c:41`) is thrown and gone on from (`nsq.c:363-365`); the missing key is read at `nsq.c:444` |
| Lookup; `MCLookupCut.cfg` | `FailedRequestSurvived` | the check for a failed request, `remote_rsp ? ... : 0` (`nsq_lookupd.c:75`), is followed by its input buffer (`nsq_lookupd.c:76`) |
| Reconnect; `MCReconnectFiles.cfg` | `LostIsRetried` | every EOF keeps its socket and every reconnect its event base; without descriptors "Connection closed ,retrying" (`sub.c:255`) does not retry |
| Reconnect; `MCReconnectConfig.cfg` | `LostIsRetried` | each handshake drops a reference it does not hold (`common.c:77`) |

## 5. What is proved

For every value of the constants, from the named assumptions on them only:

| theorem | statement | argument |
|---|---|---|
| `ConsumerProofs!TypeCorrect` | `Spec => []TypeOK` | by groups of variables: nsqd, sockets, loop, work, bounds |
| `ConsumerProofs!FinsAreHonest` | `[]FinAfterHandling` | inductive with `TypeOK`: no FIN in the output, on a socket, or taken by nsqd, and no `called = "FIN"` of a callback, before the message is in `handled`; `handled` only grows |
| `ConsumerProofs!Refinement` | `Spec => Delivery` | each step is `Handle`, `Finish` or a stutter; `Finish` may follow only `Handle`, by the previous theorem |
| `ConsumerProofs!NoDeliveryForgotten` | `[]InFlightAccounted` | inductive with `Linked`: a connection has one user, is opened in order, greets before it subscribes, and what it holds is on a connection that subscribed; a message in hand stays in hand or is answered (`KeepsMessage`) |
| `ConsumerProofs!NsqdNeverObjects` | `[]NothingToObject` | `Calm => Orderly`: every opened connection is some worker's (`Served`), its commands come in turn (`Turns`), a message is in one place only (`Single`), a TOUCH on the socket is for a message still in flight (`TouchedFirst`) |
| `ConsumerProofs!QueueStaysBounded` | `[]BacklogBounded` | the copies of messages in a worker's hands are counted through every step; what nsqd has in flight (`InFlightBounded`) and the room left for it pay for the new ones (`CopiesBounded`) |
| `WorkerLoopProofs!BoundedSilence`, `HeartbeatsSuffice` | silence is at most HB + D; `D < HB => []NeverClosed` | silence is bounded by what the loop is doing: a beat not yet read, a NOP not yet written, a callback running |
| `WorkerLoopProofs!ImplementsHeartbeat`, `LoopNeverClosed` | the loop with its queue implements `Heartbeat`'s; so `D < HB => []NeverClosed` there too | each action with the queue is one of `Heartbeat`'s or leaves its variables alone |
| `WorkerLoopProofs!BoundedWait`, `TimeoutSuffices` | the i-th message in the queue has waited at most `(Rdy - i) * C` and the running callback; `Rdy * C < T => []NeverTimedOut` | the bound moves one place with each callback; products are taken out into a lemma of their own |
| `SubscribeProofs!EveryChildRecorded` | `[]ChildrenRecorded`, whatever fails | `ChildrenInv`: workers and processes that do not exist yet have no children; a newborn is for the slot its parent is at; that slot is free; the dead child `wait` returned is reaped; and the invariant itself |
| `SubscribeProofs!SlotsAreExclusive` | without failed connects, `connect_num = 1`: `[]OneWorkerPerSlot` | only the first process supervises (`OneMaster`), and by `ChildrenInv` it forks only for a slot whose entry has no living worker |
| `WorkerLoopProofs!OnlyInnermostConnected`, `LeakBounded`, `FreedSafely` | `[]OneConnection`, `[]SocketsBounded`, `[]NoUseAfterFree`, for any number of losses | each call's bufferevent is younger than those of the calls around it; all but the innermost are lost or freed, as the place of `conn_eventcb` says (`Piled`); the sockets left behind are counted by `eofs` (`LeftBehindOK`); `bev_res` is the youngest that was made (`PointerOK`, `Opened`) |
| `SubscribeProofs!ForkedFromAnswer`, `ExceptionHasReason`, `CrashHasCause` | `[]StartedFromAnswer`, `[]ThrownForAReason`, `[]NoCrash` | what is on its way, and what `lookup` returned, is the last answer given unless `request` made it up or found it in place of one (`HistoryOK`) |
| `PublisherProofs!ExceptionIsHonest` | `[]ExceptionMeansClosed`, with every hazard | `results` of calls to come are untouched; `open` never comes back; `read()` returns 0 at an end only |
| `PublisherProofs!TrueIsStored`, `FalseIsRefused` | `[]TrueMeansStored`, `[]FalseMeansRefused` | `Calm`: some `line` of frames is what has not been read, `s` of them in the socket (`Talk`); its first may have had its size read; at most one of them is an answer, to the call that waits; until nsqd sends it, the units of that call's PUB are on their way in order, behind NOPs and before NOPs (`Underway`), and afterwards only NOPs are (`Quiet`) |
| `PublisherProofs!TrueHasItsOk` | `hazards = {} => TrueHasAnOk`, always | `StoredOK`, with every hazard: nsqd has no more messages than it sent OKs; and by `Calm` the calls that returned true are of messages it has |
| `PublisherProofs!BeatsAreAnswered` | `[]HeartbeatsAnswered` | on the same `line`: while nsqd's end is open, `beats` is the NOPs it has, those on their way and the heartbeats in `line` (`Paired`) |
| `ConnectorProofs!SocketsAreOwn`, `OnlyLateWaits`, `ScriptsSurvive` | `[]PoolIsOpen`, `[]WaitsAreLate`, `[]CallsSurvive`, if "after_close" is not in `Hazards` | with the call under way: its sockets are open and nobody's (`SocketsOK`), a timeout that is gone has a socket to show for it (`TimeoutOK`), a property that is NULL has no array and its script was not returned true (`NullOK`), one that is not has its sockets (`FilledOK`) |
| `ConnectorProofs!Refinement` | `Spec => ImplementsNsqdPool`, under the same assumption | `ConnectDone` is `Connect` or a stutter, a close is `Close`, a `publish` on a live socket is `Publish`; a descriptor given out changes no object's addresses, by `PoolIsOpen` |
| `ConnectorProofs!SocketsStayInReach`, `TrueIsConnected` | `[]NoSocketLost`, `[]TrueMeansConnected`, under the same assumption | `Promise`: the arrays are as long as some list and share no descriptor, so that the sockets of all of them are fewer than `MaxFd` by counting (`RoomForOne`): `socket()` fails for no call, nothing fails half way, and the array is what the call has opened |
| `FrameReaderProofs!ReaderIsParked` | `[]ReaderParked`, with every hazard | inductive with `TypeOK` and `Room`: inside a frame `message` has the length `size` says |
| `FrameReaderProofs!DecodesFaithfully` | `NsqdFrames => (Spec => []FaithfulDecoding)` | `Decoded`: `input` is the end of what has arrived; the reader is between two frames, inside one with its bytes so far in `message`, or just behind an error; and it has done what the frames before it ask for |
| `WireProofs!RoundTrip` | `Fits(n) => readI32(Digits(n)) = n` | the digits' remainders, put together one by one |
| `IdentifyProofs!TakesWholeReply`, `StaysInBuffer`, `TypeCorrect` | `[]TakesTheReply`, `[]WritesInside`, `[]TypeOK`, for any replies and number of heartbeats | what nsqd has sent and nobody has read is what is left of the reply, and the heartbeats (`Coming`, `Reading`): nothing is lost and nothing overtakes, however it arrives (`ArrivesInOrder`), `read()` takes from the front (`TakenFromFront`), and if nothing is split the reply is in the socket as a whole or not at all. For the types, with every hazard: a size of which only the front was read is not larger (`SizeOfFront`) |
| `SubscribeProofs!ForkHasProducers` | `IsFiniteSet(Nsqd)`: `Lookup`'s `[](stage = "started" => Cardinality(producers) \in Nat \ {0})` | what `Supervisor` assumes of `Producers`, from `StartedFromAnswer` |
| `*Proofs!TypeCorrect`, `SubscribeProofs!LookupTypeCorrect`, `WorkerLoopProofs!LoopTypeCorrect`, `ReconnectTypeCorrect` | types | |

The invariants are not inductive as they stand: `ChildrenRecorded`, for example,
is kept by `Record` only because the newborn is a child of the slot at
hand and the slot's old entry is dead, which is what the other conjuncts say; and
that a new descriptor is in no object's array is true because arrays hold open
ones, that they are open because a close takes no other object's, and that
because no two share one. The type invariants of `Connector`, `Lookup`
(`LookupTypeOK`) and `Reconnect` (`ReconnectTypeOK`) are proved and not among the runs' properties.
`TakesTheReply` speaks of the last step only; it needs to be known all along that the reply is
at the front of what is coming, and that the size read is the reply's, which is `RoundTrip`.
`Lookup` and `Reconnect` carry their names in `Init`, `Next` and `Spec` (`LookupSpec`,
`ReconnectSpec`) so that one module can speak of them and of the component they lead to.

`NsqdFrames`, the hypothesis of `DecodesFaithfully`, says that no frame is larger
than what `emalloc` grants and that a message has its 26 bytes of metadata: `MCFrameReader`
assumes it too, so that TLC evaluates it on the run's frames.

`FrameReader`, `Publisher` and `Identify` compute over sequences of any length. The recursive functions
(`readI32`, `Shifted`, `FlattenSeq`) are reasoned about without the library's
induction theorems: `LeastExists` is well-foundedness of finite sets, cited from
the library; `AllIndices` derives from it that a *set* of indices with 0 in it
and closed under successor has them all; `RecursionExists` that a function given by its
first value and a step exists. Each lemma on a recursive function
then names the set of indices at which it holds. These lemmas are in `WireProofs`.

Only model-checked: liveness (TLAPS has no ENABLED or fairness here), and
`TrueHasAnOk` of `Publisher` on executions with hazards (`TrueHasItsOk` is about those without).
With hazards it depends on the values: for other data than the run's, a reader that has lost its
place may take the inside of a frame for an OK.
Liveness is stated as `D!EveryMessageFinishes` on the refined state because TLC does not
evaluate fairness of an instance.

## 6. What is not modelled

* **Use after `closeNsqdConnection`** is modelled ("after_close" in `Connector`) but
  in no run: what a freed array holds is undefined, and nothing can be promised. The run
  does have calls on a property that is NULL ("unchecked"), those after a close included,
  as long as the freed array is not found: they crash, and the other properties hold up
  to there.
* **Lengths of data**: the 1 MiB buffer of `publish` (`pub.c:159`), the 256 bytes of
  IDENTIFY (`common.c:39`), `malloc` failures in `enqueue_message`: one call in one
  place each.
* **Process ids that are used again** (`nsq.c:305`): a property about strangers would need the
  process table of the system.
* **A TOUCH inside a command that is half flushed**: commands are whole in
  `Consumer`.
* **Several connections drawn by one publisher.** `Connector` says which socket
  `publish` gets, `Publisher` what happens on one. The two are not composed;
  a message sent on one connection never reads from another, so the composition
  would be a product of `Publisher`s.
* **Exceptions**: `throw_exception` and its codes as far as `Lookup` and `Publisher` throw
  them; the table of texts, class and constant registration and the build files have no
  behaviour.

## 7. Plan

Done: the modules of section 2 and the proofs of section 5; every safety property of the
runs is stated by a theorem. Left, in this order:

1. `OutputStream`: bytes instead of commands on the consumer's output side, where
   `touch()` can cut into a command that is half flushed.
2. `Connector` with a `Publisher` per socket, for an nsqd that stops between two
   calls.
