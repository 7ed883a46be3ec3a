# DDmuduo in TLA+

A verification development for DDmuduo, a C++11 rewrite of the muduo network
library: one epoll loop per thread, a main loop that accepts, several IO loops
that serve connections. All paths are relative to the repository (`src/src/` is
the library, 2502 lines of `.cc` and `.h`; the repository has no unit tests).

The modules are translated from the code. Line numbers for every definition are
in `PROJECT.json` under `map`.

## 1. Inventory

| Component | State | Operations | Works with |
|---|---|---|---|
| `EventLoop` | `looping_`, `quit_`, `callingPendingFunctors_`, `pendingFunctors_` under `mutex_`, `wakeupFd_` (an eventfd), `activeChannels_` | `loop`, `quit`, `runInLoop`, `queueInLoop`, `wakeup`, `handleRead`, `doPendingFunctors` | every thread that calls it; the poller |
| `Channel` | `events_`, `revents_`, `index_`, `tie_` | `enableReading`, `enablewriting`, `disableWriting`, `disableAll`, `remove`, `handleEvent` | its loop's poller; the object whose callbacks it holds |
| `Poller`, `EPollPoller` | `channels_` (fd to channel), `epollfd_`, the growing event array | `updateChannel`, `removeChannel`, `poll` | the kernel |
| `TcpConnection` | `state_` (atomic), `inputBuffer_`, `outputBuffer_`, socket, channel | `send`/`sendInLoop`, `shutdown`/`shutdownInLoop`, `handleRead/Write/Close/Error`, `connectEstablished`, `connectDestroyed` | its IO loop, the server, user callbacks, other threads |
| `TcpServer` | `connections_`, `started_`, acceptor, thread pool | `start`, `newConnection`, `removeConnection(InLoop)`, destructor | base loop and all IO loops |
| `Acceptor` | listening socket and channel | `listen`, `handleRead` | base loop, `TcpServer::newConnection` |
| `Buffer` | `buffer_`, `readerIndex_`, `writerIndex_` | `append`, `retrieve*`, `makeSpace`, `readFd`, `writeFd` | `TcpConnection` |
| `EventLoopThread`, `Thread` | `loop_`, `mutex_`, `cond_`, `exiting_`; the thread, `joined_` | `startLoop`, `threadFunc`, destructor; `start`, `join` | owner thread and new thread |
| `EventLoopThreadPool` | threads, `loops_`, `next_` | `start`, `getNextLoop`, `getAllLoops` | `TcpServer` |
| `Socket` | an fd | bind, listen, accept, `shutdownWrite`, options | the kernel |
| `InetAddress`, `Timestamp`, `CurrentThread`, `Logger` | values; one shared log level | conversions, output | - |

How they interact:

- *Calls between threads* all go through `EventLoop::queueInLoop`: push a
  functor under the lock, then write the eventfd. `quit()` stores a flag, then
  writes the eventfd.
- *Events* go kernel -> `EPollPoller::poll` -> `Channel::handleEvent` -> the
  owner's callback, in the loop's thread.
- *A connection's life*: the base loop accepts, makes the `TcpConnection`, puts
  it in `connections_` and queues `connectEstablished` in an IO loop. A close
  seen in the IO loop queues `removeConnectionInLoop` in the base loop, which
  erases the connection and queues `connectDestroyed` in the IO loop.
- *Shared memory without a lock*: `state_` (read and written by any thread
  that sends or shuts down), `quit_`, `callingPendingFunctors_` (loop thread
  only), `EventLoopThread::loop_` in its destructor.

What is hard, and what makes each part correct (with the lines, in
`PROJECT.json` under `hazards`):

- `EventLoop`: the loop thread moves on between a caller's two steps. Correct
  when no functor and no quit is slept through, functors start in order and
  once, and they all run if the loop goes on.
- `Channel`/`EPollPoller`: three records of the same thing (`events_`,
  `index_`, epoll's own set) must agree, or `epoll_ctl` fails and `LOG_FATAL`
  ends the process.
- `TcpConnection`: partial writes, buffered output and direct writes must keep
  one order; FIN must wait for the output; UP and DOWN are reported once each;
  `state_` is tested in one step and acted on in a later one; queued functors
  hold a raw `this` and a raw `c_str()`; a close travels three hops through two
  loops.
- `EventLoopThread`: the start handshake, and a destructor that calls `quit()`
  on an object the other thread owns.
- `TcpServer`: connections end in three ways (the peer, a removal on its way
  through the base loop, the destructor) and the ways cross. Correct when epoll's
  raw pointers never outlive a connection, reused descriptors never meet a stale
  entry of a poller, a channel is touched by one thread only, every descriptor
  comes back, and every UP is followed by DOWN. Its destructor queues work in
  loops that are about to be told to quit; `removeConnection` binds a raw `this`.
- `Acceptor`: one accept per event; EMFILE is only logged. Correct when the client
  is accepted once a descriptor is free.
- `Buffer`: index arithmetic in `makeSpace` and `readFd`.

## 2. Plan

Built, in this order:

1. `TaskQueue` (abstract), `EventLoop`, `EventLoop_proofs`
2. `Channel`, `OutputStream` (abstract), `TcpConnection`, `TcpConnection_proofs`,
   `TcpConnection_life_proofs`, `TcpConnection_stream_proofs`
3. `EventLoopThreadPool`, `EventLoopThreadPool_proofs`
4. `Buffer`, `Buffer_proofs`
5. `ConnectionTable` (abstract), `TcpServer` with the acceptor, several
   connections, loops and descriptors, and the destructor; `TcpServer_proofs`

Left:

6. The last step of `quit()` in the pool: `WakeLoop` can touch a loop that has
   been destroyed. A run of its own, and when it cannot happen.

How the modules build on each other: `Channel` is extended by `TcpConnection` (one
connection in every detail) and by `TcpServer` (many connections, each reduced to
UP, shutdown and end). Both use a loop as `EventLoop` proves it to be, and
`TcpServer` uses the pool as `EventLoopThreadPool` proves it to be: loops dealt
in turn, threads quit and joined one by one. Abstract specifications: `TaskQueue`,
`OutputStream`, `ConnectionTable`.

## 3. Modules

### TaskQueue and EventLoop

`TaskQueue` is what `queueInLoop` promises: functors run one at a time, in the
order they were handed in, at most once. No threads, no wakeups.

`EventLoop` has the loop thread as a program counter over `loop()` and
`doPendingFunctors()`:

| `pc` | the loop thread is |
|---|---|
| `start` | before `loop()` (a thread-init callback may run) |
| `check` | at `while (!quit_)` |
| `poll` | in `epoll_wait` |
| `handle` | calling `handleEvent` for what is left of `activeChannels_` |
| `run`, `functor` | between functors / in a functor of the local batch |
| `exited` | out of `loop()` |

Another thread's `queueInLoop` or `quit` is two actions: `QueueInLoop(p, t)` or
`Quit(p)` (the push or the store), then `Wakeup(p)` (the eventfd write). Calls
from the loop thread itself (`QueueInLoopOwn`, `QuitOwn`) happen inside
callbacks and functors and follow the code's test
`!isInLoopThread() || callingPendingFunctors_`. `evfd` is the eventfd counter
with its maximum, at which the nonblocking write fails. The channels are the
wakeup channel and one other, `"io"`, whose callback is user code. epoll may
leave the wakeup channel out of one answer (more channels are ready than the
event array holds).

### Channel

A channel, its `index_` and epoll's entry for its fd as one record, and the
operations as functions of that record, since all of them run in the loop
thread. `fatal` stands for `LOG_FATAL` after a failed `epoll_ctl`.
`updateChannel` adds a channel without an entry whatever its events are, the
empty set included; the model keeps this.

### OutputStream and TcpConnection

`OutputStream` is what a connection promises about its output: bytes leave in
the order they were accepted, none dropped, repeated or overtaken, and the write
side is shut down after the last of them unless the connection was closed.

`TcpConnection` has one connection with everything that touches it:

- *the IO loop's thread*: `Poll` picks readiness bits and turns them into the
  callbacks `handleEventWithGuard` makes (`todo`); `OnClose`, `OnRead`,
  `OnWriteSome`, `OnWriteNothing` are the handlers; `ConnectEstablished`,
  `ConnectDestroyed`, `RunSend`, `RunShutdown`, `RunUserFunctor` run the head of
  `ioq`; `UserSend`, `UserShutdown`, `UserReturns` are what a user callback does.
- *other threads*: `send()` is test, then queue; `shutdown()` is test, store,
  queue. Between the steps anything may happen.
- *the base loop*: `RemoveConnectionInLoop`, `DestroyServer`, and `LoopEnds`: after
  the body of `~TcpServer` the pool's destructor quits the IO loop and joins its
  thread, and what is queued then is dropped, `connectDestroyed` included.
- *the kernel and the peer*: the peer sends, closes or resets; a write fails
  after FIN was sent or a reset came; `HungUp` is when epoll reports `EPOLLHUP`.

What is abstracted, and why it is safe:

- A handler of the loop thread is one step. It reads or writes `state_`, the
  only memory it shares with other threads, once, but for `connectDestroyed`, which
  tests and then stores. A store of another thread's `shutdown()` in between is
  overwritten and DOWN is reported all the same, which is not what a store before
  the step does; `OverwrittenStores` takes such stores into the step.
- Other threads are assumed to finish their calls before the IO loop is gone
  (`LoopEnds` waits for them): what `send()` through a pointer to a connection
  whose loop no longer exists does is not defined.
- The IO loop is used through what `EventLoop` proves of it: functors run in
  order, one at a time, between events. The real loop runs them in batches, a
  subset of these orders.
- Messages are model values and their bytes `<<m, k>>`. Messages are not empty.
  `writeCompleteCallback_` and `highWaterMarkCallback_` are assumed set. Input
  is a flag: whether bytes wait.
- `Buffer::readFd` has no `return`, so its value is undefined. The constant
  `ReadReturns` is the set of values the build can produce: all three signs, or
  `{"positive"}` for the `-O0` library kept in `src/lib`, where the return
  register holds a pointer.
- The program is assumed to ignore SIGPIPE (the library does not do it).
- One connection, on an IO loop that is not the base loop. `setThreadNum(0)`,
  where the two are the same and the removal happens inside `handleClose`,
  is in module `TcpServer`.
- Callers drop their `TcpConnectionPtr` and their string when they like
  (`DropConnection`, `DropString`). With `KeepAlive = TRUE` they wait until no
  functor that binds the object or the string is queued; with `FALSE` both may go
  out of scope as soon as the call has returned.
- `Crosses` is the condition of the high-water callback; the functor carries it to
  the loop, where user code would run.

### ConnectionTable and TcpServer

`ConnectionTable` is what a server promises about clients, without loops, threads or
queues: an accepted client gets a descriptor nobody else has, is reported UP and
then DOWN, at most once each, and gives the descriptor up only after DOWN, unless
the server is being destroyed. Its `reports` counts the calls of
`connectionCallback_`, so a second UP or DOWN is a step the specification does not
have, not a step that changes nothing.

`TcpServer` has the base loop (0) and `N` IO loops, with what `TcpServer`,
`Acceptor`, `EPollPoller` and the kernel keep:

| Variable | In the code |
|---|---|
| `server` | `started_`, and how far the destructor is |
| `next`, `connections`, `accept` | `next_`, `connections_`, `acceptChannel_` |
| `fd`, `ioLoop`, `state`, `channel` | of each `TcpConnection` |
| `told`, `reports` | what `connectionCallback_` reported last, and how often it was called |
| `held`, `closing` | whether user code keeps a `TcpConnectionPtr`; whether another thread is in `shutdown()` through it, past the test of `state_` and before the store |
| `backlog`, `hung` | in the kernel: the accept queue, connections the peer has ended |
| `pc`, `quit`, `active`, `pending`, `functors`, `done`, `channels` | of each loop: its thread's place, `quit_`, `activeChannels_`, `pendingFunctors_`, the local batch, how much of it has run, `channels_` |

- *A round of a loop* is `Poll` (any nonempty set of ready channels, or none when
  the eventfd ended the wait), `HandleClose` or `HandleRead`, `NewConnection` or
  `AcceptFails` for each of them, `TakeFunctors`, the `Run...` actions, `FinishFunctors`; the
  condition of `loop()` is in the guards of `Poll` and `ExitLoop`.
- *runInLoop* runs the functor in place when caller and loop are the same thread:
  with `N = 0`, `NewConnection` includes `ConnectEstablished`, `HandleClose` includes
  `RemoveConnectionInLoop`, and `DestroyConnection` includes `ConnectDestroyed`.
- *Lifetime*: a connection exists, and its socket is open, while somebody holds a
  `TcpConnectionPtr` (`Owned`): `connections_`, user code, a functor that waits, or
  one of the running batch, whose vector is freed when the batch is over. accept4
  may return any descriptor that is not in use (`FreeFds`).
- *Stopping*: the owner quits the base loop and destroys the server when `loop()`
  has returned, as `main` in `testserver.cc` does. `DestroyConnection` is one round
  of the destructor's loop, `QuitLoop` the destructor of one `EventLoopThread`
  (the next waits for the join), `DestroyAcceptor` comes last. What is queued in an
  IO loop when its thread leaves `loop()` is freed, not run (`ExitLoop`).
- *shutdown()* is one step in a callback of the connection's own loop
  (`ShutdownInCallback`) and two from another thread that holds a pointer
  (`ShutdownChecks`, `ShutdownSets`): a close or `connectDestroyed` may fall between,
  and `kDisconnected` becomes `kDisconnecting` again, as in the code. The
  `shutdownInLoop` that follows closes the write side, which nothing here can see,
  and is left out.
- *The peer's end* is one flag, `hung`, for FIN and reset. epoll goes on reporting
  such a channel. `HandleClose` is `handleClose` from `handleRead` when `readFd`
  returned 0, or from a hang-up without input (a reset). `HandleRead` is the round in
  which `readFd` returns something else (`ReadReturns`): nothing changes and the
  channel is reported again. For a FIN the library in `src/`, where `readFd`
  always seems to read something, does that for ever (`conn_peer_close`); the model
  lets `HandleClose` happen in its place, which adds behaviour and takes none away.

A condition on everything this module shows: no thread but a connection's own
calls `send()` on it. `send()` is not in the module, and one from another thread can
put a removed channel back into its poller (`conn_removed`): `ActiveAreAlive` and
`PollersHoldLiveChannels` then fail, and DOWN may be reported twice
(`TableRefinement`). The repository's example sends in callbacks only.

What is also abstracted: data, half-closed connections and errors (`TcpConnection` has
them); the two steps of `queueInLoop` (`EventLoop` proves no wakeup is lost); the
poll timeout, whose rounds do nothing here; names of connections. IO threads have
entered `loop()` by the time the server is destroyed; what happens otherwise is run
`pool_hang`. A connection may be established and ended by the peer in any order, and
`shutdown()` by user code may come at any time between.

### EventLoopThreadPool

The pool, its `EventLoopThread`s and their `Thread`s, from `start()` to
destruction. `at` is where the base thread is, `thread[t]` where IO thread `t`
is in `threadFunc()`:

| `at` | the base thread is |
|---|---|
| `idle`, `serving`, `done` | before `start()`, dealing loops out, after the destructor |
| `spawn`, `sem` | in `Thread::start`, before and in `sem_wait` |
| `check`, `waiting` | at the `while` of `startLoop()`, in `cond_.wait` |
| `reading` | at `loop_ != nullptr` in `~EventLoopThread` |
| `quitting`, `waking`, `joining` | before the store of `quit()`, before its wakeup, in `join()` |

- Critical sections of `mutex_` are one step, except the one that ends
  `threadFunc()`: `ClearLoop` takes the lock, `Unlock` gives it back. The unlock
  is the thread's last use of the `EventLoopThread` object; the `EventLoop`, which
  was constructed before the lock, is destroyed after it.
- The test of `loop_` in the destructor takes no lock, so it is not delayed by
  `locked`; the test of `startLoop()` is.
- `quit()` is a store and then a wakeup. That the loop ends when `quit_` is set
  while it runs is `EventLoop!QuitEndsLoop`; `EnterLoop` is the `quit_ = false`
  with which `loop()` begins.
- `Quitters` are the threads whose loop user code quits by itself. It may do so
  at any time after the loop exists. Nearly every promise of the pool fails for
  such a thread (`startLoop()` may wait for ever, the destructor detaches
  instead of joining, a dead loop is dealt out), so the properties speak of the
  other threads, and show that these do not suffer.
- The vector of `unique_ptr`s destroys its elements first to last, as libstdc++
  does. The order matters to no property.

### Buffer

`buf` is the vector (its size and elements) with the two indices, and each
function of the class is a function of that record; TcpConnection's calls are the
actions `Append` (`sendInLoop`), `Read` (`handleRead`), `Take` (`handleWrite`, and
user code that retrieves input), in any order and amount. Byte number `k` has the
value `k`, so that the two counters `put` and `taken` say what the buffer must
hold. `readFd` is one step: `readv` fills the writable part and then `extrabuf`,
whose content is appended. `MoveUp` is a forward `std::copy`; that its destination
does not begin inside its source follows from the two tests that lead to it, so no
property says so. A failed read changes nothing, and `writeFd` reads only.
`retrieveAsString` copies as many bytes as it is asked for, even beyond the data;
like `retrieve`, it is `Take` here: what it leaves in the buffer counts, not the copy.

## 4. Runs

| Run | Expect | Shows |
|---|---|---|
| `loop` | pass | `NoLostWakeup`, `NoLostQuit`, `FifoAtMostOnce` (refinement of `TaskQueue`), `TypeOK`; `QueuedFunctorsRun`, `QuitEndsLoop` without the 10 s timeout, `EarlyFunctorsRun` with it |
| `pool` | pass | `EvenDealing`, `LoopsAreAlive`, `ThreadsAreJoined`, `StartReturns`, `QuitThenJoin`, `TypeOK` with one loop that user code quits |
| `pool_hang` | violation | `DestructorReturns`: the destructor's `quit()` before `loop()` is erased by `quit_ = false`, and `join()` waits for ever |
| `buffer` | pass | `BytesIntact`, `GrowthIsBounded`, `GrowsOnlyWhenFull`, `TypeOK` |
| `conn_mixed` | pass | `StreamIntact`, `StreamRefinement`, `PollerInStep`, `FinAfterOutput`, `OutputIsWatched`, `HighWaterIsRisingEdge`, `TypeOK` under everything at once |
| `conn_ending` | pass | `UpThenDown`, `EndIsReported`, `NotPolledAfterDestroyed`, `OutputDrains`, `ShutdownCompletes` with two threads racing in `shutdown()`, the server and its loop going at any time |
| `conn_peer_close` | violation | `PeerCloseIsReported`: with `readFd` as built, a peer's close is never reported |
| `conn_removed` | violation | `NotPolledAfterDestroyed`: cross-thread `send()` and `shutdown()` together bring the channel back after `connectDestroyed` |
| `conn_string` | violation | `FunctorsFindTheirString`: the functor outlives the caller's string |
| `server_pool` | pass | `ActiveAreAlive`, `PollersHoldLiveChannels`, `DeadLoopsGetNoWork`, `ChannelsStayInTheirThread`, `NoCallbackAfterDestruction`, `TableRefinement` (of `ConnectionTable`), `ClosedIsFreed`, `ServerIsDestroyed`, `TypeOK` with two IO threads and a `shutdown()` that races from another thread |
| `server_inplace` | pass | `EveryUpHasDown`, `EveryClientIsServed` without IO threads, with more clients than descriptors, for a `readFd` that returns 0 at the end of input |
| `server_silent` | violation | `EveryUpHasDown`: with an IO thread the destructor's `connectDestroyed` may be dropped with the loop's queue, and DOWN is never reported |

The violations are explained in `PROJECT.json` under `findings`. Two more
disagreements between comments and code, without runs of their own:
`TcpConnection.cc:217` says nothing can be sent after `shutdown()`, but
`sendInLoop` tests `kDisconnected` and `shutdown()` sets `kDisconnecting`, so a
message that passed `send()`'s test earlier is still written;
`TcpConnection.cc:295` says "not writing" means "all sent", which is false after
`handleClose` (hence `downs = 0` in `FinAfterOutput`).

Bounds. Every bound is a constant of a cfg; the modules have none of their own.

- Two calling threads and three functors (`loop`): one functor in the running batch, one queued behind it, one queued by it, while
  both callers are between push and write. `EventfdMax = 2`: the counter can be
  zero, in between and full. Each functor is queued once; a run is bounded by
  that and by the eventfd, the loop itself cycles for ever.
- Two messages of two bytes with `HighWater = 2`: a message is written at once,
  in part or not at all, the second meets an empty, part-drained or full buffer,
  the mark is crossed. One sender and one closer, or two closers: all orders of
  test, store and queueing of two threads against each other and the loop.
- Three IO threads (`pool`): `cur` has one before and one after it, in `start()`
  and in the destructor, and a wrap of `next_` skips nothing by accident. The
  loop that is quit is the second. `MaxDeals = 3` is three rounds of dealing.
- `buffer`: sizes of two or three stand for 8, 1024 and 65536; twelve bytes in
  all are more than twice the vector, so that every append and read size below,
  at and above each limit of `makeSpace` and `readFd` occurs, before and after
  growth. Retrieves of up to one byte too many.
- `conn_ending` has one message, sent in the loop thread; the liveness argument
  concerns the drain of one buffered remainder and the functors around it.
- `server_pool`: two IO loops, so that two connections can be in different loops
  while the destructor quits one thread and then the other; two descriptors, one of
  which can be reused while the other connection lives; one of the two connections
  is kept by user code (`Kept`). `next_` wraps once. Each client connects once: a
  reused descriptor belongs to a new connection object, as in the code.
- `server_inplace`: three clients and two descriptors, so that accept4 fails with
  EMFILE and a descriptor is reused. With no IO threads one loop does everything,
  and the number of clients is what matters.
- `server_silent`: one IO thread and one connection suffice for the violation, in
  19 steps.

`CHECK_DEADLOCK FALSE` in all runs: a loop that has exited with no caller left,
a connection or a pool that is destroyed, really stop. (A buffer can always be
asked for nothing.)

## 5. Fairness

- `EventLoop!Fairness`: the loop thread's own statements and the second half of
  a call (`Wakeup`) are weakly fair (threads are scheduled, callbacks return);
  so is `epoll_wait` returning while the eventfd is not zero. Nobody has to call
  `queueInLoop` or `quit`. The 10 s timeout is not assumed except where a
  property names it (`PollTimesOut`).
- `TcpConnection!Fairness`: the loop's steps, the end of a user callback, the
  base loop's removal and the rest of a begun call are weakly fair. Strong
  fairness stands for three things: the loop runs its functors after every poll
  whatever events come (`EventLoop!QueuedFunctorsRun`); level-triggered epoll
  goes on reporting a socket that can be written; a peer that has not reset
  reads now and then (`OnWrite`). A peer that never reads makes output wait for
  ever, in the code too. All of this holds while the loop does: `LoopEnds` needs no
  fairness and disables the loop's steps for good, so `OutputDrains`,
  `ShutdownCompletes` and `PeerCloseIsReported` have the end of the loop among their
  ways out. What a connection is owed then is not promised by the code
  (`server_silent`).

- `EventLoopThreadPool!Fairness`: the base thread in `start()` and in the
  destructor and every IO thread are weakly fair: threads are scheduled, the
  thread-init callback returns, a loop with `quit_` set ends. Nobody has to start,
  use or destroy the pool, no spurious wakeup is relied on, and `join()` and
  `cond_.wait` wait for what the other thread does.
- `TcpServer!ThreadFairness`, all that `ClosedIsFreed` and `ServerIsDestroyed` need
  (`server_pool`): each loop's thread, the accept handler and the destructor's thread
  are weakly fair. That an eventfd written by `queueInLoop` ends the wait is in
  `Poll`'s guard. `server_inplace` adds two. `EpollFairness`: epoll is level triggered
  and reports at most as many channels at a time as its event array holds, but it does
  not pass a ready channel over for ever: each channel is strongly fair.
  `ClientFairness`: each accepted
  peer ends its connection some day, calls of `shutdown()` return, and user code drops
  its pointer; without it no descriptor need ever come back. That the server then
  notices is not fairness but the value of `readFd`: `EveryClientIsServed` is checked
  with `ReadReturns = {"zero"}`, what `README.md:661` of the repository says of it. With
  another value in the set (the library in `src/` returns one) a closed connection
  keeps its descriptor and clients wait for ever; TLC finds that too.
  `ClosedIsFreed` starts after DOWN and needs no such assumption. Nobody has to connect, start, quit or destroy.
- `Buffer` states safety only.

## 6. Proofs

`EventLoop_proofs` (for any set of threads and functors and any eventfd maximum):

- `TypeCorrect`, then `InvHolds: Spec => []Inv`. `NoLostWakeup` is not inductive:
  it says nothing of work queued while the loop handles events. `Inv` adds
  `SignalInv` (work that nobody has signalled is possible only while the loop
  handles events and will reach `doPendingFunctors`), and `BatchInv`
  (`callingPendingFunctors_` is true exactly while the local batch can be
  nonempty, the fact that makes the test in `queueInLoop` right).
- `WakeupsAreNotLost`, `QuitsAreNotLost` follow from `Inv`.
- `LoopIsFifo`: `EventLoop` implements `TaskQueue` under
  `backlog <- functors \o pending`, `done <- executed`.

`TcpConnection_proofs` (for any threads, messages, message length, high-water
mark and any `ReadReturns`):

- `TypeCorrect`; `PollerNeverFails`: `index_`, `events_` and epoll agree and no
  `epoll_ctl` fails, from lemmas on the operators of `Channel`.
- `InvHolds`, with `OutputInv` the strengthening: until DOWN is reported the
  write event is set exactly when output waits, and an established channel stays
  registered for reading. `FinFollowsOutput` and `OutputNeverStranded` follow.
- Lemmas on the loop's queue, used by the next two modules: what a batch of user
  callbacks holds (`BatchType`), what each step does to `ioq` (`QueueStep`), and
  that each kind of functor is queued by one kind of step only (`WaitsStep`).

`TcpConnection_life_proofs` (for the same constants), in the order of the file:

- `LifeInv`, for any callers: until `connectEstablished` runs it heads the queue
  and nothing can happen to the connection but the destructor of the server
  (`UpOnce`); `kDisconnected`, a removal in the base loop and a queued
  `connectDestroyed` all come after a DOWN, or after `~TcpServer` (`EndInv`).
  `EndAlwaysReported` and `UpOnceBeforeDown` (UP once, before any DOWN, never
  connected again) follow, also for threads that send and shut down at will.
- `DownAtMostOnce`: at most one DOWN, if no other thread sends or none shuts down
  (`Senders = {} \/ Closers = {}`). `DownInv` is the reason: after DOWN the channel
  is out of epoll with no event asked for, and a send that is still queued finds
  `kDisconnected`. With both kinds of threads the condition fails: `shutdown()`
  tests `kConnected`, the connection ends, `shutdown()` stores `kDisconnecting`, the
  queued send enables writing again and epoll reports the hang-up a second time.
  (TLC finds `UpThenDown` violated with the constants of `conn_mixed`, which is why
  that run does not list it.) The repository's example calls both from callbacks in
  the loop thread only.
- `ShutdownNotForgotten`, for any callers: while an open connection is in
  `kDisconnecting` and its loop lives, the FIN was sent, or output waits, or `shutdownInLoop` is
  queued, or a caller is about to queue it (`ShutdownPending`). It is the safety
  half of `ShutdownCompletes`: which of the drain in `handleWrite` and the queued
  functor finishes does not matter, one of them is left.
- `GoneFromPoller`: under the condition of `DownAtMostOnce`, `connectDestroyed` is
  the poller's last contact with the channel. A send that runs later finds
  `kDisconnected`, or, by `ShutdownPending`, the write side closed or a channel
  whose `events_` still ask for writing, and does not call `enablewriting`
  (`LateSend`). With both kinds of threads the channel comes back (`conn_removed`).

`TcpConnection_stream_proofs` (for the same constants):

- `ImplementsOutputStream`: a step of `sendInLoop` is an `Accept`, one of
  `handleWrite` a `Transmit`, `shutdownInLoop` and `handleClose` close the stream,
  every other step leaves it alone. `Inv` is needed: that the FIN never
  overtakes output, which `shutdownInLoop` decides by `isWriting()`, is `OutputInv`.
- `StreamStaysIntact`: wire and `outputBuffer_` are the concatenation of what was
  accepted. `FlattenSeq` is a recursive function over the messages; its value for
  one more message is `FlattenSeqGrows`, from the existence and uniqueness of the
  function (`FlatteningExists`, `FlatteningUnique`). The induction is over a *set*
  of numbers (`SetInduction`, from the minimum of a nonempty set of naturals), since
  the library's induction theorems take an operator.
- `HighWaterOnRisingEdge`: how many high-water functors wait changes with `Append`,
  `Tail` and a batch as `CountAppend`, `CountTail`, `CountBatch` say (a bijection
  between the places before and after); `MarksStep` compares the count with the
  size of the buffer for each step.

`EventLoopThreadPool_proofs` (for any number of threads, any `Quitters`):

- `InvHolds`, then `TypeCorrect`, `DealsEvenly`, `LoopsStayAlive`,
  `ThreadsGoFirst`. The strengthening `Inv` ties the base thread's place to the
  threads' (`Progress`, `SpawnInv`), `loop_` to the part of `threadFunc()` in which
  the loop exists (`PublishedInv`), the end of a loop to its destructor's `quit()`
  (`QuitInv`: a loop nobody else quits is past `loop()` only if the base thread
  has stored its `quit_`), and `next_` to what was dealt (`DealInv`). `QuitInv` is
  why the unlocked read of `loop_` is harmless in a program that leaves quitting
  to the pool.
- `NotifyIsNotLost`: while `startLoop()` sleeps in `cond_.wait` its thread has yet to
  set `loop_` and notify (`WaitsForNotify`), the safety half of `StartReturns`. That
  what it found null had not been set and cleared again is `QuitInv`.

`Buffer_proofs` (for any sizes and amounts):

- One lemma per function, that it keeps `Holds(b, lo, hi)`, "b holds the bytes
  `lo + 1` to `hi`", or changes it as it should: `FillHolds`, `ResizedHolds`,
  `MoveUpHolds`, `EnsureHolds` (which also bounds the vector and gives the room
  asked for), `AppendHolds`, `ReadHolds`, `RetrieveHolds`. `InvHolds` follows;
  `TypeCorrect`, `FirstInFirstOut`, `GrowthBounded` and `GrowthNeeded` (an action
  property) from it.

`TcpServer_proofs` (for any number of IO threads, clients and descriptors, any
`Kept`):

- `TypeCorrect`, then `InvCorrect: Spec => []Inv`. `Inv` has a part for each reason
  the server is right, with a lemma each that a step keeps it:
  - `LoopInv`: the destructor's order (base loop left, connections handed over,
    threads quit and gone);
  - `FreshInv`: a client that was not accepted has left no trace;
  - `PlaceInv`: a functor or event of a connection is in the connection's loop, a
    removal in the base loop;
  - `OrderInv`: `connectDestroyed` of a connection never stands before its
    `connectEstablished`, in the queue, in the batch or between the two. FIFO order
    of `queueInLoop` is needed: were they swapped, a connection would be put in the
    poller after it was taken out, with nobody left to hold it;
  - `HolderInv`: while its loop runs, a connection that is in the poller, or will
    be, is in `connections_` or its removal or destruction is queued. This is what
    keeps the raw pointers in epoll and `channels_` good;
  - `EntryInv`: an entry of `channels_` stands for a connection in the poller;
  - `ToldInv`: what user code was told agrees with `state_` as far as a late
    `shutdown()` leaves it (`kConnected` means UP, `kDisconnected` DOWN,
    `kDisconnecting` either); whoever epoll watches or has reported is UP, and a queued `connectEstablished` (removal) belongs to a
    connection never reported (reported DOWN);
  - `OwnerInv`: two objects never have the same open descriptor, and a server that
    is not stopping forgets only connections it has reported DOWN.
- `ActiveChannelsAlive`, `EntriesLive`, `NoWorkForDeadLoops`, `OneLoopPerChannel`,
  `QuietAfterDestruction` follow. `ActiveAreAlive` alone is far from inductive: it
  says nothing of a connection before epoll reports it.
- `ImplementsTable`: the server implements `ConnectionTable`, the number of calls of
  `connectionCallback_` included, by `ToldInv`: whoever is about to be reported DOWN
  is UP (a channel epoll has reported, a connection `connectDestroyed` finds in
  `kConnected`), whoever is about to be reported UP was reported nothing. A descriptor's owner
  there is the connection somebody here still points to (`Owner`), so one step of
  a loop that frees a batch of functors closes several sockets (`Release`), and a
  connection handed to another queue keeps its descriptor. `OwnedStep` (no step
  makes a pointer to an object nobody owns, but the accept that makes the object),
  then one lemma per kind of step: `AcceptStep`, `ReportStep`, `DiscardStep`,
  `ReleaseStep`.
- `InPlaceUpHasDown`: without IO threads every UP is followed by DOWN, by
  `InPlaceInv`: nothing of a connection but its `connectDestroyed` ever waits in a
  queue. With IO threads the same formula is violated (`server_silent`).

The assumptions are the named `ASSUME`s of the modules: `EventfdMax` is positive,
`MsgLen` positive, `HighWater` a natural number, `ReadReturns` a subset of
`Returns`, `NoMsg` not a message; `N` a natural number, `Quitters` some of the threads, `Kept` some of the
connections, and `NoConn`, `Acceptor`, `NoFd` names of their own; the sizes of a buffer natural numbers.

The theorems about `TcpServer` are theorems about its module, in which no other
thread sends (see above).

Conditions of single theorems: `Senders = {} \/ Closers = {}` for `DownAtMostOnce`
and `GoneFromPoller`, no IO threads for `InPlaceUpHasDown`; each is needed, and a run
or the trace above shows what happens without it.

Only model-checked: all liveness, which is out of the prover's reach. Every
safety property a passing run checks is also proved. `ShutdownPending`, `ToldInOrder`
and `WaitsForNotify` are stated in the proof modules only. Of the properties of
the `violation` runs, `NotPolledAfterDestroyed` and `EveryUpHasDown` are proved for
the constants named above; `FunctorsFindTheirString` depends on what callers do with
their strings and has no theorem. The refinements of
`TaskQueue`, `OutputStream` and `ConnectionTable` are of safety only.

## 7. Not modelled

- A server destroyed inside a callback of its own base loop, or never started; the
  destruction of the base `EventLoop`, which outlives the server in the
  repository's programs; user code that uses a `TcpConnectionPtr` after the server,
  and with it the connection's loop, is gone.
- `send()` in module `TcpServer`: see the condition in section 3.
- The callback setters and `setThreadNum`, which must be called before `start()`;
  a second `start()`, which `started_` makes an empty call.
- The lifetime of the `this` that `send()` and `shutdown()` queue
  (`TcpConnection.cc:200`): the model lets callers drop their pointers, but nothing
  in the repository says who keeps the object alive, so no property is stated.
- Names of threads, `getAllLoops` (a copy), `exiting_` (never read). The missing
  `return` of `Thread::join`: its value is never used, and in the `-O0` library
  falling off its end does no more.
- `InetAddress`, `Timestamp`, `CurrentThread`, `Logger`: values and output; no
  order of events can break them. `LOG_FATAL` is modelled where it is reached.
- The growth of the poller's event array (any part of the ready channels may be
  reported), EINTR, socket options, `DefaultPoller`
  (returns null with `MUDUO_USE_POLL` set).
- `src/test`, `src/src/example`: users of the library; `src/C++`: notes.
