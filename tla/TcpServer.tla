----------------------------- MODULE TcpServer -----------------------------
(***************************************************************************)
(* A TcpServer with its Acceptor, its base loop (loop 0) and its N IO      *)
(* loops: accepting clients, dealing them to the loops, removing those     *)
(* that close, and the destructor.  With N = 0 the base loop is the IO     *)
(* loop, and every runInLoop of the server calls its functor in place.     *)
(*                                                                         *)
(* A loop is what module EventLoop proves it to be: rounds of epoll_wait,  *)
(* channel handlers, and a batch of functors taken from the queue.  Its    *)
(* condition and epoll_wait are one step here.  A handler or functor is    *)
(* one step, with every call it makes: functors it runs in place included. *)
(* What a connection does between UP and its end (data, half-closes) is    *)
(* module TcpConnection; here it may be shut down, by any thread, and the  *)
(* peer may end it.                                                        *)
(*                                                                         *)
(* Left out, and with it a condition on all that is shown here: no thread  *)
(* but a connection's own sends on it.  A send() from another thread can   *)
(* put a removed channel back into the poller (TcpConnection, run          *)
(* conn_removed).                                                          *)
(***************************************************************************)
EXTENDS Channel, Naturals, Sequences, Functions

CONSTANTS
  N,            \* IO threads: setThreadNum
  Conn,         \* clients, each with the TcpConnection object it gets
  NoConn,       \* no connection: an unused channels_ entry, listen's functor
  Acceptor,     \* acceptChannel_ in activeChannels_
  Fd,           \* descriptors the process may have open for connections
  NoFd,         \* a client not accepted yet
  Kept,         \* connections whose TcpConnectionPtr user code keeps at UP
  ReadReturns   \* what Buffer::readFd can return at the end of input

ASSUME NAssumption == N \in Nat
ASSUME NamesAssumption ==
  NoConn \notin Conn /\ Acceptor \notin Conn /\ NoFd \notin Fd /\ Kept \subseteq Conn

Loops == 0..N
IoLoops == IF N = 0 THEN {0} ELSE 1..N

VARIABLES
  server,       \* "new", "serving" (started), "destroying", "gone"
  next,         \* EventLoopThreadPool::next_
  connections,  \* TcpServer::connections_
  accept,       \* Acceptor::acceptChannel_
  backlog,      \* clients in the kernel's accept queue
  fd, ioLoop,   \* per connection: channel_->fd() and loop_
  state,        \* per connection: state_
  channel,      \* per connection: channel_
  told,         \* per connection: what connectionCallback_ last reported
  reports,      \* per connection: how often connectionCallback_ was called
  held,         \* connections of which user code holds a TcpConnectionPtr
  closing,      \* connections in another thread's shutdown(), before its store
  hung,         \* connections the peer has closed or reset
  pc,           \* per loop: where its thread is
  quit,         \* per loop: quit_
  active,       \* per loop: activeChannels_, what is left to handle
  pending,      \* per loop: pendingFunctors_
  functors,     \* per loop: the local vector of doPendingFunctors()
  done,         \* per loop: how many of them have run
  channels      \* per loop: EPollPoller::channels_

connVars   == <<state, channel, told, reports, held, closing, channels>>
threadVars == <<pc, quit, active, functors, done>>
clientVars == <<backlog, fd, ioLoop, hung>>
serverVars == <<server, next, accept>>
vars == <<serverVars, connections, clientVars, connVars, threadVars, pending>>

\* The functors the server binds: listen, connectEstablished,
\* removeConnectionInLoop, connectDestroyed; all but listen own the connection.
Functor(do, c) == [do |-> do, conn |-> c]
FunctorType == [do : {"established", "remove", "destroyed"}, conn : Conn]
                 \cup [do : {"listen"}, conn : {NoConn}]

TypeOK ==
  /\ server \in {"new", "serving", "destroying", "gone"}
  /\ next \in Nat /\ (N > 0 => next < N)
  /\ connections \subseteq Conn /\ accept \in ChannelType
  /\ backlog \subseteq Conn /\ held \subseteq Conn /\ hung \subseteq Conn
  /\ fd \in [Conn -> Fd \cup {NoFd}] /\ ioLoop \in [Conn -> Loops]
  /\ state \in [Conn -> {"kConnecting", "kConnected", "kDisconnecting", "kDisconnected"}]
  /\ channel \in [Conn -> ChannelType]
  /\ told \in [Conn -> {"nothing", "up", "down"}] /\ reports \in [Conn -> Nat]
  /\ closing \subseteq Conn
  /\ pc \in [Loops -> {"before", "top", "handle", "run", "exited"}]
  /\ quit \in [Loops -> BOOLEAN]
  /\ active \in [Loops -> SUBSET (Conn \cup {Acceptor})]
  /\ pending \in [Loops -> Seq(FunctorType)]
  /\ functors \in [Loops -> Seq(FunctorType)]
  /\ done \in [Loops -> Nat] /\ \A l \in Loops : done[l] <= Len(functors[l])
  /\ channels \in [Loops -> [Fd -> Conn \cup {NoConn}]]

\* The EventLoop, the TcpServer and, in the kernel, no client yet.
Init ==
  /\ server = "new" /\ next = 0 /\ connections = {} /\ accept = NewChannel
  /\ backlog = {} /\ held = {} /\ hung = {}
  /\ fd = [c \in Conn |-> NoFd] /\ ioLoop = [c \in Conn |-> 0]
  /\ state = [c \in Conn |-> "kConnecting"]
  /\ channel = [c \in Conn |-> NewChannel]
  /\ told = [c \in Conn |-> "nothing"] /\ reports = [c \in Conn |-> 0]
  /\ closing = {}
  /\ pc = [l \in Loops |-> "before"]
  /\ quit = [l \in Loops |-> FALSE]
  /\ active = [l \in Loops |-> {}]
  /\ pending = [l \in Loops |-> <<>>]
  /\ functors = [l \in Loops |-> <<>>] /\ done = [l \in Loops |-> 0]
  /\ channels = [l \in Loops |-> [f \in Fd |-> NoConn]]

-----------------------------------------------------------------------------
(* Ownership *)

\* Connections bound by functors that wait in loop l, or that the batch it is
\* running still holds: the local vector is freed when the batch is over.
Bound(l) == {x.conn : x \in Range(pending[l]) \cup Range(functors[l])}

\* A TcpConnectionPtr to c exists: the object does, and its socket is open.
Owned(c) == c \in connections \cup held \/ \E l \in Loops : c \in Bound(l)

\* The wrong variant: the fd is taken for closed when the connection is.
FreeFdsEarly == Fd \ {fd[c] : c \in {d \in Conn : Owned(d) /\ state[d] # "kDisconnected"}}

\* Socket::~Socket closes the fd; accept4 may hand out any fd not in use.
FreeFds == Fd \ {fd[c] : c \in {d \in Conn : Owned(d)}}

-----------------------------------------------------------------------------
(* Member functions.  Each changes connVars, or connections and pending.    *)

\* connectionCallback_ is called.
Report(c, what) ==
  /\ told' = [told EXCEPT ![c] = what]
  /\ reports' = [reports EXCEPT ![c] = @ + 1]

\* The wrong variant: DOWN is left to handleClose.
ConnectDestroyedSilently(c) ==
  /\ channel' = [channel EXCEPT ![c] = RemoveChannel(@)]
  /\ channels' = [channels EXCEPT ![ioLoop[c]][fd[c]] = NoConn]
  /\ UNCHANGED <<state, told, reports, held, closing>>

\* The wrong variant: DOWN is reported whatever came before.
ConnectDestroyedAlways(c) ==
  /\ state' = [state EXCEPT ![c] = "kDisconnected"]
  /\ channel' = [channel EXCEPT ![c] = RemoveChannel(DisableAll(@))]
  /\ Report(c, "down")
  /\ channels' = [channels EXCEPT ![ioLoop[c]][fd[c]] = NoConn]
  /\ UNCHANGED <<held, closing>>

\* The wrong variant: the channel is not removed from the poller.
ConnectDestroyedKeepsChannel(c) ==
  /\ IF state[c] = "kConnected"
     THEN /\ state' = [state EXCEPT ![c] = "kDisconnected"]
          /\ channel' = [channel EXCEPT ![c] = DisableAll(@)]
          /\ Report(c, "down")
     ELSE UNCHANGED <<state, channel, told, reports>>
  /\ UNCHANGED <<held, closing, channels>>

\* TcpConnection::connectEstablished, in loop l, for the fd f.
ConnectEstablished(c, l, f) ==
  /\ state' = [state EXCEPT ![c] = "kConnected"]
  /\ channel' = [channel EXCEPT ![c] = EnableReading(@)]
  /\ channels' = [channels EXCEPT ![l][f] = c]
  /\ Report(c, "up")
  /\ held' = held \cup ({c} \cap Kept)
  /\ UNCHANGED closing

\* TcpConnection::connectDestroyed.  A store of shutdown() that falls between
\* its test of state_ and its own store is overwritten.
ConnectDestroyed(c) ==
  /\ IF state[c] = "kConnected"
     THEN /\ state' = [state EXCEPT ![c] = "kDisconnected"]
          /\ channel' = [channel EXCEPT ![c] = RemoveChannel(DisableAll(@))]
          /\ Report(c, "down")
          /\ closing' \in {closing, closing \ {c}}
     ELSE /\ channel' = [channel EXCEPT ![c] = RemoveChannel(@)]
          /\ UNCHANGED <<state, told, reports, closing>>
  /\ channels' = [channels EXCEPT ![ioLoop[c]][fd[c]] = NoConn]
  /\ UNCHANGED held

Queue(l, x) == pending' = [pending EXCEPT ![l] = Append(@, x)]

\* The wrong variants: connections_ keeps its pointer; connectDestroyed is
\* queued in the base loop.
RemoveConnectionKeeps(c) ==
  /\ UNCHANGED connections
  /\ Queue(ioLoop[c], Functor("destroyed", c))
RemoveConnectionInBase(c) ==
  /\ connections' = connections \ {c}
  /\ Queue(0, Functor("destroyed", c))

\* TcpServer::removeConnectionInLoop
RemoveConnectionInLoop(c) ==
  /\ connections' = connections \ {c}
  /\ Queue(ioLoop[c], Functor("destroyed", c))

-----------------------------------------------------------------------------
(* The loops *)

\* Channels epoll would report in loop l.
Ready(l) ==
  {c \in Conn : c \in hung /\ ioLoop[c] = l /\ channel[c].registered /\ Owned(c)}
    \cup {a \in {Acceptor} : l = 0 /\ accept.registered /\ backlog # {}}

At(l, where) == pc[l] = where
Goto(l, where) == pc' = [pc EXCEPT ![l] = where]

EnterLoop ==
  /\ At(0, "before")
  /\ Goto(0, "top")
  /\ UNCHANGED <<serverVars, connections, clientVars, connVars, quit, active, functors,
                 done, pending>>

\* The loop condition fails.  The EventLoop of an IO thread goes with its
\* stack frame, and with it the functors nobody will run.
ExitLoop(l) ==
  /\ At(l, "top") /\ quit[l]
  /\ Goto(l, "exited")
  /\ pending' = IF l = 0 THEN pending ELSE [pending EXCEPT ![l] = <<>>]
  /\ UNCHANGED <<serverVars, connections, clientVars, connVars, quit, active, functors,
                 done>>

\* epoll_wait reports some of the ready channels; it reports none when it is
\* the eventfd, written by queueInLoop, that ends it.
Poll(l) ==
  /\ At(l, "top") /\ ~quit[l]
  /\ \E ready \in SUBSET Ready(l) :
       /\ ready # {} \/ pending[l] # <<>>
       /\ active' = [active EXCEPT ![l] = ready]
  /\ Goto(l, "handle")
  /\ UNCHANGED <<serverVars, connections, clientVars, connVars, quit, functors, done,
                 pending>>

Handled(l, ch) ==
  /\ At(l, "handle") /\ ch \in active[l]
  /\ active' = [active EXCEPT ![l] = @ \ {ch}]
  /\ UNCHANGED <<pc, quit, functors, done>>

\* The wrong variant: out of fds, the acceptor stops listening for events.
AcceptFailsForGood ==
  /\ Handled(0, Acceptor)
  /\ FreeFds = {}
  /\ accept' = DisableAll(accept)
  /\ UNCHANGED <<server, next, connections, clientVars, connVars, pending>>

\* Acceptor::handleRead: accept4 fails with EMFILE, which is only logged.
AcceptFails ==
  /\ Handled(0, Acceptor)
  /\ FreeFds = {}
  /\ UNCHANGED <<serverVars, connections, clientVars, connVars, pending>>

\* The wrong variant: next_ is not wrapped.
NextAfterUnwrapped(l) == l

\* EventLoopThreadPool::getNextLoop, and next_ after it.
NextLoop == IF N = 0 THEN 0 ELSE next + 1
NextAfter(l) == IF l < N THEN l ELSE 0

\* Acceptor::handleRead: accept4 returns f, and TcpServer::newConnection runs.
NewConnection(c, f) ==
  LET l == NextLoop
  IN /\ Handled(0, Acceptor)
     /\ c \in backlog /\ f \in FreeFds
     /\ backlog' = backlog \ {c}
     /\ fd' = [fd EXCEPT ![c] = f]
     /\ ioLoop' = [ioLoop EXCEPT ![c] = l]
     /\ next' = NextAfter(l)
     /\ connections' = connections \cup {c}
     /\ IF l = 0 THEN ConnectEstablished(c, l, f) /\ UNCHANGED pending
        ELSE Queue(l, Functor("established", c)) /\ UNCHANGED connVars
     /\ UNCHANGED <<server, accept, hung>>

\* handleRead after the peer's end, when readFd returns anything but 0: nothing
\* changes, and epoll goes on reporting the channel.
HandleRead(l, c) ==
  /\ Handled(l, c)
  /\ ReadReturns \ {"zero"} # {}
  /\ UNCHANGED <<serverVars, connections, clientVars, connVars, pending>>

\* TcpConnection::handleClose, and TcpServer::removeConnection from it, when
\* handleRead finds that readFd returned 0, or for a hang-up that a reset makes
\* epoll report without input.
HandleClose(l, c) ==
  /\ Handled(l, c)
  /\ state' = [state EXCEPT ![c] = "kDisconnected"]
  /\ channel' = [channel EXCEPT ![c] = DisableAll(@)]
  /\ Report(c, "down")
  /\ IF l = 0 THEN RemoveConnectionInLoop(c)
     ELSE Queue(0, Functor("remove", c)) /\ UNCHANGED connections
  /\ UNCHANGED <<serverVars, clientVars, held, closing, channels>>

TakeFunctors(l) ==
  /\ At(l, "handle") /\ active[l] = {}
  /\ functors' = [functors EXCEPT ![l] = pending[l]]
  /\ pending' = [pending EXCEPT ![l] = <<>>]
  /\ done' = [done EXCEPT ![l] = 0]
  /\ Goto(l, "run")
  /\ UNCHANGED <<serverVars, connections, clientVars, connVars, quit, active>>

\* The functor loop l runs now; the four below are its kinds.
Current(l) == functors[l][done[l] + 1]
Runs(l, do) ==
  /\ At(l, "run") /\ done[l] < Len(functors[l])
  /\ Current(l).do = do
  /\ done' = [done EXCEPT ![l] = @ + 1]
  /\ UNCHANGED <<pc, quit, active, functors>>

RunListen(l) ==
  /\ Runs(l, "listen")
  /\ accept' = EnableReading(accept)
  /\ UNCHANGED <<server, next, connections, clientVars, connVars, pending>>

RunEstablished(l) ==
  /\ Runs(l, "established")
  /\ LET c == Current(l).conn IN ConnectEstablished(c, ioLoop[c], fd[c])
  /\ UNCHANGED <<serverVars, connections, clientVars, pending>>

RunRemove(l) ==
  /\ Runs(l, "remove")
  /\ RemoveConnectionInLoop(Current(l).conn)
  /\ UNCHANGED <<serverVars, clientVars, connVars>>

RunDestroyed(l) ==
  /\ Runs(l, "destroyed")
  /\ ConnectDestroyed(Current(l).conn)
  /\ UNCHANGED <<serverVars, connections, clientVars, pending>>

FinishFunctors(l) ==
  /\ At(l, "run") /\ done[l] = Len(functors[l])
  /\ functors' = [functors EXCEPT ![l] = <<>>]
  /\ done' = [done EXCEPT ![l] = 0]
  /\ Goto(l, "top")
  /\ UNCHANGED <<serverVars, connections, clientVars, connVars, quit, active, pending>>

-----------------------------------------------------------------------------
(* The server's owner.  The thread of the base loop runs the destructor     *)
(* after loop() has returned, as main() does.                               *)

\* start(), in the thread of the base loop or in another one.
Start ==
  /\ server = "new" /\ pc[0] # "exited"
  /\ server' = "serving"
  /\ pc' = [l \in Loops |-> IF l = 0 THEN pc[0] ELSE "top"]
  /\ \/ accept' = EnableReading(accept) /\ UNCHANGED pending
     \/ Queue(0, Functor("listen", NoConn)) /\ UNCHANGED accept
  /\ UNCHANGED <<next, connections, clientVars, connVars, quit, active, functors, done>>

QuitBase ==
  /\ server = "serving" /\ pc[0] # "before"
  /\ quit' = [quit EXCEPT ![0] = TRUE]
  /\ UNCHANGED <<serverVars, connections, clientVars, connVars, pc, active, functors,
                 done, pending>>

Destroy ==
  /\ server = "serving" /\ At(0, "exited")
  /\ server' = "destroying"
  /\ UNCHANGED <<next, accept, connections, clientVars, connVars, threadVars, pending>>

\* The wrong variant: connectDestroyed is called, not handed to the IO loop.
DestroyConnectionAtOnce(c) ==
  /\ server = "destroying" /\ c \in connections
  /\ connections' = connections \ {c}
  /\ ConnectDestroyed(c)
  /\ UNCHANGED <<serverVars, clientVars, threadVars, pending>>

\* ~TcpServer: one round of its loop.
DestroyConnection(c) ==
  /\ server = "destroying" /\ c \in connections
  /\ connections' = connections \ {c}
  /\ IF ioLoop[c] = 0 THEN ConnectDestroyed(c) /\ UNCHANGED pending
     ELSE Queue(ioLoop[c], Functor("destroyed", c)) /\ UNCHANGED connVars
  /\ UNCHANGED <<serverVars, clientVars, threadVars>>

\* The wrong variant: the thread pool goes before the connections do.
QuitLoopEarly(l) ==
  /\ server = "destroying"
  /\ l # 0 /\ ~quit[l] /\ \A k \in 1..(l - 1) : At(k, "exited")
  /\ quit' = [quit EXCEPT ![l] = TRUE]
  /\ UNCHANGED <<serverVars, connections, clientVars, connVars, pc, active, functors,
                 done, pending>>

\* The wrong variant: join first, quit afterwards.
QuitLoopJoined(l) ==
  /\ server = "destroying" /\ connections = {}
  /\ l # 0 /\ ~quit[l] /\ \A k \in 1..l : At(k, "exited")
  /\ quit' = [quit EXCEPT ![l] = TRUE]
  /\ UNCHANGED <<serverVars, connections, clientVars, connVars, pc, active, functors,
                 done, pending>>

\* ~EventLoopThreadPool: each ~EventLoopThread quits its loop and joins the
\* thread before the next one runs.
QuitLoop(l) ==
  /\ server = "destroying" /\ connections = {}
  /\ l # 0 /\ ~quit[l] /\ \A k \in 1..(l - 1) : At(k, "exited")
  /\ quit' = [quit EXCEPT ![l] = TRUE]
  /\ UNCHANGED <<serverVars, connections, clientVars, connVars, pc, active, functors,
                 done, pending>>

\* The wrong variant: no join.
DestroyAcceptorUnjoined ==
  /\ server = "destroying" /\ connections = {}
  /\ \A l \in 1..N : quit[l]
  /\ accept' = RemoveChannel(DisableAll(accept))
  /\ server' = "gone"
  /\ UNCHANGED <<next, connections, clientVars, connVars, threadVars, pending>>

\* ~Acceptor, when the last IO thread has been joined.
DestroyAcceptor ==
  /\ server = "destroying" /\ connections = {}
  /\ \A l \in 1..N : At(l, "exited")
  /\ accept' = RemoveChannel(DisableAll(accept))
  /\ server' = "gone"
  /\ UNCHANGED <<next, connections, clientVars, connVars, threadVars, pending>>

-----------------------------------------------------------------------------
(* Clients and user code *)

Connect(c) ==
  /\ accept.registered
  /\ c \notin backlog /\ fd[c] = NoFd
  /\ backlog' = backlog \cup {c}
  /\ UNCHANGED <<serverVars, connections, fd, ioLoop, hung, connVars, threadVars, pending>>

\* The peer closes or resets the connection (maybe before it is established).
HangUp(c) ==
  /\ fd[c] # NoFd
  /\ hung' = hung \cup {c}
  /\ UNCHANGED <<serverVars, connections, backlog, fd, ioLoop, connVars, threadVars,
                 pending>>

\* shutdown(): the test of state_ and the store to it.  The shutdownInLoop it
\* then runs or queues closes the socket's write side, nothing else.
\* Called in a callback of the connection's own loop:
ShutdownInCallback(c) ==
  /\ Owned(c) /\ state[c] = "kConnected"
  /\ pc[ioLoop[c]] \in {"handle", "run"}
  /\ state' = [state EXCEPT ![c] = "kDisconnecting"]
  /\ UNCHANGED <<serverVars, connections, clientVars, channel, told, reports, held, closing,
                 channels, threadVars, pending>>

\* In another thread, one at a time, anything may come between the two.
ShutdownChecks(c) ==
  /\ c \in held \ closing /\ state[c] = "kConnected"
  /\ closing' = closing \cup {c}
  /\ UNCHANGED <<serverVars, connections, clientVars, state, channel, told, reports, held,
                 channels, threadVars, pending>>

ShutdownSets(c) ==
  /\ c \in closing
  /\ closing' = closing \ {c}
  /\ state' = [state EXCEPT ![c] = "kDisconnecting"]
  /\ UNCHANGED <<serverVars, connections, clientVars, channel, told, reports, held, channels,
                 threadVars, pending>>

Shutdown(c) == ShutdownInCallback(c) \/ ShutdownChecks(c) \/ ShutdownSets(c)

UserDrops(c) ==
  /\ c \in held \ closing
  /\ held' = held \ {c}
  /\ UNCHANGED <<serverVars, connections, clientVars, state, channel, told, reports, closing,
                 channels, threadVars, pending>>

-----------------------------------------------------------------------------
\* What the thread of loop l does inside loop().
LoopStep(l) ==
  \/ ExitLoop(l) \/ Poll(l) \/ TakeFunctors(l) \/ FinishFunctors(l)
  \/ \E c \in Conn : HandleRead(l, c) \/ HandleClose(l, c)
  \/ RunListen(l) \/ RunEstablished(l) \/ RunRemove(l) \/ RunDestroyed(l)

Accepting == AcceptFails \/ \E c \in Conn, f \in Fd : NewConnection(c, f)

Destructor ==
  \/ DestroyAcceptor
  \/ \E c \in Conn : DestroyConnection(c)
  \/ \E l \in Loops : QuitLoop(l)

\* What thread l does; thread 0 is also the server's owner.
ThreadStep(l) ==
  \/ LoopStep(l)
  \/ l = 0 /\ (EnterLoop \/ Accepting \/ Start \/ Destroy \/ Destructor)

Environment ==
  \/ QuitBase
  \/ \E c \in Conn : Connect(c) \/ HangUp(c) \/ Shutdown(c) \/ UserDrops(c)

Next == Environment \/ \E l \in Loops : ThreadStep(l)

Spec == Init /\ [][Next]_vars

\* Threads keep running, and callbacks return.
ThreadFairness ==
  /\ WF_vars(EnterLoop) /\ WF_vars(Accepting) /\ WF_vars(Destructor)
  /\ \A l \in Loops : WF_vars(LoopStep(l))

\* epoll, which is level triggered, does not pass a ready channel over for ever.
EpollFairness ==
  \A ch \in Conn \cup {Acceptor} :
    SF_vars(\E l \in Loops : Poll(l) /\ ch \in active'[l])

\* Peers end their connections some day, calls of shutdown() return, and user
\* code drops its pointers.
ClientFairness ==
  \A c \in Conn : WF_vars(HangUp(c)) /\ WF_vars(ShutdownSets(c)) /\ WF_vars(UserDrops(c))

ThreadSpec == Spec /\ ThreadFairness
FairSpec == ThreadSpec /\ EpollFairness /\ ClientFairness

-----------------------------------------------------------------------------
(* Properties *)

\* activeChannels_ holds raw Channel pointers, and handleEvent reads tied_
\* before it can lock the tie: a channel still to be handled must belong to an
\* object somebody owns, and must not have been removed from the poller.  (That
\* no other thread sends is assumed: a late send() registers the channel again.)
ActiveAreAlive ==
  \A l \in Loops : \A c \in active[l] \ {Acceptor} :
    Owned(c) /\ channel[c].index # "kNew"

\* channels_ is keyed by fd and fds are reused: while its loop runs, an entry
\* stands for a live connection of that loop which has that fd open.  (Under
\* the same condition: a channel registered again outlives its connection.)
PollersHoldLiveChannels ==
  \A l \in Loops, f \in Fd :
    LET c == channels[l][f]
    IN pc[l] # "exited" /\ c # NoConn => Owned(c) /\ fd[c] = f /\ ioLoop[c] = l

\* No functor is queued in an IO loop whose EventLoop is gone: ~TcpServer has
\* handed over its connections before the pool's threads are told to quit.
DeadLoopsGetNoWork ==
  \A l \in 1..N : pc[l] = "exited" => pending[l] = <<>>

\* One loop per thread: a connection's channel, which has no lock, is changed
\* only by the thread of the loop the connection was dealt to, however its
\* end comes about (peer, removal through the base loop, ~TcpServer).
ChannelsStayInTheirThread ==
  [][\A c \in Conn : channel'[c] # channel[c] => ThreadStep(ioLoop'[c])]_vars

\* Once the destructor has returned, no connection callback is made: the IO
\* threads, which reach the server by a raw pointer, have been joined.
NoCallbackAfterDestruction == [][server = "gone" => UNCHANGED reports]_vars

(* Why those five hold: an inductive invariant, in parts. *)

\* The destructor's order: loop() of the base thread, the connections, the IO
\* threads one by one; and where the loops' own lists are empty.
LoopInv ==
  /\ server = "new" => \A l \in 1..N : pc[l] = "before"
  /\ server \in {"destroying", "gone"} => pc[0] = "exited"
  /\ server = "gone" => \A l \in Loops : pc[l] = "exited"
  /\ \A l \in 1..N : pc[l] = "exited" => quit[l]
  /\ \A l \in 1..N : quit[l] => server \in {"destroying", "gone"} /\ connections = {}
  /\ \A l \in Loops : pc[l] # "handle" => active[l] = {}
  /\ \A l \in Loops : pc[l] # "run" => functors[l] = <<>>

\* A client not accepted has left no trace in the server.
FreshInv ==
  /\ \A c \in backlog : fd[c] = NoFd
  /\ \A c \in connections : fd[c] # NoFd
  /\ \A c \in Conn : channel[c].registered => channel[c].index = "kAdded"
  /\ \A c \in Conn : channel[c].index # "kNew" => fd[c] # NoFd

\* Functors and events of a connection are in its own loop; removals, and the
\* acceptor, in the base loop.
PlaceInv ==
  /\ \A l \in Loops : \A x \in Range(pending[l]) \cup Range(functors[l]) :
       /\ x.do \in {"established", "destroyed"} => ioLoop[x.conn] = l
       /\ x.do \in {"remove", "listen"} => l = 0
       /\ x.do # "listen" => fd[x.conn] # NoFd
  /\ \A l \in Loops : \A c \in active[l] \ {Acceptor} :
       ioLoop[c] = l /\ channel[c].index # "kNew"
  /\ \A l \in Loops : Acceptor \in active[l] => l = 0

\* connectEstablished is queued once, and connectDestroyed never overtakes it.
InOrder(s) ==
  \A i, j \in DOMAIN s :
    /\ s[i].do \in {"established", "destroyed"} /\ s[j].do = "established"
    /\ s[i].conn = s[j].conn
    => j <= i
OrderInv ==
  \A l \in Loops :
    /\ InOrder(pending[l]) /\ InOrder(functors[l])
    /\ \A x \in Range(functors[l]), c \in Conn :
         x.do \in {"established", "destroyed"} /\ x.conn = c =>
           Functor("established", c) \notin Range(pending[l])

\* The functors loop l has not run.
NotRun(l) ==
  Range(pending[l]) \cup {functors[l][i] : i \in (done[l] + 1)..Len(functors[l])}

\* While its loop runs, a connection that is in the poller, or soon will be, is
\* in connections_, or on its way out by way of the base loop and its own.
OnItsWayOut(c, l) ==
  Functor("remove", c) \in NotRun(0) \/ Functor("destroyed", c) \in NotRun(l)
HolderInv ==
  \A l \in Loops : \A c \in Conn :
    /\ ioLoop[c] = l /\ pc[l] # "exited"
    /\ channel[c].index # "kNew" \/ Functor("established", c) \in NotRun(l)
    => c \in connections \/ OnItsWayOut(c, l)

\* An entry of channels_ stands for a connection that is in the poller.
EntryInv ==
  \A l \in Loops, f \in Fd :
    LET c == channels[l][f]
    IN c # NoConn => fd[c] = f /\ ioLoop[c] = l /\ channel[c].index # "kNew"

\* What user code was told is what state_ says, but for a late shutdown() that
\* overwrites kDisconnected; a connection epoll watches, or has reported, is UP;
\* connectEstablished is still to come, or a removal on its way, only before UP
\* and after DOWN.
ToldInv ==
  /\ \A c \in Conn :
       /\ told[c] = "nothing" <=> state[c] = "kConnecting"
       /\ state[c] = "kConnected" => told[c] = "up"
       /\ state[c] = "kDisconnected" => told[c] = "down"
       /\ c \in closing => told[c] # "nothing"
       /\ fd[c] = NoFd => told[c] = "nothing"
       /\ channel[c].registered => told[c] = "up"
  /\ \A l \in Loops : \A x \in NotRun(l) :
       /\ x.do = "established" => told[x.conn] = "nothing"
       /\ x.do = "remove" => told[x.conn] = "down"
  /\ \A l \in Loops : \A c \in active[l] \ {Acceptor} : channel[c].registered

\* Open descriptors differ; a serving server forgets a connection after DOWN.
OwnerInv ==
  /\ \A c, d \in Conn : Owned(c) /\ Owned(d) /\ fd[c] = fd[d] => c = d
  /\ \A c \in held : fd[c] # NoFd
  /\ server \in {"new", "serving"} =>
       \A c \in Conn \ connections : fd[c] # NoFd => told[c] = "down"

Inv ==
  /\ TypeOK /\ LoopInv /\ FreshInv /\ PlaceInv /\ OrderInv /\ HolderInv /\ EntryInv
  /\ ToldInv /\ OwnerInv /\ DeadLoopsGetNoWork

\* When the server is gone every connection reported UP has been reported
\* DOWN, except one in the middle of a shutdown() (connectDestroyed reports
\* none for those).
EveryUpHasDown ==
  server = "gone" => \A c \in Conn : told[c] = "up" => state[c] = "kDisconnecting"

\* Why that holds with no IO threads: no removal or connectEstablished waits
\* in a queue, so who has been told UP is in connections_ until told DOWN.
InPlaceInv ==
  /\ \A l \in Loops : \A x \in Range(pending[l]) \cup Range(functors[l]) :
       x.do \in {"listen", "destroyed"}
  /\ \A c \in Conn : told[c] = "up" =>
       state[c] = "kDisconnecting" \/ (state[c] = "kConnected" /\ c \in connections)
  /\ server = "gone" => connections = {}

\* Descriptors are exclusive, connectionCallback_ is called once for UP and then
\* at most once for DOWN, and while the server lives a descriptor is given up
\* only after DOWN.  (If no other thread sends: with a send() and a shutdown()
\* from other threads DOWN can come twice.)
Owner(f) ==
  LET holders == {c \in Conn : fd[c] = f /\ Owned(c)}
  IN IF holders = {} THEN NoConn ELSE CHOOSE c \in holders : TRUE
Table == INSTANCE ConnectionTable WITH
  owner <- [f \in Fd |-> Owner(f)], used <- {c \in Conn : fd[c] # NoFd},
  stopping <- server \in {"destroying", "gone"}
TableRefinement == Table!Spec

\* A connection reported DOWN loses its last owner, and its fd is closed,
\* unless user code keeps it or the server is being stopped.
ClosedIsFreed ==
  \A c \in Conn : (told[c] = "down") ~> (~Owned(c) \/ c \in held \/ quit[0])

\* A client in the accept queue is accepted, however often accept4 fails with
\* EMFILE before, as long as connections end: nothing need be done about EMFILE.
\* This takes a readFd that returns 0 at the end of input.  The library in src/
\* returns another value there (TcpConnection, run conn_peer_close): a closed
\* connection keeps its descriptor, and clients wait for ever.
EveryClientIsServed ==
  \A c \in Conn : (c \in backlog) ~> (fd[c] # NoFd \/ quit[0])

\* ~TcpServer returns (once the IO threads have entered loop()).
ServerIsDestroyed == (server = "destroying") ~> (server = "gone")

=============================================================================
