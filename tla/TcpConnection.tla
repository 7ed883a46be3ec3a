--------------------------- MODULE TcpConnection ---------------------------
(***************************************************************************)
(* One accepted TcpConnection from newConnection() to connectDestroyed(),  *)
(* with everything that touches it: the IO loop's thread (channel          *)
(* callbacks, user callbacks, queued functors), the base loop that erases  *)
(* it from TcpServer::connections_, other threads calling send() and       *)
(* shutdown(), the kernel socket and the peer.                             *)
(*                                                                         *)
(* The IO loop is used through what module EventLoop proves of it: the     *)
(* functors of ioq run one at a time, in order, between events.  A handler *)
(* of the loop thread is one step: it reads or writes state_, the only     *)
(* thing it shares with other threads, once (connectDestroyed twice: see   *)
(* there).  A call from another thread is several steps, one per access to *)
(* state_ and one for the queueing.                                        *)
(*                                                                         *)
(* The loop does not live for ever: ~TcpServer ends with the thread pool,  *)
(* whose destructor quits the loop and joins its thread, and what is queued *)
(* then is dropped (LoopEnds).  Other threads are assumed to have finished *)
(* their calls by then.                                                    *)
(***************************************************************************)
EXTENDS Channel, Naturals, Sequences, FiniteSets, SequencesExt

CONSTANTS
  Senders,      \* threads other than the loop's that call send()
  Closers,      \* threads other than the loop's that call shutdown()
  Msg,          \* messages; each is sent at most once (bounds a run)
  NoMsg,        \* the message of a functor that carries none
  MsgLen,       \* bytes in a message
  HighWater,    \* highWaterMark_
  ReadReturns,  \* what Buffer::readFd can return: subset of Returns
  KeepAlive     \* callers keep their TcpConnectionPtr and the string they sent
                \* until the functor they queued has run

\* Buffer::readFd ends without a return statement, so its value is undefined.
\* The library in src/ (-O0) leaves a pointer in the return register, which
\* handleRead takes for a positive count; another build may return anything.
Returns == {"positive", "zero", "negative"}

ASSUME SizesAssumption == MsgLen \in Nat \ {0} /\ HighWater \in Nat
ASSUME ReturnsAssumption == ReadReturns \subseteq Returns
ASSUME NoMsgAssumption == NoMsg \notin Msg

VARIABLES
  state,        \* state_
  channel,      \* channel_ and its entries in the poller and in epoll
  outBuf,       \* outputBuffer_: readable bytes
  wire,         \* bytes the kernel took from us
  writeClosed,  \* Socket::shutdownWrite was called
  peer,         \* the peer's side: "open", "fin" (it closed), "rst" (it reset)
  input,        \* bytes from the peer wait in the socket?
  todo,         \* callbacks Channel::handleEventWithGuard has yet to call
  inUser,       \* the loop thread is in a user callback
  ioq,          \* functors queued in the IO loop
  baseq,        \* removeConnectionInLoop functors queued in the base loop
  inMap,        \* TcpServer::connections_ holds the connection
  serverGone,   \* ~TcpServer has handed over its connections
  loopGone,     \* ~EventLoopThread has ended the IO loop
  held,         \* another thread holds a TcpConnectionPtr
  call,         \* per other thread: the call it is in
  fresh,        \* messages not sent yet
  lost,         \* messages whose std::string no longer exists
  accepted,     \* history: messages sendInLoop wrote or buffered, in order
  ups, downs,   \* history: connectionCallback_ calls that reported UP, DOWN
  destroyed     \* history: connectDestroyed has run

vars == <<state, channel, outBuf, wire, writeClosed, peer, input, todo, inUser,
          ioq, baseq, inMap, serverGone, loopGone, held, call, fresh, lost, accepted,
          ups, downs, destroyed>>

output  == <<outBuf, wire, accepted>>
kernel  == <<peer, input>>
loopOnly == <<channel, output, writeClosed, todo, inUser>>   \* the loop thread's own
server  == <<baseq, inMap, serverGone, loopGone>>
callers == <<held, call, fresh, lost>>
history == <<ups, downs, destroyed>>

Threads == Senders \cup Closers
States == {"kConnecting", "kConnected", "kDisconnecting", "kDisconnected"}

\* A functor: bound member function and the data it carries.  "send" and
\* "shutdown" bind the raw this, the others a TcpConnectionPtr.
Functor(do) == [do |-> do, msg |-> NoMsg]
SendFunctor(m) == [do |-> "send", msg |-> m]
FunctorType ==
  [do : {"established", "destroyed", "shutdown", "writeComplete", "highWater"},
   msg : {NoMsg}] \cup [do : {"send"}, msg : Msg]

Bytes(m) == [k \in 1..MsgLen |-> <<m, k>>]
Byte == Msg \X (1..MsgLen)

\* Where another thread is in a call: "send" is between send()'s test and its
\* queueInLoop, "set" and "post" are before shutdown()'s store and queueInLoop.
Idle == [at |-> "idle", msg |-> NoMsg]
CallType == [at : {"idle", "set", "post"}, msg : {NoMsg}] \cup [at : {"send"}, msg : Msg]

TypeOK ==
  /\ state \in States
  /\ channel \in ChannelType
  /\ outBuf \in Seq(Byte) /\ wire \in Seq(Byte)
  /\ accepted \in Seq(Msg)
  /\ writeClosed \in BOOLEAN
  /\ peer \in {"open", "fin", "rst"} /\ input \in BOOLEAN
  /\ todo \subseteq {"close", "read", "write"} /\ inUser \in BOOLEAN
  /\ ioq \in Seq(FunctorType) /\ baseq \in Nat
  /\ inMap \in BOOLEAN /\ serverGone \in BOOLEAN /\ loopGone \in BOOLEAN
  /\ held \in BOOLEAN
  /\ call \in [Threads -> CallType]
  /\ fresh \subseteq Msg /\ lost \subseteq Msg
  /\ ups \in Nat /\ downs \in Nat /\ destroyed \in BOOLEAN

\* TcpServer::newConnection: the object is in connections_ and the IO loop
\* has connectEstablished queued.
Init ==
  /\ state = "kConnecting"
  /\ channel = NewChannel
  /\ outBuf = <<>> /\ wire = <<>> /\ accepted = <<>>
  /\ writeClosed = FALSE
  /\ peer = "open" /\ input = FALSE
  /\ todo = {} /\ inUser = FALSE
  /\ ioq = <<Functor("established")>> /\ baseq = 0
  /\ inMap = TRUE /\ serverGone = FALSE /\ loopGone = FALSE /\ held = TRUE
  /\ call = [w \in Threads |-> Idle]
  /\ fresh = Msg /\ lost = {}
  /\ ups = 0 /\ downs = 0 /\ destroyed = FALSE

-----------------------------------------------------------------------------
(* The socket *)

\* write() fails with EPIPE or ECONNRESET.  (The program is assumed to ignore
\* SIGPIPE, which the library does not do for it.)
WriteFails == writeClosed \/ peer = "rst"

Readable == input \/ peer # "open"
HungUp == peer = "rst" \/ (peer = "fin" /\ writeClosed)

\* The callbacks handleEventWithGuard makes for what epoll_wait reported.
\* in, out and hup are the readiness bits; closeCallback_ is for a hang-up
\* without input.  (errorCallback_ only logs and is left out.)
Callbacks(in, out, hup) ==
  {cb \in {"close", "read", "write"} :
     \/ cb = "close" /\ hup /\ ~in
     \/ cb = "read" /\ in
     \/ cb = "write" /\ out}

-----------------------------------------------------------------------------
(* Member functions that run in the loop thread.  q is ioq without the      *)
(* functor being run.                                                       *)

\* The batch a member function queues behind q.
Queue(q, more) == ioq' = q \o more
When(condition, do) == IF condition THEN <<Functor(do)>> ELSE <<>>

\* The wrong variant: write at once whenever the socket may take it.
MayWriteAtOnceAlways == TRUE

\* sendInLoop writes to the socket itself only if nothing waits before it.
MayWriteAtOnce == ~IsWriting(channel) /\ outBuf = <<>>

\* The wrong variant: a buffer exactly at the mark counts as below it.
CrossesAgain(before, after) == before <= HighWater /\ after >= HighWater

\* The output passes highWaterMark_ on its way up.
Crosses(before, after) == before < HighWater /\ after >= HighWater

\* sendInLoop: what is left of m after n bytes were written at once is
\* buffered, behind whatever waits there, and writing is enabled.
SendInLoop(m, q) ==
  LET direct == MayWriteAtOnce
      Buffered(n) == SubSeq(Bytes(m), n + 1, MsgLen)
  IN \/ /\ state = "kDisconnected" \/ (direct /\ WriteFails)
        /\ Queue(q, <<>>)
        /\ UNCHANGED <<output, channel>>
     \/ \E n \in 0..MsgLen :
          /\ state # "kDisconnected"
          /\ direct => ~WriteFails
          /\ n > 0 => direct
          /\ wire' = wire \o SubSeq(Bytes(m), 1, n)
          /\ outBuf' = outBuf \o Buffered(n)
          /\ accepted' = Append(accepted, m)
          /\ channel' = IF n < MsgLen /\ ~IsWriting(channel)
                        THEN EnableWriting(channel) ELSE channel
          /\ Queue(q, When(n = MsgLen, "writeComplete")
                        \o When(n < MsgLen /\ Crosses(Len(outBuf), Len(outBuf) + MsgLen - n),
                                "highWater"))

\* The wrong variant: close the write side although output waits.
ShutdownInLoopEagerly(ch) == writeClosed' = TRUE

\* shutdownInLoop, with the channel as the caller leaves it.
ShutdownInLoop(ch) == writeClosed' = (writeClosed \/ ~IsWriting(ch))

\* The wrong variant: a shutdown() that waited for the output is forgotten.
ShutdownAfterOutputForgotten(ch) == UNCHANGED writeClosed

\* handleWrite, once outputBuffer_ is empty.
ShutdownAfterOutput(ch) ==
  IF state = "kDisconnecting" THEN ShutdownInLoop(ch) ELSE UNCHANGED writeClosed

\* The wrong variant: the channel stays registered.
HandleCloseStaysRegistered ==
  /\ state' = "kDisconnected"
  /\ downs' = downs + 1
  /\ baseq' = baseq + 1
  /\ UNCHANGED channel

\* handleClose: report DOWN, then closeCallback_, which queues
\* TcpServer::removeConnectionInLoop in the base loop.
HandleClose ==
  /\ state' = "kDisconnected"
  /\ channel' = DisableAll(channel)
  /\ downs' = downs + 1
  /\ baseq' = baseq + 1

-----------------------------------------------------------------------------
(* The IO loop's thread: events *)

LoopIsFree == ~loopGone /\ todo = {} /\ ~inUser

\* epoll_wait reports the connection.  A reset can land while the kernel
\* computes the mask, which then holds the hang-up without the input bit.
Poll ==
  /\ LoopIsFree
  /\ channel.registered
  /\ \E in, out \in BOOLEAN :
       /\ in => "in" \in channel.interest /\ Readable
       /\ "in" \in channel.interest /\ Readable /\ peer # "rst" => in
       /\ out => "out" \in channel.interest
       /\ "out" \in channel.interest /\ WriteFails => out
       /\ todo' = Callbacks(in, out, HungUp)
  /\ todo' # {}
  /\ UNCHANGED <<state, channel, output, writeClosed, kernel, inUser, ioq, server,
                 callers, history>>

OnClose ==
  /\ "close" \in todo /\ ~inUser
  /\ todo' = todo \ {"close"}
  /\ HandleClose
  /\ UNCHANGED <<output, writeClosed, kernel, inUser, ioq, inMap, serverGone,
                 loopGone, callers, ups, destroyed>>

\* handleRead: readFd takes the input and returns some value.
OnRead ==
  /\ "read" \in todo /\ "close" \notin todo /\ ~inUser
  /\ todo' = todo \ {"read"}
  /\ input' = FALSE
  /\ \/ /\ "positive" \in ReadReturns
        /\ inUser' = TRUE
        /\ UNCHANGED <<state, channel, downs, baseq>>
     \/ /\ "zero" \in ReadReturns
        /\ HandleClose
        /\ UNCHANGED inUser
     \/ /\ "negative" \in ReadReturns
        /\ UNCHANGED <<state, channel, downs, baseq, inUser>>
  /\ UNCHANGED <<output, writeClosed, peer, ioq, inMap, serverGone, loopGone,
                 callers, ups, destroyed>>

\* handleWrite with isWriting(), and writeFd returns n > 0.
OnWriteSome(n) ==
  LET rest == SubSeq(outBuf, n + 1, Len(outBuf))
      ch == IF rest = <<>> THEN DisableWriting(channel) ELSE channel
  IN /\ todo = {"write"} /\ ~inUser
     /\ IsWriting(channel) /\ ~WriteFails
     /\ todo' = {}
     /\ wire' = wire \o SubSeq(outBuf, 1, n)
     /\ outBuf' = rest
     /\ channel' = ch
     /\ Queue(ioq, When(rest = <<>>, "writeComplete"))
     /\ IF rest = <<>> THEN ShutdownAfterOutput(ch) ELSE UNCHANGED writeClosed
     /\ UNCHANGED <<state, accepted, kernel, inUser, server, callers, history>>

\* handleWrite when writing was disabled meanwhile, or the write fails.
OnWriteNothing ==
  /\ todo = {"write"} /\ ~inUser
  /\ todo' = {}
  /\ UNCHANGED <<state, channel, output, writeClosed, kernel, inUser, ioq, server,
                 callers, history>>

-----------------------------------------------------------------------------
(* The IO loop's thread: functors *)

Runs(do) == LoopIsFree /\ ioq # <<>> /\ Head(ioq).do = do

ConnectEstablished ==
  /\ Runs("established")
  /\ ioq' = Tail(ioq)
  /\ state' = "kConnected"
  /\ channel' = EnableReading(channel)
  /\ ups' = ups + 1
  /\ inUser' = TRUE
  /\ UNCHANGED <<output, writeClosed, kernel, todo, server, callers, downs,
                 destroyed>>

\* The wrong variant: DOWN is left to handleClose alone.
ConnectDestroyedSilently ==
  /\ Runs("destroyed")
  /\ ioq' = Tail(ioq)
  /\ destroyed' = TRUE
  /\ channel' = RemoveChannel(channel)
  /\ UNCHANGED <<state, output, writeClosed, kernel, todo, inUser, server, callers,
                 ups, downs>>

\* Other threads' stores to state_ (in shutdown()) that fall between the test
\* and the store of connectDestroyed, which overwrites them.
OverwrittenStores ==
  \E W \in SUBSET {w \in Threads : call[w].at = "set"} :
    call' = [w \in Threads |-> IF w \in W THEN [at |-> "post", msg |-> NoMsg] ELSE call[w]]

\* connectDestroyed: DOWN is reported here only if no handleClose and no
\* shutdown() came first.
ConnectDestroyed ==
  /\ Runs("destroyed")
  /\ ioq' = Tail(ioq)
  /\ destroyed' = TRUE
  /\ IF state = "kConnected"
     THEN /\ state' = "kDisconnected"
          /\ channel' = RemoveChannel(DisableAll(channel))
          /\ downs' = downs + 1
          /\ OverwrittenStores
     ELSE /\ channel' = RemoveChannel(channel)
          /\ UNCHANGED <<state, downs, call>>
  /\ UNCHANGED <<output, writeClosed, kernel, todo, inUser, server, held, fresh, lost,
                 ups>>

RunSend ==
  /\ Runs("send")
  /\ SendInLoop(Head(ioq).msg, Tail(ioq))
  /\ UNCHANGED <<state, writeClosed, kernel, todo, inUser, server, callers,
                 history>>

RunShutdown ==
  /\ Runs("shutdown")
  /\ ioq' = Tail(ioq)
  /\ ShutdownInLoop(channel)
  /\ UNCHANGED <<state, channel, output, kernel, todo, inUser, server, callers,
                 history>>

\* writeCompeleteCallback_ and highWaterMarkCallback_ are user code.
RunUserFunctor ==
  /\ Runs("writeComplete") \/ Runs("highWater")
  /\ ioq' = Tail(ioq)
  /\ inUser' = TRUE
  /\ UNCHANGED <<state, channel, output, writeClosed, kernel, todo, server, callers,
                 history>>

-----------------------------------------------------------------------------
(* The IO loop's thread: user callbacks.  Those called with state_ ==       *)
(* kDisconnected need no step: send() and shutdown() return at once there.  *)

UserSend(m) ==
  /\ inUser /\ state = "kConnected"
  /\ m \in fresh
  /\ fresh' = fresh \ {m}
  /\ SendInLoop(m, ioq)
  /\ UNCHANGED <<state, writeClosed, kernel, todo, inUser, server, held, call, lost,
                 history>>

UserShutdown ==
  /\ inUser /\ state = "kConnected"
  /\ state' = "kDisconnecting"
  /\ ShutdownInLoop(channel)
  /\ UNCHANGED <<channel, output, kernel, todo, inUser, ioq, server, callers,
                 history>>

UserReturns ==
  /\ inUser
  /\ inUser' = FALSE
  /\ UNCHANGED <<state, channel, output, writeClosed, kernel, todo, ioq, server,
                 callers, history>>

-----------------------------------------------------------------------------
(* Other threads *)

\* send(): the test of state_, then queueInLoop with the raw this and c_str().
SendChecks(w, m) ==
  /\ w \in Senders /\ held /\ ~loopGone /\ call[w].at = "idle"
  /\ state = "kConnected"
  /\ m \in fresh
  /\ fresh' = fresh \ {m}
  /\ call' = [call EXCEPT ![w] = [at |-> "send", msg |-> m]]
  /\ UNCHANGED <<state, loopOnly, kernel, ioq, server, held, lost, history>>

SendPosts(w) ==
  /\ call[w].at = "send"
  /\ ioq' = Append(ioq, SendFunctor(call[w].msg))
  /\ call' = [call EXCEPT ![w] = Idle]
  /\ UNCHANGED <<state, loopOnly, kernel, server, held, fresh, lost, history>>

\* shutdown(): the test of state_, the store to it, then queueInLoop.
ShutdownChecks(w) ==
  /\ w \in Closers /\ held /\ ~loopGone /\ call[w].at = "idle"
  /\ state = "kConnected"
  /\ call' = [call EXCEPT ![w] = [at |-> "set", msg |-> NoMsg]]
  /\ UNCHANGED <<state, loopOnly, kernel, ioq, server, held, fresh, lost, history>>

ShutdownSets(w) ==
  /\ call[w].at = "set"
  /\ state' = "kDisconnecting"
  /\ call' = [call EXCEPT ![w] = [at |-> "post", msg |-> NoMsg]]
  /\ UNCHANGED <<loopOnly, kernel, ioq, server, held, fresh, lost, history>>

ShutdownPosts(w) ==
  /\ call[w].at = "post"
  /\ ioq' = Append(ioq, Functor("shutdown"))
  /\ call' = [call EXCEPT ![w] = Idle]
  /\ UNCHANGED <<state, loopOnly, kernel, server, held, fresh, lost, history>>

Queued(do) == {i \in DOMAIN ioq : ioq[i].do = do}

\* A caller's TcpConnectionPtr, or the string it passed, goes out of scope
\* after the call has returned: with KeepAlive only when no functor that binds
\* the raw this, or the string's c_str(), waits.
DropConnection ==
  /\ held
  /\ KeepAlive => Queued("send") \cup Queued("shutdown") = {}
  /\ \A w \in Threads : call[w] = Idle
  /\ held' = FALSE
  /\ UNCHANGED <<state, loopOnly, kernel, ioq, server, call, fresh, lost, history>>

DropString(m) ==
  /\ m \notin fresh \cup lost
  /\ KeepAlive => \A i \in Queued("send") : ioq[i].msg # m
  /\ \A w \in Threads : call[w].msg # m
  /\ lost' = lost \cup {m}
  /\ UNCHANGED <<state, loopOnly, kernel, ioq, server, held, call, fresh, history>>

\* The base loop runs TcpServer::removeConnectionInLoop.
RemoveConnectionInLoop ==
  /\ baseq > 0 /\ ~serverGone
  /\ baseq' = baseq - 1
  /\ inMap' = FALSE
  /\ ioq' = Append(ioq, Functor("destroyed"))
  /\ UNCHANGED <<state, loopOnly, kernel, serverGone, loopGone, callers, history>>

\* ~TcpServer, after the base loop has stopped for good.
DestroyServer ==
  /\ ~serverGone
  /\ serverGone' = TRUE
  /\ inMap' = FALSE
  /\ ioq' = IF inMap THEN Append(ioq, Functor("destroyed")) ELSE ioq
  /\ UNCHANGED <<state, loopOnly, kernel, baseq, loopGone, callers, history>>

\* ~EventLoopThread, after the body of ~TcpServer: quit_ is seen between two
\* rounds, and the functors nobody has run go with the EventLoop.
LoopEnds ==
  /\ serverGone /\ LoopIsFree
  /\ \A w \in Threads : call[w] = Idle
  /\ loopGone' = TRUE
  /\ ioq' = <<>>
  /\ UNCHANGED <<state, loopOnly, kernel, baseq, inMap, serverGone, callers, history>>

-----------------------------------------------------------------------------
(* The peer *)

PeerSends ==
  /\ peer = "open" /\ ~input
  /\ input' = TRUE
  /\ UNCHANGED <<state, loopOnly, peer, ioq, server, callers, history>>

PeerCloses(how) ==
  /\ peer = "open" \/ (peer = "fin" /\ how = "rst")
  /\ peer' = how
  /\ UNCHANGED <<state, loopOnly, input, ioq, server, callers, history>>

-----------------------------------------------------------------------------
OnWrite == \E n \in 1..Len(outBuf) : OnWriteSome(n)

RunFunctor ==
  ConnectEstablished \/ ConnectDestroyed \/ RunSend \/ RunShutdown \/ RunUserFunctor

LoopStep == Poll \/ OnClose \/ OnRead \/ OnWrite \/ OnWriteNothing \/ RunFunctor

User == UserReturns \/ UserShutdown \/ \E m \in Msg : UserSend(m)

\* The rest of a call another thread has begun.
Finish(w) == SendPosts(w) \/ ShutdownSets(w) \/ ShutdownPosts(w)

Callers ==
  \/ DropConnection
  \/ \E m \in Msg : DropString(m)
  \/ \E w \in Threads :
       Finish(w) \/ ShutdownChecks(w) \/ \E m \in Msg : SendChecks(w, m)

Next ==
  \/ LoopStep \/ User \/ Callers
  \/ RemoveConnectionInLoop \/ DestroyServer \/ LoopEnds
  \/ PeerSends \/ \E how \in {"fin", "rst"} : PeerCloses(how)

Spec == Init /\ [][Next]_vars

\* Threads keep running and user callbacks return.  The IO loop runs its
\* functors after every poll (EventLoop!QueuedFunctorsRun) and level-triggered
\* epoll keeps reporting a writable socket; the strong fairness of the last two
\* says that a peer which has not reset reads now and then.  All of it holds
\* while the loop does: LoopEnds disables these steps, and may come at any time
\* after DestroyServer, or late.
Fairness ==
  /\ WF_vars(LoopStep) /\ WF_vars(UserReturns)
  /\ WF_vars(RemoveConnectionInLoop)
  /\ \A w \in Threads : WF_vars(Finish(w))
  /\ SF_vars(RunFunctor)
  /\ SF_vars(Poll /\ "write" \in todo') /\ SF_vars(OnWrite)

FairSpec == Spec /\ Fairness

-----------------------------------------------------------------------------
(* Properties of the output *)

\* Everything sendInLoop took is on the wire or in outputBuffer_, in order,
\* once: direct writes, partial writes and buffered ones never overtake each
\* other, whichever threads call send().
StreamIntact ==
  wire \o outBuf = FlattenSeq([i \in DOMAIN accepted |-> Bytes(accepted[i])])

\* Output that waits is waited for: while the connection is up, EPOLLOUT is
\* asked of epoll exactly when outputBuffer_ is not empty, so output is never
\* stranded and the loop never spins on a writable socket.
OutputIsWatched ==
  ups = 1 /\ downs = 0 /\ ~destroyed =>
    channel.registered /\ ("out" \in channel.interest <=> outBuf # <<>>)

\* The index_ field, events_ and epoll never disagree, so epoll_ctl never fails
\* in EPollPoller::update (whose ADD and MOD errors end the process).
PollerInStep == InStep(channel)

\* shutdown() keeps its promise to send what was accepted before it: FIN
\* follows the last buffered byte, unless the connection was closed meanwhile.
FinAfterOutput == writeClosed /\ downs = 0 => outBuf = <<>>

\* Why the last three hold together: until DOWN is reported the write event and
\* the output buffer say the same, and the channel stays registered for reading.
OutputInv ==
  /\ downs = 0 => (IsWriting(channel) <=> outBuf # <<>>)
  /\ ups > 0 /\ downs = 0 /\ ~destroyed =>
       channel.registered /\ "in" \in channel.events
  /\ FinAfterOutput
Inv == TypeOK /\ PollerInStep /\ OutputInv

\* The same, and everything else TcpConnection promises about its output.
Out == INSTANCE OutputStream
         WITH backlog <- outBuf, shut <- writeClosed, closed <- downs > 0
StreamRefinement == Out!Spec

\* The high-water callback is queued once each time the output passes the mark
\* on its way up, over direct, partial and buffered writes, and at no other time.
HighWaterIsRisingEdge ==
  [][Cardinality(Queued("highWater")') > Cardinality(Queued("highWater"))
       <=> Len(outBuf) < HighWater /\ Len(outBuf') >= HighWater]_vars

-----------------------------------------------------------------------------
(* Properties of the connection's life *)

\* The user is told of a connection once and of its end at most once, in that
\* order; from then on connected() is false for good, so no thread that asks
\* can send on or shut down a connection reported DOWN.
UpThenDown ==
  /\ downs <= ups /\ ups <= 1
  /\ downs > 0 => state \notin {"kConnecting", "kConnected"}

\* The end is reported at the latest by connectDestroyed, also when the server
\* goes first; if that runs, the one connection that ends in silence is one that
\* was shutting down when the server was destroyed.  (A connectDestroyed that
\* LoopEnds drops reports nothing either: TcpServer!EveryUpHasDown.)
EndIsReported ==
  destroyed /\ ups > 0 => downs > 0 \/ (state = "kDisconnecting" /\ serverGone)

\* connectDestroyed is the last the poller sees of the channel
\* (TcpConnection.cc:87).
NotPolledAfterDestroyed ==
  destroyed => ~channel.registered /\ channel.index = "kNew"

-----------------------------------------------------------------------------
(* Liveness *)

\* The connection is over, or its loop is: a stopping server drops output and
\* a queued shutdownInLoop with the loop.
Ended == downs > 0 \/ destroyed \/ peer = "rst" \/ loopGone

\* Buffered output leaves while the peer reads and the loop runs.
OutputDrains == (outBuf # <<>>) ~> (outBuf = <<>> \/ Ended)

\* shutdown() from any thread ends in FIN if the loop runs long enough,
\* whichever of the drain in handleWrite and the queued shutdownInLoop sees the
\* other's work.
ShutdownCompletes == (state = "kDisconnecting") ~> (writeClosed \/ Ended)

-----------------------------------------------------------------------------
(* What the repository says and the code does not do *)

\* TcpConnection.cc:197: a send() from another thread is sent by the loop
\* thread, so the c_str() its functor binds must still point to the string.
FunctorsFindTheirString ==
  \A i \in Queued("send") : ioq[i].msg \notin lost

\* testserver.cc:55, README.md:661: when the peer closes, the connection is
\* closed (EPOLLHUP or a read of 0 bytes lead to handleClose), as long as the
\* loop runs.
PeerCloseIsReported ==
  (ups > 0 /\ peer = "fin") ~> (downs > 0 \/ destroyed \/ loopGone)

=============================================================================
