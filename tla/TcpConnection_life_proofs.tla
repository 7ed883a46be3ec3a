--------------------- MODULE TcpConnection_life_proofs ---------------------
(***************************************************************************)
(* Proofs about the life of a TcpConnection: what the user is told of its  *)
(* beginning and its end, and what the poller still sees of it after       *)
(* connectDestroyed, for any threads, messages and sizes.                  *)
(***************************************************************************)
EXTENDS TcpConnection_proofs

-----------------------------------------------------------------------------
(* Who reports what *)

\* Who writes state_ and the server's variables, and what is reported to the
\* user with it.
LEMMA StateStep ==
  ASSUME [Next]_vars
  PROVE  /\ \/ /\ ConnectEstablished
               /\ state' = "kConnected" /\ ups' = ups + 1 /\ UNCHANGED <<downs, destroyed>>
            \/ /\ (OnClose \/ OnRead) /\ HandleClose
               /\ state' = "kDisconnected" /\ downs' = downs + 1 /\ UNCHANGED <<ups, destroyed>>
            \/ /\ ConnectDestroyed
               /\ destroyed' = TRUE /\ UNCHANGED ups
               /\ \/ state = "kConnected" /\ state' = "kDisconnected" /\ downs' = downs + 1
                  \/ state # "kConnected" /\ UNCHANGED <<state, downs>>
            \/ /\ UserShutdown \/ \E w \in Threads : ShutdownSets(w)
               /\ state' = "kDisconnecting" /\ UNCHANGED <<ups, downs, destroyed>>
            \/ UNCHANGED <<state, ups, downs, destroyed>>
         /\ \/ UNCHANGED <<baseq, serverGone>>
            \/ HandleClose /\ UNCHANGED serverGone
            \/ RemoveConnectionInLoop /\ UNCHANGED serverGone
            \/ DestroyServer /\ serverGone' = TRUE /\ UNCHANGED baseq
<1> USE DEF output, kernel, loopOnly, server, callers, history
<1>1. CASE OnClose \/ OnRead
  BY <1>1 DEF OnClose, OnRead, HandleClose
<1>2. CASE Poll \/ OnWriteNothing \/ OnWrite
  BY <1>2 DEF Poll, OnWrite, OnWriteSome, OnWriteNothing
<1>3. CASE ConnectEstablished
  BY <1>3 DEF ConnectEstablished
<1>4. CASE ConnectDestroyed
  BY <1>4 DEF ConnectDestroyed
<1>5. CASE RunSend \/ RunShutdown \/ RunUserFunctor
  BY <1>5 DEF RunSend, RunShutdown, RunUserFunctor
<1>6. CASE User
  BY <1>6 DEF User, UserReturns, UserShutdown, UserSend
<1>7. CASE Callers
  BY <1>7 DEF Callers, Finish, DropConnection, DropString, SendPosts, ShutdownPosts,
              ShutdownSets, ShutdownChecks, SendChecks
<1>8. CASE RemoveConnectionInLoop \/ DestroyServer \/ LoopEnds \/ PeerSends
  BY <1>8 DEF RemoveConnectionInLoop, DestroyServer, LoopEnds, PeerSends
<1>9. CASE (\E how \in {"fin", "rst"} : PeerCloses(how)) \/ UNCHANGED vars
  BY <1>9 DEF PeerCloses, vars
<1> QED BY <1>1, <1>2, <1>3, <1>4, <1>5, <1>6, <1>7, <1>8, <1>9
        DEF Next, LoopStep, RunFunctor

-----------------------------------------------------------------------------
(* The beginning and the end *)

\* Until connectEstablished has run, it heads the queue of a loop that has not
\* ended, and nobody else can do anything with the connection but destroy the
\* server.
NotUpYet ==
  /\ state = "kConnecting" /\ downs = 0 /\ ~destroyed
  /\ ~loopGone =>
       ioq # <<>> /\ Head(ioq).do = "established" /\ ~Has(Tail(ioq), "established")
  /\ ~channel.registered /\ todo = {} /\ ~inUser /\ baseq = 0
  /\ \A w \in Threads : call[w].at = "idle"

\* connectEstablished runs once.
UpOnce ==
  /\ ups = 0 => NotUpYet
  /\ ups > 0 => ups = 1 /\ state # "kConnecting" /\ ~Waits("established")

\* kDisconnected, a removal on its way through the base loop and a queued
\* connectDestroyed all come after a DOWN, the last also after ~TcpServer.
EndInv ==
  /\ state = "kDisconnected" => downs > 0
  /\ downs > 0 => state # "kConnected"
  /\ baseq > 0 => downs > 0
  /\ Waits("destroyed") => downs > 0 \/ serverGone
  /\ destroyed => downs > 0 \/ (state = "kDisconnecting" /\ serverGone)

LifeInv == UpOnce /\ EndInv

\* Until connectEstablished runs, only the server's destructor, the peer and
\* the holders of strings and pointers take steps.
LEMMA BeforeUpStep ==
  ASSUME TypeOK, NotUpYet, [Next]_vars, ~ConnectEstablished
  PROVE  /\ UNCHANGED <<state, channel, todo, inUser, baseq, call, history>>
         /\ loopGone => loopGone'
         /\ loopGone' \/ ioq' = ioq \/ ioq' = Append(ioq, Functor("destroyed"))
<1> USE DEF output, kernel, loopOnly, server, callers, history
<1>1. ~Poll /\ ~OnClose /\ ~OnRead /\ ~OnWrite /\ ~OnWriteNothing
  BY DEF NotUpYet, Poll, OnClose, OnRead, OnWrite, OnWriteSome, OnWriteNothing
<1>2. ~RunFunctor
  BY DEF NotUpYet, RunFunctor, ConnectDestroyed, RunSend, RunShutdown, RunUserFunctor, Runs,
         LoopIsFree
<1>3. ~User
  BY DEF NotUpYet, User, UserReturns, UserShutdown, UserSend
<1>4. \A w \in Threads : /\ ~Finish(w) /\ ~ShutdownChecks(w)
                         /\ \A m \in Msg : ~SendChecks(w, m)
  BY DEF NotUpYet, Finish, SendPosts, ShutdownSets, ShutdownPosts, ShutdownChecks, SendChecks
<1>5. ~RemoveConnectionInLoop
  BY DEF NotUpYet, RemoveConnectionInLoop
<1>6. CASE DropConnection \/ \E m \in Msg : DropString(m)
  BY <1>6 DEF DropConnection, DropString
<1>7. CASE DestroyServer \/ LoopEnds
  BY <1>7 DEF DestroyServer, LoopEnds
<1>8. CASE PeerSends \/ (\E how \in {"fin", "rst"} : PeerCloses(how)) \/ UNCHANGED vars
  BY <1>8 DEF PeerSends, PeerCloses, vars
<1> QED BY <1>1, <1>2, <1>3, <1>4, <1>5, <1>6, <1>7, <1>8 DEF Next, LoopStep, Callers

LEMMA UpOnceStep ==
  ASSUME TypeOK, UpOnce, [Next]_vars
  PROVE  UpOnce'
<1> USE DEF history
<1>1. ioq \in Seq(FunctorType) /\ ups \in Nat
  BY DEF TypeOK
<1>2. Waits("established")' <=> Has(ioq', "established")
  BY DEF Waits, Has
<1>3. CASE ups = 0 /\ ConnectEstablished
  BY <1>3, <1>2 DEF UpOnce, NotUpYet, ConnectEstablished, Runs, LoopIsFree
<1>4. CASE ups = 0 /\ ~ConnectEstablished
  <2>1. NotUpYet
    BY <1>4 DEF UpOnce
  <2>2. /\ UNCHANGED <<state, channel, todo, inUser, baseq, call, history>>
        /\ loopGone => loopGone'
        /\ loopGone' \/ ioq' = ioq \/ ioq' = Append(ioq, Functor("destroyed"))
    BY <1>4, <2>1, BeforeUpStep
  <2>3. ASSUME ~loopGone'
        PROVE  ioq' # <<>> /\ Head(ioq').do = "established" /\ ~Has(Tail(ioq'), "established")
    <3>1. /\ ~loopGone /\ ioq # <<>> /\ Tail(ioq) \in Seq(FunctorType)
          /\ ~Has(Tail(ioq), "established")
      BY <1>1, <2>1, <2>2, <2>3, HeadTailProperties DEF NotUpYet
    <3>2. CASE ioq' = ioq
      BY <2>1, <3>1, <3>2 DEF NotUpYet
    <3>3. CASE ioq' = Append(ioq, Functor("destroyed"))
      <4>1. Functor("destroyed") \in FunctorType /\ Functor("destroyed").do = "destroyed"
        BY DEF Functor, FunctorType
      <4>2. /\ ioq' # <<>> /\ Head(ioq') = Head(ioq)
            /\ Tail(ioq') = Append(Tail(ioq), Functor("destroyed"))
        BY <1>1, <3>1, <3>3, <4>1, HeadTailAppend, AppendProperties
      <4> DEFINE t == Tail(ioq)
      <4>3. t \in Seq(FunctorType) /\ ~Has(t, "established")
        BY <3>1
      <4> HIDE DEF t
      <4>4. ~Has(Append(t, Functor("destroyed")), "established")
        BY <4>1, <4>3, HasProperties
      <4>5. ~Has(Tail(ioq'), "established")
        BY <4>2, <4>4 DEF t
      <4> QED BY <2>1, <3>1, <4>2, <4>5 DEF NotUpYet
    <3> QED BY <2>2, <2>3, <3>2, <3>3
  <2>4. Has(Tail(ioq), "established")' <=> Has(Tail(ioq'), "established")
    BY DEF Has
  <2>5. NotUpYet'
    BY <2>1, <2>2, <2>3, <2>4 DEF NotUpYet
  <2> QED BY <1>4, <2>2, <2>5 DEF UpOnce
<1>5. CASE ups > 0
  <2>1. ups = 1 /\ state # "kConnecting" /\ ~Has(ioq, "established")
    BY <1>5 DEF UpOnce, Waits
  <2>2. ~Has(ioq', "established")
    BY <2>1, WaitsStep
  <2>3. ~ConnectEstablished
    BY <1>1, <2>1, HasProperties DEF ConnectEstablished, Runs
  <2>4. UNCHANGED ups /\ (UNCHANGED state \/ state' \in {"kDisconnecting", "kDisconnected"})
    BY <2>3, StateStep
  <2> QED BY <1>2, <2>1, <2>2, <2>4 DEF UpOnce
<1> QED BY <1>1, <1>3, <1>4, <1>5

\* The five parts of EndInv, from what each step reports and queues.
LEMMA EndStep ==
  ASSUME TypeOK, UpOnce, EndInv, [Next]_vars
  PROVE  EndInv'
<1> USE DEF history, server
<1>1. /\ ioq \in Seq(FunctorType) /\ ups \in Nat /\ downs \in Nat /\ baseq \in Nat
      /\ state \in States
  BY DEF TypeOK
<1>2. /\ Runs("established") => Has(ioq, "established")
      /\ Runs("destroyed") =>
           ~loopGone /\ Has(ioq, "destroyed") /\ Head(ioq).do # "established"
  BY <1>1, HasProperties DEF Runs, LoopIsFree
<1>3. ConnectEstablished => ups = 0 /\ downs = 0 /\ ~destroyed
  BY <1>1, <1>2 DEF ConnectEstablished, UpOnce, NotUpYet, Waits
<1>4. /\ ConnectDestroyed => state # "kConnecting" /\ (downs > 0 \/ serverGone)
      /\ Has(ioq, "destroyed") => downs > 0 \/ serverGone
  BY <1>1, <1>2 DEF ConnectDestroyed, UpOnce, NotUpYet, EndInv, Waits
<1>5. \/ ConnectEstablished /\ state' = "kConnected" /\ downs' = downs
      \/ state' = "kDisconnected" /\ downs' = downs + 1
      \/ state' = "kDisconnecting" /\ downs' = downs
      \/ state' = state /\ downs' = downs
  BY StateStep
<1>6. downs' \in Nat /\ downs' >= downs
  BY <1>1, <1>5
<1>7. serverGone => serverGone'
  BY StateStep
<1>8. state' = "kDisconnected" => downs' > 0
  BY <1>1, <1>5 DEF EndInv
<1>9. downs' > 0 => state' # "kConnected"
  BY <1>1, <1>3, <1>5 DEF EndInv
<1>10. baseq' > 0 => downs' > 0
  <2>1. CASE HandleClose
    BY <1>1, <2>1 DEF HandleClose
  <2>2. CASE RemoveConnectionInLoop
    BY <1>1, <1>6, <2>2 DEF RemoveConnectionInLoop, EndInv
  <2>3. CASE UNCHANGED baseq
    BY <1>1, <1>6, <2>3 DEF EndInv
  <2> QED BY <2>1, <2>2, <2>3, StateStep
<1>11. Has(ioq', "destroyed") => downs' > 0 \/ serverGone'
  <2>1. RemoveConnectionInLoop => downs > 0
    BY DEF RemoveConnectionInLoop, EndInv
  <2>2. DestroyServer => serverGone'
    BY DEF DestroyServer
  <2> QED BY <1>1, <1>4, <1>6, <1>7, <2>1, <2>2, WaitsStep
<1>12. destroyed' => downs' > 0 \/ (state' = "kDisconnecting" /\ serverGone')
  <2>1. CASE ConnectDestroyed
    BY <1>1, <1>4, <2>1 DEF ConnectDestroyed, EndInv, States
  <2>2. CASE ConnectEstablished
    BY <1>3, <2>2 DEF ConnectEstablished
  <2>3. CASE HandleClose
    BY <1>1, <2>3 DEF HandleClose
  <2>4. CASE /\ UNCHANGED <<downs, destroyed>>
             /\ UNCHANGED state \/ state' = "kDisconnecting"
    BY <1>1, <1>7, <2>4 DEF EndInv
  <2> QED BY <2>1, <2>2, <2>3, <2>4, StateStep
<1>13. Waits("destroyed")' <=> Has(ioq', "destroyed")
  BY DEF Waits, Has
<1> QED BY <1>8, <1>9, <1>10, <1>11, <1>12, <1>13 DEF EndInv

\* What is known of every connection at every moment.
LEMMA LifeHolds == Spec => [](Inv /\ LifeInv)
<1>1. Init => LifeInv
  BY DEF Init, LifeInv, UpOnce, NotUpYet, EndInv, Waits, Has, Functor, NewChannel, Idle
<1>2. Inv /\ LifeInv /\ [Next]_vars => LifeInv'
  BY UpOnceStep, EndStep DEF Inv, LifeInv
<1> QED BY <1>1, <1>2, InvHolds, PTL DEF Spec

\* connectDestroyed reports DOWN if nobody did, whatever threads do to state_
\* in the meantime: a connection that was up never goes in silence, except
\* when it was shutting down as the server was destroyed.
THEOREM EndAlwaysReported == Spec => []EndIsReported
<1>1. LifeInv => EndIsReported
  BY DEF LifeInv, EndInv, EndIsReported
<1> QED BY <1>1, LifeHolds, PTL

\* Whoever calls send() and shutdown(): UP is reported once and before any
\* DOWN, and connected() is false for good after the first DOWN.
ToldInOrder ==
  ups <= 1 /\ (downs > 0 => ups = 1 /\ state \notin {"kConnecting", "kConnected"})

THEOREM UpOnceBeforeDown == Spec => []ToldInOrder
<1>1. Inv /\ LifeInv => ToldInOrder
  BY DEF Inv, TypeOK, LifeInv, UpOnce, NotUpYet, EndInv, ToldInOrder
<1> QED BY <1>1, LifeHolds, PTL

-----------------------------------------------------------------------------
(* At most one DOWN *)

\* Each thread makes the calls it is declared to make.
MayBeIn(c, w) ==
  (c.at \in {"set", "post"} => w \in Closers) /\ (c.at = "send" => w \in Senders)
CallersInv ==
  /\ \A w \in Threads : MayBeIn(call[w], w)
  /\ Senders = {} => ~Waits("send")
  /\ Closers = {} => ~Waits("shutdown")

\* Callbacks are made for a channel that epoll knows, and a hang-up without
\* input is not also a read.
TodoInv ==
  /\ downs = 0 /\ todo # {} => channel.registered
  /\ "close" \in todo => "read" \notin todo

\* After DOWN the channel is out of epoll and nothing puts it back: a queued
\* send would, but finds kDisconnected unless a shutdown() has overwritten it.
DownInv ==
  downs > 0 =>
    /\ downs = 1 /\ todo \subseteq {"write"}
    /\ ~channel.registered /\ channel.events = {}
    /\ Senders = {} \/ state = "kDisconnected"

DownOnceInv == CallersInv /\ TodoInv /\ DownInv

-----------------------------------------------------------------------------
(* What the channel's operations leave in epoll *)

\* disableAll on a channel epoll knows, and remove, take it out of epoll.
LEMMA LeavesEpoll ==
  ASSUME NEW c \in ChannelType, InStep(c)
  PROVE  /\ c.registered => ~DisableAll(c).registered
         /\ ~RemoveChannel(c).registered /\ RemoveChannel(c).index = "kNew"
<1>1. c.registered <=> c.index = "kAdded"
  BY DEF InStep
<1>2. ~RemoveChannel(c).registered /\ RemoveChannel(c).index = "kNew"
  <2>1. CASE c.index = "kAdded"
    BY <2>1 DEF RemoveChannel, CtlDel, ChannelType
  <2>2. CASE c.index # "kAdded"
    BY <1>1, <2>2 DEF RemoveChannel, ChannelType
  <2> QED BY <2>1, <2>2
<1>3. ASSUME c.registered PROVE ~DisableAll(c).registered
  <2> DEFINE d == [c EXCEPT !.events = {}]
  <2>1. d \in ChannelType /\ d.events = {} /\ d.index = "kAdded"
    BY <1>1, <1>3 DEF ChannelType
  <2> HIDE DEF d
  <2>2. UpdateChannel(d) = CtlDel([d EXCEPT !.index = "kDeleted"])
    BY <2>1 DEF UpdateChannel
  <2>3. ~UpdateChannel(d).registered
    BY <2>1, <2>2 DEF CtlDel, ChannelType
  <2> QED BY <2>3 DEF DisableAll, d
<1> QED BY <1>2, <1>3

\* sendInLoop never takes the channel out of epoll, and does not touch it
\* after the connection was closed.
LEMMA SendInLoopChannel ==
  ASSUME TypeOK, InStep(channel), NEW m, NEW q, SendInLoop(m, q)
  PROVE  /\ channel.registered => channel'.registered
         /\ state = "kDisconnected" => channel' = channel
<1>1. channel \in ChannelType
  BY DEF TypeOK
<1>2. \/ channel' = channel
      \/ state # "kDisconnected" /\ channel' = EnableWriting(channel)
  BY DEF SendInLoop, output
<1> QED BY <1>1, <1>2, SwitchesKeepStep

\* What a step does to the channel and to the callbacks still to be made.
LEMMA ChannelStep ==
  ASSUME TypeOK, [Next]_vars
  PROVE  \/ UNCHANGED <<channel, todo>>
         \/ Poll /\ UNCHANGED channel
         \/ (OnClose \/ OnRead) /\ HandleClose
         \/ OnRead /\ todo' = todo \ {"read"} /\ UNCHANGED channel
         \/ OnWrite \/ OnWriteNothing
         \/ ConnectEstablished \/ ConnectDestroyed \/ RunSend
         \/ \E m \in Msg : UserSend(m)
<1> USE DEF output, kernel, loopOnly, server, callers, history
<1>1. CASE OnClose \/ OnRead
  BY <1>1 DEF OnClose, OnRead
<1>2. CASE Poll
  BY <1>2 DEF Poll
<1>3. CASE RunShutdown \/ RunUserFunctor \/ UserReturns \/ UserShutdown
  BY <1>3 DEF RunShutdown, RunUserFunctor, UserReturns, UserShutdown
<1>4. CASE Callers
  BY <1>4 DEF Callers, Finish, DropConnection, DropString, SendPosts, ShutdownPosts,
              ShutdownSets, ShutdownChecks, SendChecks
<1>5. CASE RemoveConnectionInLoop \/ DestroyServer \/ LoopEnds \/ PeerSends
  BY <1>5 DEF RemoveConnectionInLoop, DestroyServer, LoopEnds, PeerSends
<1>6. CASE (\E how \in {"fin", "rst"} : PeerCloses(how)) \/ UNCHANGED vars
  BY <1>6 DEF PeerCloses, vars
<1> QED BY <1>1, <1>2, <1>3, <1>4, <1>5, <1>6 DEF Next, LoopStep, RunFunctor, User

-----------------------------------------------------------------------------
(* Why the callers and the poller keep to it *)

\* A thread is in the calls it makes; sends are queued by senders, shutdowns by
\* closers.
LEMMA CallersStep ==
  ASSUME TypeOK, CallersInv, [Next]_vars
  PROVE  CallersInv'
<1> USE DEF output, kernel, loopOnly, server, callers, history
<1>1. call \in [Threads -> CallType]
  BY DEF TypeOK
<1>2. ASSUME NEW v \in Threads, NEW c, MayBeIn(c, v), call' = [call EXCEPT ![v] = c]
      PROVE  \A w \in Threads : MayBeIn(call'[w], w)
  BY <1>1, <1>2 DEF CallersInv
<1>3. ASSUME NEW v \in Threads, SendPosts(v) \/ ShutdownPosts(v)
      PROVE  \A w \in Threads : MayBeIn(call'[w], w)
  <2>1. MayBeIn(Idle, v)
    BY DEF MayBeIn, Idle
  <2> QED BY <1>2, <1>3, <2>1 DEF SendPosts, ShutdownPosts
<1>4. ASSUME NEW v \in Threads, NEW m \in Msg, SendChecks(v, m)
      PROVE  \A w \in Threads : MayBeIn(call'[w], w)
  <2>1. MayBeIn([at |-> "send", msg |-> m], v)
    BY <1>4 DEF MayBeIn, SendChecks
  <2> QED BY <1>2, <1>4, <2>1 DEF SendChecks
<1>5. ASSUME NEW v \in Threads, ShutdownChecks(v) \/ ShutdownSets(v)
      PROVE  \A w \in Threads : MayBeIn(call'[w], w)
  <2>1. v \in Closers
    BY <1>5 DEF ShutdownChecks, ShutdownSets, CallersInv, MayBeIn
  <2>2. MayBeIn([at |-> "set", msg |-> NoMsg], v) /\ MayBeIn([at |-> "post", msg |-> NoMsg], v)
    BY <2>1 DEF MayBeIn
  <2> QED BY <1>2, <1>5, <2>2 DEF ShutdownChecks, ShutdownSets
<1>6. ASSUME UNCHANGED call PROVE \A w \in Threads : MayBeIn(call'[w], w)
  BY <1>6 DEF CallersInv
<1>12. ASSUME OverwrittenStores PROVE \A w \in Threads : MayBeIn(call'[w], w)
  BY <1>12 DEF OverwrittenStores, CallersInv, MayBeIn
<1>7. \A w \in Threads : MayBeIn(call'[w], w)
  <2>1. CASE LoopStep
    BY <1>6, <1>12, <2>1
    DEF LoopStep, Poll, OnClose, OnRead, OnWrite, OnWriteSome, OnWriteNothing,
      RunFunctor, ConnectEstablished, ConnectDestroyed, RunSend, RunShutdown, RunUserFunctor
  <2>2. CASE User
    BY <1>6, <2>2 DEF User, UserReturns, UserShutdown, UserSend
  <2>3. CASE Callers
    BY <1>3, <1>4, <1>5, <1>6, <2>3 DEF Callers, Finish, DropConnection, DropString
  <2>4. CASE RemoveConnectionInLoop \/ DestroyServer \/ LoopEnds \/ PeerSends
    BY <1>6, <2>4 DEF RemoveConnectionInLoop, DestroyServer, LoopEnds, PeerSends
  <2>5. CASE (\E how \in {"fin", "rst"} : PeerCloses(how)) \/ UNCHANGED vars
    BY <1>6, <2>5 DEF PeerCloses, vars
  <2> QED BY <2>1, <2>2, <2>3, <2>4, <2>5 DEF Next
<1>8. Senders = {} => ~Has(ioq', "send")
  <2>1. ASSUME Senders = {}, NEW w \in Threads, SendPosts(w) PROVE FALSE
    BY <2>1 DEF SendPosts, CallersInv, MayBeIn
  <2> QED BY <2>1, WaitsStep DEF CallersInv, Waits
<1>9. Closers = {} => ~Has(ioq', "shutdown")
  <2>1. ASSUME Closers = {}, NEW w \in Threads, ShutdownPosts(w) PROVE FALSE
    BY <2>1 DEF ShutdownPosts, CallersInv, MayBeIn
  <2> QED BY <2>1, WaitsStep DEF CallersInv, Waits
<1>10. (Waits("send")' <=> Has(ioq', "send")) /\ (Waits("shutdown")' <=> Has(ioq', "shutdown"))
  BY DEF Waits, Has
<1>11. (\A w \in Threads : MayBeIn(call[w], w))' <=> \A w \in Threads : MayBeIn(call'[w], w)
  BY DEF MayBeIn
<1> QED BY <1>7, <1>8, <1>9, <1>10, <1>11 DEF CallersInv

\* Once DOWN was reported no callback that could report it again is left, and
\* nothing brings the channel back into epoll.
LEMMA DownStep ==
  ASSUME Senders = {} \/ Closers = {}, Inv, LifeInv, DownOnceInv, [Next]_vars
  PROVE  (TodoInv /\ DownInv)'
<1> USE DEF output, kernel, loopOnly, server, callers, history
<1>1. /\ channel \in ChannelType /\ InStep(channel) /\ TypeOK
      /\ downs \in Nat /\ ups \in Nat /\ state \in States
      /\ ioq \in Seq(FunctorType)
  BY DEF Inv, TypeOK, PollerInStep
<1>2. downs > 0 => state \in {"kDisconnecting", "kDisconnected"} /\ ups = 1
  BY <1>1 DEF LifeInv, UpOnce, NotUpYet, EndInv, States
<1>3. CASE HandleClose /\ (OnClose \/ OnRead)
  <2>1. ~(todo \subseteq {"write"}) /\ todo' \subseteq {"write"}
    BY <1>1, <1>3 DEF OnClose, OnRead, TypeOK, DownOnceInv, TodoInv
  <2>2. downs = 0 /\ channel.registered
    BY <1>1, <2>1 DEF DownOnceInv, DownInv, TodoInv
  <2>3. downs' = 1 /\ state' = "kDisconnected" /\ channel' = DisableAll(channel)
    BY <1>3, <2>2 DEF HandleClose
  <2>4. ~channel'.registered /\ channel'.events = {}
    BY <1>1, <2>2, <2>3, LeavesEpoll, SwitchesKeepStep
  <2> QED BY <2>1, <2>3, <2>4 DEF TodoInv, DownInv
<1>4. CASE ConnectDestroyed
  <2>1. todo = {} /\ todo' = {} /\ Has(ioq, "destroyed")
    BY <1>1, <1>4, HasProperties DEF ConnectDestroyed, Runs, LoopIsFree
  <2>2. CASE state = "kConnected"
    <3>1. downs = 0 /\ ~destroyed /\ ups > 0
      BY <1>1, <1>2, <2>2 DEF LifeInv, UpOnce, NotUpYet, EndInv
    <3>2. channel.registered
      BY <3>1 DEF Inv, OutputInv
    <3>3. /\ channel' = RemoveChannel(DisableAll(channel))
          /\ downs' = 1 /\ state' = "kDisconnected"
      BY <1>4, <2>2, <3>1 DEF ConnectDestroyed
    <3>4. /\ DisableAll(channel) \in ChannelType /\ InStep(DisableAll(channel))
          /\ DisableAll(channel).events = {}
      BY <1>1, SwitchesKeepStep
    <3>5. ~channel'.registered /\ channel'.events = {}
      BY <3>3, <3>4, LeavesEpoll, RemoveKeepsStep
    <3> QED BY <2>1, <3>3, <3>5 DEF TodoInv, DownInv
  <2>3. CASE state # "kConnected"
    <3>1. channel' = RemoveChannel(channel) /\ UNCHANGED <<state, downs>>
      BY <1>4, <2>3 DEF ConnectDestroyed
    <3>2. ~channel'.registered /\ channel'.events = channel.events
      BY <1>1, <3>1, LeavesEpoll, RemoveKeepsStep
    <3> QED BY <2>1, <3>1, <3>2 DEF DownOnceInv, TodoInv, DownInv
  <2> QED BY <2>2, <2>3
<1>5. CASE Poll /\ UNCHANGED channel
  <2>1. channel.registered /\ UNCHANGED <<state, downs>>
    BY <1>5 DEF Poll
  <2>2. downs = 0
    BY <1>1, <2>1 DEF DownOnceInv, DownInv
  <2>3. "close" \in todo' => "read" \notin todo'
    BY <1>5 DEF Poll, Callbacks
  <2> QED BY <1>5, <2>1, <2>2, <2>3 DEF TodoInv, DownInv
<1>6. CASE OnWrite
  <2>1. PICK n \in 1..Len(outBuf) : OnWriteSome(n)
    BY <1>6 DEF OnWrite
  <2>2. downs = 0
    BY <1>1, <2>1 DEF OnWriteSome, IsWriting, DownOnceInv, DownInv
  <2> QED BY <2>1, <2>2 DEF OnWriteSome, TodoInv, DownInv
<1>7. CASE OnWriteNothing
  BY <1>7 DEF OnWriteNothing, DownOnceInv, TodoInv, DownInv
<1>8. CASE ConnectEstablished
  <2>1. Has(ioq, "established")
    BY <1>1, <1>8, HasProperties DEF ConnectEstablished, Runs
  <2>2. downs = 0 /\ todo = {}
    BY <1>1, <2>1 DEF LifeInv, UpOnce, NotUpYet, Waits
  <2> QED BY <1>8, <2>2 DEF ConnectEstablished, TodoInv, DownInv
<1>9. CASE RunSend
  <2>1. Has(ioq, "send") /\ todo = {}
    BY <1>1, <1>9, HasProperties DEF RunSend, Runs, LoopIsFree
  <2>2. Senders # {}
    BY <2>1 DEF DownOnceInv, CallersInv, Waits
  <2>3. downs > 0 => channel' = channel
    BY <1>1, <1>9, <2>2, SendInLoopChannel DEF RunSend, DownOnceInv, DownInv
  <2> QED BY <1>1, <1>9, <2>1, <2>3 DEF RunSend, DownOnceInv, TodoInv, DownInv
<1>10. ASSUME NEW m \in Msg, UserSend(m) PROVE (TodoInv /\ DownInv)'
  <2>1. downs = 0 /\ UNCHANGED <<state, downs, todo>>
    BY <1>1, <1>2, <1>10 DEF UserSend
  <2>2. channel.registered => channel'.registered
    BY <1>1, <1>10, SendInLoopChannel DEF UserSend
  <2> QED BY <2>1, <2>2 DEF DownOnceInv, TodoInv, DownInv
<1>11. CASE OnRead /\ todo' = todo \ {"read"} /\ UNCHANGED channel
  <2>1. UNCHANGED <<state, downs>> \/ HandleClose
    BY <1>11 DEF OnRead
  <2> QED BY <1>3, <1>11, <2>1 DEF DownOnceInv, TodoInv, DownInv
<1>12. CASE UNCHANGED <<channel, todo>>
  <2>1. CASE UNCHANGED <<state, downs>>
    BY <1>12, <2>1 DEF DownOnceInv, TodoInv, DownInv
  <2>2. CASE UserShutdown /\ UNCHANGED downs
    BY <1>1, <1>2, <1>12, <2>2 DEF UserShutdown, DownOnceInv, TodoInv, DownInv
  <2>3. ASSUME NEW w \in Threads, ShutdownSets(w), UNCHANGED downs PROVE (TodoInv /\ DownInv)'
    <3>1. w \in Closers
      BY <2>3 DEF ShutdownSets, DownOnceInv, CallersInv, MayBeIn
    <3> QED BY <1>12, <2>3, <3>1 DEF DownOnceInv, TodoInv, DownInv
  <2> QED BY <1>3, <1>4, <1>8, <2>1, <2>2, <2>3, StateStep
<1> QED BY <1>1, <1>3, <1>4, <1>5, <1>6, <1>7, <1>8, <1>9, <1>10, <1>11, <1>12, ChannelStep

\* connectionCallback_ reports UP once and DOWN at most once, in that order, if
\* no other thread sends, or none shuts down.  With both, shutdown() can
\* overwrite kDisconnected between the end of the connection and a queued send,
\* which then enables writing again and lets a second handleClose in.
THEOREM DownAtMostOnce ==
  ASSUME Senders = {} \/ Closers = {}
  PROVE  Spec => []UpThenDown
<1>1. Init => DownOnceInv
  BY DEF Init, DownOnceInv, CallersInv, MayBeIn, TodoInv, DownInv, Waits, Has, Functor, Idle
<1>2. Inv /\ LifeInv /\ DownOnceInv /\ [Next]_vars => DownOnceInv'
  BY CallersStep, DownStep DEF DownOnceInv, Inv
<1>3. Inv /\ LifeInv /\ DownOnceInv => UpThenDown
  <2> SUFFICES ASSUME Inv, LifeInv, DownOnceInv PROVE UpThenDown
    OBVIOUS
  <2>1. ups \in Nat /\ downs \in Nat
    BY DEF Inv, TypeOK
  <2> QED BY <2>1 DEF LifeInv, UpOnce, NotUpYet, EndInv, DownOnceInv, DownInv, UpThenDown
<1> QED BY <1>1, <1>2, <1>3, LifeHolds, PTL DEF Spec

-----------------------------------------------------------------------------
(* A shutdown() is not forgotten *)

\* While a connection that is not closed is shutting down and its loop has not
\* ended, somebody still has the FIN in hand: it was sent, or output waits that handleWrite will drain,
\* or shutdownInLoop is queued, or a caller is about to queue it.  This is what
\* no step may break if ShutdownCompletes is to hold.
Posting == \E w \in Threads : call[w].at = "post"
ShutdownPending ==
  state = "kDisconnecting" /\ downs = 0 /\ ~loopGone =>
    writeClosed \/ outBuf # <<>> \/ Waits("shutdown") \/ Posting

\* A queued shutdownInLoop waits until it runs, or the loop ends.
LEMMA ShutdownWaits ==
  ASSUME TypeOK, [Next]_vars, Has(ioq, "shutdown"), ~RunShutdown, ~LoopEnds
  PROVE  Has(ioq', "shutdown")
<1>1. ioq \in Seq(FunctorType)
  BY DEF TypeOK
<1>2. /\ Functor("shutdown") \in FunctorType /\ Functor("destroyed") \in FunctorType
      /\ \A m \in Msg : SendFunctor(m) \in FunctorType
  BY DEF Functor, SendFunctor, FunctorType
<1>3. \A f \in FunctorType : Has(Append(ioq, f), "shutdown")
  BY <1>1, HasProperties
<1>4. ASSUME NEW q \in Seq(FunctorType), NEW a \in BOOLEAN, NEW b \in BOOLEAN,
             Has(q, "shutdown")
      PROVE  Has(q \o Batch(a, b), "shutdown")
  BY <1>4, BatchType, HasProperties
<1>5. CASE RunFunctor /\ ioq # <<>>
  <2>1. Head(ioq).do # "shutdown"
    BY <1>5 DEF RunFunctor, ConnectEstablished, ConnectDestroyed, RunSend, RunShutdown,
                RunUserFunctor, Runs
  <2> DEFINE t == Tail(ioq)
  <2>2. t \in Seq(FunctorType) /\ Has(t, "shutdown")
    BY <1>1, <1>5, <2>1, HasProperties, HeadTailProperties
  <2> HIDE DEF t
  <2>3. \A a, b \in BOOLEAN : Has(t \o Batch(a, b), "shutdown")
    BY <1>4, <2>2
  <2>4. \A a, b \in BOOLEAN : Has(ioq \o Batch(a, b), "shutdown")
    BY <1>1, <1>4
  <2>5. \/ ioq' \in {ioq, t, Append(ioq, Functor("shutdown")), Append(ioq, Functor("destroyed"))}
        \/ \E a, b \in BOOLEAN : ioq' = ioq \o Batch(a, b) \/ ioq' = t \o Batch(a, b)
        \/ \E m \in Msg : ioq' = Append(ioq, SendFunctor(m))
    BY QueueStep DEF t
  <2> QED BY <1>2, <1>3, <2>2, <2>3, <2>4, <2>5
<1>6. CASE ~(RunFunctor /\ ioq # <<>>)
  <2>1. \A a, b \in BOOLEAN : Has(ioq \o Batch(a, b), "shutdown")
    BY <1>1, <1>4
  <2>2. \/ ioq' \in {ioq, Append(ioq, Functor("shutdown")), Append(ioq, Functor("destroyed"))}
        \/ \E a, b \in BOOLEAN : ioq' = ioq \o Batch(a, b)
        \/ \E m \in Msg : ioq' = Append(ioq, SendFunctor(m))
    BY <1>6, QueueStep
  <2> QED BY <1>2, <1>3, <2>1, <2>2
<1> QED BY <1>5, <1>6

\* A caller that is about to queue shutdownInLoop stays so until it does.
LEMMA PostingStep ==
  ASSUME TypeOK, [Next]_vars, Posting
  PROVE  Posting' \/ Has(ioq', "shutdown")
<1> USE DEF output, kernel, loopOnly, server, callers, history
<1>1. PICK w \in Threads : call[w].at = "post"
  BY DEF Posting
<1>2. call \in [Threads -> CallType] /\ ioq \in Seq(FunctorType)
  BY DEF TypeOK
<1>3. CASE UNCHANGED call
  BY <1>1, <1>3 DEF Posting
<1>4. ASSUME NEW v \in Threads, ShutdownPosts(v)
      PROVE  Has(ioq', "shutdown")
  <2>1. Functor("shutdown") \in FunctorType /\ Functor("shutdown").do = "shutdown"
    BY DEF Functor, FunctorType
  <2> QED BY <1>2, <1>4, <2>1, HasProperties DEF ShutdownPosts
<1>5. ASSUME NEW v \in Threads,
             \/ SendPosts(v) \/ ShutdownSets(v) \/ ShutdownChecks(v)
             \/ \E m \in Msg : SendChecks(v, m)
      PROVE  Posting'
  <2>1. v # w
    BY <1>1, <1>5 DEF SendPosts, ShutdownSets, ShutdownChecks, SendChecks
  <2>2. call'[w] = call[w]
    BY <1>2, <1>5, <2>1 DEF SendPosts, ShutdownSets, ShutdownChecks, SendChecks
  <2> QED BY <1>1, <2>2 DEF Posting
<1>6. CASE DropConnection \/ \E m \in Msg : DropString(m)
  BY <1>3, <1>6 DEF DropConnection, DropString
<1>7. CASE User
  BY <1>3, <1>7 DEF User, UserReturns, UserShutdown, UserSend
<1>8. CASE Poll \/ OnClose \/ OnRead \/ OnWrite \/ OnWriteNothing
  BY <1>3, <1>8 DEF Poll, OnClose, OnRead, OnWrite, OnWriteSome, OnWriteNothing
<1>9. CASE RunFunctor
  <2>1. CASE OverwrittenStores
    BY <1>1, <1>2, <2>1 DEF OverwrittenStores, Posting
  <2> QED BY <1>3, <1>9, <2>1
          DEF RunFunctor, ConnectEstablished, ConnectDestroyed, RunSend, RunShutdown,
              RunUserFunctor
<1>10. CASE RemoveConnectionInLoop \/ DestroyServer \/ LoopEnds \/ PeerSends
  BY <1>3, <1>10 DEF RemoveConnectionInLoop, DestroyServer, LoopEnds, PeerSends
<1>11. CASE (\E how \in {"fin", "rst"} : PeerCloses(how)) \/ UNCHANGED vars
  BY <1>3, <1>11 DEF PeerCloses, vars
<1> QED BY <1>4, <1>5, <1>6, <1>7, <1>8, <1>9, <1>10, <1>11
        DEF Next, LoopStep, Callers, Finish

\* Output that waits goes on waiting, or its last byte takes the FIN with it.
LEMMA DrainStep ==
  ASSUME Inv, [Next]_vars, state = "kDisconnecting", outBuf # <<>>
  PROVE  writeClosed' \/ outBuf' # <<>>
<1> USE DEF output, kernel, loopOnly, server, callers, history
<1>1. channel \in ChannelType /\ InStep(channel) /\ outBuf \in Seq(Byte)
  BY DEF Inv, TypeOK, PollerInStep
<1>2. CASE UNCHANGED outBuf
  BY <1>2
<1>3. ASSUME NEW n \in 1..Len(outBuf), OnWriteSome(n), outBuf' = <<>>
      PROVE  writeClosed'
  <2>1. ShutdownAfterOutput(DisableWriting(channel))
    BY <1>3 DEF OnWriteSome
  <2>2. ~IsWriting(DisableWriting(channel))
    BY <1>1, SwitchesKeepStep DEF IsWriting
  <2> QED BY <2>1, <2>2 DEF ShutdownAfterOutput, ShutdownInLoop
<1>4. ASSUME NEW m \in Msg, NEW q, SendInLoop(m, q)
      PROVE  outBuf' # <<>>
  <2>1. CASE UNCHANGED outBuf
    BY <2>1
  <2>2. ASSUME NEW n \in 0..MsgLen, outBuf' = outBuf \o SubSeq(Bytes(m), n + 1, MsgLen)
        PROVE  outBuf' # <<>>
    <3> DEFINE later == SubSeq(Bytes(m), n + 1, MsgLen)
    <3>1. later \in Seq(Byte) /\ outBuf' = outBuf \o later
      BY <2>2, BytesType
    <3> HIDE DEF later
    <3>2. Len(outBuf) \in Nat \ {0} /\ Len(later) \in Nat
      BY <1>1, <3>1, EmptySeq
    <3>3. Len(outBuf') # 0
      BY <1>1, <3>1, <3>2, ConcatProperties
    <3> QED BY <3>3
  <2> QED BY <1>4, <2>1, <2>2 DEF SendInLoop
<1>5. CASE OnWrite
  BY <1>3, <1>5 DEF OnWrite
<1>6. CASE RunSend
  <2>1. Head(ioq) \in FunctorType /\ Head(ioq).do = "send"
    BY <1>6, HeadTailProperties DEF RunSend, Runs, Inv, TypeOK
  <2>2. Head(ioq).msg \in Msg
    BY <2>1 DEF FunctorType
  <2> QED BY <1>4, <1>6, <2>2 DEF RunSend
<1>7. CASE \E m \in Msg : UserSend(m)
  BY <1>4, <1>7 DEF UserSend
<1>8. CASE Poll \/ OnClose \/ OnRead \/ OnWriteNothing \/ UserShutdown \/ UserReturns
  BY <1>2, <1>8 DEF Poll, OnClose, OnRead, OnWriteNothing, UserShutdown, UserReturns
<1>9. CASE ConnectEstablished \/ ConnectDestroyed \/ RunShutdown \/ RunUserFunctor
  BY <1>2, <1>9 DEF ConnectEstablished, ConnectDestroyed, RunShutdown, RunUserFunctor
<1>10. CASE Callers
  BY <1>2, <1>10 DEF Callers, Finish, DropConnection, DropString, SendPosts, ShutdownPosts,
                     ShutdownSets, ShutdownChecks, SendChecks
<1>11. CASE RemoveConnectionInLoop \/ DestroyServer \/ LoopEnds \/ PeerSends
  BY <1>2, <1>11 DEF RemoveConnectionInLoop, DestroyServer, LoopEnds, PeerSends
<1>12. CASE (\E how \in {"fin", "rst"} : PeerCloses(how)) \/ UNCHANGED vars
  BY <1>2, <1>12 DEF PeerCloses, vars
<1> QED BY <1>5, <1>6, <1>7, <1>8, <1>9, <1>10, <1>11, <1>12
        DEF Next, LoopStep, RunFunctor, User

\* Nothing takes the FIN back.
LEMMA FinStays ==
  ASSUME [Next]_vars, writeClosed
  PROVE  writeClosed'
<1> USE DEF output, kernel, loopOnly, server, callers, history
<1>1. CASE Poll \/ OnClose \/ OnRead \/ OnWriteNothing \/ OnWrite
  BY <1>1 DEF Poll, OnClose, OnRead, OnWriteNothing, OnWrite, OnWriteSome, WriteFails
<1>2. CASE RunFunctor
  BY <1>2 DEF RunFunctor, ConnectEstablished, ConnectDestroyed, RunSend, RunShutdown,
              RunUserFunctor, ShutdownInLoop
<1>3. CASE User
  BY <1>3 DEF User, UserReturns, UserShutdown, UserSend, ShutdownInLoop
<1>4. CASE Callers
  BY <1>4 DEF Callers, Finish, DropConnection, DropString, SendPosts, ShutdownPosts,
              ShutdownSets, ShutdownChecks, SendChecks
<1>5. CASE RemoveConnectionInLoop \/ DestroyServer \/ LoopEnds \/ PeerSends
  BY <1>5 DEF RemoveConnectionInLoop, DestroyServer, LoopEnds, PeerSends
<1>6. CASE (\E how \in {"fin", "rst"} : PeerCloses(how)) \/ UNCHANGED vars
  BY <1>6 DEF PeerCloses, vars
<1> QED BY <1>1, <1>2, <1>3, <1>4, <1>5, <1>6 DEF Next, LoopStep

\* shutdownInLoop closes the write side at once, or leaves it to the output.
LEMMA ShutdownInLoopActs ==
  ASSUME Inv, downs = 0, ShutdownInLoop(channel), UNCHANGED outBuf
  PROVE  writeClosed' \/ outBuf' # <<>>
BY DEF Inv, OutputInv, ShutdownInLoop

\* A loop that has ended does not come back.
LEMMA LoopStays ==
  ASSUME [Next]_vars, loopGone
  PROVE  loopGone'
<1> USE DEF output, kernel, loopOnly, server, callers, history
<1>1. CASE LoopStep
  BY <1>1 DEF LoopStep, Poll, OnClose, OnRead, OnWriteNothing, OnWrite, OnWriteSome,
              RunFunctor, ConnectEstablished, ConnectDestroyed, RunSend, RunShutdown,
              RunUserFunctor
<1>2. CASE User
  BY <1>2 DEF User, UserReturns, UserShutdown, UserSend
<1>3. CASE Callers
  BY <1>3 DEF Callers, Finish, DropConnection, DropString, SendPosts, ShutdownPosts,
              ShutdownSets, ShutdownChecks, SendChecks
<1>4. CASE RemoveConnectionInLoop \/ DestroyServer \/ LoopEnds \/ PeerSends
  BY <1>4 DEF RemoveConnectionInLoop, DestroyServer, LoopEnds, PeerSends
<1>5. CASE (\E how \in {"fin", "rst"} : PeerCloses(how)) \/ UNCHANGED vars
  BY <1>5 DEF PeerCloses, vars
<1> QED BY <1>1, <1>2, <1>3, <1>4, <1>5 DEF Next

LEMMA PendingStep ==
  ASSUME Inv, ShutdownPending, [Next]_vars
  PROVE  ShutdownPending'
<1> USE DEF output, loopOnly
<1>1. SUFFICES ASSUME state' = "kDisconnecting", downs' = 0, ~loopGone'
               PROVE  writeClosed' \/ outBuf' # <<>> \/ Has(ioq', "shutdown") \/ Posting'
  BY DEF ShutdownPending, Waits, Has
<1>2. TypeOK /\ downs = 0
  <2>1. TypeOK /\ downs \in Nat
    BY DEF Inv, TypeOK
  <2>2. downs' = downs \/ downs' = downs + 1
    BY StateStep
  <2> QED BY <1>1, <2>1, <2>2
<1>7. ~loopGone /\ ~LoopEnds
  BY <1>1, LoopStays DEF LoopEnds
<1>3. CASE UserShutdown
  BY <1>2, <1>3, ShutdownInLoopActs DEF UserShutdown
<1>4. CASE RunShutdown
  BY <1>2, <1>4, ShutdownInLoopActs DEF RunShutdown
<1>5. ASSUME NEW w \in Threads, ShutdownSets(w)
      PROVE  Posting'
  <2>1. call \in [Threads -> CallType]
    BY <1>2 DEF TypeOK
  <2>2. call'[w].at = "post"
    BY <1>5, <2>1 DEF ShutdownSets
  <2> QED BY <2>2 DEF Posting
<1>6. CASE state = "kDisconnecting" /\ ~RunShutdown
  <2>1. writeClosed \/ outBuf # <<>> \/ Has(ioq, "shutdown") \/ Posting
    BY <1>2, <1>6, <1>7 DEF ShutdownPending, Waits
  <2> QED BY <1>2, <1>6, <1>7, <2>1, FinStays, DrainStep, ShutdownWaits, PostingStep
<1> QED BY <1>1, <1>3, <1>4, <1>5, <1>6, StateStep

\* shutdown() is never forgotten: whichever of the drain in handleWrite and the
\* queued shutdownInLoop comes first, and whatever other threads do between
\* their test of state_, their store to it and the queueing
\* (TcpConnection.cc:282-301, 136-139), a way to the FIN is left.
THEOREM ShutdownNotForgotten == Spec => []ShutdownPending
<1>1. Init => ShutdownPending
  BY DEF Init, ShutdownPending
<1> QED BY <1>1, PendingStep, InvHolds, PTL DEF Spec

-----------------------------------------------------------------------------
(* Nothing after connectDestroyed *)

\* What connectDestroyed leaves behind stays as it is.
RemovedInv ==
  destroyed =>
    /\ ~channel.registered /\ channel.index = "kNew"
    /\ todo = {} /\ state # "kConnected"

\* A send() that comes back after connectDestroyed leaves the channel alone if
\* nobody but the loop thread shuts down: it finds kDisconnected, or the write
\* side closed, or a channel whose events still ask for writing.
LEMMA LateSend ==
  ASSUME Closers = {}, Inv, LifeInv, DownOnceInv, ShutdownPending, Senders # {},
         destroyed, state # "kConnected", ~loopGone, NEW m, NEW q, SendInLoop(m, q)
  PROVE  channel' = channel
<1>1. TypeOK /\ InStep(channel) /\ state \in States /\ ups \in Nat /\ downs \in Nat
  BY DEF Inv, TypeOK, PollerInStep
<1>2. state # "kConnecting"
  BY <1>1 DEF LifeInv, UpOnce, NotUpYet
<1>3. CASE state = "kDisconnected"
  BY <1>1, <1>3, SendInLoopChannel
<1>4. CASE state = "kDisconnecting"
  <2>1. downs = 0
    BY <1>1, <1>4 DEF DownOnceInv, DownInv
  <2>2. ~Waits("shutdown") /\ ~Posting
    BY DEF DownOnceInv, CallersInv, MayBeIn, Posting
  <2>3. writeClosed \/ outBuf # <<>>
    BY <1>4, <2>1, <2>2 DEF ShutdownPending
  <2>4. IsWriting(channel) <=> outBuf # <<>>
    BY <2>1 DEF Inv, OutputInv
  <2>5. CASE outBuf # <<>>
    BY <2>4, <2>5 DEF SendInLoop
  <2>6. CASE outBuf = <<>>
    <3>1. MayWriteAtOnce /\ WriteFails
      BY <2>3, <2>4, <2>6 DEF MayWriteAtOnce, WriteFails
    <3> QED BY <3>1 DEF SendInLoop
  <2> QED BY <2>5, <2>6
<1> QED BY <1>1, <1>2, <1>3, <1>4 DEF States

\* connectDestroyed is the channel's last contact with the poller when no send
\* can be queued behind it, or one that is leaves the channel alone.
LEMMA RemovedStep ==
  ASSUME Senders = {} \/ Closers = {},
         Inv, LifeInv, DownOnceInv, ShutdownPending, RemovedInv, [Next]_vars
  PROVE  RemovedInv'
<1> USE DEF output, kernel, loopOnly, server, callers, history
<1>1. /\ channel \in ChannelType /\ InStep(channel) /\ TypeOK
      /\ ups \in Nat /\ ioq \in Seq(FunctorType)
  BY DEF Inv, TypeOK, PollerInStep
<1>2. Runs("established") => ~destroyed
  BY <1>1, HasProperties DEF Runs, LifeInv, UpOnce, NotUpYet, Waits
<1>3. ASSUME RunSend, destroyed PROVE UNCHANGED <<channel, todo>>
  <2>1. Has(ioq, "send")
    BY <1>1, <1>3, HasProperties DEF RunSend, Runs
  <2>2. Senders # {} /\ Closers = {}
    BY <2>1 DEF DownOnceInv, CallersInv, Waits
  <2>3. /\ state # "kConnected" /\ ~loopGone
        /\ SendInLoop(Head(ioq).msg, Tail(ioq)) /\ UNCHANGED todo
    BY <1>3 DEF RunSend, Runs, LoopIsFree, RemovedInv
  <2> QED BY <1>3, <2>2, <2>3, LateSend
<1>4. CASE ConnectDestroyed
  <2>1. todo' = {} /\ state' # "kConnected"
    BY <1>4 DEF ConnectDestroyed, Runs, LoopIsFree
  <2>2. DisableAll(channel) \in ChannelType /\ InStep(DisableAll(channel))
    BY <1>1, SwitchesKeepStep
  <2>3. channel' = RemoveChannel(channel) \/ channel' = RemoveChannel(DisableAll(channel))
    BY <1>4 DEF ConnectDestroyed
  <2>4. ~channel'.registered /\ channel'.index = "kNew"
    BY <1>1, <2>2, <2>3, LeavesEpoll
  <2> QED BY <2>1, <2>4 DEF RemovedInv
<1>5. CASE ConnectEstablished
  BY <1>2, <1>5 DEF ConnectEstablished, RemovedInv
<1>6. CASE ~ConnectDestroyed /\ ~ConnectEstablished /\ destroyed
  <2>1. ~channel.registered /\ channel.index = "kNew" /\ todo = {} /\ state # "kConnected"
    BY <1>6 DEF RemovedInv
  <2>2. /\ ~Poll /\ ~OnClose /\ ~OnRead /\ ~OnWrite /\ ~OnWriteNothing
        /\ \A m \in Msg : ~UserSend(m)
    BY <2>1 DEF Poll, OnClose, OnRead, OnWrite, OnWriteSome, OnWriteNothing, UserSend
  <2>3. UNCHANGED <<channel, todo>>
    BY <1>1, <1>3, <1>6, <2>2, ChannelStep
  <2>4. state' # "kConnected"
    BY <1>6, <2>1, <2>2, StateStep
  <2> QED BY <2>1, <2>3, <2>4 DEF RemovedInv
<1>7. CASE ~ConnectDestroyed /\ ~destroyed
  <2>1. ~destroyed'
    BY <1>7, StateStep
  <2> QED BY <2>1 DEF RemovedInv
<1> QED BY <1>4, <1>5, <1>6, <1>7

\* After connectDestroyed epoll does not know the channel and the poller does
\* not count it as its own, whatever events, sends, shutdowns and removals cross,
\* if no other thread sends, or none shuts down.  With both, run conn_removed
\* shows the channel come back.
THEOREM GoneFromPoller ==
  ASSUME Senders = {} \/ Closers = {}
  PROVE  Spec => []NotPolledAfterDestroyed
<1>1. Init => DownOnceInv /\ ShutdownPending /\ RemovedInv
  BY DEF Init, DownOnceInv, CallersInv, MayBeIn, TodoInv, DownInv, ShutdownPending, RemovedInv,
         Waits, Has, Functor, Idle
<1>2. Inv /\ LifeInv /\ DownOnceInv /\ ShutdownPending /\ RemovedInv /\ [Next]_vars
        => (DownOnceInv /\ ShutdownPending /\ RemovedInv)'
  BY CallersStep, DownStep, PendingStep, RemovedStep DEF DownOnceInv, Inv
<1>3. RemovedInv => NotPolledAfterDestroyed
  BY DEF RemovedInv, NotPolledAfterDestroyed
<1> QED BY <1>1, <1>2, <1>3, LifeHolds, PTL DEF Spec

=============================================================================
