------------------------ MODULE TcpConnection_proofs ------------------------
(***************************************************************************)
(* Proofs about TcpConnection for any threads, messages and sizes, and for *)
(* any value readFd may return: the channel never makes epoll_ctl fail,    *)
(* and FIN follows the last byte of the output.                            *)
(***************************************************************************)
EXTENDS TcpConnection, SequenceTheorems, TLAPS

-----------------------------------------------------------------------------
(* The channel: every operation keeps index_, events_ and epoll in step *)

\* EPollPoller::updateChannel, for any change of events_.
LEMMA UpdateKeepsStep ==
  ASSUME NEW c \in ChannelType, InStep(c), NEW ev \in SUBSET Events
  PROVE  LET d == UpdateChannel([c EXCEPT !.events = ev])
         IN  /\ d \in ChannelType /\ InStep(d) /\ d.events = ev
             /\ ev # {} => d.registered
<1> DEFINE b == [c EXCEPT !.events = ev]
<1>1. /\ b \in ChannelType /\ b.events = ev /\ b.index = c.index
      /\ b.registered = c.registered /\ b.fatal = c.fatal
  BY DEF ChannelType
<1>2. c.registered <=> c.index = "kAdded"
  BY DEF InStep
<1> HIDE DEF b
<1>3. CASE b.index \in {"kNew", "kDeleted"}
  BY <1>1, <1>2, <1>3
  DEF UpdateChannel, CtlAdd, InStep, ChannelType, Index
<1>4. CASE b.index = "kAdded" /\ b.events = {}
  BY <1>1, <1>2, <1>4
  DEF UpdateChannel, CtlDel, InStep, ChannelType, Index, Events
<1>5. CASE b.index = "kAdded" /\ b.events # {}
  BY <1>1, <1>2, <1>5
  DEF UpdateChannel, CtlMod, InStep, ChannelType, Index
<1>6. b.index \in Index
  BY <1>1 DEF ChannelType
<1> QED BY <1>3, <1>4, <1>5, <1>6 DEF Index, b

\* The enabling and disabling members of Channel.
LEMMA SwitchesKeepStep ==
  ASSUME NEW c \in ChannelType, InStep(c)
  PROVE  /\ EnableReading(c) \in ChannelType /\ InStep(EnableReading(c))
         /\ EnableReading(c).events = c.events \cup {"in"}
         /\ EnableWriting(c) \in ChannelType /\ InStep(EnableWriting(c))
         /\ EnableWriting(c).events = c.events \cup {"out"}
         /\ DisableWriting(c) \in ChannelType /\ InStep(DisableWriting(c))
         /\ DisableWriting(c).events = c.events \ {"out"}
         /\ EnableReading(c).registered /\ EnableWriting(c).registered
         /\ "in" \in c.events => DisableWriting(c).registered
         /\ DisableAll(c) \in ChannelType /\ InStep(DisableAll(c))
         /\ DisableAll(c).events = {}
<1>1. c.events \in SUBSET Events
  BY DEF ChannelType
<1>2. /\ c.events \cup {"in"} \in SUBSET Events /\ c.events \cup {"out"} \in SUBSET Events
      /\ c.events \ {"out"} \in SUBSET Events /\ {} \in SUBSET Events
  BY <1>1 DEF Events
<1>3. \A ev \in SUBSET Events :
        LET d == UpdateChannel([c EXCEPT !.events = ev])
        IN  d \in ChannelType /\ InStep(d) /\ d.events = ev /\ (ev # {} => d.registered)
  BY UpdateKeepsStep
<1>4. /\ [c EXCEPT !.events = @ \cup {"in"}] = [c EXCEPT !.events = c.events \cup {"in"}]
      /\ [c EXCEPT !.events = @ \cup {"out"}] = [c EXCEPT !.events = c.events \cup {"out"}]
      /\ [c EXCEPT !.events = @ \ {"out"}] = [c EXCEPT !.events = c.events \ {"out"}]
  OBVIOUS
<1> HIDE DEF InStep
<1>5. /\ EnableReading(c) \in ChannelType /\ InStep(EnableReading(c))
      /\ EnableReading(c).events = c.events \cup {"in"} /\ EnableReading(c).registered
  BY <1>2, <1>3, <1>4 DEF EnableReading
<1>6. /\ EnableWriting(c) \in ChannelType /\ InStep(EnableWriting(c))
      /\ EnableWriting(c).events = c.events \cup {"out"} /\ EnableWriting(c).registered
  BY <1>2, <1>3, <1>4 DEF EnableWriting
<1>7. /\ DisableWriting(c) \in ChannelType /\ InStep(DisableWriting(c))
      /\ DisableWriting(c).events = c.events \ {"out"}
      /\ "in" \in c.events => DisableWriting(c).registered
  <2>1. DisableWriting(c) = UpdateChannel([c EXCEPT !.events = c.events \ {"out"}])
    BY <1>4 DEF DisableWriting
  <2>2. "in" \in c.events => c.events \ {"out"} # {}
    OBVIOUS
  <2> QED BY <1>2, <1>3, <2>1, <2>2
<1>8. /\ DisableAll(c) \in ChannelType /\ InStep(DisableAll(c))
      /\ DisableAll(c).events = {}
  BY <1>2, <1>3 DEF DisableAll
<1> QED BY <1>5, <1>6, <1>7, <1>8

\* EPollPoller::removeChannel leaves the channel new and the fd unregistered.
LEMMA RemoveKeepsStep ==
  ASSUME NEW c \in ChannelType, InStep(c)
  PROVE  /\ RemoveChannel(c) \in ChannelType /\ InStep(RemoveChannel(c))
         /\ RemoveChannel(c).events = c.events
<1>1. CASE c.index = "kAdded"
  BY <1>1 DEF RemoveChannel, CtlDel, InStep, ChannelType, Index, Events
<1>2. CASE c.index # "kAdded"
  BY <1>2 DEF RemoveChannel, InStep, ChannelType, Index, Events
<1> QED BY <1>1, <1>2

-----------------------------------------------------------------------------
(* Type correctness, and the channel in step *)

\* What a member function queues behind the other functors is functors.
LEMMA QueueType ==
  ASSUME NEW q \in Seq(FunctorType), NEW a \in BOOLEAN, NEW b \in BOOLEAN
  PROVE  /\ q \o When(a, "writeComplete") \in Seq(FunctorType)
         /\ q \o (When(a, "writeComplete") \o When(b, "highWater")) \in Seq(FunctorType)
         /\ q \o <<>> \in Seq(FunctorType)
         /\ Append(q, Functor("destroyed")) \in Seq(FunctorType)
         /\ Append(q, Functor("shutdown")) \in Seq(FunctorType)
         /\ \A m \in Msg : Append(q, SendFunctor(m)) \in Seq(FunctorType)
<1>1. /\ Functor("writeComplete") \in FunctorType /\ Functor("highWater") \in FunctorType
      /\ Functor("destroyed") \in FunctorType /\ Functor("shutdown") \in FunctorType
      /\ \A m \in Msg : SendFunctor(m) \in FunctorType
  BY DEF Functor, SendFunctor, FunctorType
<1>2. When(a, "writeComplete") \in Seq(FunctorType) /\ When(b, "highWater") \in Seq(FunctorType)
  BY <1>1 DEF When
<1> HIDE DEF FunctorType, When
<1>3. When(a, "writeComplete") \o When(b, "highWater") \in Seq(FunctorType)
  BY <1>2, ConcatProperties
<1> QED BY <1>1, <1>2, <1>3, ConcatProperties

\* The bytes of a message, and any run of them.
LEMMA BytesType ==
  ASSUME NEW m \in Msg, NEW n \in 0..MsgLen
  PROVE  /\ SubSeq(Bytes(m), 1, n) \in Seq(Byte)
         /\ SubSeq(Bytes(m), n + 1, MsgLen) \in Seq(Byte)
         /\ Len(SubSeq(Bytes(m), n + 1, MsgLen)) = MsgLen - n
<1>1. MsgLen \in Nat \ {0}
  BY SizesAssumption DEF SizesAssumption
<1>2. \A k \in 1..MsgLen : Bytes(m)[k] \in Byte
  BY DEF Bytes, Byte
<1>3. SubSeq(Bytes(m), 1, n) \in Seq(Byte)
  BY <1>1, <1>2, SubSeqProperties
<1>4. /\ SubSeq(Bytes(m), n + 1, MsgLen) \in Seq(Byte)
      /\ Len(SubSeq(Bytes(m), n + 1, MsgLen))
           = IF n + 1 <= MsgLen THEN MsgLen - (n + 1) + 1 ELSE 0
  BY <1>1, <1>2, SubSeqProperties
<1> QED BY <1>1, <1>3, <1>4

\* What sendInLoop may do to the variables it writes.
LEMMA SendInLoopType ==
  ASSUME TypeOK, InStep(channel),
         NEW m \in Msg, NEW q \in Seq(FunctorType), SendInLoop(m, q)
  PROVE  /\ outBuf' \in Seq(Byte) /\ wire' \in Seq(Byte) /\ accepted' \in Seq(Msg)
         /\ ioq' \in Seq(FunctorType)
         /\ channel' \in ChannelType /\ InStep(channel')
<1>1. /\ outBuf \in Seq(Byte) /\ wire \in Seq(Byte) /\ accepted \in Seq(Msg)
      /\ channel \in ChannelType
  BY DEF TypeOK
<1>2. CASE ioq' = q \o <<>> /\ UNCHANGED <<output, channel>>
  BY <1>1, <1>2, QueueType DEF output
<1>3. ASSUME NEW n \in 0..MsgLen, NEW b \in BOOLEAN,
             wire' = wire \o SubSeq(Bytes(m), 1, n),
             outBuf' = outBuf \o SubSeq(Bytes(m), n + 1, MsgLen),
             accepted' = Append(accepted, m),
             channel' = (IF n < MsgLen /\ ~IsWriting(channel)
                         THEN EnableWriting(channel) ELSE channel),
             ioq' = q \o (When(n = MsgLen, "writeComplete") \o When(b, "highWater"))
      PROVE  /\ outBuf' \in Seq(Byte) /\ wire' \in Seq(Byte) /\ accepted' \in Seq(Msg)
             /\ ioq' \in Seq(FunctorType)
             /\ channel' \in ChannelType /\ InStep(channel')
  <2>1. outBuf' \in Seq(Byte) /\ wire' \in Seq(Byte)
    BY <1>1, <1>3, BytesType, ConcatProperties
  <2>2. accepted' \in Seq(Msg)
    BY <1>1, <1>3
  <2>3. ioq' \in Seq(FunctorType)
    BY <1>3, QueueType
  <2>4. channel' \in ChannelType /\ InStep(channel')
    BY <1>1, <1>3, SwitchesKeepStep
  <2> QED BY <2>1, <2>2, <2>3, <2>4
<1>4. \A n \in 0..MsgLen :
        (n < MsgLen /\ Len(outBuf) < HighWater
           /\ Len(outBuf \o SubSeq(Bytes(m), n + 1, MsgLen)) >= HighWater) \in BOOLEAN
  OBVIOUS
<1> QED BY <1>2, <1>3, <1>4 DEF SendInLoop, Queue

\* The constructor and newConnection leave every variable in its type.
LEMMA TypeInit == Init => TypeOK /\ InStep(channel)
<1> SUFFICES ASSUME Init PROVE TypeOK /\ InStep(channel)
  OBVIOUS
<1>1. channel \in ChannelType /\ InStep(channel)
  BY DEF Init, NewChannel, ChannelType, Index, Events, InStep
<1>2. ioq \in Seq(FunctorType)
  BY DEF Init, Functor, FunctorType
<1>3. call \in [Threads -> CallType]
  BY DEF Init, Idle, CallType
<1>4. /\ outBuf \in Seq(Byte) /\ wire \in Seq(Byte) /\ accepted \in Seq(Msg)
      /\ state \in States /\ todo \subseteq {"close", "read", "write"}
  BY DEF Init, States
<1> QED BY <1>1, <1>2, <1>3, <1>4 DEF Init, TypeOK

\* Every step keeps every variable in its type and the channel in step.
LEMMA TypeStep == TypeOK /\ InStep(channel) /\ [Next]_vars => (TypeOK /\ InStep(channel))'
<1> SUFFICES ASSUME TypeOK, InStep(channel), [Next]_vars
             PROVE  TypeOK' /\ InStep(channel')
  OBVIOUS
<1> USE DEF output, kernel, loopOnly, server, callers, history
<1>1. channel \in ChannelType /\ ioq \in Seq(FunctorType)
  BY DEF TypeOK
<1>2. CASE Poll \/ OnWriteNothing
  BY <1>2 DEF Poll, OnWriteNothing, Callbacks, TypeOK
<1>3. CASE OnClose
  BY <1>1, <1>3, SwitchesKeepStep DEF OnClose, HandleClose, TypeOK, States
<1>4. CASE OnRead
  <2>1. channel' \in ChannelType /\ InStep(channel')
    BY <1>1, <1>4, SwitchesKeepStep DEF OnRead, HandleClose
  <2>2. \/ UNCHANGED <<state, downs, baseq>>
        \/ state' = "kDisconnected" /\ downs' = downs + 1 /\ baseq' = baseq + 1
    BY <1>4 DEF OnRead, HandleClose
  <2>3. state' \in States /\ downs' \in Nat /\ baseq' \in Nat
    BY <2>2 DEF TypeOK, States
  <2>4. inUser' = TRUE \/ inUser' = inUser
    BY <1>4 DEF OnRead
  <2>5. todo' \subseteq {"close", "read", "write"} /\ input' \in BOOLEAN
    BY <1>4 DEF OnRead, TypeOK
  <2> QED BY <1>4, <2>1, <2>3, <2>4, <2>5 DEF OnRead, TypeOK
<1>5. ASSUME NEW n \in 1..Len(outBuf), OnWriteSome(n) PROVE TypeOK' /\ InStep(channel')
  <2>1. outBuf \in Seq(Byte) /\ wire \in Seq(Byte) /\ Len(outBuf) \in Nat
    BY DEF TypeOK
  <2>2. SubSeq(outBuf, 1, n) \in Seq(Byte) /\ SubSeq(outBuf, n + 1, Len(outBuf)) \in Seq(Byte)
    BY <2>1, SubSeqProperties
  <2>3. outBuf' \in Seq(Byte) /\ wire' \in Seq(Byte)
    BY <1>5, <2>1, <2>2, ConcatProperties DEF OnWriteSome
  <2>4. channel' \in ChannelType /\ InStep(channel')
    BY <1>1, <1>5, SwitchesKeepStep DEF OnWriteSome
  <2>5. ioq' \in Seq(FunctorType)
    BY <1>1, <1>5, QueueType DEF OnWriteSome, Queue
  <2>6. writeClosed' \in BOOLEAN /\ todo' \subseteq {"close", "read", "write"}
    BY <1>5 DEF OnWriteSome, ShutdownAfterOutput, ShutdownInLoop, TypeOK
  <2> QED BY <1>5, <2>3, <2>4, <2>5, <2>6 DEF OnWriteSome, TypeOK
<1>6. CASE ConnectEstablished
  BY <1>1, <1>6, SwitchesKeepStep DEF ConnectEstablished, Runs, TypeOK, States
<1>7. CASE ConnectDestroyed
  <2>1. channel' \in ChannelType /\ InStep(channel')
    BY <1>1, <1>7, SwitchesKeepStep, RemoveKeepsStep DEF ConnectDestroyed
  <2>2. [at |-> "post", msg |-> NoMsg] \in CallType
    BY DEF CallType
  <2>3. call' \in [Threads -> CallType]
    <3>1. CASE OverwrittenStores
      BY <2>2, <3>1 DEF OverwrittenStores, TypeOK
    <3>2. CASE call' = call
      BY <3>2 DEF TypeOK
    <3> QED BY <1>7, <3>1, <3>2 DEF ConnectDestroyed
  <2>4. state' \in States /\ downs' \in Nat /\ ioq' \in Seq(FunctorType)
    BY <1>1, <1>7 DEF ConnectDestroyed, Runs, TypeOK, States
  <2> QED BY <1>7, <2>1, <2>3, <2>4 DEF ConnectDestroyed, TypeOK
<1>8. CASE RunSend
  <2>1. Head(ioq) \in FunctorType /\ Tail(ioq) \in Seq(FunctorType)
    BY <1>1, <1>8 DEF RunSend, Runs
  <2>2. Head(ioq).msg \in Msg
    BY <1>8, <2>1 DEF RunSend, Runs, FunctorType
  <2> QED BY <1>8, <2>1, <2>2, SendInLoopType DEF RunSend, TypeOK
<1>9. CASE RunShutdown \/ RunUserFunctor
  <2>1. ioq' \in Seq(FunctorType)
    BY <1>1, <1>9 DEF RunShutdown, RunUserFunctor, Runs
  <2>2. writeClosed' \in BOOLEAN /\ inUser' \in BOOLEAN
    BY <1>9 DEF RunShutdown, RunUserFunctor, ShutdownInLoop, TypeOK
  <2> QED BY <1>9, <2>1, <2>2 DEF RunShutdown, RunUserFunctor, TypeOK
<1>10. ASSUME NEW m \in Msg, UserSend(m) PROVE TypeOK' /\ InStep(channel')
  BY <1>1, <1>10, SendInLoopType DEF UserSend, TypeOK
<1>11. CASE UserShutdown \/ UserReturns
  <2>1. CASE UserShutdown
    BY <2>1 DEF UserShutdown, ShutdownInLoop, TypeOK, States
  <2>2. CASE UserReturns
    BY <2>2 DEF UserReturns, TypeOK
  <2> QED BY <1>11, <2>1, <2>2
<1>12. ASSUME NEW w \in Threads, NEW m \in Msg, SendChecks(w, m)
       PROVE  TypeOK' /\ InStep(channel')
  <2>1. [at |-> "send", msg |-> m] \in CallType
    BY DEF CallType
  <2> QED BY <1>12, <2>1 DEF SendChecks, TypeOK
<1>13. ASSUME NEW w \in Threads, SendPosts(w) PROVE TypeOK' /\ InStep(channel')
  <2>1. call[w] \in CallType /\ call[w].msg \in Msg
    BY <1>13 DEF SendPosts, TypeOK, CallType
  <2>2. ioq' \in Seq(FunctorType)
    BY <1>1, <1>13, <2>1, QueueType DEF SendPosts
  <2>3. Idle \in CallType
    BY DEF Idle, CallType
  <2> QED BY <1>13, <2>2, <2>3 DEF SendPosts, TypeOK
<1>14. ASSUME NEW w \in Threads, ShutdownChecks(w) \/ ShutdownSets(w)
       PROVE  TypeOK' /\ InStep(channel')
  <2>1. /\ [at |-> "set", msg |-> NoMsg] \in CallType
        /\ [at |-> "post", msg |-> NoMsg] \in CallType
    BY DEF CallType
  <2>2. CASE ShutdownChecks(w)
    BY <2>1, <2>2 DEF ShutdownChecks, TypeOK
  <2>3. CASE ShutdownSets(w)
    BY <2>1, <2>3 DEF ShutdownSets, TypeOK, States
  <2> QED BY <1>14, <2>2, <2>3
<1>15. ASSUME NEW w \in Threads, ShutdownPosts(w) PROVE TypeOK' /\ InStep(channel')
  <2>1. ioq' \in Seq(FunctorType)
    BY <1>1, <1>15, QueueType DEF ShutdownPosts
  <2>2. Idle \in CallType
    BY DEF Idle, CallType
  <2> QED BY <1>15, <2>1, <2>2 DEF ShutdownPosts, TypeOK
<1>16. CASE DropConnection \/ \E m \in Msg : DropString(m)
  <2>1. CASE DropConnection
    BY <2>1 DEF DropConnection, TypeOK
  <2>2. ASSUME NEW m \in Msg, DropString(m) PROVE TypeOK' /\ InStep(channel')
    BY <2>2 DEF DropString, TypeOK
  <2> QED BY <1>16, <2>1, <2>2
<1>17. CASE RemoveConnectionInLoop
  <2>1. ioq' \in Seq(FunctorType)
    BY <1>1, <1>17, QueueType DEF RemoveConnectionInLoop
  <2>2. baseq' \in Nat
    BY <1>17 DEF RemoveConnectionInLoop, TypeOK
  <2> QED BY <1>17, <2>1, <2>2 DEF RemoveConnectionInLoop, TypeOK
<1>18. CASE DestroyServer
  BY <1>1, <1>18, QueueType DEF DestroyServer, TypeOK
<1>19. CASE PeerSends \/ \E how \in {"fin", "rst"} : PeerCloses(how)
  BY <1>19 DEF PeerSends, PeerCloses, TypeOK
<1>20. CASE LoopEnds
  <2>1. ioq' \in Seq(FunctorType)
    BY <1>20, EmptySeq DEF LoopEnds
  <2> QED BY <1>20, <2>1 DEF LoopEnds, TypeOK
<1>21. CASE UNCHANGED vars
  BY <1>21 DEF vars, TypeOK
<1> QED
  BY <1>2, <1>3, <1>4, <1>5, <1>6, <1>7, <1>8, <1>9, <1>10, <1>11, <1>12, <1>13, <1>14,
     <1>15, <1>16, <1>17, <1>18, <1>19, <1>20, <1>21
  DEF Next, LoopStep, OnWrite, RunFunctor, User, Callers, Finish

\* Every variable keeps its type: in particular each queued send carries a
\* message and every other functor none.
THEOREM TypeCorrect == Spec => []TypeOK
BY TypeInit, TypeStep, PTL DEF Spec

\* Whatever the order of events, user calls, races on state_ and removal: the
\* poller's book-keeping and epoll agree, and no epoll_ctl call ever fails.
THEOREM PollerNeverFails == Spec => []PollerInStep
<1>1. PollerInStep <=> InStep(channel)
  BY DEF PollerInStep
<1> QED BY <1>1, TypeInit, TypeStep, PTL DEF Spec

-----------------------------------------------------------------------------
(* Output: watched while it waits, and sent before FIN *)

\* sendInLoop while the connection has not been reported DOWN.
LEMMA SendInLoopOutput ==
  ASSUME Inv, NEW m \in Msg, NEW q \in Seq(FunctorType), SendInLoop(m, q),
         UNCHANGED <<downs, ups, destroyed, writeClosed>>
  PROVE  OutputInv'
<1>1. channel \in ChannelType /\ InStep(channel) /\ outBuf \in Seq(Byte)
  BY DEF Inv, TypeOK, PollerInStep
<1>2. CASE UNCHANGED <<output, channel>>
  BY <1>2 DEF output, Inv, OutputInv, FinAfterOutput
<1>3. ASSUME NEW n \in 0..MsgLen,
             MayWriteAtOnce => ~WriteFails,
             n > 0 => MayWriteAtOnce,
             outBuf' = outBuf \o SubSeq(Bytes(m), n + 1, MsgLen),
             channel' = (IF n < MsgLen /\ ~IsWriting(channel)
                         THEN EnableWriting(channel) ELSE channel)
      PROVE  OutputInv'
  <2> DEFINE rest == SubSeq(Bytes(m), n + 1, MsgLen)
  <2>1. MsgLen \in Nat \ {0}
    BY SizesAssumption DEF SizesAssumption
  <2>2. rest \in Seq(Byte) /\ Len(rest) = MsgLen - n
    BY BytesType
  <2> HIDE DEF rest
  <2>3. outBuf' \in Seq(Byte) /\ Len(outBuf') = Len(outBuf) + Len(rest)
    BY <1>1, <1>3, <2>2, ConcatProperties DEF rest
  <2>4. outBuf' # <<>> <=> (outBuf # <<>> \/ n < MsgLen)
    BY <1>1, <2>1, <2>2, <2>3
  <2>5. IsWriting(channel') <=> (IsWriting(channel) \/ n < MsgLen)
    BY <1>1, <1>3, SwitchesKeepStep DEF IsWriting
  <2>6. channel.registered /\ "in" \in channel.events
          => channel'.registered /\ "in" \in channel'.events
    BY <1>1, <1>3, SwitchesKeepStep
  <2>7. ASSUME writeClosed, downs = 0 PROVE outBuf' = <<>>
    <3>1. outBuf = <<>> /\ ~IsWriting(channel)
      BY <2>7 DEF Inv, OutputInv, FinAfterOutput
    <3> QED BY <1>3, <2>7, <3>1 DEF MayWriteAtOnce, WriteFails
  <2> QED BY <2>4, <2>5, <2>6, <2>7 DEF Inv, OutputInv, FinAfterOutput
<1> QED BY <1>2, <1>3 DEF SendInLoop

\* handleWrite sending n bytes: writing stays enabled exactly while bytes are
\* left, and a waiting shutdown is carried out only when none are.
LEMMA WriteSomeOutput ==
  ASSUME Inv, NEW n \in 1..Len(outBuf), OnWriteSome(n)
  PROVE  OutputInv'
<1>1. channel \in ChannelType /\ InStep(channel)
  BY DEF Inv, TypeOK, PollerInStep
<1>2. CASE outBuf' = <<>>
  <2>1. channel' = DisableWriting(channel)
    BY <1>2 DEF OnWriteSome
  <2>2. ~IsWriting(channel')
    BY <1>1, <2>1, SwitchesKeepStep DEF IsWriting
  <2>3. "in" \in channel.events => channel'.registered /\ "in" \in channel'.events
    BY <1>1, <2>1, SwitchesKeepStep
  <2> QED BY <1>2, <2>2, <2>3 DEF Inv, OutputInv, FinAfterOutput, OnWriteSome, history
<1>3. CASE outBuf' # <<>>
  <2>1. channel' = channel /\ writeClosed' = writeClosed /\ ~writeClosed
    BY <1>3 DEF OnWriteSome, WriteFails
  <2> QED BY <1>3, <2>1 DEF Inv, OutputInv, FinAfterOutput, OnWriteSome, history
<1> QED BY <1>2, <1>3

\* Every step keeps the invariant; after handleClose it asks for nothing more.
LEMMA InvStep == Inv /\ [Next]_vars => Inv'
<1> SUFFICES ASSUME Inv, [Next]_vars PROVE OutputInv'
  BY TypeStep DEF Inv, PollerInStep
<1> USE DEF output, kernel, loopOnly, server, callers, history
<1>1. channel \in ChannelType /\ InStep(channel) /\ downs \in Nat /\ ups \in Nat
  BY DEF Inv, TypeOK, PollerInStep
<1>2. CASE UNCHANGED <<channel, outBuf, writeClosed, ups, downs, destroyed>>
  BY <1>2 DEF Inv, OutputInv, FinAfterOutput
<1>3. CASE HandleClose
  BY <1>1, <1>3 DEF HandleClose, OutputInv, FinAfterOutput
<1>4. CASE \E n \in 1..Len(outBuf) : OnWriteSome(n)
  BY <1>4, WriteSomeOutput
<1>5. CASE ConnectEstablished
  <2>1. /\ channel'.registered /\ "in" \in channel'.events
        /\ IsWriting(channel') <=> IsWriting(channel)
    BY <1>1, <1>5, SwitchesKeepStep DEF ConnectEstablished, IsWriting
  <2> QED BY <1>5, <2>1 DEF ConnectEstablished, Inv, OutputInv, FinAfterOutput
<1>6. CASE ConnectDestroyed
  <2>1. CASE downs' = downs + 1
    BY <1>1, <1>6, <2>1 DEF ConnectDestroyed, OutputInv, FinAfterOutput
  <2>2. CASE channel' = RemoveChannel(channel) /\ downs' = downs
    <3>1. IsWriting(channel') <=> IsWriting(channel)
      BY <1>1, <2>2, RemoveKeepsStep DEF IsWriting
    <3> QED BY <1>6, <2>2, <3>1 DEF ConnectDestroyed, Inv, OutputInv, FinAfterOutput
  <2> QED BY <1>6, <2>1, <2>2 DEF ConnectDestroyed
<1>7. CASE RunSend
  <2>1. Head(ioq) \in FunctorType /\ Tail(ioq) \in Seq(FunctorType)
    BY <1>7 DEF RunSend, Runs, Inv, TypeOK
  <2>2. Head(ioq).msg \in Msg
    BY <1>7, <2>1 DEF RunSend, Runs, FunctorType
  <2> QED BY <1>7, <2>1, <2>2, SendInLoopOutput DEF RunSend
<1>8. ASSUME NEW m \in Msg, UserSend(m) PROVE OutputInv'
  BY <1>8, SendInLoopOutput DEF UserSend, Inv, TypeOK
<1>9. CASE RunShutdown \/ UserShutdown
  BY <1>9 DEF RunShutdown, UserShutdown, ShutdownInLoop, Inv, OutputInv, FinAfterOutput
<1>10. CASE Poll \/ OnWriteNothing \/ RunUserFunctor \/ UserReturns
  BY <1>2, <1>10 DEF Poll, OnWriteNothing, RunUserFunctor, UserReturns
<1>11. CASE Callers
  BY <1>2, <1>11 DEF Callers, DropConnection, DropString, Finish, SendPosts, ShutdownSets,
                     ShutdownPosts, ShutdownChecks, SendChecks
<1>12. CASE RemoveConnectionInLoop \/ DestroyServer \/ LoopEnds
  BY <1>2, <1>12 DEF RemoveConnectionInLoop, DestroyServer, LoopEnds
<1>13. CASE PeerSends \/ \E how \in {"fin", "rst"} : PeerCloses(how)
  BY <1>2, <1>13 DEF PeerSends, PeerCloses
<1>14. CASE OnClose \/ OnRead
  BY <1>2, <1>3, <1>14 DEF OnClose, OnRead
<1>15. CASE UNCHANGED vars
  BY <1>2, <1>15 DEF vars
<1> QED
  BY <1>4, <1>5, <1>6, <1>7, <1>8, <1>9, <1>10, <1>11, <1>12, <1>13, <1>14, <1>15
  DEF Next, LoopStep, OnWrite, RunFunctor, User

\* The invariant holds throughout every behaviour.
THEOREM InvHolds == Spec => []Inv
<1>1. Init => Inv
  <2>1. Init => OutputInv
    BY DEF Init, OutputInv, FinAfterOutput, IsWriting, NewChannel
  <2> QED BY <2>1, TypeInit DEF Inv, PollerInStep
<1> QED BY <1>1, InvStep, PTL DEF Spec

\* shutdown() from any thread, at any moment between partial writes, never
\* cuts off output that was accepted before it.
THEOREM FinFollowsOutput == Spec => []FinAfterOutput
<1>1. Inv => FinAfterOutput
  BY DEF Inv, OutputInv
<1> QED BY <1>1, InvHolds, PTL

\* While the connection is up epoll is asked for EPOLLOUT exactly when output
\* waits: output is never stranded, an idle connection never spins.
THEOREM OutputNeverStranded == Spec => []OutputIsWatched
<1>1. Inv => OutputIsWatched
  BY DEF Inv, OutputInv, OutputIsWatched, PollerInStep, InStep, IsWriting
<1> QED BY <1>1, InvHolds, PTL

-----------------------------------------------------------------------------
(* What waits in the queue *)

\* A functor that calls do is in the queue q; in the loop's queue.
Has(q, do) == \E i \in 1..Len(q) : q[i].do = do
Waits(do) == Has(ioq, do)

\* What a handler queues behind q for the user.
Batch(a, b) == When(a, "writeComplete") \o When(b, "highWater")

LEMMA HasProperties ==
  ASSUME NEW q \in Seq(FunctorType), NEW do
  PROVE  /\ ~Has(<<>>, do)
         /\ \A f \in FunctorType : Has(Append(q, f), do) <=> Has(q, do) \/ f.do = do
         /\ \A r \in Seq(FunctorType) : Has(q \o r, do) <=> Has(q, do) \/ Has(r, do)
         /\ q # <<>> => (Has(q, do) <=> Head(q).do = do \/ Has(Tail(q), do))
<1>1. ~Has(<<>>, do)
  BY DEF Has
<1>2. ASSUME NEW f \in FunctorType
      PROVE  Has(Append(q, f), do) <=> Has(q, do) \/ f.do = do
  <2>1. /\ Len(Append(q, f)) = Len(q) + 1 /\ Append(q, f)[Len(q) + 1] = f
        /\ \A i \in 1..Len(q) : Append(q, f)[i] = q[i]
    BY AppendProperties
  <2>2. Len(q) \in Nat
    OBVIOUS
  <2> QED BY <2>1, <2>2 DEF Has
<1>3. ASSUME NEW r \in Seq(FunctorType)
      PROVE  Has(q \o r, do) <=> Has(q, do) \/ Has(r, do)
  <2>1. /\ Len(q \o r) = Len(q) + Len(r)
        /\ \A i \in 1..(Len(q) + Len(r)) :
             (q \o r)[i] = IF i <= Len(q) THEN q[i] ELSE r[i - Len(q)]
    BY ConcatProperties
  <2>2. Len(q) \in Nat /\ Len(r) \in Nat
    OBVIOUS
  <2>3. \A i \in 1..Len(r) : Len(q) + i \in 1..(Len(q) + Len(r)) /\ (q \o r)[Len(q) + i] = r[i]
    BY <2>1, <2>2
  <2>4. ASSUME NEW i \in 1..Len(q \o r)
        PROVE  \/ i \in 1..Len(q) /\ (q \o r)[i] = q[i]
               \/ i - Len(q) \in 1..Len(r) /\ (q \o r)[i] = r[i - Len(q)]
    BY <2>1, <2>2
  <2>5. \A i \in 1..Len(q) : i \in 1..Len(q \o r) /\ (q \o r)[i] = q[i]
    BY <2>1, <2>2
  <2> QED BY <2>1, <2>3, <2>4, <2>5 DEF Has
<1>4. ASSUME q # <<>>
      PROVE  Has(q, do) <=> Head(q).do = do \/ Has(Tail(q), do)
  <2>1. /\ Len(q) \in Nat \ {0} /\ Len(Tail(q)) = Len(q) - 1 /\ Head(q) = q[1]
        /\ \A i \in 1..Len(Tail(q)) : Tail(q)[i] = q[i + 1]
    BY <1>4, HeadTailProperties, EmptySeq
  <2>2. \A i \in 1..Len(q) : i = 1 \/ (i - 1 \in 1..Len(Tail(q)) /\ Tail(q)[i - 1] = q[i])
    BY <2>1
  <2>3. \A i \in 1..Len(Tail(q)) : i + 1 \in 1..Len(q)
    BY <2>1
  <2> QED BY <2>1, <2>2, <2>3 DEF Has
<1> QED BY <1>1, <1>2, <1>3, <1>4

\* A batch holds callbacks of the user only.
LEMMA BatchType ==
  ASSUME NEW a \in BOOLEAN, NEW b \in BOOLEAN
  PROVE  /\ Batch(a, b) \in Seq(FunctorType)
         /\ \A do : Has(Batch(a, b), do) <=>
                      (a /\ do = "writeComplete") \/ (b /\ do = "highWater")
         /\ Batch(a, FALSE) = When(a, "writeComplete")
<1>1. Functor("writeComplete") \in FunctorType /\ Functor("highWater") \in FunctorType
  BY DEF Functor, FunctorType
<1>2. Functor("writeComplete").do = "writeComplete" /\ Functor("highWater").do = "highWater"
  BY DEF Functor
<1> HIDE DEF FunctorType, Functor
<1>3. \A c \in BOOLEAN : When(c, "writeComplete") \in Seq(FunctorType)
                       /\ When(c, "highWater") \in Seq(FunctorType)
  BY <1>1 DEF When
<1> DEFINE x == When(a, "writeComplete")
           y == When(b, "highWater")
<1>4. x \in Seq(FunctorType) /\ y \in Seq(FunctorType)
  BY <1>3
<1>5. Batch(a, b) = x \o y /\ Batch(a, FALSE) = x \o <<>>
  BY DEF Batch, When
<1>6. \A do : Has(x, do) <=> (a /\ do = "writeComplete")
  BY <1>2 DEF When, Has
<1>7. \A do : Has(y, do) <=> (b /\ do = "highWater")
  BY <1>2 DEF When, Has
<1>8. x \o <<>> = x
  BY <1>4, ConcatEmptySeq
<1> HIDE DEF x, y
<1>9. x \o y \in Seq(FunctorType)
  BY <1>4, ConcatProperties
<1>10. \A do : Has(x \o y, do) <=> Has(x, do) \/ Has(y, do)
  BY <1>4, HasProperties
<1> QED BY <1>8, <1>5, <1>6, <1>7, <1>9, <1>10 DEF x

\* What a step does to the queue.  Functors are taken from its head only, and
\* put behind its tail only, until the loop ends.
LEMMA QueueStep ==
  ASSUME TypeOK, [Next]_vars
  PROVE  \/ ioq' = ioq
         \/ RunFunctor /\ ioq # <<>> /\ ioq' = Tail(ioq)
         \/ \E a, b \in BOOLEAN : ioq' = ioq \o Batch(a, b)
         \/ RunFunctor /\ \E a, b \in BOOLEAN : ioq # <<>> /\ ioq' = Tail(ioq) \o Batch(a, b)
         \/ \E w \in Threads : ShutdownPosts(w) /\ ioq' = Append(ioq, Functor("shutdown"))
         \/ /\ RemoveConnectionInLoop \/ DestroyServer
            /\ ioq' = Append(ioq, Functor("destroyed"))
         \/ \E w \in Threads :
              SendPosts(w) /\ \E m \in Msg : ioq' = Append(ioq, SendFunctor(m))
         \/ LoopEnds /\ ioq' = <<>>
<1> USE DEF output, kernel, loopOnly, server, callers, history
<1>1. ioq \in Seq(FunctorType) /\ call \in [Threads -> CallType]
  BY DEF TypeOK
<1>2. ASSUME NEW m, NEW q \in Seq(FunctorType), SendInLoop(m, q)
      PROVE  ioq' = q \/ \E a, b \in BOOLEAN : ioq' = q \o Batch(a, b)
  <2>1. CASE Queue(q, <<>>)
    BY <2>1, ConcatEmptySeq DEF Queue
  <2>2. ASSUME NEW n \in 0..MsgLen,
               Queue(q, When(n = MsgLen, "writeComplete")
                          \o When(n < MsgLen /\ Crosses(Len(outBuf), Len(outBuf) + MsgLen - n),
                                  "highWater"))
        PROVE  \E a, b \in BOOLEAN : ioq' = q \o Batch(a, b)
    <3> DEFINE a == n = MsgLen
               b == n < MsgLen /\ Crosses(Len(outBuf), Len(outBuf) + MsgLen - n)
    <3>1. a \in BOOLEAN /\ b \in BOOLEAN
      OBVIOUS
    <3>2. ioq' = q \o Batch(a, b)
      BY <2>2 DEF Queue, Batch
    <3> HIDE DEF a, b
    <3> QED BY <3>1, <3>2
  <2> QED BY <1>2, <2>1, <2>2 DEF SendInLoop
<1>3. CASE OnWrite
  <2>1. PICK n \in 1..Len(outBuf) : OnWriteSome(n)
    BY <1>3 DEF OnWrite
  <2> DEFINE a == SubSeq(outBuf, n + 1, Len(outBuf)) = <<>>
  <2>2. a \in BOOLEAN /\ ioq' = ioq \o When(a, "writeComplete")
    BY <2>1 DEF OnWriteSome, Queue
  <2> HIDE DEF a
  <2>3. Batch(a, FALSE) = When(a, "writeComplete")
    BY <2>2, BatchType
  <2> QED BY <2>2, <2>3
<1>4. CASE RunSend
  <2>1. ioq # <<>> /\ Tail(ioq) \in Seq(FunctorType)
    BY <1>1, <1>4, HeadTailProperties DEF RunSend, Runs
  <2> QED BY <1>2, <1>4, <2>1 DEF RunSend, RunFunctor
<1>5. CASE \E m \in Msg : UserSend(m)
  BY <1>1, <1>2, <1>5 DEF UserSend
<1>6. CASE ConnectEstablished \/ ConnectDestroyed \/ RunShutdown \/ RunUserFunctor
  BY <1>6 DEF ConnectEstablished, ConnectDestroyed, RunShutdown, RunUserFunctor, Runs,
              RunFunctor
<1>7. ASSUME NEW w \in Threads, SendPosts(w)
      PROVE  \E m \in Msg : ioq' = Append(ioq, SendFunctor(m))
  BY <1>1, <1>7 DEF SendPosts, CallType
<1>8. ASSUME NEW w \in Threads, ShutdownPosts(w)
      PROVE  ioq' = Append(ioq, Functor("shutdown"))
  BY <1>8 DEF ShutdownPosts
<1>9. CASE RemoveConnectionInLoop \/ DestroyServer
  BY <1>9 DEF RemoveConnectionInLoop, DestroyServer
<1>10. CASE Poll \/ OnClose \/ OnRead \/ OnWriteNothing \/ UserShutdown \/ UserReturns
  BY <1>10 DEF Poll, OnClose, OnRead, OnWriteNothing, UserShutdown, UserReturns
<1>11. CASE \/ DropConnection \/ \E m \in Msg : DropString(m)
            \/ \E w \in Threads : \/ ShutdownSets(w) \/ ShutdownChecks(w)
                                  \/ \E m \in Msg : SendChecks(w, m)
  BY <1>11 DEF DropConnection, DropString, ShutdownSets, ShutdownChecks, SendChecks
<1>12. CASE PeerSends \/ (\E how \in {"fin", "rst"} : PeerCloses(how)) \/ UNCHANGED vars
  BY <1>12 DEF PeerSends, PeerCloses, vars
<1>13. CASE LoopEnds
  BY <1>13 DEF LoopEnds
<1> QED
  BY <1>3, <1>4, <1>5, <1>6, <1>7, <1>8, <1>9, <1>10, <1>11, <1>12, <1>13
  DEF Next, LoopStep, RunFunctor, User, Callers, Finish

\* Nobody queues connectEstablished again; connectDestroyed is queued by the
\* base loop, a send or a shutdown by its caller.
LEMMA WaitsStep ==
  ASSUME TypeOK, [Next]_vars
  PROVE  /\ Has(ioq', "established") => Has(ioq, "established")
         /\ Has(ioq', "destroyed") =>
              Has(ioq, "destroyed") \/ RemoveConnectionInLoop \/ DestroyServer
         /\ Has(ioq', "send") => Has(ioq, "send") \/ \E w \in Threads : SendPosts(w)
         /\ Has(ioq', "shutdown") => Has(ioq, "shutdown") \/ \E w \in Threads : ShutdownPosts(w)
<1> DEFINE Watched == {"established", "destroyed", "send", "shutdown"}
<1>1. ioq \in Seq(FunctorType)
  BY DEF TypeOK
<1>2. /\ Functor("shutdown") \in FunctorType /\ Functor("shutdown").do = "shutdown"
      /\ Functor("destroyed") \in FunctorType /\ Functor("destroyed").do = "destroyed"
      /\ \A m \in Msg : SendFunctor(m) \in FunctorType /\ SendFunctor(m).do = "send"
  BY DEF Functor, SendFunctor, FunctorType
<1>3. ASSUME NEW q \in Seq(FunctorType), NEW a \in BOOLEAN, NEW b \in BOOLEAN,
             NEW do \in Watched
      PROVE  Has(q \o Batch(a, b), do) <=> Has(q, do)
  BY BatchType, HasProperties
<1>4. ioq # <<>> =>
        Tail(ioq) \in Seq(FunctorType) /\ \A do : Has(Tail(ioq), do) => Has(ioq, do)
  BY <1>1, HasProperties, HeadTailProperties
<1>5. \A f \in FunctorType, do \in Watched :
        Has(Append(ioq, f), do) <=> Has(ioq, do) \/ f.do = do
  BY <1>1, HasProperties
<1> SUFFICES ASSUME NEW do \in Watched, Has(ioq', do), ~Has(ioq, do)
             PROVE  \/ do = "destroyed" /\ (RemoveConnectionInLoop \/ DestroyServer)
                    \/ do = "send" /\ \E w \in Threads : SendPosts(w)
                    \/ do = "shutdown" /\ \E w \in Threads : ShutdownPosts(w)
  OBVIOUS
<1>6. ASSUME NEW w \in Threads, ShutdownPosts(w), ioq' = Append(ioq, Functor("shutdown"))
      PROVE  do = "shutdown" /\ \E v \in Threads : ShutdownPosts(v)
  BY <1>2, <1>5, <1>6
<1>7. CASE /\ RemoveConnectionInLoop \/ DestroyServer
           /\ ioq' = Append(ioq, Functor("destroyed"))
  BY <1>2, <1>5, <1>7
<1>8. ASSUME NEW w \in Threads, SendPosts(w),
             NEW m \in Msg, ioq' = Append(ioq, SendFunctor(m))
      PROVE  do = "send" /\ \E v \in Threads : SendPosts(v)
  BY <1>2, <1>5, <1>8
<1>9. CASE ioq' = ioq \/ (ioq # <<>> /\ ioq' = Tail(ioq)) \/ ioq' = <<>>
  BY <1>1, <1>4, <1>9, HasProperties
<1>10. ASSUME NEW a \in BOOLEAN, NEW b \in BOOLEAN, ioq' = ioq \o Batch(a, b)
      PROVE  FALSE
  BY <1>1, <1>3, <1>10
<1>11. ASSUME NEW a \in BOOLEAN, NEW b \in BOOLEAN,
              ioq # <<>>, ioq' = Tail(ioq) \o Batch(a, b)
       PROVE  FALSE
  <2> DEFINE t == Tail(ioq)
  <2>1. t \in Seq(FunctorType) /\ ~Has(t, do) /\ ioq' = t \o Batch(a, b)
    BY <1>4, <1>11
  <2> HIDE DEF t
  <2>2. Has(t \o Batch(a, b), do) <=> Has(t, do)
    BY <1>3, <2>1
  <2> QED BY <2>1, <2>2
<1> QED BY <1>6, <1>7, <1>8, <1>9, <1>10, <1>11, QueueStep

=============================================================================
