-------------------------- MODULE TcpServer_proofs --------------------------
(***************************************************************************)
(* What module TcpServer promises for any number of IO threads, clients    *)
(* and descriptors.                                                        *)
(***************************************************************************)
EXTENDS TcpServer, TLAPS

USE NAssumption, NamesAssumption
USE DEF Report, ShutdownInCallback, ShutdownChecks, ShutdownSets

-----------------------------------------------------------------------------
(* Channels *)

\* An update leaves a channel in the poller's book (kAdded or kDeleted).
LEMMA UpdateKeeps ==
  ASSUME NEW c \in ChannelType
  PROVE  /\ UpdateChannel(c) \in ChannelType
         /\ UpdateChannel(c).index # "kNew"
         /\ (c.registered => c.index = "kAdded")
            => (UpdateChannel(c).registered => UpdateChannel(c).index = "kAdded")
<1> DEFINE add == [c EXCEPT !.index = "kAdded"]
           del == [c EXCEPT !.index = "kDeleted"]
<1>1. /\ add \in ChannelType /\ add.index = "kAdded"
      /\ del \in ChannelType /\ del.index = "kDeleted"
  BY DEF ChannelType, Index
<1>2. /\ CtlAdd(add) \in ChannelType /\ CtlAdd(add).index = "kAdded"
  BY <1>1 DEF CtlAdd, ChannelType
<1>3. /\ CtlDel(del) \in ChannelType /\ CtlDel(del).index = "kDeleted"
      /\ ~CtlDel(del).registered
  BY <1>1 DEF CtlDel, ChannelType
<1>4. CASE c.index \in {"kNew", "kDeleted"}
  BY <1>2, <1>4 DEF UpdateChannel
<1>5. CASE c.index = "kAdded" /\ c.events = {}
  BY <1>3, <1>5 DEF UpdateChannel
<1>6. CASE c.index = "kAdded" /\ c.events # {}
  <2>1. CtlMod(c) \in ChannelType /\ CtlMod(c).index = "kAdded"
    BY <1>6 DEF CtlMod, ChannelType
  <2> QED BY <1>6, <2>1 DEF UpdateChannel
<1> QED BY <1>4, <1>5, <1>6 DEF ChannelType, Index

\* The three operations the server's paths use.
LEMMA SwitchKeeps ==
  ASSUME NEW c \in ChannelType
  PROVE  /\ EnableReading(c) \in ChannelType /\ EnableReading(c).index # "kNew"
         /\ DisableAll(c) \in ChannelType /\ DisableAll(c).index # "kNew"
         /\ (c.registered => c.index = "kAdded")
            => /\ EnableReading(c).registered => EnableReading(c).index = "kAdded"
               /\ DisableAll(c).registered => DisableAll(c).index = "kAdded"
<1>1. ASSUME NEW e \in SUBSET Events
      PROVE  /\ [c EXCEPT !.events = e] \in ChannelType
             /\ [c EXCEPT !.events = e].registered = c.registered
             /\ [c EXCEPT !.events = e].index = c.index
  BY DEF ChannelType
<1>2. c.events \cup {"in"} \in SUBSET Events /\ {} \in SUBSET Events
  BY DEF ChannelType, Events
<1>3. [c EXCEPT !.events = @ \cup {"in"}] = [c EXCEPT !.events = c.events \cup {"in"}]
  OBVIOUS
<1> QED BY <1>1, <1>2, <1>3, UpdateKeeps DEF EnableReading, DisableAll

\* disableAll takes a channel in epoll out of it.
LEMMA DisableAllClears ==
  ASSUME NEW c \in ChannelType, c.index = "kAdded"
  PROVE  ~DisableAll(c).registered
<1> DEFINE d == [c EXCEPT !.events = {}]
<1>1. d.index = "kAdded" /\ d.events = {}
  BY DEF ChannelType
<1>2. UpdateChannel(d) = CtlDel([d EXCEPT !.index = "kDeleted"])
  BY <1>1 DEF UpdateChannel
<1>3. ~CtlDel([d EXCEPT !.index = "kDeleted"]).registered
  BY DEF CtlDel, ChannelType
<1> QED BY <1>2, <1>3 DEF DisableAll

\* removeChannel takes the channel out of the book and out of epoll.
LEMMA RemoveKeeps ==
  ASSUME NEW c \in ChannelType
  PROVE  /\ RemoveChannel(c) \in ChannelType
         /\ RemoveChannel(c).index = "kNew"
         /\ (c.registered => c.index = "kAdded") => ~RemoveChannel(c).registered
<1>1. CASE c.index = "kAdded"
  BY <1>1 DEF RemoveChannel, CtlDel, ChannelType, Index
<1>2. CASE c.index # "kAdded"
  BY <1>2 DEF RemoveChannel, ChannelType, Index
<1> QED BY <1>1, <1>2

-----------------------------------------------------------------------------
(* Types *)

LEMMA LoopFacts == /\ 0 \in Loops /\ 1..N \subseteq Loops
                   /\ \A l \in Loops : l # 0 => l \in 1..N
                   /\ \A l \in 1..N : l # 0
BY DEF Loops

\* The functors of the server.
LEMMA FunctorTypes ==
  /\ \A c \in Conn, do \in {"established", "remove", "destroyed"} :
       Functor(do, c) \in FunctorType
  /\ Functor("listen", NoConn) \in FunctorType
BY DEF Functor, FunctorType

\* queueInLoop keeps the queues' type.
LEMMA QueueType ==
  ASSUME TypeOK, NEW l \in Loops, NEW x \in FunctorType, Queue(l, x)
  PROVE  pending' \in [Loops -> Seq(FunctorType)]
<1>1. Append(pending[l], x) \in Seq(FunctorType)
  BY DEF TypeOK
<1> QED BY <1>1 DEF Queue, TypeOK

\* A call of connectionCallback_ keeps the counts' type.
LEMMA ReportType ==
  ASSUME TypeOK, NEW c \in Conn, NEW what, Report(c, what)
  PROVE  reports' \in [Conn -> Nat]
<1>1. reports \in [Conn -> Nat] /\ reports' = [reports EXCEPT ![c] = @ + 1]
  BY DEF TypeOK
<1> QED BY <1>1

LEMMA EstablishedType ==
  ASSUME TypeOK, NEW c \in Conn, NEW l, NEW f, ConnectEstablished(c, l, f)
  PROVE  /\ state' \in [Conn -> {"kConnecting", "kConnected", "kDisconnecting", "kDisconnected"}]
         /\ channel' \in [Conn -> ChannelType]
         /\ told' \in [Conn -> {"nothing", "up", "down"}] /\ reports' \in [Conn -> Nat]
         /\ closing' \subseteq Conn
         /\ held' \subseteq Conn
         /\ channels' \in [Loops -> [Fd -> Conn \cup {NoConn}]]
<1>1. EnableReading(channel[c]) \in ChannelType
  BY SwitchKeeps DEF TypeOK
<1>2. channel' \in [Conn -> ChannelType]
  BY <1>1 DEF TypeOK, ConnectEstablished
<1>3. channels' \in [Loops -> [Fd -> Conn \cup {NoConn}]]
  BY DEF TypeOK, ConnectEstablished
<1> QED BY <1>2, <1>3 DEF TypeOK, ConnectEstablished

LEMMA DestroyedType ==
  ASSUME TypeOK, NEW c \in Conn, ConnectDestroyed(c)
  PROVE  /\ state' \in [Conn -> {"kConnecting", "kConnected", "kDisconnecting", "kDisconnected"}]
         /\ channel' \in [Conn -> ChannelType]
         /\ told' \in [Conn -> {"nothing", "up", "down"}] /\ reports' \in [Conn -> Nat]
         /\ closing' \subseteq Conn
         /\ held' \subseteq Conn
         /\ channels' \in [Loops -> [Fd -> Conn \cup {NoConn}]]
<1>1. /\ RemoveChannel(channel[c]) \in ChannelType
      /\ RemoveChannel(DisableAll(channel[c])) \in ChannelType
  BY SwitchKeeps, RemoveKeeps DEF TypeOK
<1>2. channel' \in [Conn -> ChannelType]
  <2>1. ASSUME NEW ch \in ChannelType, channel' = [channel EXCEPT ![c] = ch]
        PROVE  channel' \in [Conn -> ChannelType]
    BY <2>1, Zenon DEF TypeOK
  <2> QED BY <1>1, <2>1 DEF ConnectDestroyed
<1>3. channels' \in [Loops -> [Fd -> Conn \cup {NoConn}]]
  BY DEF TypeOK, ConnectDestroyed
<1>4. /\ state' \in [Conn -> {"kConnecting", "kConnected", "kDisconnecting", "kDisconnected"}]
      /\ told' \in [Conn -> {"nothing", "up", "down"}] /\ reports' \in [Conn -> Nat]
      /\ closing' \subseteq Conn /\ held' \subseteq Conn
  <2>1. CASE state[c] = "kConnected"
    <3>1. reports' \in [Conn -> Nat]
      BY <2>1, ReportType DEF ConnectDestroyed
    <3> QED BY <2>1, <3>1 DEF TypeOK, ConnectDestroyed
  <2>2. CASE state[c] # "kConnected"
    BY <2>2 DEF TypeOK, ConnectDestroyed
  <2> QED BY <2>1, <2>2
<1> QED BY <1>2, <1>3, <1>4

\* The functor a loop runs is one that was queued.
LEMMA CurrentType ==
  ASSUME TypeOK, NEW l \in Loops, NEW do, Runs(l, do)
  PROVE  /\ Current(l) \in FunctorType /\ Current(l).do = do
         /\ do # "listen" => Current(l).conn \in Conn
         /\ Current(l) \in Range(functors[l])
         /\ done' \in [Loops -> Nat]
         /\ \A k \in Loops : done'[k] <= Len(functors'[k])
         /\ done[l] + 1 \in DOMAIN functors[l]
<1>1. /\ functors[l] \in Seq(FunctorType) /\ done[l] \in Nat
      /\ done[l] < Len(functors[l])
  BY DEF TypeOK, Runs
<1>2. done[l] + 1 \in DOMAIN functors[l]
  BY <1>1
<1>3. Current(l) \in FunctorType /\ Current(l) \in Range(functors[l])
  BY <1>1, <1>2 DEF Current, Range
<1>4. done' \in [Loops -> Nat] /\ \A k \in Loops : done'[k] <= Len(functors'[k])
  BY <1>1 DEF Runs, TypeOK
<1> QED BY <1>2, <1>3, <1>4 DEF Runs, FunctorType

LEMMA TypeInit == Init => TypeOK
BY DEF Init, TypeOK, Loops, NewChannel, ChannelType, Index, Events

LEMMA TypeStep == TypeOK /\ [Next]_vars => TypeOK'
<1> SUFFICES ASSUME TypeOK, [Next]_vars PROVE TypeOK'
  OBVIOUS
<1> USE LoopFacts, FunctorTypes
<1>1. CASE UNCHANGED vars
  BY <1>1 DEF vars, serverVars, clientVars, connVars, threadVars, TypeOK
<1>2. CASE EnterLoop \/ QuitBase \/ Destroy \/ \E l \in Loops : QuitLoop(l)
  BY <1>2 DEF EnterLoop, QuitBase, Destroy, QuitLoop, Goto, TypeOK, vars, serverVars,
       clientVars, connVars, threadVars
<1>3. ASSUME NEW c \in Conn, Connect(c) \/ HangUp(c) \/ Shutdown(c) \/ UserDrops(c)
      PROVE  TypeOK'
  <2>1. CASE Connect(c) \/ HangUp(c) \/ UserDrops(c)
    BY <2>1 DEF Connect, HangUp, UserDrops, TypeOK, serverVars, connVars, threadVars, clientVars
  <2>2. CASE Shutdown(c)
    BY <2>2 DEF Shutdown, TypeOK, serverVars, threadVars, clientVars
  <2> QED BY <1>3, <2>1, <2>2
<1>4. CASE Start
  <2>1. accept' \in ChannelType
    BY <1>4, SwitchKeeps DEF Start, TypeOK
  <2>2. pending' \in [Loops -> Seq(FunctorType)]
    BY <1>4, QueueType DEF Start, TypeOK
  <2>3. pc' \in [Loops -> {"before", "top", "handle", "run", "exited"}]
    BY <1>4 DEF Start, TypeOK
  <2> QED BY <1>4, <2>1, <2>2, <2>3 DEF Start, TypeOK, clientVars, connVars
<1>5. CASE DestroyAcceptor
  <2>1. accept' \in ChannelType
    BY <1>5, SwitchKeeps, RemoveKeeps DEF DestroyAcceptor, TypeOK
  <2> QED BY <1>5, <2>1 DEF DestroyAcceptor, TypeOK, clientVars, connVars, threadVars
<1>6. ASSUME NEW c \in Conn, DestroyConnection(c) PROVE TypeOK'
  <2>1. CASE ioLoop[c] = 0
    BY <1>6, <2>1, DestroyedType
    DEF DestroyConnection, TypeOK, serverVars, clientVars, threadVars
  <2>2. CASE ioLoop[c] # 0
    <3>1. pending' \in [Loops -> Seq(FunctorType)]
      BY <1>6, <2>2, QueueType DEF DestroyConnection, TypeOK
    <3> QED BY <1>6, <2>2, <3>1
            DEF DestroyConnection, TypeOK, serverVars, clientVars, connVars, threadVars
  <2> QED BY <2>1, <2>2
<1>7. ASSUME NEW l \in Loops, ExitLoop(l) \/ Poll(l) \/ TakeFunctors(l) \/ FinishFunctors(l)
      PROVE  TypeOK'
  <2>1. CASE ExitLoop(l)
    BY <1>7, <2>1 DEF ExitLoop, Goto, TypeOK, serverVars, clientVars, connVars
  <2>2. CASE Poll(l)
    <3>1. Ready(l) \subseteq Conn \cup {Acceptor}
      BY DEF Ready
    <3> QED BY <2>2, <3>1 DEF Poll, Goto, TypeOK, serverVars, clientVars, connVars
  <2>3. CASE TakeFunctors(l)
    BY <2>3 DEF TakeFunctors, Goto, TypeOK, serverVars, clientVars, connVars
  <2>4. CASE FinishFunctors(l)
    BY <2>4 DEF FinishFunctors, Goto, TypeOK, serverVars, clientVars, connVars
  <2> QED BY <1>7, <2>1, <2>2, <2>3, <2>4
<1>8. CASE AcceptFails \/ \E l \in Loops, c \in Conn : HandleRead(l, c)
  <2>1. PICK l \in Loops, ch \in Conn \cup {Acceptor} : Handled(l, ch)
    BY <1>8 DEF AcceptFails, HandleRead
  <2>2. /\ UNCHANGED <<serverVars, connections, clientVars, connVars, pending>>
        /\ UNCHANGED <<pc, quit, functors, done>>
    BY <1>8 DEF AcceptFails, HandleRead, Handled
  <2>3. active' \in [Loops -> SUBSET (Conn \cup {Acceptor})]
    BY <2>1 DEF Handled, TypeOK
  <2> QED BY <2>2, <2>3 DEF TypeOK, serverVars, clientVars, connVars
<1>9. ASSUME NEW c \in Conn, NEW f \in Fd, NewConnection(c, f) PROVE TypeOK'
  <2>1. NextLoop \in Loops /\ NextAfter(NextLoop) \in Nat
        /\ (N > 0 => NextAfter(NextLoop) < N)
    BY DEF NextLoop, NextAfter, TypeOK, Loops
  <2>2. /\ fd' \in [Conn -> Fd \cup {NoFd}] /\ ioLoop' \in [Conn -> Loops]
        /\ connections' \subseteq Conn /\ backlog' \subseteq Conn
        /\ active' \in [Loops -> SUBSET (Conn \cup {Acceptor})]
    BY <1>9, <2>1 DEF NewConnection, Handled, TypeOK
  <2>3. CASE NextLoop = 0
    BY <1>9, <2>1, <2>2, <2>3, EstablishedType DEF NewConnection, Handled, TypeOK
  <2>4. CASE NextLoop # 0
    <3>1. pending' \in [Loops -> Seq(FunctorType)]
      BY <1>9, <2>1, <2>4, QueueType DEF NewConnection
    <3> QED BY <1>9, <2>1, <2>2, <2>4, <3>1 DEF NewConnection, Handled, TypeOK, connVars
  <2> QED BY <2>3, <2>4
<1>10. ASSUME NEW l \in Loops, NEW c \in Conn, HandleClose(l, c) PROVE TypeOK'
  <2>1. channel' \in [Conn -> ChannelType]
    BY <1>10, SwitchKeeps DEF HandleClose, TypeOK
  <2>2. pending' \in [Loops -> Seq(FunctorType)] /\ connections' \subseteq Conn
    <3>1. ioLoop[c] \in Loops
      BY DEF TypeOK
    <3> QED BY <1>10, <3>1, QueueType DEF HandleClose, RemoveConnectionInLoop, TypeOK
  <2>3. reports' \in [Conn -> Nat]
    BY <1>10, ReportType DEF HandleClose
  <2> QED BY <1>10, <2>1, <2>2, <2>3 DEF HandleClose, Handled, TypeOK, serverVars, clientVars
<1>11. ASSUME NEW l \in Loops, RunListen(l) PROVE TypeOK'
  <2>1. accept' \in ChannelType
    BY <1>11, SwitchKeeps DEF RunListen, TypeOK
  <2> QED BY <1>11, <2>1, CurrentType DEF RunListen, Runs, TypeOK, clientVars, connVars
<1>12. ASSUME NEW l \in Loops, RunEstablished(l) PROVE TypeOK'
  <2>1. Current(l).conn \in Conn
    BY <1>12, CurrentType DEF RunEstablished
  <2>2. done' \in [Loops -> Nat] /\ \A k \in Loops : done'[k] <= Len(functors'[k])
    BY <1>12, CurrentType DEF RunEstablished
  <2> QED BY <1>12, <2>1, <2>2, EstablishedType
          DEF RunEstablished, Runs, TypeOK, serverVars, clientVars
<1>13. ASSUME NEW l \in Loops, RunRemove(l) PROVE TypeOK'
  <2>1. Current(l).conn \in Conn
    BY <1>13, CurrentType DEF RunRemove
  <2>2. done' \in [Loops -> Nat] /\ \A k \in Loops : done'[k] <= Len(functors'[k])
    BY <1>13, CurrentType DEF RunRemove
  <2>3. ioLoop[Current(l).conn] \in Loops
    BY <2>1 DEF TypeOK
  <2>4. pending' \in [Loops -> Seq(FunctorType)]
    BY <1>13, <2>1, <2>3, QueueType DEF RunRemove, RemoveConnectionInLoop
  <2> QED BY <1>13, <2>2, <2>4
          DEF RunRemove, RemoveConnectionInLoop, Runs, TypeOK, serverVars, clientVars, connVars
<1>14. ASSUME NEW l \in Loops, RunDestroyed(l) PROVE TypeOK'
  <2>1. Current(l).conn \in Conn
    BY <1>14, CurrentType DEF RunDestroyed
  <2>2. done' \in [Loops -> Nat] /\ \A k \in Loops : done'[k] <= Len(functors'[k])
    BY <1>14, CurrentType DEF RunDestroyed
  <2> QED BY <1>14, <2>1, <2>2, DestroyedType
          DEF RunDestroyed, Runs, TypeOK, serverVars, clientVars
<1> QED
  BY <1>1, <1>2, <1>3, <1>4, <1>5, <1>6, <1>7, <1>8, <1>9, <1>10, <1>11, <1>12, <1>13, <1>14
  DEF Next, Environment, ThreadStep, LoopStep, Accepting, Destructor

\* Every variable keeps its type; next_ stays within the pool's loops.
THEOREM TypeCorrect == Spec => []TypeOK
BY TypeInit, TypeStep, PTL DEF Spec

-----------------------------------------------------------------------------
(* The inductive invariant, part by part *)

LEMMA InitInv == Init => Inv
<1> SUFFICES ASSUME Init PROVE Inv
  OBVIOUS
<1>1. \A l \in Loops : Range(pending[l]) \cup Range(functors[l]) = {} /\ NotRun(l) = {}
  BY DEF Init, Range, NotRun
<1>2. LoopInv /\ FreshInv /\ DeadLoopsGetNoWork
  BY LoopFacts DEF Init, LoopInv, FreshInv, DeadLoopsGetNoWork, NewChannel
<1>3. PlaceInv
  BY <1>1 DEF Init, PlaceInv
<1>4. OrderInv
  BY <1>1 DEF Init, OrderInv, InOrder
<1>5. HolderInv
  BY <1>1, LoopFacts DEF Init, HolderInv, NewChannel
<1>6. EntryInv
  BY DEF Init, EntryInv
<1>7. ToldInv
  BY <1>1 DEF Init, ToldInv, NewChannel
<1>8. \A c \in Conn : ~Owned(c)
  BY <1>1 DEF Init, Owned, Bound
<1>9. OwnerInv
  BY <1>8 DEF Init, OwnerInv
<1> QED BY <1>2, <1>3, <1>4, <1>5, <1>6, <1>7, <1>9, TypeInit DEF Inv

\* The destructor's order.
LEMMA LoopInvStep == Inv /\ [Next]_vars => LoopInv'
<1> SUFFICES ASSUME Inv, [Next]_vars PROVE LoopInv'
  OBVIOUS
<1>0. TypeOK /\ LoopInv
  BY DEF Inv
<1> USE LoopFacts
<1>1. CASE UNCHANGED vars
  BY <1>0, <1>1 DEF vars, serverVars, threadVars, LoopInv
<1>2. CASE EnterLoop
  BY <1>0, <1>2 DEF EnterLoop, At, Goto, TypeOK, LoopInv, serverVars
<1>3. CASE QuitBase \/ Destroy
  <2>1. CASE QuitBase
    BY <1>0, <2>1 DEF QuitBase, At, TypeOK, LoopInv, serverVars, threadVars
  <2>2. CASE Destroy
    BY <1>0, <2>2 DEF Destroy, At, TypeOK, LoopInv, serverVars, threadVars
  <2> QED BY <1>3, <2>1, <2>2
<1>4. ASSUME NEW k \in Loops, QuitLoop(k) PROVE LoopInv'
  BY <1>0, <1>4 DEF QuitLoop, TypeOK, LoopInv, serverVars
<1>5. CASE \E c \in Conn : Connect(c) \/ HangUp(c) \/ Shutdown(c) \/ UserDrops(c)
  BY <1>0, <1>5 DEF Connect, HangUp, Shutdown, UserDrops, LoopInv, serverVars, threadVars
<1>6. CASE Start
  BY <1>0, <1>6 DEF Start, TypeOK, LoopInv
<1>7. CASE DestroyAcceptor
  BY <1>0, <1>7 DEF DestroyAcceptor, At, TypeOK, LoopInv, threadVars
<1>8. ASSUME NEW c \in Conn, DestroyConnection(c) PROVE LoopInv'
  BY <1>0, <1>8 DEF DestroyConnection, LoopInv, serverVars, threadVars
<1>9. ASSUME NEW k \in Loops, ExitLoop(k) \/ Poll(k) \/ TakeFunctors(k) \/ FinishFunctors(k)
      PROVE  LoopInv'
  <2>1. CASE ExitLoop(k)
    BY <1>0, <2>1 DEF ExitLoop, At, Goto, TypeOK, LoopInv, serverVars
  <2>2. CASE Poll(k)
    BY <1>0, <2>2 DEF Poll, At, Goto, TypeOK, LoopInv, serverVars
  <2>3. CASE TakeFunctors(k)
    BY <1>0, <2>3 DEF TakeFunctors, At, Goto, TypeOK, LoopInv, serverVars
  <2>4. CASE FinishFunctors(k)
    BY <1>0, <2>4 DEF FinishFunctors, At, Goto, TypeOK, LoopInv, serverVars
  <2> QED BY <1>9, <2>1, <2>2, <2>3, <2>4
<1>10. CASE AcceptFails \/ \E l \in Loops, c \in Conn : HandleRead(l, c)
  <2>1. PICK l \in Loops, ch \in Conn \cup {Acceptor} : Handled(l, ch)
    BY <1>10 DEF AcceptFails, HandleRead
  <2>2. UNCHANGED <<server, connections>>
    BY <1>10 DEF AcceptFails, HandleRead, serverVars
  <2> QED BY <1>0, <2>1, <2>2 DEF Handled, At, TypeOK, LoopInv
<1>11. ASSUME NEW c \in Conn, NEW f \in Fd, NewConnection(c, f) PROVE LoopInv'
  BY <1>0, <1>11 DEF NewConnection, Handled, At, TypeOK, LoopInv
<1>12. ASSUME NEW k \in Loops, NEW c \in Conn, HandleClose(k, c) PROVE LoopInv'
  <2>1. connections' \subseteq connections
    BY <1>12 DEF HandleClose, RemoveConnectionInLoop
  <2> QED BY <1>0, <1>12, <2>1 DEF HandleClose, Handled, At, TypeOK, LoopInv, serverVars
<1>13. ASSUME NEW k \in Loops,
              RunListen(k) \/ RunEstablished(k) \/ RunRemove(k) \/ RunDestroyed(k)
       PROVE  LoopInv'
  <2>1. connections' \subseteq connections /\ server' = server
    BY <1>13 DEF RunListen, RunEstablished, RunRemove, RunDestroyed, RemoveConnectionInLoop,
         serverVars
  <2>2. UNCHANGED <<pc, quit, active, functors>>
    BY <1>13 DEF RunListen, RunEstablished, RunRemove, RunDestroyed, Runs
  <2> QED BY <1>0, <2>1, <2>2 DEF LoopInv
<1> QED
  BY <1>1, <1>2, <1>3, <1>4, <1>5, <1>6, <1>7, <1>8, <1>9, <1>10, <1>11, <1>12, <1>13
  DEF Next, Environment, ThreadStep, LoopStep, Accepting, Destructor

\* What queueInLoop adds to a queue.
LEMMA QueueRange ==
  ASSUME TypeOK, NEW l \in Loops, NEW x \in FunctorType, Queue(l, x)
  PROVE  /\ Range(pending'[l]) = Range(pending[l]) \cup {x}
         /\ \A k \in Loops : k # l => pending'[k] = pending[k]
<1>1. pending[l] \in Seq(FunctorType)
  BY DEF TypeOK
<1>2. pending'[l] = Append(pending[l], x)
  BY DEF Queue, TypeOK
<1>3. Range(Append(pending[l], x)) = Range(pending[l]) \cup {x}
  <2>1. DOMAIN Append(pending[l], x) = 1..(Len(pending[l]) + 1)
        /\ Len(pending[l]) \in Nat /\ DOMAIN pending[l] = 1..Len(pending[l])
    BY <1>1
  <2>2. \A i \in 1..Len(pending[l]) : Append(pending[l], x)[i] = pending[l][i]
    BY <1>1
  <2>3. Append(pending[l], x)[Len(pending[l]) + 1] = x
    BY <1>1
  <2>4. \A i \in 1..(Len(pending[l]) + 1) : i \in 1..Len(pending[l]) \/ i = Len(pending[l]) + 1
    BY <2>1
  <2>5. Range(Append(pending[l], x)) \subseteq Range(pending[l]) \cup {x}
    BY <2>1, <2>2, <2>3, <2>4 DEF Range
  <2>6. Range(pending[l]) \cup {x} \subseteq Range(Append(pending[l], x))
    BY <2>1, <2>2, <2>3 DEF Range
  <2> QED BY <2>5, <2>6
<1>4. \A k \in Loops : k # l => pending'[k] = pending[k]
  BY DEF Queue, TypeOK
<1> QED BY <1>2, <1>3, <1>4

\* An IO loop that has gone gets no functor: only the base thread queues in IO
\* loops, in its own loop() or, before any loop is told to quit, in ~TcpServer.
LEMMA DeadLoopsStep == Inv /\ [Next]_vars => DeadLoopsGetNoWork'
<1> SUFFICES ASSUME Inv, [Next]_vars, NEW k \in 1..N, pc'[k] = "exited"
             PROVE  pending'[k] = <<>>
  BY DEF DeadLoopsGetNoWork
<1>0. TypeOK /\ LoopInv /\ DeadLoopsGetNoWork
  BY DEF Inv
<1> USE LoopFacts, FunctorTypes
<1>1. ASSUME pc[k] = "exited", ~UNCHANGED pending PROVE pending'[k] = <<>>
  <2>1. pc[0] = "exited" /\ connections = {} /\ pending[k] = <<>> /\ server # "new"
        /\ quit[k]
    BY <1>0, <1>1 DEF LoopInv, DeadLoopsGetNoWork
  <2>2. ~Start /\ ~(\E c \in Conn : DestroyConnection(c)) /\ ~Accepting
    BY <2>1 DEF Start, DestroyConnection, Accepting, AcceptFails, HandleRead, NewConnection,
       Handled, At
  <2>3. CASE \E l \in Loops : ExitLoop(l) \/ TakeFunctors(l)
    BY <1>0, <2>1, <2>3 DEF ExitLoop, TakeFunctors, TypeOK
  <2>4. ASSUME NEW l \in Loops, NEW c \in Conn, HandleClose(l, c) PROVE pending'[k] = <<>>
    <3>1. l # 0
      BY <2>1, <2>4 DEF HandleClose, Handled, At
    <3>2. Queue(0, Functor("remove", c))
      BY <2>4, <3>1 DEF HandleClose
    <3> QED BY <1>0, <2>1, <3>2, QueueRange
  <2>5. ASSUME NEW l \in Loops, RunRemove(l) PROVE pending'[k] = <<>>
    <3>1. l = 0
      <4>1. Current(l) \in Range(functors[l]) /\ Current(l).do = "remove"
        BY <1>0, <2>5, CurrentType DEF RunRemove
      <4> QED BY <4>1 DEF Inv, PlaceInv
    <3> QED BY <2>1, <2>5, <3>1 DEF RunRemove, Runs, At
  <2> QED
    BY <1>1, <2>2, <2>3, <2>4, <2>5
    DEF Next, Environment, ThreadStep, LoopStep, Destructor, vars, EnterLoop, QuitBase,
        Destroy, QuitLoop, DestroyAcceptor, Connect, HangUp, Shutdown, UserDrops, Poll,
        FinishFunctors, HandleRead, RunListen, RunEstablished, RunDestroyed
<1>2. ASSUME pc[k] # "exited" PROVE pending'[k] = <<>>
  <2>1. \E l \in Loops : ExitLoop(l) /\ l = k
    <3>1. ASSUME NEW l \in Loops,
                 EnterLoop \/ Poll(l) \/ TakeFunctors(l) \/ FinishFunctors(l) PROVE FALSE
      BY <1>0, <1>2, <3>1 DEF EnterLoop, Poll, TakeFunctors, FinishFunctors, Goto, TypeOK
    <3>2. ~Start
      BY <1>2 DEF Start, Loops
    <3>3. ASSUME UNCHANGED pc PROVE FALSE
      BY <1>2, <3>3
    <3>4. ASSUME NEW l \in Loops, ExitLoop(l), l # k PROVE FALSE
      BY <1>0, <1>2, <3>4 DEF ExitLoop, Goto, TypeOK
    <3> QED
      BY <3>1, <3>2, <3>3, <3>4
      DEF Next, Environment, ThreadStep, LoopStep, Destructor, Accepting, vars, threadVars,
          QuitBase, Destroy, QuitLoop, DestroyAcceptor, DestroyConnection, Connect, HangUp,
          Shutdown, UserDrops, AcceptFails, HandleRead, NewConnection, HandleClose, Handled,
          RunListen,
          RunEstablished, RunRemove, RunDestroyed, Runs
  <2> QED BY <1>0, <2>1 DEF ExitLoop, TypeOK
<1> QED BY <1>0, <1>1, <1>2 DEF LoopInv, DeadLoopsGetNoWork

\* The channels one step may change, and how.
LEMMA EstablishedChannel ==
  ASSUME TypeOK, NEW c \in Conn, NEW l, NEW f, ConnectEstablished(c, l, f)
  PROVE  /\ \A d \in Conn : d # c => channel'[d] = channel[d]
         /\ channel'[c].index # "kNew"
         /\ (channel[c].registered => channel[c].index = "kAdded")
            => (channel'[c].registered => channel'[c].index = "kAdded")
<1>1. channel[c] \in ChannelType /\ channel'[c] = EnableReading(channel[c])
  BY DEF TypeOK, ConnectEstablished
<1>2. \A d \in Conn : d # c => channel'[d] = channel[d]
  BY DEF TypeOK, ConnectEstablished
<1> QED BY <1>1, <1>2, SwitchKeeps

LEMMA DestroyedChannel ==
  ASSUME TypeOK, NEW c \in Conn, ConnectDestroyed(c)
  PROVE  /\ \A d \in Conn : d # c => channel'[d] = channel[d]
         /\ channel'[c].index = "kNew"
         /\ (channel[c].registered => channel[c].index = "kAdded") => ~channel'[c].registered
<1> DEFINE ch == channel[c]
<1>1. ch \in ChannelType /\ DisableAll(ch) \in ChannelType
  BY SwitchKeeps DEF TypeOK
<1>2. channel' = [channel EXCEPT ![c] = RemoveChannel(DisableAll(ch))]
      \/ channel' = [channel EXCEPT ![c] = RemoveChannel(ch)]
  BY DEF ConnectDestroyed
<1>3. channel'[c] = RemoveChannel(DisableAll(ch)) \/ channel'[c] = RemoveChannel(ch)
  BY <1>2 DEF TypeOK
<1>4. \A d \in Conn : d # c => channel'[d] = channel[d]
  BY <1>2 DEF TypeOK
<1>5. CASE channel'[c] = RemoveChannel(ch)
  BY <1>1, <1>4, <1>5, RemoveKeeps
<1>6. CASE channel'[c] = RemoveChannel(DisableAll(ch))
  BY <1>1, <1>4, <1>6, SwitchKeeps, RemoveKeeps
<1> QED BY <1>3, <1>5, <1>6

LEMMA ClosedChannel ==
  ASSUME TypeOK, NEW l \in Loops, NEW c \in Conn, HandleClose(l, c)
  PROVE  /\ \A d \in Conn : d # c => channel'[d] = channel[d]
         /\ channel'[c].index # "kNew"
         /\ (channel[c].registered => channel[c].index = "kAdded")
            => (channel'[c].registered => channel'[c].index = "kAdded")
<1>1. channel[c] \in ChannelType /\ channel'[c] = DisableAll(channel[c])
  BY DEF TypeOK, HandleClose
<1>2. \A d \in Conn : d # c => channel'[d] = channel[d]
  BY DEF TypeOK, HandleClose
<1> QED BY <1>1, <1>2, SwitchKeeps

LEMMA FreshInvStep == Inv /\ [Next]_vars => FreshInv'
<1> SUFFICES ASSUME Inv, [Next]_vars PROVE FreshInv'
  OBVIOUS
<1>0. TypeOK /\ FreshInv /\ PlaceInv /\ TypeOK'
  BY TypeStep DEF Inv
<1> USE LoopFacts
<1>1. ASSUME UNCHANGED <<fd, channel>>, connections' \subseteq connections,
             \A c \in backlog' : c \in backlog \/ fd[c] = NoFd
      PROVE  FreshInv'
  BY <1>0, <1>1 DEF FreshInv
<1>2. ASSUME NEW c \in Conn, NEW f \in Fd, NewConnection(c, f) PROVE FreshInv'
  <2>1. /\ fd'[c] # NoFd /\ \A d \in Conn : d # c => fd'[d] = fd[d]
        /\ connections' = connections \cup {c} /\ backlog' = backlog \ {c}
    BY <1>0, <1>2 DEF NewConnection, TypeOK
  <2>2. \A d \in Conn : d # c => channel'[d] = channel[d]
    BY <1>0, <1>2, EstablishedChannel DEF NewConnection, connVars
  <2>3. channel'[c].registered => channel'[c].index = "kAdded"
    BY <1>0, <1>2, EstablishedChannel DEF NewConnection, connVars, FreshInv
  <2> QED BY <1>0, <2>1, <2>2, <2>3 DEF FreshInv, TypeOK
<1>3. ASSUME NEW l \in Loops, NEW c \in Conn, HandleClose(l, c) PROVE FreshInv'
  <2>1. connections' \subseteq connections /\ UNCHANGED <<fd, backlog>>
    BY <1>3 DEF HandleClose, RemoveConnectionInLoop, clientVars
  <2>2. c \in active[l] \ {Acceptor}
    BY <1>3 DEF HandleClose, Handled
  <2>3. fd[c] # NoFd
    BY <1>0, <2>2 DEF PlaceInv, FreshInv
  <2> QED BY <1>0, <1>3, <2>1, <2>3, ClosedChannel DEF FreshInv
<1>4. ASSUME NEW l \in Loops, RunEstablished(l) PROVE FreshInv'
  <2>1. /\ Current(l).conn \in Conn /\ Current(l) \in Range(functors[l])
        /\ Current(l).do = "established"
    BY <1>0, <1>4, CurrentType DEF RunEstablished
  <2>2. fd[Current(l).conn] # NoFd
    BY <1>0, <2>1 DEF PlaceInv
  <2>3. UNCHANGED <<fd, backlog, connections>>
    BY <1>4 DEF RunEstablished, clientVars
  <2> QED BY <1>0, <1>4, <2>1, <2>2, <2>3, EstablishedChannel DEF RunEstablished, FreshInv
<1>5. ASSUME NEW c \in Conn, ConnectDestroyed(c), connections' \subseteq connections,
             UNCHANGED <<fd, backlog>>
      PROVE  FreshInv'
  BY <1>0, <1>5, DestroyedChannel DEF FreshInv
<1>6. ASSUME NEW l \in Loops, RunDestroyed(l) PROVE FreshInv'
  <2>1. Current(l).conn \in Conn
    BY <1>0, <1>6, CurrentType DEF RunDestroyed
  <2> QED BY <1>5, <1>6, <2>1 DEF RunDestroyed, clientVars
<1>7. ASSUME NEW c \in Conn, DestroyConnection(c) PROVE FreshInv'
  BY <1>1, <1>5, <1>7 DEF DestroyConnection, clientVars, connVars
<1>8. ASSUME NEW l \in Loops, RunRemove(l) PROVE FreshInv'
  BY <1>1, <1>8 DEF RunRemove, RemoveConnectionInLoop, clientVars, connVars
<1>9. CASE \E c \in Conn : Connect(c) \/ HangUp(c) \/ Shutdown(c) \/ UserDrops(c)
  BY <1>1, <1>9 DEF Connect, HangUp, Shutdown, UserDrops, clientVars, connVars
<1> QED
  BY <1>1, <1>2, <1>3, <1>4, <1>6, <1>7, <1>8, <1>9
  DEF Next, Environment, ThreadStep, LoopStep, Accepting, Destructor, vars, clientVars,
      connVars, EnterLoop, QuitBase, Destroy, QuitLoop, DestroyAcceptor, Start, ExitLoop,
      Poll, TakeFunctors, FinishFunctors, AcceptFails, HandleRead, RunListen

\* Where functors are, with the queues before and after a step that pushes at
\* most x in loop l.
LEMMA FunctorsStay ==
  ASSUME Inv, UNCHANGED <<ioLoop, fd>>, NEW l \in Loops, NEW x \in FunctorType,
         x.do \in {"established", "destroyed"} => ioLoop[x.conn] = l,
         x.do \in {"remove", "listen"} => l = 0,
         x.do # "listen" => fd[x.conn] # NoFd,
         Queue(l, x) \/ UNCHANGED pending, UNCHANGED functors
  PROVE  \A k \in Loops : \A y \in Range(pending'[k]) \cup Range(functors'[k]) :
           /\ y.do \in {"established", "destroyed"} => ioLoop'[y.conn] = k
           /\ y.do \in {"remove", "listen"} => k = 0
           /\ y.do # "listen" => fd'[y.conn] # NoFd
<1>1. \A k \in Loops : Range(pending'[k]) \subseteq Range(pending[k]) \cup {y \in {x} : k = l}
  BY QueueRange DEF Inv
<1> QED BY <1>1 DEF Inv, PlaceInv

LEMMA PlaceInvStep == Inv /\ [Next]_vars => PlaceInv'
<1> SUFFICES ASSUME Inv, [Next]_vars PROVE PlaceInv'
  OBVIOUS
<1>0. TypeOK /\ LoopInv /\ FreshInv /\ PlaceInv
  BY DEF Inv
<1> USE LoopFacts, FunctorTypes
<1> DEFINE Queued(k) == Range(pending[k]) \cup Range(functors[k])
           Placed == \A k \in Loops : \A x \in Queued(k) :
                       /\ x.do \in {"established", "destroyed"} => ioLoop[x.conn] = k
                       /\ x.do \in {"remove", "listen"} => k = 0
                       /\ x.do # "listen" => fd[x.conn] # NoFd
           Reported == \A k \in Loops :
                         /\ \A c \in active[k] \ {Acceptor} :
                              ioLoop[c] = k /\ channel[c].index # "kNew"
                         /\ Acceptor \in active[k] => k = 0
<1>a. Placed /\ Reported
  BY <1>0 DEF PlaceInv
<1>b. Placed' /\ Reported' => PlaceInv'
  BY DEF PlaceInv
<1> HIDE DEF Placed, Reported
<1>c. ASSUME UNCHANGED <<ioLoop, fd>>,
             \A k \in Loops : Queued(k)' \subseteq Queued(k)
      PROVE  Placed'
  BY <1>a, <1>c DEF Placed
<1>d. ASSUME UNCHANGED <<ioLoop, channel>>, \A k \in Loops : active'[k] \subseteq active[k]
      PROVE  Reported'
  BY <1>a, <1>d DEF Reported
<1>e. ASSUME UNCHANGED ioLoop, \A k \in Loops : active'[k] \subseteq active[k],
             \A k \in Loops : \A d \in Conn : d \in active'[k] => channel'[d].index # "kNew"
      PROVE  Reported'
  <2>1. \A k \in Loops : active[k] \subseteq Conn \cup {Acceptor}
    BY <1>0 DEF TypeOK
  <2>2. ASSUME NEW k \in Loops, NEW d \in active'[k] \ {Acceptor}
        PROVE  ioLoop'[d] = k /\ channel'[d].index # "kNew"
    <3>1. d \in active[k] \ {Acceptor} /\ d \in Conn
      BY <1>e, <2>1
    <3> QED BY <1>a, <1>e, <3>1 DEF Reported
  <2> QED BY <1>a, <1>e, <2>2 DEF Reported
<1>1. CASE UNCHANGED vars
  <2>1. Placed'
    BY <1>c, <1>1 DEF vars, clientVars, threadVars
  <2>2. Reported'
    BY <1>d, <1>1 DEF vars, clientVars, threadVars, connVars
  <2> QED BY <1>b, <2>1, <2>2
<1>2. CASE \/ EnterLoop \/ QuitBase \/ Destroy \/ DestroyAcceptor
           \/ \E l \in Loops : QuitLoop(l)
           \/ \E c \in Conn : Connect(c) \/ HangUp(c) \/ Shutdown(c) \/ UserDrops(c)
  <2>1. UNCHANGED <<pending, functors, active, ioLoop, fd, channel>>
    BY <1>2 DEF EnterLoop, QuitBase, Destroy, DestroyAcceptor, QuitLoop, Connect, HangUp,
         Shutdown, UserDrops, clientVars, threadVars, connVars
  <2> QED BY <1>b, <1>c, <1>d, <2>1
<1>3. CASE Start
  <2>1. UNCHANGED <<functors, active, ioLoop, fd, channel>>
    BY <1>3 DEF Start, clientVars, connVars
  <2>2. Queue(0, Functor("listen", NoConn)) \/ UNCHANGED pending
    BY <1>3 DEF Start
  <2>3. Placed'
    BY <2>1, <2>2, FunctorsStay DEF Placed, Functor
  <2> QED BY <1>b, <1>d, <2>1, <2>3
<1>4. ASSUME NEW l \in Loops, NEW c \in Conn, NEW do \in {"remove", "destroyed"},
             UNCHANGED <<functors, ioLoop, fd>>,
             do = "remove" => l = 0, do = "destroyed" => l = ioLoop[c], fd[c] # NoFd,
             Queue(l, Functor(do, c))
      PROVE  Placed'
  BY <1>4, FunctorsStay DEF Placed, Functor
<1>5. ASSUME NEW c \in Conn, ConnectDestroyed(c), UNCHANGED <<active, ioLoop>>,
             active[ioLoop[c]] = {}
      PROVE  Reported'
  <2>1. ASSUME NEW k \in Loops, NEW d \in Conn, d \in active'[k]
        PROVE  channel'[d].index # "kNew"
    <3>1. d \in active[k] \ {Acceptor}
      BY <1>5, <2>1
    <3>2. ioLoop[d] = k /\ channel[d].index # "kNew"
      BY <1>a, <3>1 DEF Reported
    <3>3. d # c
      BY <1>5, <3>1, <3>2
    <3> QED BY <1>0, <1>5, <3>2, <3>3, DestroyedChannel
  <2> QED BY <1>e, <1>5, <2>1
<1>6. ASSUME NEW c \in Conn, DestroyConnection(c) PROVE PlaceInv'
  <2>1. UNCHANGED <<functors, active, ioLoop, fd>> /\ active[0] = {} /\ fd[c] # NoFd
        /\ ioLoop[c] \in Loops
    BY <1>0, <1>6 DEF DestroyConnection, LoopInv, FreshInv, clientVars, threadVars, TypeOK
  <2>2. CASE ioLoop[c] = 0
    BY <1>b, <1>c, <1>5, <1>6, <2>1, <2>2 DEF DestroyConnection
  <2>3. CASE ioLoop[c] # 0
    BY <1>b, <1>d, <1>4, <1>6, <2>1, <2>3 DEF DestroyConnection, connVars
  <2> QED BY <2>2, <2>3
<1>7. ASSUME NEW l \in Loops, ExitLoop(l) \/ TakeFunctors(l) \/ FinishFunctors(l)
      PROVE  PlaceInv'
  <2>1. UNCHANGED <<active, ioLoop, fd, channel>>
    BY <1>7 DEF ExitLoop, TakeFunctors, FinishFunctors, clientVars, connVars
  <2>2. Range(<<>>) = {}
    BY DEF Range
  <2>3. \A k \in Loops : Queued(k)' \subseteq Queued(k)
    <3> SUFFICES ASSUME NEW k \in Loops PROVE Queued(k)' \subseteq Queued(k)
      OBVIOUS
    <3>1. CASE ExitLoop(l)
      <4>1. (pending'[k] = pending[k] \/ pending'[k] = <<>>) /\ functors'[k] = functors[k]
        BY <1>0, <3>1 DEF ExitLoop, TypeOK
      <4> QED BY <2>2, <4>1
    <3>2. CASE TakeFunctors(l)
      <4>1. \/ pending'[k] = pending[k] /\ functors'[k] = functors[k]
            \/ pending'[k] = <<>> /\ functors'[k] = pending[k]
        BY <1>0, <3>2 DEF TakeFunctors, TypeOK
      <4> QED BY <2>2, <4>1
    <3>3. CASE FinishFunctors(l)
      <4>1. pending'[k] = pending[k] /\ (functors'[k] = functors[k] \/ functors'[k] = <<>>)
        BY <1>0, <3>3 DEF FinishFunctors, TypeOK
      <4> QED BY <2>2, <4>1
    <3> QED BY <1>7, <3>1, <3>2, <3>3
  <2> QED BY <1>b, <1>c, <1>d, <2>1, <2>3
<1>8. ASSUME NEW l \in Loops, Poll(l) PROVE PlaceInv'
  <2>1. UNCHANGED <<pending, functors, ioLoop, fd, channel>>
    BY <1>8 DEF Poll, clientVars, connVars
  <2>2. \A c \in Ready(l) \ {Acceptor} : ioLoop[c] = l /\ channel[c].index # "kNew"
    BY <1>0 DEF Ready, FreshInv
  <2>3. Acceptor \in Ready(l) => l = 0
    BY DEF Ready
  <2>4. active'[l] \subseteq Ready(l) /\ \A k \in Loops : k # l => active'[k] = active[k]
    BY <1>0, <1>8 DEF Poll, TypeOK
  <2>5. Reported'
    BY <1>a, <2>1, <2>2, <2>3, <2>4 DEF Reported
  <2> QED BY <1>b, <1>c, <2>1, <2>5
<1>9. ASSUME NEW l \in Loops, NEW ch, Handled(l, ch)
      PROVE  (\A k \in Loops : active'[k] \subseteq active[k]) /\ UNCHANGED functors
  BY <1>0, <1>9 DEF Handled, TypeOK
<1>10. CASE AcceptFails \/ \E l \in Loops, c \in Conn : HandleRead(l, c)
  BY <1>b, <1>c, <1>d, <1>9, <1>10 DEF AcceptFails, HandleRead, clientVars, connVars
<1>11. ASSUME NEW c \in Conn, NEW f \in Fd, NewConnection(c, f) PROVE PlaceInv'
  <2>1. /\ fd[c] = NoFd /\ fd'[c] # NoFd /\ ioLoop'[c] = NextLoop /\ NextLoop \in Loops
        /\ \A d \in Conn : d # c => fd'[d] = fd[d] /\ ioLoop'[d] = ioLoop[d]
    BY <1>0, <1>11 DEF NewConnection, NextLoop, FreshInv, TypeOK, Loops
  <2>2. (\A k \in Loops : active'[k] \subseteq active[k]) /\ UNCHANGED functors
    BY <1>9, <1>11 DEF NewConnection
  <2>3. \A d \in Conn : d # c => channel'[d] = channel[d]
    BY <1>0, <1>11, EstablishedChannel DEF NewConnection, connVars
  <2>4. \A k \in Loops : c \notin active[k]
    BY <1>a, <1>0, <2>1 DEF Reported, FreshInv
  <2>5. Reported'
    <3>1. \A k \in Loops : active[k] \subseteq Conn \cup {Acceptor}
      BY <1>0 DEF TypeOK
    <3> QED BY <1>a, <2>1, <2>2, <2>3, <2>4, <3>1 DEF Reported
  <2>6. \A k \in Loops : \A x \in Queued(k) : x \in FunctorType /\ x.conn # c
    <3>1. \A k \in Loops : \A x \in Queued(k) : x \in FunctorType
      BY <1>0 DEF TypeOK, Range
    <3> QED BY <1>a, <2>1, <3>1 DEF Placed, FunctorType
  <2>7. \A k \in Loops : Queued(k)' \subseteq Queued(k)
                          \cup {x \in {Functor("established", c)} : k = NextLoop}
    BY <1>0, <1>11, <2>1, <2>2, QueueRange DEF NewConnection
  <2>8. Placed'
    <3> SUFFICES ASSUME NEW k \in Loops, NEW x \in Queued(k)'
                 PROVE  /\ x.do \in {"established", "destroyed"} => ioLoop'[x.conn] = k
                        /\ x.do \in {"remove", "listen"} => k = 0
                        /\ x.do # "listen" => fd'[x.conn] # NoFd
      BY DEF Placed
    <3>1. CASE x = Functor("established", c) /\ k = NextLoop
      BY <2>1, <3>1 DEF Functor
    <3>2. CASE x \in Queued(k)
      BY <1>a, <2>1, <2>6, <3>2 DEF Placed, FunctorType
    <3> QED BY <2>7, <3>1, <3>2
  <2> QED BY <1>b, <2>5, <2>8
<1>12. ASSUME NEW l \in Loops, NEW c \in Conn, HandleClose(l, c) PROVE PlaceInv'
  <2>1. c \in active[l] \ {Acceptor}
    BY <1>12 DEF HandleClose, Handled
  <2>2. ioLoop[c] = l /\ fd[c] # NoFd
    BY <1>a, <1>0, <2>1 DEF Reported, FreshInv
  <2>3. /\ UNCHANGED <<functors, ioLoop, fd>>
        /\ \A k \in Loops : active'[k] \subseteq active[k]
    BY <1>9, <1>12 DEF HandleClose, clientVars
  <2>4. Placed'
    BY <1>4, <1>12, <2>2, <2>3 DEF HandleClose, RemoveConnectionInLoop
  <2>5. Reported'
    <3>1. ASSUME NEW k \in Loops, NEW d \in Conn, d \in active'[k]
          PROVE  channel'[d].index # "kNew"
      <4>1. d \in active[k] \ {Acceptor}
        BY <2>3, <3>1
      <4>2. channel[d].index # "kNew"
        BY <1>a, <4>1 DEF Reported
      <4> QED BY <1>0, <1>12, <4>2, ClosedChannel
    <3> QED BY <1>e, <2>3, <3>1
  <2> QED BY <1>b, <2>4, <2>5
<1>13. ASSUME NEW l \in Loops, RunListen(l) PROVE PlaceInv'
  BY <1>b, <1>c, <1>d, <1>13 DEF RunListen, Runs, clientVars, connVars
<1>14. ASSUME NEW l \in Loops, RunEstablished(l) PROVE PlaceInv'
  <2>1. Current(l).conn \in Conn
    BY <1>0, <1>14, CurrentType DEF RunEstablished
  <2>2. UNCHANGED <<pending, functors, active, ioLoop, fd>>
    BY <1>14 DEF RunEstablished, Runs, clientVars
  <2>3. Reported'
    <3>1. ASSUME NEW k \in Loops, NEW d \in Conn, d \in active'[k]
          PROVE  channel'[d].index # "kNew"
      <4>1. d \in active[k] \ {Acceptor}
        BY <2>2, <3>1
      <4>2. channel[d].index # "kNew"
        BY <1>a, <4>1 DEF Reported
      <4> QED BY <1>0, <1>14, <2>1, <4>2, EstablishedChannel DEF RunEstablished
    <3> QED BY <1>e, <2>2, <3>1
  <2> QED BY <1>b, <1>c, <2>2, <2>3
<1>15. ASSUME NEW l \in Loops, RunRemove(l) PROVE PlaceInv'
  <2>1. /\ Current(l).conn \in Conn /\ Current(l) \in Queued(l) /\ Current(l).do = "remove"
    BY <1>0, <1>15, CurrentType DEF RunRemove
  <2>2. fd[Current(l).conn] # NoFd /\ ioLoop[Current(l).conn] \in Loops
    BY <1>a, <1>0, <2>1 DEF Placed, TypeOK
  <2>3. UNCHANGED <<functors, active, ioLoop, fd, channel>>
    BY <1>15 DEF RunRemove, Runs, clientVars, connVars
  <2>4. Placed'
    BY <1>4, <1>15, <2>1, <2>2, <2>3 DEF RunRemove, RemoveConnectionInLoop
  <2> QED BY <1>b, <1>d, <2>3, <2>4
<1>16. ASSUME NEW l \in Loops, RunDestroyed(l) PROVE PlaceInv'
  <2>1. /\ Current(l).conn \in Conn /\ Current(l) \in Queued(l) /\ Current(l).do = "destroyed"
    BY <1>0, <1>16, CurrentType DEF RunDestroyed
  <2>2. ioLoop[Current(l).conn] = l /\ active[l] = {}
    BY <1>a, <1>0, <1>16, <2>1 DEF Placed, RunDestroyed, Runs, At, LoopInv
  <2>3. UNCHANGED <<pending, functors, active, ioLoop, fd>>
    BY <1>16 DEF RunDestroyed, Runs, clientVars
  <2> QED BY <1>b, <1>c, <1>5, <1>16, <2>1, <2>2, <2>3 DEF RunDestroyed
<1> QED
  BY <1>1, <1>2, <1>3, <1>6, <1>7, <1>8, <1>10, <1>11, <1>12, <1>13, <1>14, <1>15, <1>16
  DEF Next, Environment, ThreadStep, LoopStep, Accepting, Destructor

\* Appending keeps the order, unless it is a connectEstablished after another
\* functor of its connection.
LEMMA AppendInOrder ==
  ASSUME NEW s \in Seq(FunctorType), NEW x \in FunctorType, InOrder(s),
         x.do = "established" => \A i \in DOMAIN s : s[i].do # "listen" => s[i].conn # x.conn
  PROVE  InOrder(Append(s, x))
<1> DEFINE t == Append(s, x)
           n == Len(s) + 1
<1>1. DOMAIN t = 1..n /\ DOMAIN s = 1..Len(s) /\ Len(s) \in Nat /\ t[n] = x
      /\ \A i \in 1..Len(s) : t[i] = s[i]
  OBVIOUS
<1> HIDE DEF t
<1> SUFFICES ASSUME NEW i \in DOMAIN t, NEW j \in DOMAIN t,
                    t[i].do \in {"established", "destroyed"},
                    t[j].do = "established", t[i].conn = t[j].conn
             PROVE  j <= i
  BY DEF InOrder, t
<1>2. CASE i = n
  BY <1>1, <1>2
<1>3. CASE i # n /\ j = n
  <2>1. i \in DOMAIN s /\ s[i].do # "listen" /\ s[i].conn = x.conn /\ x.do = "established"
    BY <1>1, <1>3
  <2> QED BY <2>1
<1>4. CASE i # n /\ j # n
  <2>1. i \in DOMAIN s /\ j \in DOMAIN s /\ t[i] = s[i] /\ t[j] = s[j]
    BY <1>1, <1>4
  <2> QED BY <2>1 DEF InOrder
<1> QED BY <1>2, <1>3, <1>4

LEMMA OrderInvStep == Inv /\ [Next]_vars => OrderInv'
<1> SUFFICES ASSUME Inv, [Next]_vars PROVE OrderInv'
  OBVIOUS
<1>0. TypeOK /\ FreshInv /\ PlaceInv /\ OrderInv
  BY DEF Inv
<1> USE LoopFacts, FunctorTypes
<1>1. ASSUME UNCHANGED <<pending, functors>> PROVE OrderInv'
  BY <1>0, <1>1 DEF OrderInv
<1>2. ASSUME NEW l \in Loops, NEW x \in FunctorType, Queue(l, x), UNCHANGED functors,
             x.do = "established" =>
               \A y \in Range(pending[l]) \cup Range(functors[l]) :
                 y.do # "listen" => y.conn # x.conn
      PROVE  OrderInv'
  <2>1. /\ pending[l] \in Seq(FunctorType) /\ pending'[l] = Append(pending[l], x)
        /\ \A k \in Loops : k # l => pending'[k] = pending[k]
    BY <1>0, <1>2 DEF TypeOK, Queue
  <2>2. \A i \in DOMAIN pending[l] : pending[l][i] \in Range(pending[l])
    BY DEF Range
  <2>3. InOrder(pending'[l])
    BY <1>0, <1>2, <2>1, <2>2, AppendInOrder DEF OrderInv
  <2>4. ASSUME NEW y \in Range(functors[l]), NEW c \in Conn,
               y.do \in {"established", "destroyed"}, y.conn = c
        PROVE  Functor("established", c) \notin Range(pending'[l])
    <3>1. Range(pending'[l]) = Range(pending[l]) \cup {x}
      BY <1>0, <1>2, QueueRange
    <3>2. x # Functor("established", c)
      BY <1>2, <2>4 DEF Functor
    <3> QED BY <1>0, <2>4, <3>1, <3>2 DEF OrderInv
  <2> QED BY <1>0, <1>2, <2>1, <2>3, <2>4 DEF OrderInv
<1>3. ASSUME NEW l \in Loops, ExitLoop(l) \/ TakeFunctors(l) \/ FinishFunctors(l)
      PROVE  OrderInv'
  <2>1. InOrder(<<>>) /\ Range(<<>>) = {}
    BY DEF InOrder, Range
  <2>2. CASE ExitLoop(l)
    <3>1. functors' = functors
          /\ \A k \in Loops : pending'[k] = pending[k] \/ pending'[k] = <<>>
      BY <1>0, <2>2 DEF ExitLoop, TypeOK
    <3> QED BY <1>0, <2>1, <3>1 DEF OrderInv
  <2>3. CASE TakeFunctors(l)
    <3>1. \A k \in Loops : \/ pending'[k] = pending[k] /\ functors'[k] = functors[k]
                           \/ pending'[k] = <<>> /\ functors'[k] = pending[k]
      BY <1>0, <2>3 DEF TakeFunctors, TypeOK
    <3> QED BY <1>0, <2>1, <3>1 DEF OrderInv
  <2>4. CASE FinishFunctors(l)
    <3>1. pending' = pending
          /\ \A k \in Loops : functors'[k] = functors[k] \/ functors'[k] = <<>>
      BY <1>0, <2>4 DEF FinishFunctors, TypeOK
    <3> QED BY <1>0, <2>1, <3>1 DEF OrderInv
  <2> QED BY <1>3, <2>2, <2>3, <2>4
<1>4. ASSUME NEW l \in Loops, NEW do \in {"remove", "destroyed"}, NEW c \in Conn,
             Queue(l, Functor(do, c)), UNCHANGED functors
      PROVE  OrderInv'
  BY <1>2, <1>4 DEF Functor
<1>5. CASE Start
  <2>1. Queue(0, Functor("listen", NoConn)) \/ UNCHANGED pending
    BY <1>5 DEF Start
  <2> QED BY <1>1, <1>2, <1>5, <2>1 DEF Start, Functor
<1>6. ASSUME NEW c \in Conn, DestroyConnection(c) PROVE OrderInv'
  <2>1. ioLoop[c] \in Loops
    BY <1>0 DEF TypeOK
  <2> QED BY <1>1, <1>4, <1>6, <2>1 DEF DestroyConnection, threadVars
<1>7. ASSUME NEW c \in Conn, NEW f \in Fd, NewConnection(c, f) PROVE OrderInv'
  <2>1. NextLoop \in Loops /\ UNCHANGED functors /\ fd[c] = NoFd
    BY <1>0, <1>7 DEF NewConnection, Handled, NextLoop, FreshInv, TypeOK, Loops
  <2>2. \A y \in Range(pending[NextLoop]) \cup Range(functors[NextLoop]) :
          y.do # "listen" => y.conn # c
    BY <1>0, <2>1 DEF PlaceInv
  <2>3. CASE Queue(NextLoop, Functor("established", c))
    <3>1. Functor("established", c).conn = c /\ Functor("established", c) \in FunctorType
      BY DEF Functor
    <3> QED BY <1>2, <2>1, <2>2, <2>3, <3>1
  <2>4. CASE UNCHANGED pending
    BY <1>1, <2>1, <2>4
  <2> QED BY <1>7, <2>3, <2>4 DEF NewConnection
<1>8. ASSUME NEW l \in Loops, NEW c \in Conn, HandleClose(l, c) PROVE OrderInv'
  <2>1. ioLoop[c] \in Loops
    BY <1>0 DEF TypeOK
  <2> QED BY <1>4, <1>8, <2>1 DEF HandleClose, RemoveConnectionInLoop, Handled
<1>9. ASSUME NEW l \in Loops, RunRemove(l) PROVE OrderInv'
  <2>1. Current(l).conn \in Conn
    BY <1>0, <1>9, CurrentType DEF RunRemove
  <2>2. ioLoop[Current(l).conn] \in Loops
    BY <1>0, <2>1 DEF TypeOK
  <2> QED BY <1>4, <1>9, <2>1, <2>2 DEF RunRemove, RemoveConnectionInLoop, Runs
<1> QED
  BY <1>1, <1>3, <1>5, <1>6, <1>7, <1>8, <1>9
  DEF Next, Environment, ThreadStep, LoopStep, Accepting, Destructor, vars, threadVars,
      EnterLoop, QuitBase, Destroy, QuitLoop, DestroyAcceptor, Connect, HangUp, Shutdown,
      UserDrops, Poll, AcceptFails, HandleRead, Handled, RunListen, RunEstablished,
      RunDestroyed, Runs

LEMMA EntryInvStep == Inv /\ [Next]_vars => EntryInv'
<1> SUFFICES ASSUME Inv, [Next]_vars PROVE EntryInv'
  OBVIOUS
<1>0. TypeOK /\ FreshInv /\ PlaceInv /\ EntryInv
  BY DEF Inv
<1> USE LoopFacts
<1>1. ASSUME UNCHANGED <<fd, ioLoop, channels>>,
             \A c \in Conn : channel[c].index # "kNew" => channel'[c].index # "kNew"
      PROVE  EntryInv'
  <2>1. \A l \in Loops, f \in Fd : channels[l][f] # NoConn => channels[l][f] \in Conn
    BY <1>0 DEF TypeOK
  <2> QED BY <1>0, <1>1, <2>1 DEF EntryInv
<1>2. ASSUME NEW c \in Conn, NEW l \in Loops, NEW f \in Fd, ConnectEstablished(c, l, f),
             fd'[c] = f, ioLoop'[c] = l,
             \A d \in Conn : d # c => fd'[d] = fd[d] /\ ioLoop'[d] = ioLoop[d],
             fd[c] = NoFd \/ UNCHANGED <<fd, ioLoop>>
      PROVE  EntryInv'
  <2> SUFFICES ASSUME NEW k \in Loops, NEW g \in Fd, channels'[k][g] # NoConn
               PROVE  LET d == channels'[k][g]
                      IN  fd'[d] = g /\ ioLoop'[d] = k /\ channel'[d].index # "kNew"
    BY DEF EntryInv
  <2>1. \/ k = l /\ g = f /\ channels'[k][g] = c
        \/ channels'[k][g] = channels[k][g] /\ channels[k][g] \in Conn
    BY <1>0, <1>2 DEF ConnectEstablished, TypeOK
  <2>2. /\ channel'[c].index # "kNew"
        /\ \A d \in Conn : d # c => channel'[d] = channel[d]
    BY <1>0, <1>2, EstablishedChannel
  <2>3. CASE k = l /\ g = f /\ channels'[k][g] = c
    BY <1>2, <2>2, <2>3
  <2>4. CASE channels'[k][g] = channels[k][g] /\ channels[k][g] \in Conn
    <3> DEFINE d == channels[k][g]
    <3>1. d # NoConn /\ fd[d] = g /\ ioLoop[d] = k /\ channel[d].index # "kNew"
      BY <1>0, <2>4 DEF EntryInv
    <3>2. CASE d = c
      <4>1. fd[c] # NoFd
        BY <3>1, <3>2
      <4> QED BY <1>2, <2>2, <2>4, <3>1, <3>2, <4>1
    <3>3. CASE d # c
      BY <1>2, <2>2, <2>4, <3>1, <3>3
    <3> QED BY <3>2, <3>3
  <2> QED BY <2>1, <2>3, <2>4
<1>3. ASSUME NEW c \in Conn, ConnectDestroyed(c), UNCHANGED <<fd, ioLoop>> PROVE EntryInv'
  <2> SUFFICES ASSUME NEW k \in Loops, NEW g \in Fd, channels'[k][g] # NoConn
               PROVE  LET d == channels'[k][g]
                      IN  fd[d] = g /\ ioLoop[d] = k /\ channel'[d].index # "kNew"
    BY <1>3 DEF EntryInv
  <2>1. /\ channels'[k][g] = channels[k][g] /\ channels[k][g] \in Conn
        /\ ~(k = ioLoop[c] /\ g = fd[c])
    BY <1>0, <1>3 DEF ConnectDestroyed, TypeOK
  <2> DEFINE d == channels[k][g]
  <2>2. fd[d] = g /\ ioLoop[d] = k /\ channel[d].index # "kNew"
    BY <1>0, <2>1 DEF EntryInv
  <2>3. d # c
    BY <2>1, <2>2
  <2>4. channel'[d] = channel[d]
    BY <1>0, <1>3, <2>1, <2>3, DestroyedChannel
  <2> QED BY <2>1, <2>2, <2>4
<1>4. ASSUME NEW c \in Conn, NEW f \in Fd, NewConnection(c, f) PROVE EntryInv'
  <2>1. /\ fd[c] = NoFd /\ fd'[c] = f /\ ioLoop'[c] = NextLoop /\ NextLoop \in Loops
        /\ \A d \in Conn : d # c => fd'[d] = fd[d] /\ ioLoop'[d] = ioLoop[d]
    BY <1>0, <1>4 DEF NewConnection, NextLoop, FreshInv, TypeOK, Loops
  <2>2. CASE NextLoop = 0
    BY <1>2, <1>4, <2>1, <2>2 DEF NewConnection
  <2>3. CASE NextLoop # 0
    <3>1. UNCHANGED <<channels, channel>>
      BY <1>4, <2>3 DEF NewConnection, connVars
    <3> SUFFICES ASSUME NEW k \in Loops, NEW g \in Fd, channels[k][g] # NoConn
                 PROVE  LET d == channels[k][g]
                        IN  fd'[d] = g /\ ioLoop'[d] = k /\ channel[d].index # "kNew"
      BY <3>1 DEF EntryInv
    <3> DEFINE d == channels[k][g]
    <3>2. d \in Conn /\ fd[d] = g /\ ioLoop[d] = k /\ channel[d].index # "kNew"
      BY <1>0 DEF EntryInv, TypeOK
    <3>3. d # c
      BY <2>1, <3>2
    <3> QED BY <2>1, <3>2, <3>3
  <2> QED BY <2>2, <2>3
<1>5. ASSUME NEW l \in Loops, NEW c \in Conn, HandleClose(l, c) PROVE EntryInv'
  <2>1. \A d \in Conn : channel[d].index # "kNew" => channel'[d].index # "kNew"
    BY <1>0, <1>5, ClosedChannel
  <2> QED BY <1>1, <1>5, <2>1 DEF HandleClose, clientVars
<1>6. ASSUME NEW l \in Loops, RunEstablished(l) PROVE EntryInv'
  <2> DEFINE c == Current(l).conn
  <2>1. /\ c \in Conn /\ Current(l) \in Range(functors[l]) /\ Current(l).do = "established"
    BY <1>0, <1>6, CurrentType DEF RunEstablished
  <2>2. fd[c] \in Fd /\ ioLoop[c] \in Loops
    BY <1>0, <2>1 DEF PlaceInv, TypeOK
  <2>3. ConnectEstablished(c, ioLoop[c], fd[c]) /\ UNCHANGED <<fd, ioLoop>>
    BY <1>6 DEF RunEstablished, clientVars
  <2> HIDE DEF c
  <2> QED BY <1>2, <2>1, <2>2, <2>3
<1>7. ASSUME NEW l \in Loops, RunDestroyed(l) PROVE EntryInv'
  <2>1. Current(l).conn \in Conn
    BY <1>0, <1>7, CurrentType DEF RunDestroyed
  <2> QED BY <1>3, <1>7, <2>1 DEF RunDestroyed, clientVars
<1>8. ASSUME NEW c \in Conn, DestroyConnection(c) PROVE EntryInv'
  BY <1>1, <1>3, <1>8 DEF DestroyConnection, clientVars, connVars
<1>9. ASSUME NEW l \in Loops, RunRemove(l) PROVE EntryInv'
  BY <1>1, <1>9 DEF RunRemove, clientVars, connVars
<1>10. CASE \E c \in Conn : Connect(c) \/ HangUp(c) \/ Shutdown(c) \/ UserDrops(c)
  BY <1>1, <1>10 DEF Connect, HangUp, Shutdown, UserDrops, clientVars, connVars
<1> QED
  BY <1>1, <1>4, <1>5, <1>6, <1>7, <1>8, <1>9, <1>10
  DEF Next, Environment, ThreadStep, LoopStep, Accepting, Destructor, vars, clientVars,
      connVars, EnterLoop, QuitBase, Destroy, QuitLoop, DestroyAcceptor, Start, ExitLoop,
      Poll, TakeFunctors, FinishFunctors, AcceptFails, HandleRead, RunListen

-----------------------------------------------------------------------------
(* Functors that have not run *)

LEMMA NotRunSame ==
  ASSUME UNCHANGED <<pending, functors, done>>
  PROVE  \A k \in Loops : NotRun(k)' = NotRun(k)
BY DEF NotRun

LEMMA NotRunWaits ==
  ASSUME TypeOK
  PROVE  \A k \in Loops : NotRun(k) \subseteq Range(pending[k]) \cup Range(functors[k])
<1>1. ASSUME NEW k \in Loops, NEW i \in (done[k] + 1)..Len(functors[k])
      PROVE  functors[k][i] \in Range(functors[k])
  <2>1. i \in DOMAIN functors[k]
    BY DEF TypeOK
  <2> QED BY <2>1 DEF Range
<1> QED BY <1>1 DEF NotRun

\* queueInLoop adds x to the functors of loop l.
LEMMA NotRunQueue ==
  ASSUME TypeOK, NEW l \in Loops, NEW x \in FunctorType, Queue(l, x),
         UNCHANGED <<functors, done>>
  PROVE  /\ NotRun(l)' = NotRun(l) \cup {x}
         /\ \A k \in Loops : k # l => NotRun(k)' = NotRun(k)
<1>1. /\ Range(pending'[l]) = Range(pending[l]) \cup {x}
      /\ \A k \in Loops : k # l => pending'[k] = pending[k]
  BY QueueRange
<1> QED BY <1>1 DEF NotRun

\* The swap moves the functors from one list to the other; none is lost.
LEMMA NotRunTake ==
  ASSUME TypeOK, LoopInv, NEW l \in Loops, TakeFunctors(l)
  PROVE  \A k \in Loops : NotRun(k)' = NotRun(k)
<1>1. /\ functors[l] = <<>> /\ done[l] = 0 /\ functors'[l] = pending[l]
      /\ pending'[l] = <<>> /\ done'[l] = 0 /\ pending[l] \in Seq(FunctorType)
  BY DEF TakeFunctors, At, LoopInv, TypeOK
<1>2. \A k \in Loops : k # l => /\ functors'[k] = functors[k] /\ pending'[k] = pending[k]
                                /\ done'[k] = done[k]
  BY DEF TakeFunctors, TypeOK
<1>3. Range(<<>>) = {} /\ Len(<<>>) = 0
  BY DEF Range
<1>4. (0 + 1)..0 = {} /\ (0 + 1)..Len(pending[l]) = DOMAIN pending[l]
  BY <1>1
<1>5. NotRun(l) = Range(pending[l])
  BY <1>1, <1>3, <1>4 DEF NotRun
<1>6. NotRun(l)' = {pending[l][i] : i \in DOMAIN pending[l]}
  BY <1>1, <1>3, <1>4 DEF NotRun
<1>7. \A k \in Loops : k # l => NotRun(k)' = NotRun(k)
  BY <1>2 DEF NotRun
<1> QED BY <1>5, <1>6, <1>7 DEF Range

LEMMA NotRunFinish ==
  ASSUME TypeOK, NEW l \in Loops, FinishFunctors(l)
  PROVE  \A k \in Loops : NotRun(k)' = NotRun(k)
<1>1. /\ done[l] = Len(functors[l]) /\ functors'[l] = <<>> /\ done'[l] = 0
      /\ pending' = pending /\ Len(functors[l]) \in Nat
  BY DEF FinishFunctors, TypeOK
<1>2. \A k \in Loops : k # l => functors'[k] = functors[k] /\ done'[k] = done[k]
  BY DEF FinishFunctors, TypeOK
<1>3. (0 + 1)..Len(<<>>) = {} /\ (Len(functors[l]) + 1)..Len(functors[l]) = {}
  BY <1>1
<1>4. NotRun(l) = Range(pending[l]) /\ NotRun(l)' = Range(pending[l])
  BY <1>1, <1>3 DEF NotRun
<1>5. \A k \in Loops : k # l => NotRun(k)' = NotRun(k)
  BY <1>1, <1>2 DEF NotRun
<1> QED BY <1>4, <1>5

\* A functor that runs leaves the list (once, should it be there twice); others
\* come only by way of the queue.
LEMMA NotRunRuns ==
  ASSUME TypeOK, NEW l \in Loops, NEW do, Runs(l, do)
  PROVE  /\ Current(l) \in NotRun(l)
         /\ \A k \in Loops : Range(pending[k]) \subseteq Range(pending'[k]) =>
              NotRun(k) \subseteq NotRun(k)' \cup {y \in {Current(l)} : k = l}
         /\ \A k \in Loops, S \in SUBSET FunctorType :
              Range(pending'[k]) \subseteq Range(pending[k]) \cup S =>
                NotRun(k)' \subseteq NotRun(k) \cup S
<1>1. /\ functors' = functors /\ done'[l] = done[l] + 1 /\ done[l] \in Nat
      /\ \A k \in Loops : k # l => done'[k] = done[k]
      /\ functors[l] \in Seq(FunctorType) /\ done[l] < Len(functors[l])
      /\ Len(functors[l]) \in Nat
  BY DEF Runs, TypeOK
<1> DEFINE n == done[l] + 1
           rest == (n + 1)..Len(functors[l])
<1>2. n..Len(functors[l]) = {n} \cup rest
  BY <1>1
<1>3. NotRun(l) = Range(pending[l]) \cup {functors[l][i] : i \in n..Len(functors[l])}
  BY DEF NotRun
<1>4. NotRun(l)' = Range(pending'[l]) \cup {functors[l][i] : i \in rest}
  BY <1>1 DEF NotRun
<1>5. Current(l) = functors[l][n]
  BY DEF Current
<1> HIDE DEF n, rest
<1>6. NotRun(l) = Range(pending[l]) \cup {functors[l][i] : i \in rest} \cup {Current(l)}
  BY <1>2, <1>3, <1>5
<1>7. ASSUME NEW k \in Loops, k # l
      PROVE  \E batch : /\ NotRun(k) = Range(pending[k]) \cup batch
                        /\ NotRun(k)' = Range(pending'[k]) \cup batch
  BY <1>1, <1>7 DEF NotRun
<1> QED BY <1>4, <1>6, <1>7

\* Once connectEstablished or connectDestroyed of a connection has run, no
\* connectEstablished of it waits.
LEMMA NotAgain ==
  ASSUME Inv, NEW l \in Loops, NEW do \in {"established", "destroyed"}, Runs(l, do),
         UNCHANGED pending
  PROVE  Functor("established", Current(l).conn) \notin NotRun(l)'
<1> DEFINE x == Current(l)
           c == x.conn
           est == Functor("established", c)
<1>1. /\ x \in Range(functors[l]) /\ x.do = do /\ c \in Conn
      /\ done[l] + 1 \in DOMAIN functors[l] /\ UNCHANGED functors
  BY CurrentType DEF Inv, Runs
<1>2. est \notin Range(pending[l])
  BY <1>1 DEF Inv, OrderInv
<1>3. InOrder(functors[l]) /\ done[l] \in Nat /\ done'[l] = done[l] + 1
      /\ functors[l] \in Seq(FunctorType)
  BY DEF Inv, OrderInv, TypeOK, Runs
<1>4. ASSUME NEW i \in (done[l] + 1 + 1)..Len(functors[l]), functors[l][i] = est
      PROVE  FALSE
  <2>1. i \in DOMAIN functors[l] /\ ~(i <= done[l] + 1)
    BY <1>3
  <2>2. functors[l][done[l] + 1] = x
    BY DEF Current
  <2>3. est.do = "established" /\ est.conn = c
    BY DEF Functor
  <2> QED BY <1>1, <1>3, <1>4, <2>1, <2>2, <2>3 DEF InOrder
<1>5. NotRun(l)' = Range(pending[l])
                   \cup {functors[l][i] : i \in (done[l] + 1 + 1)..Len(functors[l])}
  BY <1>1, <1>3 DEF NotRun
<1> QED BY <1>2, <1>4, <1>5

LEMMA HolderInvStep == Inv /\ [Next]_vars => HolderInv'
<1> SUFFICES ASSUME Inv, [Next]_vars PROVE HolderInv'
  OBVIOUS
<1>0. TypeOK /\ LoopInv /\ FreshInv /\ PlaceInv /\ OrderInv /\ HolderInv
  BY DEF Inv
<1> USE LoopFacts, FunctorTypes
<1> DEFINE Est(c) == Functor("established", c)
           Rem(c) == Functor("remove", c)
           Des(c) == Functor("destroyed", c)
           \* Connection d, in loop k before and after the step, is held after it.
           Held(d, k) == /\ pc'[k] # "exited"
                         /\ channel'[d].index # "kNew" \/ Est(d) \in NotRun(k)'
                         => \/ d \in connections'
                            \/ Rem(d) \in NotRun(0)' \/ Des(d) \in NotRun(k)'
<1>a. ASSUME \A k \in Loops, d \in Conn : ioLoop'[d] = k => Held(d, k)
      PROVE  HolderInv'
  BY <1>a DEF HolderInv, OnItsWayOut
<1>b. \A c, d \in Conn : /\ Est(c) # Rem(d) /\ Est(c) # Des(d) /\ Rem(c) # Des(d)
                         /\ c # d => Est(c) # Est(d) /\ Rem(c) # Rem(d) /\ Des(c) # Des(d)
                         /\ Est(c).do = "established" /\ Est(c).conn = c
                         /\ Rem(c).do = "remove" /\ Rem(c).conn = c
                         /\ Des(c).do = "destroyed" /\ Des(c).conn = c
                         /\ Est(c) \in FunctorType /\ Rem(c) \in FunctorType
                         /\ Des(c) \in FunctorType
  BY DEF Functor
<1>c. \A f \in FunctorType : f.do # "listen" => f.conn \in Conn /\ f = Functor(f.do, f.conn)
  BY DEF Functor, FunctorType
<1> HIDE DEF Est, Rem, Des
\* A connection the step does nothing to stays held.
<1>d. ASSUME NEW k \in Loops, NEW d \in Conn, ioLoop[d] = k,
             pc'[k] # "exited" => pc[k] # "exited",
             channel'[d].index # "kNew" =>
               channel[d].index # "kNew" \/ Est(d) \in NotRun(k),
             Est(d) \in NotRun(k)' => Est(d) \in NotRun(k),
             d \in connections => d \in connections' \/ Des(d) \in NotRun(k)',
             Rem(d) \in NotRun(0) => Rem(d) \in NotRun(0)' \/ Des(d) \in NotRun(k)',
             Des(d) \in NotRun(k) => Des(d) \in NotRun(k)'
      PROVE  Held(d, k)
  <2>1. \/ ~(/\ pc[k] # "exited"
             /\ channel[d].index # "kNew" \/ Est(d) \in NotRun(k))
        \/ d \in connections \/ Rem(d) \in NotRun(0) \/ Des(d) \in NotRun(k)
    BY <1>0, <1>d DEF HolderInv, OnItsWayOut, Est, Rem, Des
  <2> QED BY <1>d, <2>1
<1>e. ASSUME \A k \in Loops : pc'[k] # "exited" => pc[k] # "exited",
             \A k \in Loops : NotRun(k)' = NotRun(k),
             UNCHANGED <<channel, ioLoop>>, connections \subseteq connections'
      PROVE  HolderInv'
  <2> SUFFICES ASSUME NEW k \in Loops, NEW d \in Conn, ioLoop[d] = k PROVE Held(d, k)
    BY <1>a, <1>e
  <2> HIDE DEF Held
  <2> QED BY <1>d, <1>e
<1> HIDE DEF Held
<1>1. CASE UNCHANGED <<pending, functors, done, pc, channel, ioLoop, connections>>
  BY <1>e, <1>1, NotRunSame
<1>2. CASE EnterLoop
  <2>1. \A k \in Loops : pc'[k] # "exited" => pc[k] # "exited"
    BY <1>0, <1>2 DEF EnterLoop, At, Goto, TypeOK
  <2> QED BY <1>e, <1>2, <2>1, NotRunSame DEF EnterLoop, clientVars, connVars
<1>3. CASE Start
  <2>1. \A k \in Loops : pc'[k] # "exited" => pc[k] # "exited"
    BY <1>0, <1>3 DEF Start, LoopInv, TypeOK
  <2>2. UNCHANGED <<functors, done, channel, ioLoop, connections>>
        /\ (Queue(0, Functor("listen", NoConn)) \/ UNCHANGED pending)
    BY <1>3 DEF Start, clientVars, connVars
  <2>3. CASE UNCHANGED pending
    BY <1>e, <2>1, <2>2, <2>3, NotRunSame
  <2>4. CASE Queue(0, Functor("listen", NoConn))
    <3> DEFINE x == Functor("listen", NoConn)
    <3>1. \A k \in Loops : NotRun(k)' = NotRun(k) \/ NotRun(k)' = NotRun(k) \cup {x}
      BY <1>0, <2>2, <2>4, NotRunQueue
    <3>2. \A d \in Conn : x # Est(d)
      BY DEF Functor, Est
    <3> SUFFICES ASSUME NEW k \in Loops, NEW d \in Conn, ioLoop[d] = k PROVE Held(d, k)
      BY <1>a, <2>2
    <3> HIDE DEF x
    <3> QED BY <1>d, <2>1, <2>2, <3>1, <3>2
  <2> QED BY <2>2, <2>3, <2>4
<1>4. ASSUME NEW l \in Loops, Poll(l) PROVE HolderInv'
  <2>1. \A k \in Loops : pc'[k] # "exited" => pc[k] # "exited"
    BY <1>0, <1>4 DEF Poll, At, Goto, TypeOK
  <2> QED BY <1>e, <1>4, <2>1, NotRunSame DEF Poll, clientVars, connVars
<1>5. ASSUME NEW l \in Loops, TakeFunctors(l) PROVE HolderInv'
  <2>1. \A k \in Loops : pc'[k] # "exited" => pc[k] # "exited"
    BY <1>0, <1>5 DEF TakeFunctors, At, Goto, TypeOK
  <2> QED BY <1>0, <1>e, <1>5, <2>1, NotRunTake DEF TakeFunctors, clientVars, connVars
<1>6. ASSUME NEW l \in Loops, FinishFunctors(l) PROVE HolderInv'
  <2>1. \A k \in Loops : pc'[k] # "exited" => pc[k] # "exited"
    BY <1>0, <1>6 DEF FinishFunctors, At, Goto, TypeOK
  <2> QED BY <1>0, <1>e, <1>6, <2>1, NotRunFinish DEF FinishFunctors, clientVars, connVars
<1>7. ASSUME NEW l \in Loops, ExitLoop(l) PROVE HolderInv'
  <2>1. /\ pc'[l] = "exited" /\ \A k \in Loops : k # l => pc'[k] = pc[k]
        /\ UNCHANGED <<functors, done, channel, ioLoop, connections>>
        /\ \A k \in Loops : k # l \/ l = 0 => pending'[k] = pending[k]
    BY <1>0, <1>7 DEF ExitLoop, Goto, TypeOK, clientVars, connVars
  <2>2. \A k \in Loops : k # l \/ l = 0 => NotRun(k)' = NotRun(k)
    BY <2>1 DEF NotRun
  <2> SUFFICES ASSUME NEW k \in Loops, NEW d \in Conn, ioLoop[d] = k PROVE Held(d, k)
    BY <1>a, <2>1
  <2>3. CASE k = l
    BY <2>1, <2>3 DEF Held
  <2>4. CASE k # l
    BY <1>d, <2>1, <2>2, <2>4
  <2> QED BY <2>3, <2>4
\* A removal, or connectDestroyed, of c is queued.
<1>8. ASSUME NEW c \in Conn, NEW l \in Loops, NEW x \in {Rem(c), Des(c)}, Queue(l, x),
             UNCHANGED <<functors, done, pc, ioLoop>>,
             \A d \in Conn : channel'[d].index # "kNew" => channel[d].index # "kNew",
             \/ connections \subseteq connections'
             \/ connections' = connections \ {c} /\ x = Des(c) /\ l = ioLoop[c]
      PROVE  HolderInv'
  <2>1. /\ NotRun(l)' = NotRun(l) \cup {x} /\ \A k \in Loops : k # l => NotRun(k)' = NotRun(k)
    BY <1>0, <1>8, <1>b, NotRunQueue
  <2> SUFFICES ASSUME NEW k \in Loops, NEW d \in Conn, ioLoop[d] = k PROVE Held(d, k)
    BY <1>a, <1>8
  <2>2. /\ NotRun(k) \subseteq NotRun(k)' /\ NotRun(0) \subseteq NotRun(0)'
        /\ Est(d) \in NotRun(k)' => Est(d) \in NotRun(k)
    BY <1>8, <1>b, <2>1
  <2>3. d \in connections => d \in connections' \/ Des(d) \in NotRun(k)'
    BY <1>8, <2>1
  <2> QED BY <1>d, <1>8, <2>2, <2>3
<1>9. ASSUME NEW c \in Conn, DestroyConnection(c) PROVE HolderInv'
  <2>1. /\ UNCHANGED <<functors, done, pc, ioLoop>> /\ ioLoop[c] \in Loops /\ pc[0] = "exited"
        /\ connections' = connections \ {c}
    BY <1>0, <1>9 DEF DestroyConnection, LoopInv, TypeOK, threadVars, clientVars
  <2>2. CASE ioLoop[c] = 0
    <3>1. \A d \in Conn : d # c => channel'[d] = channel[d]
      BY <1>0, <1>9, <2>2, DestroyedChannel DEF DestroyConnection
    <3>2. \A k \in Loops : NotRun(k)' = NotRun(k)
      BY <1>9, <2>1, <2>2, NotRunSame DEF DestroyConnection
    <3> SUFFICES ASSUME NEW k \in Loops, NEW d \in Conn, ioLoop[d] = k PROVE Held(d, k)
      BY <1>a, <2>1
    <3>3. CASE d = c
      BY <2>1, <2>2, <3>3 DEF Held
    <3>4. CASE d # c
      BY <1>d, <2>1, <3>1, <3>2, <3>4
    <3> QED BY <3>3, <3>4
  <2>3. CASE ioLoop[c] # 0
    <3>1. Queue(ioLoop[c], Des(c)) /\ UNCHANGED channel
      BY <1>9, <2>3 DEF DestroyConnection, Des, connVars
    <3> QED BY <1>8, <2>1, <3>1
  <2> QED BY <2>2, <2>3
<1>10. ASSUME NEW l \in Loops, NEW c \in Conn, HandleClose(l, c) PROVE HolderInv'
  <2>1. /\ UNCHANGED <<functors, done, pc, ioLoop>> /\ c \in active[l] \ {Acceptor}
    BY <1>10 DEF HandleClose, Handled, clientVars
  <2>2. ioLoop[c] = l /\ channel[c].index # "kNew"
    BY <1>0, <2>1 DEF PlaceInv
  <2>3. \A d \in Conn : channel'[d].index # "kNew" => channel[d].index # "kNew"
    BY <1>0, <1>10, <2>2, ClosedChannel
  <2>4. CASE l = 0
    <3>1. Queue(l, Des(c)) /\ connections' = connections \ {c}
      BY <1>10, <2>2, <2>4 DEF HandleClose, RemoveConnectionInLoop, Des
    <3> QED BY <1>8, <2>1, <2>2, <2>3, <3>1
  <2>5. CASE l # 0
    <3>1. Queue(0, Rem(c)) /\ UNCHANGED connections
      BY <1>10, <2>5 DEF HandleClose, Rem
    <3> QED BY <1>8, <2>1, <2>3, <3>1
  <2> QED BY <2>4, <2>5
<1>11. ASSUME NEW c \in Conn, NEW f \in Fd, NewConnection(c, f) PROVE HolderInv'
  <2>1. /\ UNCHANGED <<functors, done, pc>> /\ connections' = connections \cup {c}
        /\ \A d \in Conn : d # c => ioLoop'[d] = ioLoop[d]
        /\ NextLoop \in Loops
    BY <1>0, <1>11 DEF NewConnection, Handled, NextLoop, TypeOK, Loops
  <2>2. \A d \in Conn : d # c => channel'[d] = channel[d]
    BY <1>0, <1>11, EstablishedChannel DEF NewConnection, connVars
  <2>3. \A k \in Loops : NotRun(k)' = NotRun(k) \/ NotRun(k)' = NotRun(k) \cup {Est(c)}
    <3>1. CASE UNCHANGED pending
      BY <2>1, <3>1, NotRunSame
    <3>2. CASE Queue(NextLoop, Est(c))
      BY <1>0, <1>b, <2>1, <3>2, NotRunQueue
    <3> QED BY <1>11, <3>1, <3>2 DEF NewConnection, Est
  <2> SUFFICES ASSUME NEW k \in Loops, NEW d \in Conn, ioLoop'[d] = k PROVE Held(d, k)
    BY <1>a
  <2>4. CASE d = c
    BY <2>1, <2>4 DEF Held
  <2>5. CASE d # c
    <3>1. /\ NotRun(k) \subseteq NotRun(k)' /\ NotRun(0) \subseteq NotRun(0)'
          /\ Est(d) \in NotRun(k)' => Est(d) \in NotRun(k)
      BY <1>b, <2>3, <2>5
    <3> QED BY <1>d, <2>1, <2>2, <2>5, <3>1
  <2> QED BY <2>4, <2>5
<1>12. ASSUME NEW l \in Loops, RunListen(l) \/ RunEstablished(l) PROVE HolderInv'
  <2> DEFINE x == Current(l)
  <2>1. PICK do \in {"listen", "established"} : Runs(l, do)
    BY <1>12 DEF RunListen, RunEstablished
  <2>2. /\ UNCHANGED <<pending, functors, pc, ioLoop, connections>>
        /\ x \in Range(functors[l]) /\ x.do \in {"listen", "established"} /\ x \in NotRun(l)
        /\ x \in FunctorType /\ (x.do = "established" => x.conn \in Conn)
    BY <1>0, <1>12, <2>1, CurrentType, NotRunRuns DEF RunListen, RunEstablished, Runs, clientVars
  <2>3. \A k \in Loops : /\ NotRun(k)' \subseteq NotRun(k)
                         /\ NotRun(k) \subseteq NotRun(k)' \cup {x}
    <3>1. {} \in SUBSET FunctorType /\ \A k \in Loops : Range(pending[k]) \subseteq Range(pending'[k])
                                                 /\ Range(pending'[k]) \subseteq Range(pending[k]) \cup {}
      BY <2>2
    <3> QED BY <1>0, <2>1, <3>1, NotRunRuns
  <2>4. \A d \in Conn : x # Rem(d) /\ x # Des(d)
    BY <1>b, <2>2
  <2>5. ASSUME NEW d \in Conn, channel'[d].index # "kNew"
        PROVE  channel[d].index # "kNew" \/ Est(d) \in NotRun(ioLoop[d])
    <3>1. CASE RunListen(l)
      BY <2>5, <3>1 DEF RunListen, connVars
    <3>2. CASE RunEstablished(l)
      <4>1. x.do = "established" /\ x.conn \in Conn
        BY <2>2, <3>2 DEF RunEstablished, Runs
      <4>2. x = Est(x.conn)
        BY <1>c, <2>2, <4>1 DEF Est
      <4>3. ioLoop[x.conn] = l
        BY <1>0, <2>2, <4>1 DEF PlaceInv
      <4>4. d # x.conn => channel'[d] = channel[d]
        BY <1>0, <3>2, <4>1, EstablishedChannel DEF RunEstablished
      <4> HIDE DEF x
      <4> QED BY <2>2, <2>5, <4>2, <4>3, <4>4
    <3> QED BY <1>12, <3>1, <3>2
  <2> HIDE DEF x
  <2> SUFFICES ASSUME NEW k \in Loops, NEW d \in Conn, ioLoop[d] = k PROVE Held(d, k)
    BY <1>a, <2>2
  <2> QED BY <1>d, <2>2, <2>3, <2>4, <2>5
<1>13. ASSUME NEW l \in Loops, RunRemove(l) PROVE HolderInv'
  <2> DEFINE x == Current(l)
             c == x.conn
  <2>1. Runs(l, "remove") /\ x \in Range(functors[l]) /\ x.do = "remove" /\ c \in Conn
        /\ x \in FunctorType
    BY <1>0, <1>13, CurrentType DEF RunRemove
  <2>2. x = Rem(c) /\ ioLoop[c] \in Loops
    BY <1>c, <1>0, <2>1 DEF Rem, TypeOK
  <2>3. /\ connections' = connections \ {c} /\ Queue(ioLoop[c], Des(c))
        /\ UNCHANGED <<pc, channel, ioLoop>>
    BY <1>13 DEF RunRemove, RemoveConnectionInLoop, Runs, clientVars, connVars, Des
  <2> HIDE DEF c
  <2>4. /\ Range(pending'[ioLoop[c]]) = Range(pending[ioLoop[c]]) \cup {Des(c)}
        /\ \A k \in Loops : k # ioLoop[c] => pending'[k] = pending[k]
    BY <1>0, <1>b, <2>1, <2>2, <2>3, QueueRange
  <2>5. \A k \in Loops : /\ Range(pending[k]) \subseteq Range(pending'[k])
                         /\ Range(pending'[k]) \subseteq Range(pending[k]) \cup {Des(c)}
    BY <2>4
  <2>6. {Des(c)} \in SUBSET FunctorType
    BY <1>b, <2>1
  <2>7. \A k \in Loops : /\ NotRun(k) \subseteq NotRun(k)' \cup {x}
                         /\ NotRun(k)' \subseteq NotRun(k) \cup {Des(c)}
    <3>1. \A k \in Loops : NotRun(k) \subseteq NotRun(k)' \cup {y \in {Current(l)} : k = l}
      BY <1>0, <2>1, <2>5, NotRunRuns
    <3>2. \A k \in Loops, S \in SUBSET FunctorType :
            Range(pending'[k]) \subseteq Range(pending[k]) \cup S => NotRun(k)' \subseteq NotRun(k) \cup S
      BY <1>0, <2>1, NotRunRuns
    <3>3. \A k \in Loops : NotRun(k)' \subseteq NotRun(k) \cup {Des(c)}
      <4> DEFINE S == {Des(c)}
      <4>1. S \in SUBSET FunctorType /\ \A k \in Loops : Range(pending'[k]) \subseteq Range(pending[k]) \cup S
        BY <2>5, <2>6
      <4> HIDE DEF S
      <4>2. \A k \in Loops : NotRun(k)' \subseteq NotRun(k) \cup S
        BY <3>2, <4>1
      <4> QED BY <4>2 DEF S
    <3> QED BY <3>1, <3>3
  <2>8. \A k \in Loops : k = ioLoop[c] => Des(c) \in NotRun(k)'
    <3>1. \A k \in Loops : Range(pending'[k]) \subseteq NotRun(k)'
      BY DEF NotRun
    <3> QED BY <2>4, <3>1
  <2> HIDE DEF x
  <2> SUFFICES ASSUME NEW k \in Loops, NEW d \in Conn, ioLoop[d] = k PROVE Held(d, k)
    BY <1>a, <2>3
  <2>9. CASE d = c
    <3>1. Des(d) \in NotRun(k)'
      BY <2>8, <2>9
    <3> QED BY <3>1 DEF Held
  <2>10. CASE d # c
    <3>1. Des(d) \in NotRun(k) => Des(d) \in NotRun(k)'
      BY <1>b, <2>1, <2>2, <2>7
    <3>2. Rem(d) \in NotRun(0) => Rem(d) \in NotRun(0)'
      BY <1>b, <2>1, <2>2, <2>7, <2>10
    <3>3. Est(d) \in NotRun(k)' => Est(d) \in NotRun(k)
      BY <1>b, <2>1, <2>7
    <3> QED BY <1>d, <2>3, <2>10, <3>1, <3>2, <3>3
  <2> QED BY <2>9, <2>10
\* connectDestroyed runs: by the order, connectEstablished has run before.
<1>14. ASSUME NEW l \in Loops, RunDestroyed(l) PROVE HolderInv'
  <2> DEFINE x == Current(l)
             c == x.conn
  <2>1. /\ Runs(l, "destroyed") /\ x \in Range(functors[l]) /\ x.do = "destroyed" /\ c \in Conn
        /\ x \in FunctorType /\ done[l] + 1 \in DOMAIN functors[l]
        /\ UNCHANGED <<pending, functors, pc, ioLoop, connections>>
    BY <1>0, <1>14, CurrentType DEF RunDestroyed, Runs, clientVars
  <2>2. x = Des(c) /\ ioLoop[c] = l
    BY <1>c, <1>0, <2>1 DEF Des, PlaceInv
  <2>3. /\ channel'[c].index = "kNew" /\ \A d \in Conn : d # c => channel'[d] = channel[d]
    BY <1>0, <1>14, <2>1, DestroyedChannel DEF RunDestroyed
  <2>4. Est(c) \notin NotRun(l)'
    BY <2>1, NotAgain DEF Est
  <2>5. \A k \in Loops : /\ NotRun(k)' \subseteq NotRun(k)
                         /\ NotRun(k) \subseteq NotRun(k)' \cup {x}
    <3>1. {} \in SUBSET FunctorType /\ \A k \in Loops : Range(pending[k]) \subseteq Range(pending'[k])
                                                 /\ Range(pending'[k]) \subseteq Range(pending[k]) \cup {}
      BY <2>1
    <3> QED BY <1>0, <2>1, <3>1, NotRunRuns
  <2> HIDE DEF x, c
  <2> SUFFICES ASSUME NEW k \in Loops, NEW d \in Conn, ioLoop[d] = k PROVE Held(d, k)
    BY <1>a, <2>1
  <2>6. CASE d = c
    <3>1. k = l
      BY <2>2, <2>6
    <3> QED BY <2>3, <2>4, <2>6, <3>1 DEF Held
  <2>7. CASE d # c
    <3>1. /\ Des(d) \in NotRun(k) => Des(d) \in NotRun(k)'
          /\ Rem(d) \in NotRun(0) => Rem(d) \in NotRun(0)'
          /\ Est(d) \in NotRun(k)' => Est(d) \in NotRun(k)
      BY <1>b, <2>1, <2>2, <2>5, <2>7
    <3> QED BY <1>d, <2>1, <2>3, <2>7, <3>1
  <2> QED BY <2>6, <2>7
<1> QED
  BY <1>1, <1>2, <1>3, <1>4, <1>5, <1>6, <1>7, <1>9, <1>10, <1>11, <1>12, <1>13, <1>14
  DEF Next, Environment, ThreadStep, LoopStep, Accepting, Destructor, vars, threadVars,
      clientVars, connVars, QuitBase, Destroy, QuitLoop, DestroyAcceptor, Connect, HangUp,
      Shutdown, UserDrops, AcceptFails, HandleRead, Handled

-----------------------------------------------------------------------------
(* What user code has been told *)

LEMMA NotRunTypes ==
  ASSUME TypeOK, NEW k \in Loops, NEW x \in NotRun(k)
  PROVE  x \in FunctorType /\ (x.do # "listen" => x.conn \in Conn)
<1>1. x \in Range(pending[k]) \cup Range(functors[k])
  BY NotRunWaits
<1>2. pending[k] \in Seq(FunctorType) /\ functors[k] \in Seq(FunctorType)
  BY DEF TypeOK
<1>3. x \in FunctorType
  BY <1>1, <1>2 DEF Range
<1> QED BY <1>3 DEF FunctorType

LEMMA NotRunExit ==
  ASSUME TypeOK, NEW l \in Loops, ExitLoop(l)
  PROVE  \A k \in Loops : NotRun(k)' \subseteq NotRun(k)
<1>1. /\ \A k \in Loops : pending'[k] = pending[k] \/ pending'[k] = <<>>
      /\ UNCHANGED <<functors, done>>
  BY DEF ExitLoop, TypeOK
<1>2. Range(<<>>) = {}
  BY DEF Range
<1> QED BY <1>1, <1>2 DEF NotRun

\* Functors that need nothing of what user code was told.
Others == {x \in FunctorType : x.do \in {"listen", "destroyed"}}

\* A functor that runs queues at most one of them.
LEMMA NotRunOthers ==
  ASSUME TypeOK, NEW l \in Loops, NEW do, Runs(l, do), NEW k \in Loops,
         NEW x \in Others, Queue(k, x) \/ UNCHANGED pending
  PROVE  \A j \in Loops : NotRun(j)' \subseteq NotRun(j) \cup Others
<1>1. Others \in SUBSET FunctorType
  BY DEF Others
<1>2. \A j \in Loops : Range(pending'[j]) \subseteq Range(pending[j]) \cup Others
  BY <1>1, QueueRange
<1> HIDE DEF Others
<1> QED BY <1>1, <1>2, NotRunRuns

\* A connection not accepted has no functor; one to be established is not up.
LEMMA Unseen ==
  ASSUME Inv, NEW c \in Conn, fd[c] = NoFd
  PROVE  /\ told[c] = "nothing"
         /\ \A k \in Loops : \A x \in NotRun(k) : x.do # "listen" => x.conn # c
         /\ \A k \in Loops : c \notin active[k] \ {Acceptor}
<1>1. told[c] = "nothing"
  BY DEF Inv, ToldInv
<1>2. \A k \in Loops : \A x \in NotRun(k) : x.do # "listen" => x.conn # c
  BY NotRunWaits DEF Inv, PlaceInv
<1>3. \A k \in Loops : c \notin active[k] \ {Acceptor}
  BY DEF Inv, PlaceInv, FreshInv
<1> QED BY <1>1, <1>2, <1>3

LEMMA ToldInvStep == Inv /\ [Next]_vars => ToldInv'
<1> SUFFICES ASSUME Inv, [Next]_vars PROVE ToldInv'
  OBVIOUS
<1>0. TypeOK /\ LoopInv /\ FreshInv /\ PlaceInv /\ ToldInv
  BY DEF Inv
<1> USE LoopFacts, FunctorTypes
<1> DEFINE Agrees(c) == /\ told[c] = "nothing" <=> state[c] = "kConnecting"
                        /\ state[c] = "kConnected" => told[c] = "up"
                        /\ state[c] = "kDisconnected" => told[c] = "down"
                        /\ c \in closing => told[c] # "nothing"
                        /\ fd[c] = NoFd => told[c] = "nothing"
                        /\ channel[c].registered => told[c] = "up"
           Waits == \A k \in Loops : \A x \in NotRun(k) :
                      /\ x.do = "established" => told[x.conn] = "nothing"
                      /\ x.do = "remove" => told[x.conn] = "down"
           Watched == \A k \in Loops : \A c \in active[k] \ {Acceptor} : channel[c].registered
<1>a. (\A c \in Conn : Agrees(c)) /\ Waits /\ Watched
  BY <1>0 DEF ToldInv
<1>b. (\A c \in Conn : Agrees(c)') /\ Waits' /\ Watched' => ToldInv'
  BY DEF ToldInv
<1> HIDE DEF Waits, Watched
<1>c. ASSUME UNCHANGED <<state, told, fd, channel>>, closing' \subseteq closing
      PROVE  \A c \in Conn : Agrees(c)'
  BY <1>a, <1>c
<1>d. ASSUME UNCHANGED told, \A k \in Loops : NotRun(k)' \subseteq NotRun(k) \cup Others
      PROVE  Waits'
  <2>1. \A x \in Others : x.do # "established" /\ x.do # "remove"
    BY DEF Others
  <2> QED BY <1>a, <1>d, <2>1 DEF Waits
<1>e. ASSUME UNCHANGED channel, \A k \in Loops : active'[k] \subseteq active[k]
      PROVE  Watched'
  BY <1>a, <1>e DEF Watched
\* User code is told of c alone.
<1>f. ASSUME NEW c \in Conn, \A d \in Conn : d # c => told'[d] = told[d],
             \A k \in Loops : \A x \in NotRun(k)' :
               \/ x \in Others \/ (x \in NotRun(k) /\ x.conn # c)
               \/ x.conn = c /\ x.do = "remove" /\ told'[c] = "down"
      PROVE  Waits'
  <2> SUFFICES ASSUME NEW k \in Loops, NEW x \in NotRun(k)'
               PROVE  /\ x.do = "established" => told'[x.conn] = "nothing"
                      /\ x.do = "remove" => told'[x.conn] = "down"
    BY DEF Waits
  <2>1. CASE x \in Others
    BY <2>1 DEF Others
  <2>2. CASE x \in NotRun(k) /\ x.conn # c
    <3>1. x.do # "listen" => told'[x.conn] = told[x.conn]
      BY <1>0, <1>f, <2>2, NotRunTypes
    <3> QED BY <1>a, <2>2, <3>1 DEF Waits
  <2>3. CASE x.conn = c /\ x.do = "remove" /\ told'[c] = "down"
    BY <2>3
  <2> QED BY <1>f, <2>1, <2>2, <2>3
<1>1. ASSUME UNCHANGED <<state, told, closing, fd, channel, active, pending, functors, done>>
      PROVE  ToldInv'
  <2>1. \A k \in Loops : NotRun(k)' \subseteq NotRun(k) \cup Others
    BY <1>1, NotRunSame
  <2> QED BY <1>b, <1>c, <1>d, <1>e, <1>1, <2>1
<1>2. ASSUME NEW l \in Loops, ExitLoop(l) \/ TakeFunctors(l) \/ FinishFunctors(l)
      PROVE  ToldInv'
  <2>1. UNCHANGED <<state, told, closing, fd, channel, active>>
    BY <1>2 DEF ExitLoop, TakeFunctors, FinishFunctors, clientVars, connVars
  <2>2. \A k \in Loops : NotRun(k)' \subseteq NotRun(k)
    BY <1>0, <1>2, NotRunExit, NotRunTake, NotRunFinish
  <2> QED BY <1>b, <1>c, <1>d, <1>e, <2>1, <2>2
<1>3. CASE Start
  <2>1. UNCHANGED <<state, told, closing, fd, channel, active, functors, done>>
    BY <1>3 DEF Start, clientVars, connVars
  <2>2. Functor("listen", NoConn) \in Others
    BY DEF Others, Functor
  <2>3. \A k \in Loops : NotRun(k)' \subseteq NotRun(k) \cup Others
    <3>1. CASE UNCHANGED pending
      BY <2>1, <3>1, NotRunSame
    <3>2. CASE Queue(0, Functor("listen", NoConn))
      BY <1>0, <2>1, <2>2, <3>2, NotRunQueue
    <3> QED BY <1>3, <3>1, <3>2 DEF Start
  <2> QED BY <1>b, <1>c, <1>d, <1>e, <2>1, <2>3
<1>4. ASSUME NEW l \in Loops, Poll(l) PROVE ToldInv'
  <2>1. UNCHANGED <<state, told, closing, fd, channel, pending, functors, done>>
    BY <1>4 DEF Poll, clientVars, connVars
  <2>2. \A k \in Loops : NotRun(k)' \subseteq NotRun(k) \cup Others
    BY <2>1, NotRunSame
  <2>3. active'[l] \subseteq Ready(l) /\ \A k \in Loops : k # l => active'[k] = active[k]
    BY <1>0, <1>4 DEF Poll, TypeOK
  <2>4. \A c \in Ready(l) \ {Acceptor} : channel[c].registered
    BY DEF Ready
  <2>5. Watched'
    BY <1>a, <2>1, <2>3, <2>4 DEF Watched
  <2> QED BY <1>b, <1>c, <1>d, <2>1, <2>2, <2>5
<1>5. ASSUME NEW l \in Loops, RunListen(l) \/ RunRemove(l) PROVE ToldInv'
  <2>1. UNCHANGED <<state, told, closing, fd, channel, active>>
    BY <1>5 DEF RunListen, RunRemove, Runs, clientVars, connVars
  <2>2. CASE RunListen(l)
    <3>1. Functor("listen", NoConn) \in Others
      BY DEF Others, Functor
    <3>2. \A k \in Loops : NotRun(k)' \subseteq NotRun(k) \cup Others
      BY <1>0, <2>2, <3>1, NotRunOthers DEF RunListen
    <3> QED BY <1>b, <1>c, <1>d, <1>e, <2>1, <3>2
  <2>3. CASE RunRemove(l)
    <3> DEFINE c == Current(l).conn
    <3>1. Runs(l, "remove") /\ c \in Conn /\ ioLoop[c] \in Loops
          /\ Queue(ioLoop[c], Functor("destroyed", c))
      BY <1>0, <2>3, CurrentType DEF RunRemove, RemoveConnectionInLoop, TypeOK
    <3> HIDE DEF c
    <3>2. Functor("destroyed", c) \in Others
      BY <3>1 DEF Others, Functor
    <3>3. \A k \in Loops : NotRun(k)' \subseteq NotRun(k) \cup Others
      BY <1>0, <3>1, <3>2, NotRunOthers
    <3> QED BY <1>b, <1>c, <1>d, <1>e, <2>1, <3>3
  <2> QED BY <1>5, <2>2, <2>3
<1>6. ASSUME NEW c \in Conn, Shutdown(c) PROVE ToldInv'
  <2>1. UNCHANGED <<told, fd, channel, active, pending, functors, done>>
    BY <1>6 DEF Shutdown, clientVars, threadVars
  <2>2. /\ told[c] # "nothing" /\ closing' \subseteq closing \cup {c}
        /\ UNCHANGED state \/ state' = [state EXCEPT ![c] = "kDisconnecting"]
    BY <1>a, <1>0, <1>6 DEF Shutdown, OwnerInv
  <2>3. /\ UNCHANGED state \/ state'[c] = "kDisconnecting"
        /\ \A d \in Conn : d # c => state'[d] = state[d]
    BY <1>0, <2>2 DEF TypeOK
  <2>4. \A d \in Conn : Agrees(d)'
    BY <1>a, <2>1, <2>2, <2>3
  <2>5. \A k \in Loops : NotRun(k)' \subseteq NotRun(k) \cup Others
    BY <2>1, NotRunSame
  <2> QED BY <1>b, <1>d, <1>e, <2>1, <2>4, <2>5
\* connectEstablished of c.
<1>7. ASSUME NEW c \in Conn, NEW l, NEW f, ConnectEstablished(c, l, f), fd'[c] # NoFd,
             \A d \in Conn : d # c => fd'[d] = fd[d], told[c] = "nothing",
             \A k \in Loops : active'[k] \subseteq active[k]
      PROVE  (\A d \in Conn : Agrees(d)') /\ Watched'
  <2>1. /\ told'[c] = "up" /\ state'[c] = "kConnected" /\ UNCHANGED closing
        /\ \A d \in Conn : d # c => told'[d] = told[d] /\ state'[d] = state[d]
    BY <1>0, <1>7 DEF ConnectEstablished, TypeOK
  <2>2. \A d \in Conn : d # c => channel'[d] = channel[d]
    BY <1>0, <1>7, EstablishedChannel
  <2>3. ASSUME NEW d \in Conn PROVE Agrees(d)'
    <3>1. CASE d = c
      BY <1>7, <2>1, <3>1
    <3>2. CASE d # c
      BY <1>a, <1>7, <2>1, <2>2, <3>2
    <3> QED BY <3>1, <3>2
  <2>4. ASSUME NEW k \in Loops, NEW d \in active'[k] \ {Acceptor}
        PROVE  channel'[d].registered
    <3>1. d \in active[k] \ {Acceptor} /\ d \in Conn /\ channel[d].registered
      BY <1>a, <1>0, <1>7, <2>4 DEF Watched, TypeOK
    <3>2. d # c
      BY <1>a, <1>7, <3>1
    <3> QED BY <2>2, <3>1, <3>2
  <2> QED BY <2>3, <2>4 DEF Watched
\* connectDestroyed of c.
<1>8. ASSUME NEW c \in Conn, ConnectDestroyed(c), UNCHANGED <<fd, active>>, fd[c] # NoFd,
             active[ioLoop[c]] = {},
             \A k \in Loops : NotRun(k)' \subseteq NotRun(k)
      PROVE  ToldInv'
  <2>1. /\ channel[c].registered => channel[c].index = "kAdded"
        /\ ioLoop[c] \in Loops
    BY <1>0 DEF FreshInv, TypeOK
  <2>2. ~channel'[c].registered /\ \A d \in Conn : d # c => channel'[d] = channel[d]
    BY <1>0, <1>8, <2>1, DestroyedChannel
  <2>3. \/ /\ told[c] = "up" /\ told' = [told EXCEPT ![c] = "down"]
           /\ state' = [state EXCEPT ![c] = "kDisconnected"]
        \/ UNCHANGED <<told, state>>
    BY <1>a, <1>0, <1>8 DEF ConnectDestroyed, TypeOK
  <2>c. closing' \subseteq closing
    BY <1>8 DEF ConnectDestroyed
  <2>4. ASSUME NEW k \in Loops, NEW d \in active'[k] \ {Acceptor}
        PROVE  channel'[d].registered
    <3>1. d \in active[k] \ {Acceptor} /\ d \in Conn /\ channel[d].registered /\ ioLoop[d] = k
      BY <1>a, <1>0, <1>8, <2>4 DEF Watched, TypeOK, PlaceInv
    <3>2. d # c
      BY <1>8, <3>1
    <3> QED BY <2>2, <3>1, <3>2
  <2>5. Watched'
    BY <2>4 DEF Watched
  <2>6. CASE UNCHANGED <<told, state>>
    <3>1. \A d \in Conn : Agrees(d)'
      BY <1>a, <1>8, <2>2, <2>c, <2>6
    <3> QED BY <1>b, <1>d, <1>8, <2>5, <2>6, <3>1
  <2>7. CASE /\ told[c] = "up" /\ told' = [told EXCEPT ![c] = "down"]
             /\ state' = [state EXCEPT ![c] = "kDisconnected"]
    <3>1. /\ told'[c] = "down" /\ state'[c] = "kDisconnected"
          /\ \A d \in Conn : d # c => told'[d] = told[d] /\ state'[d] = state[d]
      BY <1>0, <2>7 DEF TypeOK
    <3>2. ASSUME NEW d \in Conn PROVE Agrees(d)'
      <4>1. CASE d = c
        BY <1>8, <2>2, <3>1, <4>1
      <4>2. CASE d # c
        BY <1>a, <1>8, <2>2, <2>c, <3>1, <4>2
      <4> QED BY <4>1, <4>2
    <3>3. ASSUME NEW k \in Loops, NEW x \in NotRun(k)'
          PROVE  x \in Others \/ (x \in NotRun(k) /\ x.conn # c)
      <4>1. x \in NotRun(k) /\ x \in FunctorType
        BY <1>0, <1>8, <3>3, NotRunTypes
      <4>2. x.conn = c => x.do # "established" /\ x.do # "remove"
        BY <1>a, <2>7, <4>1 DEF Waits
      <4> QED BY <4>1, <4>2 DEF Others, FunctorType
    <3>4. Waits'
      BY <1>f, <3>1, <3>3
    <3> QED BY <1>b, <2>5, <3>2, <3>4
  <2> QED BY <2>3, <2>6, <2>7
<1>9. ASSUME NEW l \in Loops, NEW ch, Handled(l, ch)
      PROVE  (\A k \in Loops : active'[k] \subseteq active[k]) /\ UNCHANGED <<functors, done>>
  BY <1>0, <1>9 DEF Handled, TypeOK
<1>10. CASE AcceptFails \/ \E l \in Loops, c \in Conn : HandleRead(l, c)
  <2>1. UNCHANGED <<state, told, closing, fd, channel, pending>>
    BY <1>10 DEF AcceptFails, HandleRead, clientVars, connVars
  <2>2. (\A k \in Loops : active'[k] \subseteq active[k]) /\ UNCHANGED <<functors, done>>
    BY <1>9, <1>10 DEF AcceptFails, HandleRead
  <2>3. \A k \in Loops : NotRun(k)' \subseteq NotRun(k) \cup Others
    BY <2>1, <2>2, NotRunSame
  <2> QED BY <1>b, <1>c, <1>d, <1>e, <2>1, <2>2, <2>3
<1>11. ASSUME NEW c \in Conn, NEW f \in Fd, NewConnection(c, f) PROVE ToldInv'
  <2>1. /\ fd[c] = NoFd /\ fd'[c] # NoFd /\ NextLoop \in Loops
        /\ \A d \in Conn : d # c => fd'[d] = fd[d]
    BY <1>0, <1>11 DEF NewConnection, NextLoop, FreshInv, TypeOK, Loops
  <2>2. (\A k \in Loops : active'[k] \subseteq active[k]) /\ UNCHANGED <<functors, done>>
    BY <1>9, <1>11 DEF NewConnection
  <2>3. told[c] = "nothing" /\ \A k \in Loops : \A x \in NotRun(k) : x.do # "listen" => x.conn # c
    BY <2>1, Unseen
  <2>4. CASE NextLoop = 0
    <3>1. ConnectEstablished(c, NextLoop, f) /\ UNCHANGED pending
      BY <1>11, <2>4 DEF NewConnection
    <3>2. \A d \in Conn : d # c => told'[d] = told[d]
      BY <1>0, <3>1 DEF ConnectEstablished, TypeOK
    <3>3. \A k \in Loops : \A x \in NotRun(k)' :
            x \in Others \/ (x \in NotRun(k) /\ x.conn # c)
      <4>1. \A k \in Loops : \A x \in NotRun(k) : x.do = "listen" => x \in Others
        BY <1>0, NotRunTypes DEF Others
      <4> QED BY <2>2, <2>3, <3>1, <4>1, NotRunSame
    <3>4. Waits'
      BY <1>f, <3>2, <3>3
    <3>5. (\A d \in Conn : Agrees(d)') /\ Watched'
      BY <1>7, <2>1, <2>2, <2>3, <3>1
    <3> QED BY <1>b, <3>4, <3>5
  <2>5. CASE NextLoop # 0
    <3> DEFINE x == Functor("established", c)
    <3>1. Queue(NextLoop, x) /\ UNCHANGED <<told, state, closing, channel>>
      BY <1>11, <2>5 DEF NewConnection, connVars
    <3>2. x.do = "established" /\ x.conn = c
      BY DEF Functor
    <3>3. \A k \in Loops : NotRun(k)' \subseteq NotRun(k) \cup {x}
      BY <1>0, <2>1, <2>2, <3>1, NotRunQueue
    <3> HIDE DEF x
    <3>4. Waits'
      BY <1>a, <2>3, <3>1, <3>2, <3>3 DEF Waits
    <3>5. \A d \in Conn : Agrees(d)'
      BY <1>a, <2>1, <3>1
    <3> QED BY <1>b, <1>e, <2>2, <3>1, <3>4, <3>5
  <2> QED BY <2>4, <2>5
<1>12. ASSUME NEW l \in Loops, NEW c \in Conn, HandleClose(l, c) PROVE ToldInv'
  <2>1. /\ UNCHANGED <<fd, closing>> /\ c \in active[l] \ {Acceptor}
        /\ told' = [told EXCEPT ![c] = "down"]
        /\ state' = [state EXCEPT ![c] = "kDisconnected"]
    BY <1>12 DEF HandleClose, Handled, clientVars
  <2>2. (\A k \in Loops : active'[k] \subseteq active[k]) /\ UNCHANGED <<functors, done>>
    BY <1>9, <1>12 DEF HandleClose
  <2>3. /\ channel[c].registered /\ channel[c].index = "kAdded" /\ fd[c] # NoFd
        /\ told[c] = "up" /\ ioLoop[c] = l
    BY <1>a, <1>0, <2>1 DEF Watched, FreshInv, PlaceInv
  <2>4. ~channel'[c].registered /\ \A d \in Conn : d # c => channel'[d] = channel[d]
    <3>1. channel[c] \in ChannelType /\ channel'[c] = DisableAll(channel[c])
      BY <1>0, <1>12 DEF HandleClose, TypeOK
    <3> QED BY <1>0, <1>12, <2>3, <3>1, DisableAllClears, ClosedChannel
  <2>5. /\ told'[c] = "down" /\ state'[c] = "kDisconnected"
        /\ \A d \in Conn : d # c => told'[d] = told[d] /\ state'[d] = state[d]
    BY <1>0, <2>1 DEF TypeOK
  <2>6. ASSUME NEW d \in Conn PROVE Agrees(d)'
    <3>1. CASE d = c
      BY <2>1, <2>3, <2>4, <2>5, <3>1
    <3>2. CASE d # c
      BY <1>a, <2>1, <2>4, <2>5, <3>2
    <3> QED BY <3>1, <3>2
  <2>7. ASSUME NEW k \in Loops, NEW d \in active'[k] \ {Acceptor}
        PROVE  channel'[d].registered
    <3>1. d \in active[k] \ {Acceptor} /\ d \in Conn /\ channel[d].registered /\ ioLoop[d] = k
      BY <1>a, <1>0, <2>2, <2>7 DEF Watched, TypeOK, PlaceInv
    <3>2. c \notin active'[l]
      BY <1>0, <1>12 DEF HandleClose, Handled, TypeOK
    <3>3. d # c
      BY <2>3, <2>7, <3>1, <3>2
    <3> QED BY <2>4, <3>1, <3>3
  <2>8. PICK do \in {"remove", "destroyed"}, j \in Loops : Queue(j, Functor(do, c))
    BY <1>0, <1>12 DEF HandleClose, RemoveConnectionInLoop, TypeOK
  <2> DEFINE y == Functor(do, c)
  <2>9. y.conn = c /\ y.do = do /\ y \in FunctorType
    BY <2>8 DEF Functor
  <2>10. \A k \in Loops : NotRun(k)' \subseteq NotRun(k) \cup {y}
    BY <1>0, <2>2, <2>8, <2>9, NotRunQueue
  <2>11. ASSUME NEW k \in Loops, NEW x \in NotRun(k)'
         PROVE  \/ x \in Others \/ (x \in NotRun(k) /\ x.conn # c)
                \/ x.conn = c /\ x.do = "remove" /\ told'[c] = "down"
    <3> HIDE DEF y
    <3>1. CASE x = y
      BY <2>5, <2>8, <2>9, <3>1 DEF Others
    <3>2. CASE x \in NotRun(k)
      <4>1. x \in FunctorType
        BY <1>0, <3>2, NotRunTypes
      <4>2. x.conn = c => x.do # "established" /\ x.do # "remove"
        BY <1>a, <2>3, <3>2 DEF Waits
      <4> QED BY <3>2, <4>1, <4>2 DEF Others, FunctorType
    <3> QED BY <2>10, <2>11, <3>1, <3>2
  <2>12. Waits'
    BY <1>f, <2>5, <2>11
  <2>13. Watched'
    BY <2>7 DEF Watched
  <2> QED BY <1>b, <2>6, <2>12, <2>13
<1>13. ASSUME NEW l \in Loops, RunEstablished(l) PROVE ToldInv'
  <2> DEFINE c == Current(l).conn
  <2>1. /\ Runs(l, "established") /\ Current(l) \in NotRun(l) /\ Current(l).do = "established"
        /\ c \in Conn /\ Current(l) \in Range(functors[l])
        /\ ConnectEstablished(c, ioLoop[c], fd[c])
        /\ UNCHANGED <<fd, active, pending, functors, ioLoop>>
    BY <1>0, <1>13, CurrentType, NotRunRuns DEF RunEstablished, Runs, clientVars
  <2>2. fd[c] # NoFd /\ ioLoop[c] = l /\ told[c] = "nothing"
    BY <1>a, <1>0, <2>1 DEF PlaceInv, Waits
  <2>3. Functor("established", c) \notin NotRun(l)'
    BY <2>1, NotAgain
  <2>4. \A k \in Loops : NotRun(k)' \subseteq NotRun(k)
    <3>1. {} \in SUBSET FunctorType
          /\ \A k \in Loops : Range(pending'[k]) \subseteq Range(pending[k]) \cup {}
      BY <2>1
    <3>2. \A k \in Loops : NotRun(k)' \subseteq NotRun(k) \cup {}
      BY <1>0, <2>1, <3>1, NotRunRuns
    <3> QED BY <3>2
  <2> HIDE DEF c
  <2>5. ASSUME NEW k \in Loops, NEW x \in NotRun(k)'
        PROVE  x \in Others \/ (x \in NotRun(k) /\ x.conn # c)
    <3>1. /\ x \in NotRun(k) /\ x \in FunctorType
          /\ x \in Range(pending[k]) \cup Range(functors[k])
      BY <1>0, <2>4, <2>5, NotRunTypes, NotRunWaits
    <3>2. x.conn = c => x.do # "remove"
      BY <1>a, <2>2, <3>1 DEF Waits
    <3>3. x.conn = c => x.do # "established"
      <4> SUFFICES ASSUME x.conn = c, x.do = "established" PROVE FALSE
        OBVIOUS
      <4>1. k = l
        BY <1>0, <2>2, <3>1 DEF PlaceInv
      <4>2. x = Functor("established", c)
        BY <3>1 DEF Functor, FunctorType
      <4> QED BY <2>3, <2>5, <4>1, <4>2
    <3> QED BY <3>1, <3>2, <3>3 DEF Others, FunctorType
  <2>6. \A d \in Conn : d # c => told'[d] = told[d]
    BY <1>0, <2>1 DEF ConnectEstablished, TypeOK
  <2>7. Waits'
    BY <1>f, <2>1, <2>5, <2>6
  <2>8. (\A d \in Conn : Agrees(d)') /\ Watched'
    BY <1>7, <2>1, <2>2
  <2> QED BY <1>b, <2>7, <2>8
<1>14. ASSUME NEW l \in Loops, RunDestroyed(l) PROVE ToldInv'
  <2> DEFINE c == Current(l).conn
  <2>1. /\ Runs(l, "destroyed") /\ Current(l).do = "destroyed"
        /\ c \in Conn /\ Current(l) \in Range(functors[l]) /\ ConnectDestroyed(c)
        /\ UNCHANGED <<fd, active, pending>>
    BY <1>0, <1>14, CurrentType DEF RunDestroyed, Runs, clientVars
  <2>2. fd[c] # NoFd /\ ioLoop[c] = l /\ active[l] = {}
    BY <1>0, <2>1 DEF PlaceInv, LoopInv, Runs, At
  <2>3. \A k \in Loops : NotRun(k)' \subseteq NotRun(k)
    <3>1. {} \in SUBSET FunctorType
          /\ \A k \in Loops : Range(pending'[k]) \subseteq Range(pending[k]) \cup {}
      BY <2>1
    <3>2. \A k \in Loops : NotRun(k)' \subseteq NotRun(k) \cup {}
      BY <1>0, <2>1, <3>1, NotRunRuns
    <3> QED BY <3>2
  <2> QED BY <1>8, <2>1, <2>2, <2>3
<1>15. ASSUME NEW c \in Conn, DestroyConnection(c) PROVE ToldInv'
  <2>1. /\ UNCHANGED <<functors, done, active, fd>> /\ fd[c] # NoFd /\ ioLoop[c] \in Loops
        /\ active[0] = {}
    BY <1>0, <1>15 DEF DestroyConnection, LoopInv, FreshInv, TypeOK, threadVars, clientVars
  <2>2. CASE ioLoop[c] = 0
    <3>1. ConnectDestroyed(c) /\ UNCHANGED pending
      BY <1>15, <2>2 DEF DestroyConnection
    <3>2. \A k \in Loops : NotRun(k)' \subseteq NotRun(k)
      BY <2>1, <3>1, NotRunSame
    <3> QED BY <1>8, <2>1, <2>2, <3>1, <3>2
  <2>3. CASE ioLoop[c] # 0
    <3> DEFINE x == Functor("destroyed", c)
    <3>1. Queue(ioLoop[c], x) /\ UNCHANGED <<told, state, closing, channel>>
      BY <1>15, <2>3 DEF DestroyConnection, connVars
    <3>2. x \in Others /\ x \in FunctorType
      BY DEF Others, Functor
    <3>3. \A k \in Loops : NotRun(k)' \subseteq NotRun(k) \cup Others
      BY <1>0, <2>1, <3>1, <3>2, NotRunQueue
    <3> QED BY <1>b, <1>c, <1>d, <1>e, <2>1, <3>1, <3>3
  <2> QED BY <2>2, <2>3
<1>16. CASE \/ UNCHANGED vars \/ EnterLoop \/ QuitBase \/ Destroy \/ DestroyAcceptor
            \/ \E l \in Loops : QuitLoop(l)
            \/ \E c \in Conn : Connect(c) \/ HangUp(c) \/ UserDrops(c)
  <2>1. UNCHANGED <<state, told, closing, fd, channel, active, pending, functors, done>>
    BY <1>16 DEF EnterLoop, QuitBase, Destroy, DestroyAcceptor, QuitLoop, Connect, HangUp,
         UserDrops, clientVars, threadVars, connVars, vars
  <2> QED BY <1>1, <2>1
<1> QED
  BY <1>2, <1>3, <1>4, <1>5, <1>6, <1>10, <1>11, <1>12, <1>13, <1>14, <1>15, <1>16
  DEF Next, Environment, ThreadStep, LoopStep, Accepting, Destructor

-----------------------------------------------------------------------------
(* Owners *)

\* A connection held as HolderInv says is owned.
LEMMA HeldIsOwned ==
  ASSUME Inv, NEW c \in Conn, NEW l \in Loops, ioLoop[c] = l, pc[l] # "exited",
         channel[c].index # "kNew"
  PROVE  Owned(c)
<1>1. \A k \in Loops : NotRun(k) \subseteq Range(pending[k]) \cup Range(functors[k])
  BY NotRunWaits DEF Inv
<1>2. \A k \in Loops : \A do : Functor(do, c) \in NotRun(k) => c \in Bound(k)
  <2>1. \A do : Functor(do, c).conn = c
    BY DEF Functor
  <2> QED BY <1>1, <2>1 DEF Bound
<1>3. c \in connections \/ OnItsWayOut(c, l)
  BY DEF Inv, HolderInv
<1> QED BY <1>2, <1>3, LoopFacts DEF OnItsWayOut, Owned

\* An object somebody owns has its socket.
LEMMA OwnedHasFd ==
  ASSUME Inv, NEW c \in Conn, Owned(c)
  PROVE  fd[c] # NoFd
<1>1. CASE c \in connections \cup held
  BY <1>1 DEF Inv, FreshInv, OwnerInv
<1>2. ASSUME NEW k \in Loops, c \in Bound(k) PROVE fd[c] # NoFd
  <2>1. PICK x \in Range(pending[k]) \cup Range(functors[k]) : x.conn = c
    BY <1>2 DEF Bound
  <2>2. x \in FunctorType
    BY <2>1 DEF Inv, TypeOK, Range
  <2>3. x.do # "listen"
    BY <2>1, <2>2 DEF FunctorType
  <2> QED BY <2>1, <2>3 DEF Inv, PlaceInv
<1> QED BY <1>1, <1>2 DEF Owned

\* A step that makes no new pointers but to connections of S.
LEMMA OwnersFrom ==
  ASSUME NEW S, connections' \subseteq connections \cup S, held' \subseteq held \cup S,
         \A k \in Loops : Bound(k)' \subseteq Bound(k) \cup S
  PROVE  \A c : Owned(c)' => Owned(c) \/ c \in S
BY DEF Owned

LEMMA BoundSame ==
  ASSUME UNCHANGED <<pending, functors>>
  PROVE  \A k \in Loops : Bound(k)' = Bound(k)
BY DEF Bound

LEMMA BoundQueue ==
  ASSUME TypeOK, NEW l \in Loops, NEW x \in FunctorType, Queue(l, x), UNCHANGED functors
  PROVE  \A k \in Loops : Bound(k)' \subseteq Bound(k) \cup {x.conn}
<1>1. \A k \in Loops : Range(pending'[k]) \subseteq Range(pending[k]) \cup {x}
  BY QueueRange
<1> QED BY <1>1 DEF Bound

\* No step makes a pointer to an object without owner, but the one that makes
\* the object.
LEMMA OwnedStep ==
  ASSUME Inv, [Next]_vars, NEW c \in Conn, Owned(c)'
  PROVE  Owned(c) \/ \E f \in Fd : NewConnection(c, f)
<1>0. TypeOK
  BY DEF Inv
<1> USE LoopFacts, FunctorTypes
<1> DEFINE From(S) == /\ connections' \subseteq connections \cup S
                      /\ held' \subseteq held \cup S
                      /\ \A k \in Loops : Bound(k)' \subseteq Bound(k) \cup S
<1>a. ASSUME NEW S, From(S) PROVE Owned(c) \/ c \in S
  BY <1>a, OwnersFrom
<1>b. ASSUME From({}) PROVE Owned(c)
  BY <1>a, <1>b
<1>c. ASSUME NEW d \in Conn, From({d}) PROVE Owned(c) \/ c = d
  BY <1>a, <1>c
<1>d. ASSUME UNCHANGED <<pending, functors>>, NEW S, connections' \subseteq connections \cup S,
             held' \subseteq held \cup S
      PROVE  From(S)
  BY <1>d, BoundSame
<1>e. ASSUME NEW d \in Conn, NEW l \in Loops,
             NEW do \in {"established", "remove", "destroyed"}, Queue(l, Functor(do, d)),
             UNCHANGED functors, connections' \subseteq connections \cup {d},
             held' \subseteq held \cup {d}
      PROVE  From({d})
  <2>1. Functor(do, d).conn = d /\ Functor(do, d) \in FunctorType
    BY DEF Functor
  <2> QED BY <1>0, <1>e, <2>1, BoundQueue
<1> HIDE DEF From
<1>1. CASE \/ UNCHANGED vars \/ EnterLoop \/ QuitBase \/ Destroy \/ DestroyAcceptor
           \/ \E l \in Loops : QuitLoop(l) \/ Poll(l) \/ RunListen(l)
           \/ \E d \in Conn : Connect(d) \/ HangUp(d) \/ UserDrops(d) \/ Shutdown(d)
           \/ AcceptFails \/ \E l \in Loops, d \in Conn : HandleRead(l, d)
  <2>1. /\ UNCHANGED <<pending, functors, connections>> /\ held' \subseteq held
    BY <1>1 DEF EnterLoop, QuitBase, Destroy, DestroyAcceptor, QuitLoop, Connect, HangUp,
         UserDrops, Shutdown, Poll, RunListen, Runs, AcceptFails, HandleRead, Handled,
         clientVars,
         threadVars, connVars, vars
  <2> QED BY <1>b, <1>d, <2>1
<1>2. ASSUME NEW l \in Loops, ExitLoop(l) \/ TakeFunctors(l) \/ FinishFunctors(l)
      PROVE  Owned(c)
  <2>1. UNCHANGED <<connections, held>>
    BY <1>2 DEF ExitLoop, TakeFunctors, FinishFunctors, connVars
  <2>2. \A k \in Loops : \/ pending'[k] = pending[k] /\ functors'[k] = <<>>
                         \/ pending'[k] = pending[k] /\ functors'[k] = functors[k]
                         \/ pending'[k] = <<>> /\ functors'[k] = functors[k]
                         \/ pending'[k] = <<>> /\ functors'[k] = pending[k]
    BY <1>0, <1>2 DEF ExitLoop, TakeFunctors, FinishFunctors, TypeOK
  <2>3. Range(<<>>) = {}
    BY DEF Range
  <2>4. \A k \in Loops : Bound(k)' \subseteq Bound(k)
    BY <2>2, <2>3 DEF Bound
  <2> QED BY <1>b, <2>1, <2>4 DEF From
<1>3. CASE Start
  <2>1. UNCHANGED <<connections, held, functors>>
    BY <1>3 DEF Start, connVars
  <2>2. Functor("listen", NoConn).conn = NoConn
    BY DEF Functor
  <2>3. \A k \in Loops : Bound(k)' \subseteq Bound(k) \cup {NoConn}
    <3>1. CASE UNCHANGED pending
      BY <2>1, <3>1, BoundSame
    <3>2. CASE Queue(0, Functor("listen", NoConn))
      BY <1>0, <2>1, <2>2, <3>2, BoundQueue
    <3> QED BY <1>3, <3>1, <3>2 DEF Start
  <2>4. From({NoConn})
    BY <2>1, <2>3 DEF From
  <2>5. c # NoConn
    OBVIOUS
  <2> QED BY <1>a, <2>4, <2>5
<1>4. ASSUME NEW d \in Conn, NEW f \in Fd, NewConnection(d, f)
      PROVE  Owned(c) \/ NewConnection(c, f)
  <2>1. /\ UNCHANGED functors /\ connections' = connections \cup {d}
        /\ NextLoop \in Loops
    BY <1>0, <1>4 DEF NewConnection, Handled, NextLoop, TypeOK, Loops
  <2>2. CASE NextLoop = 0
    <3>1. UNCHANGED pending /\ held' \subseteq held \cup {d}
      BY <1>4, <2>2 DEF NewConnection, ConnectEstablished
    <3> QED BY <1>c, <1>d, <1>4, <2>1, <3>1
  <2>3. CASE NextLoop # 0
    <3>1. Queue(NextLoop, Functor("established", d)) /\ UNCHANGED held
      BY <1>4, <2>3 DEF NewConnection, connVars
    <3> QED BY <1>c, <1>e, <1>4, <2>1, <3>1
  <2> QED BY <2>2, <2>3
<1>5. ASSUME NEW l \in Loops, NEW d \in Conn, HandleClose(l, d) PROVE Owned(c)
  <2>1. /\ d \in active[l] \ {Acceptor} /\ UNCHANGED <<held, functors>>
        /\ connections' \subseteq connections /\ pc[l] = "handle"
    BY <1>5 DEF HandleClose, Handled, RemoveConnectionInLoop, At
  <2>2. ioLoop[d] = l /\ channel[d].index # "kNew"
    BY <2>1 DEF Inv, PlaceInv
  <2>3. Owned(d)
    BY <2>1, <2>2, HeldIsOwned
  <2>4. PICK do \in {"remove", "destroyed"}, j \in Loops : Queue(j, Functor(do, d))
    BY <1>0, <1>5 DEF HandleClose, RemoveConnectionInLoop, TypeOK
  <2>5. From({d})
    BY <1>e, <2>1, <2>4
  <2> QED BY <1>c, <2>3, <2>5
<1>6. ASSUME NEW l \in Loops, RunEstablished(l) \/ RunRemove(l) \/ RunDestroyed(l)
      PROVE  Owned(c)
  <2> DEFINE d == Current(l).conn
  <2>1. /\ d \in Conn /\ Current(l) \in Range(functors[l]) /\ UNCHANGED functors
    <3>1. PICK do \in {"established", "remove", "destroyed"} : Runs(l, do)
      BY <1>6 DEF RunEstablished, RunRemove, RunDestroyed
    <3> QED BY <1>0, <3>1, CurrentType DEF Runs
  <2>2. Owned(d)
    BY <2>1 DEF Owned, Bound
  <2>3. CASE RunEstablished(l)
    <3>1. UNCHANGED <<pending, connections>> /\ held' \subseteq held \cup {d}
      BY <2>3 DEF RunEstablished, ConnectEstablished
    <3> HIDE DEF d
    <3> QED BY <1>c, <1>d, <2>1, <2>2, <3>1
  <2>4. CASE RunRemove(l)
    <3>1. /\ Queue(ioLoop[d], Functor("destroyed", d)) /\ connections' \subseteq connections
          /\ UNCHANGED held
      BY <2>4 DEF RunRemove, RemoveConnectionInLoop, connVars
    <3>2. ioLoop[d] \in Loops
      BY <1>0, <2>1 DEF TypeOK
    <3> HIDE DEF d
    <3> QED BY <1>c, <1>e, <2>1, <2>2, <3>1, <3>2
  <2>5. CASE RunDestroyed(l)
    <3>1. UNCHANGED <<pending, connections, held>>
      BY <2>5 DEF RunDestroyed, ConnectDestroyed
    <3> QED BY <1>b, <1>d, <2>1, <3>1
  <2> QED BY <1>6, <2>3, <2>4, <2>5
<1>7. ASSUME NEW d \in Conn, DestroyConnection(d) PROVE Owned(c)
  <2>1. /\ UNCHANGED <<functors, held>> /\ connections' \subseteq connections /\ Owned(d)
        /\ ioLoop[d] \in Loops
    BY <1>0, <1>7 DEF DestroyConnection, ConnectDestroyed, connVars, threadVars, Owned, TypeOK
  <2>2. CASE UNCHANGED pending
    BY <1>b, <1>d, <2>1, <2>2
  <2>3. CASE Queue(ioLoop[d], Functor("destroyed", d))
    BY <1>c, <1>e, <2>1, <2>3
  <2> QED BY <1>7, <2>2, <2>3 DEF DestroyConnection
<1> QED
  BY <1>1, <1>2, <1>3, <1>4, <1>5, <1>6, <1>7
  DEF Next, Environment, ThreadStep, LoopStep, Accepting, Destructor

LEMMA OwnerInvStep == Inv /\ [Next]_vars => OwnerInv'
<1> SUFFICES ASSUME Inv, [Next]_vars PROVE OwnerInv'
  OBVIOUS
<1>0. TypeOK /\ LoopInv /\ FreshInv /\ PlaceInv /\ ToldInv /\ OwnerInv
  BY DEF Inv
<1> USE LoopFacts, FunctorTypes
<1> DEFINE Apart(c, d) == Owned(c) /\ Owned(d) /\ fd[c] = fd[d] => c = d
           Forgets == server \in {"new", "serving"} =>
                        \A c \in Conn \ connections : fd[c] # NoFd => told[c] = "down"
           OpenHeld == \A c \in held : fd[c] # NoFd
<1>a. (\A c, d \in Conn : Apart(c, d)) /\ Forgets /\ OpenHeld
  BY <1>0 DEF OwnerInv
<1>b. (\A c, d \in Conn : Apart(c, d)') /\ Forgets' /\ OpenHeld' => OwnerInv'
  BY DEF OwnerInv
<1> HIDE DEF Forgets
\* Any step but an accept4.
<1>c. ASSUME UNCHANGED fd, ~(\E c \in Conn, f \in Fd : NewConnection(c, f))
      PROVE  (\A c, d \in Conn : Apart(c, d)') /\ OpenHeld'
  <2>1. \A c \in Conn : Owned(c)' => Owned(c)
    BY <1>c, OwnedStep
  <2>2. \A c \in Conn : Owned(c)' => fd'[c] # NoFd
    BY <1>c, <2>1, OwnedHasFd
  <2>3. OpenHeld'
    <3>1. held' \subseteq Conn
      BY TypeStep DEF Inv, TypeOK
    <3> QED BY <2>2, <3>1 DEF Owned
  <2> QED BY <1>a, <1>c, <2>1, <2>3
<1>d. ASSUME UNCHANGED fd, ~(\E c \in Conn, f \in Fd : NewConnection(c, f)), Forgets'
      PROVE  OwnerInv'
  BY <1>b, <1>c, <1>d
<1>e. ASSUME UNCHANGED <<connections, fd, told>>,
             server' \in {"new", "serving"} => server \in {"new", "serving"}
      PROVE  Forgets'
  BY <1>a, <1>e DEF Forgets
<1>1. ASSUME NEW c \in Conn, NEW f \in Fd, NewConnection(c, f) PROVE OwnerInv'
  <2>1. /\ fd[c] = NoFd /\ fd'[c] = f /\ f \in FreeFds /\ UNCHANGED server
        /\ \A d \in Conn : d # c => fd'[d] = fd[d] /\ ~NewConnection(d, f)
        /\ connections' = connections \cup {c}
    BY <1>0, <1>1 DEF NewConnection, FreshInv, TypeOK
  <2>2. \A d \in Conn : Owned(d) => fd[d] # f
    BY <2>1 DEF FreeFds
  <2>3. \A d \in Conn : d # c /\ Owned(d)' => Owned(d)
    <3>1. \A d \in Conn, g \in Fd : NewConnection(d, g) => d = c
      BY <1>0, <1>1 DEF NewConnection, TypeOK
    <3> QED BY <3>1, OwnedStep
  <2>4. ASSUME NEW d \in Conn, NEW e \in Conn PROVE Apart(d, e)'
    <3> SUFFICES ASSUME Owned(d)', Owned(e)', fd'[d] = fd'[e] PROVE d = e
      OBVIOUS
    <3>1. CASE d = c \/ e = c
      BY <2>1, <2>2, <2>3, <3>1
    <3>2. CASE d # c /\ e # c
      BY <1>a, <2>1, <2>3, <3>2
    <3> QED BY <3>1, <3>2
  <2>5. OpenHeld'
    <3>1. \A d \in held' : d = c \/ d \in held
      BY <1>1 DEF NewConnection, ConnectEstablished, connVars
    <3>2. held \subseteq Conn /\ NoFd \notin Fd
      BY <1>0 DEF TypeOK
    <3> QED BY <1>a, <2>1, <3>1, <3>2
  <2>6. \A d \in Conn : d # c => told'[d] = told[d]
    BY <1>0, <1>1 DEF NewConnection, ConnectEstablished, connVars, TypeOK
  <2>7. Forgets'
    BY <1>a, <2>1, <2>6 DEF Forgets
  <2> QED BY <1>b, <2>4, <2>5, <2>7
<1> DEFINE Accepted == \E c \in Conn, f \in Fd : NewConnection(c, f)
<1>2. CASE ~Accepted
  <2>1. UNCHANGED fd
    BY <1>2 DEF Next, Environment, ThreadStep, LoopStep, Accepting, Destructor, vars, clientVars,
      connVars, EnterLoop, QuitBase, Destroy, QuitLoop, DestroyAcceptor, Start, ExitLoop,
      Poll, TakeFunctors, FinishFunctors, AcceptFails, HandleRead, RunListen, HandleClose,
      RunEstablished,
      RunRemove, RunDestroyed, DestroyConnection, Connect, HangUp, Shutdown, UserDrops
  <2> SUFFICES Forgets'
    BY <1>d, <1>2, <2>1
  <2>2. ASSUME NEW l \in Loops, NEW c \in Conn, HandleClose(l, c) PROVE Forgets'
    <3>1. /\ UNCHANGED server /\ told'[c] = "down" /\ \A d \in Conn : d # c => told'[d] = told[d]
          /\ connections \ {c} \subseteq connections'
      BY <1>0, <2>2 DEF HandleClose, RemoveConnectionInLoop, TypeOK, serverVars
    <3> QED BY <1>a, <2>1, <3>1 DEF Forgets
  <2>3. ASSUME NEW l \in Loops, RunEstablished(l) PROVE Forgets'
    <3> DEFINE c == Current(l).conn
    <3>1. /\ c \in Conn /\ Current(l) \in NotRun(l) /\ Current(l) \in Range(functors[l])
          /\ Current(l).do = "established"
      BY <1>0, <2>3, CurrentType, NotRunRuns DEF RunEstablished
    <3>2. told[c] = "nothing"
      BY <1>0, <3>1 DEF ToldInv
    <3>3. UNCHANGED <<server, connections>> /\ \A d \in Conn : d # c => told'[d] = told[d]
      BY <1>0, <2>3 DEF RunEstablished, ConnectEstablished, TypeOK, serverVars
    <3>4. fd[c] # NoFd
      BY <1>0, <3>1 DEF PlaceInv
    <3> HIDE DEF c
    <3> QED BY <1>a, <2>1, <3>1, <3>2, <3>3, <3>4 DEF Forgets
  <2>4. ASSUME NEW l \in Loops, RunRemove(l) PROVE Forgets'
    <3> DEFINE c == Current(l).conn
    <3>1. /\ c \in Conn /\ Current(l) \in NotRun(l) /\ Current(l).do = "remove"
      BY <1>0, <2>4, CurrentType, NotRunRuns DEF RunRemove
    <3>2. told[c] = "down"
      BY <1>0, <3>1 DEF ToldInv
    <3>3. UNCHANGED <<server, told>> /\ connections' = connections \ {c}
      BY <2>4 DEF RunRemove, RemoveConnectionInLoop, serverVars, connVars
    <3> HIDE DEF c
    <3> QED BY <1>a, <2>1, <3>2, <3>3 DEF Forgets
  <2>5. ASSUME NEW l \in Loops, RunDestroyed(l) PROVE Forgets'
    <3> DEFINE c == Current(l).conn
    <3>1. c \in Conn
      BY <1>0, <2>5, CurrentType DEF RunDestroyed
    <3>2. \A d \in Conn : told'[d] = told[d] \/ told'[d] = "down"
      BY <1>0, <2>5, <3>1 DEF RunDestroyed, ConnectDestroyed, TypeOK
    <3>3. UNCHANGED <<server, connections>>
      BY <2>5 DEF RunDestroyed, serverVars
    <3> QED BY <1>a, <2>1, <3>2, <3>3 DEF Forgets
  <2>6. ASSUME NEW c \in Conn, DestroyConnection(c) PROVE Forgets'
    BY <2>6 DEF DestroyConnection, serverVars, Forgets
  <2> QED
    BY <1>e, <1>2, <2>1, <2>2, <2>3, <2>4, <2>5, <2>6
    DEF Next, Environment, ThreadStep, LoopStep, Accepting, Destructor, vars, serverVars,
      connVars, EnterLoop, QuitBase, Destroy, QuitLoop, DestroyAcceptor, Start, ExitLoop,
      Poll, TakeFunctors, FinishFunctors, AcceptFails, HandleRead, RunListen, Connect, HangUp,
      Shutdown,
      UserDrops
<1> QED BY <1>1, <1>2

LEMMA InvStep == Inv /\ [Next]_vars => Inv'
<1> SUFFICES ASSUME Inv, [Next]_vars PROVE Inv'
  OBVIOUS
<1>1. TypeOK' /\ LoopInv' /\ FreshInv' /\ PlaceInv'
  BY TypeStep, LoopInvStep, FreshInvStep, PlaceInvStep DEF Inv
<1>2. OrderInv' /\ HolderInv' /\ EntryInv' /\ DeadLoopsGetNoWork'
  BY OrderInvStep, HolderInvStep, EntryInvStep, DeadLoopsStep
<1>3. ToldInv' /\ OwnerInv'
  BY ToldInvStep, OwnerInvStep
<1> QED BY <1>1, <1>2, <1>3 DEF Inv

\* The parts hold together in every state.
THEOREM InvCorrect == Spec => []Inv
BY InitInv, InvStep, PTL DEF Spec

-----------------------------------------------------------------------------
(* What follows *)

\* Poller::activeChannels_ never holds a channel of a freed connection, nor one
\* taken out of the poller, as long as no thread but a connection's own sends on
\* it (send() is not in the model: see the module's header).
THEOREM ActiveChannelsAlive == Spec => []ActiveAreAlive
<1>1. Inv => ActiveAreAlive
  <2> SUFFICES ASSUME Inv, NEW l \in Loops, NEW c \in active[l] \ {Acceptor}
               PROVE  Owned(c) /\ channel[c].index # "kNew"
    BY DEF ActiveAreAlive
  <2>1. c \in Conn
    BY DEF Inv, TypeOK
  <2>2. ioLoop[c] = l /\ channel[c].index # "kNew" /\ pc[l] # "exited"
    BY DEF Inv, PlaceInv, LoopInv
  <2> QED BY <2>1, <2>2, HeldIsOwned
<1> QED BY <1>1, InvCorrect, PTL

\* EPollPoller::channels_ never holds a stale entry while its loop runs, fd
\* reuse or not, under the same condition.
THEOREM EntriesLive == Spec => []PollersHoldLiveChannels
<1>1. Inv => PollersHoldLiveChannels
  <2> SUFFICES ASSUME Inv, NEW l \in Loops, NEW f \in Fd, pc[l] # "exited",
                      channels[l][f] # NoConn
               PROVE  LET c == channels[l][f] IN Owned(c) /\ fd[c] = f /\ ioLoop[c] = l
    BY DEF PollersHoldLiveChannels
  <2>1. channels[l][f] \in Conn
    BY DEF Inv, TypeOK
  <2> QED BY <2>1, HeldIsOwned DEF Inv, EntryInv
<1> QED BY <1>1, InvCorrect, PTL

\* Nothing is queued in the EventLoop of an IO thread that has returned.
THEOREM NoWorkForDeadLoops == Spec => []DeadLoopsGetNoWork
<1>1. Inv => DeadLoopsGetNoWork
  BY DEF Inv
<1> QED BY <1>1, InvCorrect, PTL

\* A connection's channel is changed by the thread of its loop alone.
THEOREM OneLoopPerChannel == Spec => ChannelsStayInTheirThread
<1>1. Inv /\ [Next]_vars =>
        [\A c \in Conn : channel'[c] # channel[c] => ThreadStep(ioLoop'[c])]_vars
  <2> SUFFICES ASSUME Inv, Next, NEW c \in Conn, channel'[c] # channel[c]
               PROVE  ThreadStep(ioLoop'[c])
    OBVIOUS
  <2>0. TypeOK /\ PlaceInv
    BY DEF Inv
  <2> USE LoopFacts
  <2>1. ASSUME NEW l \in Loops, NEW d \in Conn, HandleClose(l, d) PROVE ThreadStep(ioLoop'[c])
    <3>1. d = c
      BY <2>0, <2>1, ClosedChannel
    <3>2. d \in active[l] \ {Acceptor}
      BY <2>1 DEF HandleClose, Handled
    <3>3. ioLoop'[c] = l
      BY <2>0, <2>1, <3>1, <3>2 DEF HandleClose, clientVars, PlaceInv
    <3> QED BY <2>1, <3>3 DEF ThreadStep, LoopStep
  <2>2. ASSUME NEW l \in Loops, RunEstablished(l) PROVE ThreadStep(ioLoop'[c])
    <3>1. /\ Current(l).conn \in Conn /\ Current(l) \in Range(functors[l])
          /\ Current(l).do = "established"
      BY <2>0, <2>2, CurrentType DEF RunEstablished
    <3>2. Current(l).conn = c
      BY <2>0, <2>2, <3>1, EstablishedChannel DEF RunEstablished
    <3>3. ioLoop'[c] = l
      BY <2>0, <2>2, <3>1, <3>2 DEF RunEstablished, clientVars, PlaceInv
    <3> QED BY <2>2, <3>3 DEF ThreadStep, LoopStep
  <2>3. ASSUME NEW l \in Loops, RunDestroyed(l) PROVE ThreadStep(ioLoop'[c])
    <3>1. /\ Current(l).conn \in Conn /\ Current(l) \in Range(functors[l])
          /\ Current(l).do = "destroyed"
      BY <2>0, <2>3, CurrentType DEF RunDestroyed
    <3>2. Current(l).conn = c
      BY <2>0, <2>3, <3>1, DestroyedChannel DEF RunDestroyed
    <3>3. ioLoop'[c] = l
      BY <2>0, <2>3, <3>1, <3>2 DEF RunDestroyed, clientVars, PlaceInv
    <3> QED BY <2>3, <3>3 DEF ThreadStep, LoopStep
  <2>4. ASSUME NEW d \in Conn, NEW f \in Fd, NewConnection(d, f) PROVE ThreadStep(ioLoop'[c])
    <3>1. NextLoop = 0 /\ ConnectEstablished(d, 0, f)
      BY <2>4 DEF NewConnection, connVars
    <3>2. d = c
      BY <2>0, <3>1, EstablishedChannel
    <3>3. ioLoop'[c] = 0
      BY <2>0, <2>4, <3>1, <3>2 DEF NewConnection, TypeOK
    <3> QED BY <2>4, <3>3 DEF ThreadStep, Accepting
  <2>5. ASSUME NEW d \in Conn, DestroyConnection(d) PROVE ThreadStep(ioLoop'[c])
    <3>1. ioLoop[d] = 0 /\ ConnectDestroyed(d)
      BY <2>5 DEF DestroyConnection, connVars
    <3>2. d = c
      BY <2>0, <3>1, DestroyedChannel
    <3>3. ioLoop'[c] = 0
      BY <2>5, <3>1, <3>2 DEF DestroyConnection, clientVars
    <3> QED BY <2>5, <3>3 DEF ThreadStep, Destructor
  <2> QED
    BY <2>1, <2>2, <2>3, <2>4, <2>5
    DEF Next, Environment, ThreadStep, LoopStep, Accepting, Destructor, connVars, EnterLoop,
        QuitBase, Destroy, QuitLoop, DestroyAcceptor, Start, ExitLoop, Poll, TakeFunctors,
        FinishFunctors, AcceptFails, HandleRead, RunListen, RunRemove, Connect, HangUp,
        Shutdown, UserDrops
<1> QED BY <1>1, InvCorrect, PTL DEF Spec, ChannelsStayInTheirThread

\* No connection callback is made once ~TcpServer has returned.
THEOREM QuietAfterDestruction == Spec => NoCallbackAfterDestruction
<1>1. Inv /\ [Next]_vars => [server = "gone" => UNCHANGED reports]_vars
  <2> SUFFICES ASSUME Inv, Next, server = "gone" PROVE UNCHANGED reports
    OBVIOUS
  <2>1. \A l \in Loops : pc[l] = "exited"
    BY DEF Inv, LoopInv
  <2> QED
    BY <2>1, LoopFacts
    DEF Next, Environment, ThreadStep, LoopStep, Accepting, Destructor, connVars, EnterLoop,
        QuitBase, Destroy, QuitLoop, DestroyAcceptor, DestroyConnection, Start, ExitLoop, Poll,
        TakeFunctors, FinishFunctors, AcceptFails, HandleRead, NewConnection, Handled,
        HandleClose, Runs,
        RunListen, RunEstablished, RunRemove, RunDestroyed, At, Connect, HangUp, Shutdown,
        UserDrops
<1> QED BY <1>1, InvCorrect, PTL DEF Spec, NoCallbackAfterDestruction

-----------------------------------------------------------------------------
(* The server implements its connection table *)

\* Owner(f) is the connection that has f open, if there is one.
Holding ==
  \A f \in Fd :
    /\ \A c \in Conn : Owned(c) /\ fd[c] = f => Owner(f) = c
    /\ Owner(f) # NoConn => \E c \in Conn : Owner(f) = c /\ Owned(c) /\ fd[c] = f

LEMMA TheHolder ==
  ASSUME NEW S, \A c, d \in S : c = d, NEW o,
         o = IF S = {} THEN NoConn ELSE CHOOSE c \in S : TRUE
  PROVE  (\A c \in S : o = c) /\ (o # NoConn => o \in S)
<1>1. CASE S = {}
  BY <1>1
<1>2. CASE S # {}
  <2>1. o \in S
    BY <1>2
  <2> QED BY <2>1
<1> QED BY <1>1, <1>2

LEMMA HoldingHolds == Inv => Holding
<1> SUFFICES ASSUME Inv, NEW f \in Fd
             PROVE  /\ \A c \in Conn : Owned(c) /\ fd[c] = f => Owner(f) = c
                    /\ Owner(f) # NoConn =>
                         \E c \in Conn : Owner(f) = c /\ Owned(c) /\ fd[c] = f
  BY DEF Holding
<1> DEFINE S == {c \in Conn : fd[c] = f /\ Owned(c)}
<1>1. \A c, d \in S : c = d
  BY DEF Inv, OwnerInv
<1>2. Owner(f) = IF S = {} THEN NoConn ELSE CHOOSE c \in S : TRUE
  BY DEF Owner
<1>3. (\A c \in S : Owner(f) = c) /\ (Owner(f) # NoConn => Owner(f) \in S)
  <2> HIDE DEF S
  <2> QED BY <1>1, <1>2, TheHolder
<1> QED BY <1>3

\* A descriptor keeps its owner when the same connection has it open.
LEMMA OwnerSame ==
  ASSUME Holding, Holding', NEW f \in Fd,
         \A c \in Conn : Owned(c) /\ fd[c] = f <=> Owned(c)' /\ fd'[c] = f
  PROVE  Owner(f)' = Owner(f)
<1>1. ASSUME Owner(f) # NoConn PROVE Owner(f)' = Owner(f)
  <2>1. PICK c \in Conn : Owner(f) = c /\ Owned(c) /\ fd[c] = f
    BY <1>1 DEF Holding
  <2>2. Owned(c)' /\ fd'[c] = f
    BY <2>1
  <2> QED BY <2>1, <2>2 DEF Holding
<1>2. ASSUME Owner(f)' # NoConn PROVE Owner(f)' = Owner(f)
  <2>1. PICK c \in Conn : Owner(f)' = c /\ Owned(c)' /\ fd'[c] = f
    BY <1>2 DEF Holding
  <2>2. Owned(c) /\ fd[c] = f
    BY <2>1
  <2> QED BY <2>1, <2>2 DEF Holding
<1> QED BY <1>1, <1>2

\* Who owns a connection has its descriptor in the table.
LEMMA OwnedInTable ==
  ASSUME Inv, NEW c \in Conn, Owned(c)
  PROVE  fd[c] \in Fd /\ Owner(fd[c]) = c /\ Table!Owned(c)
<1>1. fd[c] \in Fd
  BY OwnedHasFd DEF Inv, TypeOK
<1>2. Owner(fd[c]) = c
  BY <1>1, HoldingHolds DEF Holding
<1> QED BY <1>1, <1>2 DEF Table!Owned, Table!Holds

Stopping == server \in {"destroying", "gone"}

\* Pointers go, and sockets with them.
LEMMA ReleaseStep ==
  ASSUME Inv, Inv', UNCHANGED <<fd, told, reports, Stopping>>,
         \A c \in Conn : Owned(c)' => Owned(c)
  PROVE  Table!Next
<1> DEFINE S == {f \in Fd : Owner(f)' # Owner(f)}
<1>0. Holding /\ Holding'
  BY HoldingHolds, PTL
<1>1. ASSUME NEW f \in S
      PROVE  Owner(f)' = NoConn /\ Owner(f) # NoConn /\ (Stopping \/ told[Owner(f)] = "down")
  <2>1. Owner(f)' = NoConn
    <3> SUFFICES ASSUME Owner(f)' # NoConn PROVE FALSE
      OBVIOUS
    <3>1. PICK c \in Conn : Owner(f)' = c /\ Owned(c)' /\ fd'[c] = f
      BY <1>0 DEF Holding
    <3>2. Owner(f) = c
      BY <1>0, <3>1 DEF Holding
    <3> QED BY <3>1, <3>2
  <2>2. PICK c \in Conn : Owner(f) = c /\ Owned(c) /\ fd[c] = f
    BY <1>0, <2>1 DEF Holding
  <2>3. ~Owned(c)'
    BY <1>0, <2>1, <2>2 DEF Holding
  <2>4. fd'[c] # NoFd /\ c \notin connections'
    BY <2>2, <2>3, OwnedHasFd DEF Owned
  <2>5. Stopping \/ told[c] = "down"
    BY <2>4 DEF Inv, OwnerInv, TypeOK, Stopping
  <2> QED BY <2>1, <2>2, <2>5
<1>2. \A f \in Fd : Owner(f)' = IF f \in S THEN NoConn ELSE Owner(f)
  BY <1>1
<1> HIDE DEF S
<1>3. Table!Release(S)
  BY <1>1, <1>2 DEF Table!Release, S, Stopping
<1>4. S \in SUBSET Fd
  BY DEF S
<1> QED BY <1>3, <1>4 DEF Table!Next

\* A report to user code that leaves every connection its owners.
LEMMA ReportStep ==
  ASSUME Inv, Inv', UNCHANGED <<fd, server>>, NEW c \in Conn, Owned(c),
         \A d \in Conn : Owned(d)' <=> Owned(d),
         \/ told[c] = "nothing" /\ Report(c, "up")
         \/ told[c] = "up" /\ Report(c, "down")
  PROVE  Table!Next
<1>0. Holding /\ Holding'
  BY HoldingHolds, PTL
<1>1. \A f \in Fd : Owner(f)' = Owner(f)
  BY <1>0, OwnerSame
<1>2. Table!Owned(c)
  BY OwnedInTable
<1>3. Table!Up(c) \/ Table!Down(c)
  BY <1>1, <1>2 DEF Table!Up, Table!Down, Table!Report
<1> QED BY <1>3 DEF Table!Next

\* The destructor may free the connection it reports DOWN.
LEMMA DiscardStep ==
  ASSUME Inv, Inv', UNCHANGED <<fd, server>>, Stopping, NEW c \in Conn, Owned(c), ~Owned(c)',
         \A d \in Conn \ {c} : Owned(d)' <=> Owned(d),
         told[c] = "up", Report(c, "down")
  PROVE  Table!Next
<1>0. Holding /\ Holding'
  BY HoldingHolds, PTL
<1>1. fd[c] \in Fd /\ Owner(fd[c]) = c
  BY OwnedInTable
<1>2. ASSUME NEW f \in Fd, f # fd[c] PROVE Owner(f)' = Owner(f)
  BY <1>0, <1>2, OwnerSame
<1>3. PICK g \in Fd : g = fd[c]
  BY <1>1
<1>4. Owner(g)' = NoConn
  <2> SUFFICES ASSUME Owner(g)' # NoConn PROVE FALSE
    OBVIOUS
  <2>1. PICK d \in Conn : Owner(g)' = d /\ Owned(d)' /\ fd'[d] = g
    BY <1>0 DEF Holding
  <2>2. d # c /\ Owned(d) /\ fd[d] = fd[c]
    BY <1>3, <2>1
  <2> QED BY <2>2 DEF Inv, OwnerInv
<1>5. Table!Discard(c, g)
  BY <1>1, <1>2, <1>3, <1>4 DEF Table!Discard, Table!Holds, Table!Report, Stopping
<1> QED BY <1>5 DEF Table!Next

\* accept4 and newConnection.
LEMMA AcceptStep ==
  ASSUME Inv, Inv', NEW c \in Conn, NEW f \in Fd, NewConnection(c, f)
  PROVE  Table!Next
<1>0. Holding /\ Holding' /\ TypeOK /\ LoopInv /\ FreshInv
  BY HoldingHolds, PTL DEF Inv
<1> USE LoopFacts, FunctorTypes
<1>1. /\ fd[c] = NoFd /\ fd' = [fd EXCEPT ![c] = f] /\ f \in FreeFds /\ UNCHANGED server
      /\ connections' = connections \cup {c} /\ UNCHANGED functors /\ pc[0] = "handle"
      /\ NextLoop \in Loops
  BY <1>0 DEF NewConnection, Handled, At, FreshInv, NextLoop, TypeOK, Loops
<1>2. ~Stopping
  BY <1>0, <1>1 DEF LoopInv, Stopping
<1>3. fd'[c] = f /\ \A d \in Conn : d # c => fd'[d] = fd[d]
  BY <1>0, <1>1 DEF TypeOK
<1>4. held \subseteq held'
  BY DEF NewConnection, ConnectEstablished, connVars
<1>5. \A k \in Loops : Bound(k) \subseteq Bound(k)'
  <2>1. CASE UNCHANGED pending
    BY <1>1, <2>1, BoundSame
  <2>2. CASE Queue(NextLoop, Functor("established", c))
    <3>1. \A k \in Loops : Range(pending[k]) \subseteq Range(pending'[k])
      BY <1>0, <1>1, <2>2, QueueRange
    <3> QED BY <1>1, <3>1 DEF Bound
  <2> QED BY <2>1, <2>2 DEF NewConnection
<1>6. \A d \in Conn : Owned(d) => Owned(d)'
  BY <1>1, <1>4, <1>5 DEF Owned
<1>7. \A d \in Conn : d # c /\ Owned(d)' => Owned(d)
  <2>1. \A d \in Conn, g \in Fd : NewConnection(d, g) => d = c
    BY <1>0 DEF NewConnection, TypeOK
  <2>2. [Next]_vars
    BY DEF Next, ThreadStep, Accepting
  <2> QED BY <2>1, <2>2, OwnedStep
<1>8. Owned(c)'
  BY <1>1 DEF Owned
<1>9. \A d \in Conn : Owned(d) => fd[d] # f
  BY <1>1 DEF FreeFds
<1>10. Owner(f) = NoConn
  BY <1>0, <1>9 DEF Holding
<1>11. Owner(f)' = c
  BY <1>0, <1>3, <1>8 DEF Holding
<1>12. ASSUME NEW g \in Fd, g # f PROVE Owner(g)' = Owner(g)
  <2>1. ASSUME NEW d \in Conn
        PROVE  Owned(d) /\ fd[d] = g <=> Owned(d)' /\ fd'[d] = g
    <3>1. CASE d = c
      BY <1>1, <1>3, <1>12, <3>1
    <3>2. CASE d # c
      BY <1>3, <1>6, <1>7, <3>2
    <3> QED BY <3>1, <3>2
  <2> QED BY <1>0, <2>1, OwnerSame
<1>13. told[c] = "nothing" /\ (UNCHANGED <<told, reports>> \/ Report(c, "up"))
  BY <1>1 DEF NewConnection, ConnectEstablished, connVars, Inv, ToldInv
<1>14. {d \in Conn : fd[d] # NoFd}' = {d \in Conn : fd[d] # NoFd} \cup {c}
  BY <1>3
<1>15. [g \in Fd |-> Owner(g)]' = [[g \in Fd |-> Owner(g)] EXCEPT ![f] = c]
  BY <1>11, <1>12
<1>16. Table!Accept(c, f)
  BY <1>1, <1>2, <1>10, <1>13, <1>14, <1>15 DEF Table!Accept, Table!Report, Stopping
<1> QED BY <1>16 DEF Table!Next

LEMMA TableStep ==
  ASSUME Inv, Inv', [Next]_vars
  PROVE  [Table!Next]_(Table!vars)
<1>0. TypeOK /\ LoopInv /\ PlaceInv /\ FreshInv /\ ToldInv /\ Holding /\ Holding'
  BY HoldingHolds, PTL DEF Inv
<1> USE LoopFacts, FunctorTypes
<1>a. ASSUME ~(\E c \in Conn, f \in Fd : NewConnection(c, f))
      PROVE  \A c \in Conn : Owned(c)' => Owned(c)
  BY <1>a, OwnedStep
<1>b. ASSUME ~(\E c \in Conn, f \in Fd : NewConnection(c, f)),
             UNCHANGED <<fd, told, reports, Stopping>>
      PROVE  Table!Next
  BY <1>a, <1>b, ReleaseStep
<1>1. CASE \E c \in Conn, f \in Fd : NewConnection(c, f)
  BY <1>1, AcceptStep
<1>2. CASE Destroy
  <2>1. UNCHANGED <<connections, held, pending, functors, fd, told, reports>>
        /\ Stopping'
    BY <1>2 DEF Destroy, connVars, clientVars, threadVars, Stopping
  <2>2. \A c \in Conn : Owned(c)' <=> Owned(c)
    BY <2>1, BoundSame DEF Owned
  <2>3. \A f \in Fd : Owner(f)' = Owner(f)
    BY <1>0, <2>1, <2>2, OwnerSame
  <2>4. Table!Stop
    BY <2>1, <2>3 DEF Table!Stop, Stopping
  <2> QED BY <2>4 DEF Table!Next
<1> DEFINE Accepted == \E c \in Conn, f \in Fd : NewConnection(c, f)
<1>3. CASE ~Accepted /\ ~Destroy
  <2>0. UNCHANGED <<fd, Stopping>>
    BY <1>3 DEF Next, Environment, ThreadStep, LoopStep, Accepting, Destructor, vars, clientVars,
      serverVars, EnterLoop, QuitBase, QuitLoop, DestroyAcceptor, Start, ExitLoop,
      Poll, TakeFunctors, FinishFunctors, AcceptFails, HandleRead, RunListen, HandleClose,
      RunEstablished,
      RunRemove, RunDestroyed, DestroyConnection, Connect, HangUp, Shutdown, UserDrops, Stopping
  <2>1. CASE UNCHANGED <<told, reports>>
    BY <1>b, <1>3, <2>0, <2>1
  <2>2. \A c \in Conn : Owned(c)' => Owned(c)
    BY <1>a, <1>3
  <2> HIDE DEF Accepted
  <2>3. ASSUME NEW l \in Loops, NEW c \in Conn, HandleClose(l, c) PROVE Table!Next
    <3>1. /\ c \in active[l] \ {Acceptor} /\ UNCHANGED <<held, functors, server>>
          /\ Report(c, "down") /\ connections \ {c} \subseteq connections'
          /\ pc[l] = "handle"
      BY <2>3 DEF HandleClose, Handled, RemoveConnectionInLoop, At, serverVars
    <3>2. told[c] = "up" /\ ioLoop[c] = l /\ channel[c].index # "kNew"
      BY <1>0, <3>1 DEF ToldInv, PlaceInv
    <3>3. Owned(c)
      BY <3>1, <3>2, HeldIsOwned
    <3>4. PICK do \in {"remove", "destroyed"}, j \in Loops : Queue(j, Functor(do, c))
      BY <1>0, <2>3 DEF HandleClose, RemoveConnectionInLoop, TypeOK
    <3>5. Functor(do, c).conn = c /\ Functor(do, c) \in FunctorType
      BY <3>4 DEF Functor
    <3>6. /\ Functor(do, c) \in Range(pending'[j])
          /\ \A k \in Loops : Range(pending[k]) \subseteq Range(pending'[k])
      BY <1>0, <3>4, <3>5, QueueRange
    <3>7. c \in Bound(j)' /\ \A k \in Loops : Bound(k) \subseteq Bound(k)'
      BY <3>1, <3>5, <3>6 DEF Bound
    <3>8. \A d \in Conn : Owned(d)' <=> Owned(d)
      BY <2>2, <3>1, <3>7 DEF Owned
    <3> QED BY <2>0, <3>1, <3>2, <3>3, <3>8, ReportStep
  <2>4. ASSUME NEW l \in Loops, RunEstablished(l) PROVE Table!Next
    <3> DEFINE c == Current(l).conn
    <3>1. /\ c \in Conn /\ Current(l) \in NotRun(l) /\ Current(l).do = "established"
          /\ Current(l) \in Range(functors[l])
      BY <1>0, <2>4, CurrentType, NotRunRuns DEF RunEstablished
    <3>2. told[c] = "nothing" /\ Owned(c)
      BY <1>0, <3>1 DEF ToldInv, Owned, Bound
    <3>3. /\ UNCHANGED <<server, connections, pending, functors>> /\ held \subseteq held'
          /\ Report(c, "up")
      BY <2>4 DEF RunEstablished, ConnectEstablished, Runs, serverVars
    <3> HIDE DEF c
    <3>4. \A d \in Conn : Owned(d)' <=> Owned(d)
      BY <2>2, <3>3, BoundSame DEF Owned
    <3> QED BY <2>0, <3>1, <3>2, <3>3, <3>4, ReportStep
  <2>5. ASSUME NEW c \in Conn, ConnectDestroyed(c), ~UNCHANGED <<told, reports>>
        PROVE  told[c] = "up" /\ Report(c, "down")
    <3>1. state[c] = "kConnected" /\ Report(c, "down")
      BY <2>5 DEF ConnectDestroyed
    <3> QED BY <1>0, <3>1 DEF ToldInv, TypeOK
  <2>6. ASSUME NEW l \in Loops, RunDestroyed(l), ~UNCHANGED <<told, reports>> PROVE Table!Next
    <3> DEFINE c == Current(l).conn
    <3>1. c \in Conn /\ Current(l) \in Range(functors[l])
      BY <1>0, <2>6, CurrentType DEF RunDestroyed
    <3>2. Owned(c)
      BY <3>1 DEF Owned, Bound
    <3>3. /\ UNCHANGED <<server, connections, pending, functors, held>> /\ ConnectDestroyed(c)
      BY <2>6 DEF RunDestroyed, ConnectDestroyed, Runs, serverVars
    <3> HIDE DEF c
    <3>4. \A d \in Conn : Owned(d)' <=> Owned(d)
      BY <3>3, BoundSame DEF Owned
    <3>5. told[c] = "up" /\ Report(c, "down")
      BY <2>5, <2>6, <3>1, <3>3
    <3> QED BY <2>0, <3>1, <3>2, <3>3, <3>4, <3>5, ReportStep
  <2>7. ASSUME NEW c \in Conn, DestroyConnection(c), ~UNCHANGED <<told, reports>> PROVE Table!Next
    <3>1. /\ ConnectDestroyed(c) /\ UNCHANGED <<server, pending, functors, held>>
          /\ Stopping /\ c \in connections /\ connections' = connections \ {c}
      BY <2>7 DEF DestroyConnection, ConnectDestroyed, connVars, threadVars, serverVars, Stopping
    <3>2. told[c] = "up" /\ Report(c, "down")
      BY <2>5, <2>7, <3>1
    <3>3. Owned(c) /\ \A d \in Conn \ {c} : Owned(d)' <=> Owned(d)
      BY <3>1, BoundSame DEF Owned
    <3>4. CASE Owned(c)'
      <4>1. \A d \in Conn : Owned(d)' <=> Owned(d)
        BY <3>3, <3>4
      <4> QED BY <2>0, <3>1, <3>2, <3>3, <4>1, ReportStep
    <3>5. CASE ~Owned(c)'
      BY <2>0, <3>1, <3>2, <3>3, <3>5, DiscardStep
    <3> QED BY <3>4, <3>5
  <2> QED
    BY <1>3, <2>1, <2>3, <2>4, <2>6, <2>7
    DEF Next, Environment, ThreadStep, LoopStep, Accepting, Destructor, vars, connVars, EnterLoop,
      QuitBase, QuitLoop, DestroyAcceptor, Start, ExitLoop, Poll, TakeFunctors, FinishFunctors,
      AcceptFails, HandleRead, RunListen, RunRemove, Connect, HangUp, Shutdown, UserDrops,
      Accepted
<1> QED BY <1>1, <1>2, <1>3

\* The server implements module ConnectionTable: descriptors are exclusive,
\* connectionCallback_ is called at most twice for a connection, first for UP and
\* then for DOWN, and no descriptor of a live server is closed before DOWN.  The
\* calls are counted, and shutdown() races with them from another thread; that no
\* other thread sends is assumed (else DOWN can come twice).
THEOREM ImplementsTable == Spec => TableRefinement
<1>1. Init => Table!Init
  <2> SUFFICES ASSUME Init PROVE Table!Init
    OBVIOUS
  <2>1. Holding /\ \A c \in Conn : fd[c] = NoFd
    BY InitInv, HoldingHolds DEF Init
  <2>2. \A f \in Fd : Owner(f) = NoConn
    BY <2>1 DEF Holding
  <2> QED BY <2>1, <2>2 DEF Init, Table!Init
<1>2. Inv /\ Inv' /\ [Next]_vars => [Table!Next]_(Table!vars)
  BY TableStep
<1> QED BY <1>1, <1>2, InvCorrect, PTL DEF Spec, TableRefinement, Table!Spec

-----------------------------------------------------------------------------
(* A server without IO threads *)

LEMMA InPlaceStep ==
  ASSUME N = 0, Inv, InPlaceInv, [Next]_vars
  PROVE  InPlaceInv'
<1>0. TypeOK /\ LoopInv /\ PlaceInv
  BY DEF Inv
<1> USE LoopFacts, FunctorTypes
<1> DEFINE NoDetour == \A l \in Loops : \A x \in Range(pending[l]) \cup Range(functors[l]) :
                         x.do \in {"listen", "destroyed"}
           Up(c) == told[c] = "up" =>
                      state[c] = "kDisconnecting" \/ (state[c] = "kConnected" /\ c \in connections)
           Empty == server = "gone" => connections = {}
<1>a. NoDetour /\ (\A c \in Conn : Up(c)) /\ Empty
  BY DEF InPlaceInv
<1>b. NoDetour' /\ (\A c \in Conn : Up(c)') /\ Empty' => InPlaceInv'
  BY DEF InPlaceInv
<1>c. Loops = {0} /\ NextLoop = 0 /\ \A c \in Conn : ioLoop[c] = 0
  BY <1>0 DEF Loops, NextLoop, TypeOK
<1> HIDE DEF NoDetour
<1>d. ASSUME UNCHANGED <<pending, functors>> PROVE NoDetour'
  BY <1>a, <1>d DEF NoDetour
<1>e. ASSUME NEW x \in FunctorType, Queue(0, x), UNCHANGED functors,
             x.do \in {"listen", "destroyed"}
      PROVE  NoDetour'
  <2>1. Range(pending'[0]) = Range(pending[0]) \cup {x}
    BY <1>0, <1>e, QueueRange
  <2> QED BY <1>a, <1>c, <1>e, <2>1 DEF NoDetour
<1>f. \A c \in Conn : Functor("destroyed", c).do = "destroyed"
                      /\ Functor("destroyed", c) \in FunctorType
  BY DEF Functor
<1>1. ASSUME UNCHANGED <<told, state>>, connections' = connections,
             server' = "gone" => server = "gone" \/ connections = {}
      PROVE  (\A c \in Conn : Up(c)') /\ Empty'
  BY <1>a, <1>1
<1>2. CASE UNCHANGED vars
  BY <1>b, <1>d, <1>1, <1>2 DEF vars, serverVars, connVars, threadVars
<1>3. CASE \/ EnterLoop \/ QuitBase \/ Destroy \/ DestroyAcceptor
           \/ \E l \in Loops : QuitLoop(l) \/ Poll(l) \/ RunListen(l)
           \/ \E c \in Conn : Connect(c) \/ HangUp(c) \/ UserDrops(c)
           \/ AcceptFails \/ \E l \in Loops, c \in Conn : HandleRead(l, c)
  <2>1. UNCHANGED <<pending, functors, told, state, connections>>
        /\ (server' = "gone" => server = "gone" \/ connections = {})
    BY <1>3 DEF EnterLoop, QuitBase, Destroy, DestroyAcceptor, QuitLoop, Poll, RunListen, Runs,
         Connect, HangUp, UserDrops, AcceptFails, HandleRead, Handled, serverVars, connVars,
         threadVars
  <2> QED BY <1>b, <1>d, <1>1, <2>1
<1>4. CASE Start
  <2>1. Queue(0, Functor("listen", NoConn)) \/ UNCHANGED pending
    BY <1>4 DEF Start
  <2>2. Functor("listen", NoConn).do = "listen"
    BY DEF Functor
  <2>3. NoDetour'
    BY <1>d, <1>e, <1>4, <2>1, <2>2 DEF Start
  <2> QED BY <1>b, <1>1, <1>4, <2>3 DEF Start, connVars
<1>5. ASSUME NEW l \in Loops, ExitLoop(l) \/ TakeFunctors(l) \/ FinishFunctors(l)
      PROVE  InPlaceInv'
  <2>1. Range(<<>>) = {}
    BY DEF Range
  <2>2. /\ \/ pending' = pending /\ (functors' = functors \/ functors'[0] = <<>>)
           \/ pending'[0] = <<>> /\ functors'[0] = pending[0]
        /\ UNCHANGED <<told, state, connections, server>>
    BY <1>0, <1>c, <1>5 DEF ExitLoop, TakeFunctors, FinishFunctors, TypeOK, serverVars, connVars
  <2>3. NoDetour'
    BY <1>a, <1>c, <2>1, <2>2 DEF NoDetour
  <2> QED BY <1>b, <1>1, <2>2, <2>3
<1>6. ASSUME NEW c \in Conn, Shutdown(c) PROVE InPlaceInv'
  <2>1. UNCHANGED <<pending, functors, told, connections, server>>
        /\ (UNCHANGED state \/ state' = [state EXCEPT ![c] = "kDisconnecting"])
    BY <1>6 DEF Shutdown, threadVars, serverVars
  <2>2. \A d \in Conn : Up(d)'
    BY <1>a, <1>0, <2>1 DEF TypeOK
  <2> QED BY <1>a, <1>b, <1>d, <2>1, <2>2
<1>7. ASSUME NEW c \in Conn, NEW f \in Fd, NewConnection(c, f) PROVE InPlaceInv'
  <2>1. /\ UNCHANGED <<pending, functors, server>> /\ connections' = connections \cup {c}
        /\ state' = [state EXCEPT ![c] = "kConnected"] /\ told' = [told EXCEPT ![c] = "up"]
        /\ pc[0] = "handle"
    BY <1>c, <1>7 DEF NewConnection, Handled, At, ConnectEstablished
  <2>2. \A d \in Conn : Up(d)'
    BY <1>a, <1>0, <2>1 DEF TypeOK
  <2>3. Empty'
    BY <1>0, <2>1 DEF LoopInv
  <2> QED BY <1>b, <1>d, <2>1, <2>2, <2>3
<1>8. ASSUME NEW l \in Loops, NEW c \in Conn, HandleClose(l, c) PROVE InPlaceInv'
  <2>1. /\ Queue(0, Functor("destroyed", c)) /\ UNCHANGED <<functors, server>>
        /\ connections' = connections \ {c} /\ told' = [told EXCEPT ![c] = "down"]
        /\ state' = [state EXCEPT ![c] = "kDisconnected"]
    BY <1>c, <1>8 DEF HandleClose, Handled, RemoveConnectionInLoop, serverVars
  <2>2. \A d \in Conn : Up(d)'
    BY <1>a, <1>0, <2>1 DEF TypeOK
  <2>3. NoDetour'
    BY <1>e, <1>f, <2>1
  <2> QED BY <1>a, <1>b, <2>1, <2>2, <2>3
<1>9. ASSUME NEW l \in Loops, RunEstablished(l) \/ RunRemove(l) PROVE InPlaceInv'
  <2>1. Current(l) \in Range(functors[l]) /\ Current(l).do \in {"established", "remove"}
    BY <1>0, <1>9, CurrentType DEF RunEstablished, RunRemove
  <2>2. FALSE
    BY <1>a, <2>1 DEF NoDetour
  <2> QED BY <2>2
<1>10. ASSUME NEW c \in Conn, ConnectDestroyed(c), connections \ {c} \subseteq connections'
       PROVE  \A d \in Conn : Up(d)'
  <2>1. \/ /\ state' = [state EXCEPT ![c] = "kDisconnected"]
           /\ told' = [told EXCEPT ![c] = "down"]
        \/ UNCHANGED <<state, told>> /\ state[c] # "kConnected"
    BY <1>10 DEF ConnectDestroyed
  <2> SUFFICES ASSUME NEW d \in Conn PROVE Up(d)'
    OBVIOUS
  <2>2. CASE d = c
    BY <1>a, <1>0, <2>1, <2>2 DEF TypeOK
  <2>3. CASE d # c
    BY <1>a, <1>0, <1>10, <2>1, <2>3 DEF TypeOK
  <2> QED BY <2>2, <2>3
<1>11. ASSUME NEW l \in Loops, RunDestroyed(l) PROVE InPlaceInv'
  <2>1. Current(l).conn \in Conn
    BY <1>0, <1>11, CurrentType DEF RunDestroyed
  <2>2. UNCHANGED <<pending, functors, connections, server>>
    BY <1>11 DEF RunDestroyed, Runs, serverVars
  <2>3. \A d \in Conn : Up(d)'
    BY <1>10, <1>11, <2>1, <2>2 DEF RunDestroyed
  <2> QED BY <1>a, <1>b, <1>d, <2>2, <2>3
<1>12. ASSUME NEW c \in Conn, DestroyConnection(c) PROVE InPlaceInv'
  <2>1. /\ UNCHANGED <<pending, functors, server>> /\ ConnectDestroyed(c)
        /\ connections' = connections \ {c}
    BY <1>c, <1>12 DEF DestroyConnection, serverVars, threadVars
  <2>2. \A d \in Conn : Up(d)'
    BY <1>10, <2>1
  <2> QED BY <1>a, <1>b, <1>d, <2>1, <2>2
<1> QED
  BY <1>2, <1>3, <1>4, <1>5, <1>6, <1>7, <1>8, <1>9, <1>11, <1>12
  DEF Next, Environment, ThreadStep, LoopStep, Accepting, Destructor

\* In the base loop's thread ~TcpServer reports DOWN for every connection.
THEOREM InPlaceUpHasDown ==
  ASSUME N = 0
  PROVE  Spec => []EveryUpHasDown
<1>1. Init => InPlaceInv
  BY DEF Init, InPlaceInv, Range
<1>2. Inv /\ InPlaceInv /\ [Next]_vars => InPlaceInv'
  BY InPlaceStep
<1>3. InPlaceInv => EveryUpHasDown
  BY DEF InPlaceInv, EveryUpHasDown
<1> QED BY <1>1, <1>2, <1>3, InvCorrect, PTL DEF Spec

=============================================================================
