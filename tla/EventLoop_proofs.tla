-------------------------- MODULE EventLoop_proofs --------------------------
(***************************************************************************)
(* Proofs about EventLoop for any set of threads, any set of functors and  *)
(* any eventfd limit: type correctness, no lost wakeup or quit, and the    *)
(* refinement of TaskQueue.                                                *)
(***************************************************************************)
EXTENDS EventLoop, TLAPS

-----------------------------------------------------------------------------
(* Sequences and the eventfd counter *)

\* wakeup() leaves a nonzero counter within its limit, also when the write
\* fails because the counter is at its maximum.
LEMMA SignalledIsNonzero ==
  ASSUME NEW n \in 0..EventfdMax
  PROVE  Signalled(n) \in 0..EventfdMax /\ Signalled(n) > 0
BY EventfdAssumption DEF Signalled, EventfdAssumption

\* emplace_back adds its functor and nothing else to the list's elements.
LEMMA RangeAppend ==
  ASSUME NEW s \in Seq(Task), NEW t \in Task
  PROVE  Range(Append(s, t)) = Range(s) \cup {t}
<1>1. Range(Append(s, t)) \subseteq Range(s) \cup {t}
  BY DEF Range
<1>2. Range(s) \subseteq Range(Append(s, t))
  <2>1. SUFFICES ASSUME NEW i \in DOMAIN s PROVE s[i] \in Range(Append(s, t))
    BY DEF Range
  <2>2. i \in DOMAIN Append(s, t) /\ Append(s, t)[i] = s[i]
    OBVIOUS
  <2> QED BY <2>2 DEF Range
<1>3. t \in Range(Append(s, t))
  <2>1. Len(s) + 1 \in DOMAIN Append(s, t) /\ Append(s, t)[Len(s) + 1] = t
    OBVIOUS
  <2> QED BY <2>1 DEF Range
<1> QED BY <1>1, <1>2, <1>3

\* After the swap the shared list has no elements.
LEMMA RangeEmpty == Range(<<>>) = {}
BY DEF Range

\* A vector just created is a list of functors.
LEMMA EmptyIsSeq == <<>> \in Seq(Task)
OBVIOUS

-----------------------------------------------------------------------------
(* Type correctness *)

\* The constructor leaves every variable in its type.
LEMMA TypeInit == Init => TypeOK
<1> SUFFICES ASSUME Init PROVE TypeOK
  OBVIOUS
<1>1. 0 \in 0..EventfdMax
  BY EventfdAssumption DEF EventfdAssumption
<1> QED BY <1>1, EmptyIsSeq DEF Init, TypeOK, PC

\* Every step keeps every variable in its type.
LEMMA TypeStep == TypeOK /\ [Next]_vars => TypeOK'
<1> SUFFICES ASSUME TypeOK, [Next]_vars PROVE TypeOK'
  OBVIOUS
<1> USE DEF TypeOK, PC, Channels, loopVars, history
<1>1. CASE Poll
  BY <1>1 DEF Poll, PollEmpty, PollReady
<1>2. CASE StartLoop \/ KeepLooping \/ StopLoop
  BY <1>2 DEF StartLoop, KeepLooping, StopLoop
<1>3. CASE HandleWakeup \/ HandleIo
  <2>1. 0 \in 0..EventfdMax
    BY EventfdAssumption DEF EventfdAssumption
  <2> QED BY <1>3, <2>1 DEF HandleWakeup, HandleIo
<1>4. CASE TakeFunctors \/ FunctorReturns \/ FinishFunctors
  BY <1>4, EmptyIsSeq DEF TakeFunctors, FunctorReturns, FinishFunctors
<1>5. CASE RunFunctor
  BY <1>5 DEF RunFunctor
<1>6. CASE QuitOwn
  BY <1>6 DEF QuitOwn
<1>7. ASSUME NEW t \in Task, QueueInLoopOwn(t) PROVE TypeOK'
  BY <1>7, SignalledIsNonzero DEF QueueInLoopOwn
<1>8. ASSUME NEW p \in Posters, Quit(p) PROVE TypeOK'
  BY <1>8 DEF Quit
<1>9. ASSUME NEW p \in Posters, Wakeup(p) PROVE TypeOK'
  BY <1>9, SignalledIsNonzero DEF Wakeup
<1>10. ASSUME NEW p \in Posters, NEW t \in Task, QueueInLoop(p, t) PROVE TypeOK'
  BY <1>10 DEF QueueInLoop
<1>11. CASE UNCHANGED vars
  BY <1>11 DEF vars
<1> QED
  BY <1>1, <1>2, <1>3, <1>4, <1>5, <1>6, <1>7, <1>8, <1>9, <1>10, <1>11
  DEF Next, Proceed, Own, Other

\* Every variable keeps its type in any number of threads: in particular the
\* eventfd counter never passes its limit and both lists hold functors only.
THEOREM TypeCorrect == Spec => []TypeOK
<1>1. Init => TypeOK
  BY TypeInit
<1>2. TypeOK /\ [Next]_vars => TypeOK'
  BY TypeStep
<1> QED BY <1>1, <1>2, PTL DEF Spec

-----------------------------------------------------------------------------
(* No lost wakeup, no lost quit *)

\* Every step keeps the invariant.  SignalInv is disturbed by whoever adds to
\* pending, by the read of the eventfd and by leaving "handle"; the poster or
\* the counter answers for the first, TakeFunctors empties pending for the last.
LEMMA InvStep == Inv /\ [Next]_vars => Inv'
<1> SUFFICES ASSUME Inv, [Next]_vars PROVE Inv'
  OBVIOUS
<1> USE DEF Inv, SignalInv, BatchInv, NoLostQuit, WakeupOnItsWay, loopVars, history
<1>0. TypeOK'
  BY TypeStep
<1>1. CASE Poll
  BY <1>0, <1>1 DEF Poll, PollEmpty, PollReady
<1>2. CASE StartLoop \/ KeepLooping \/ StopLoop
  BY <1>0, <1>2 DEF StartLoop, KeepLooping, StopLoop
<1>3. CASE HandleWakeup \/ HandleIo
  BY <1>0, <1>3 DEF HandleWakeup, HandleIo
<1>4. CASE TakeFunctors
  BY <1>0, <1>4, RangeEmpty DEF TakeFunctors
<1>5. CASE RunFunctor \/ FunctorReturns \/ FinishFunctors
  BY <1>0, <1>5 DEF RunFunctor, FunctorReturns, FinishFunctors
<1>6. CASE QuitOwn
  BY <1>0, <1>6 DEF QuitOwn, InCallback
<1>7. ASSUME NEW t \in Task, QueueInLoopOwn(t) PROVE Inv'
  <2>1. pending \in Seq(Task) /\ evfd \in 0..EventfdMax
    BY DEF TypeOK
  <2>2. Range(pending') = Range(pending) \cup {t}
    BY <1>7, <2>1, RangeAppend DEF QueueInLoopOwn
  <2>3. SignalInv'
    <3>1. CASE pc = "start"
      <4>1. Range(pending') \ early' \subseteq Range(pending) \ early
        BY <1>7, <2>2, <3>1 DEF QueueInLoopOwn
      <4>2. evfd' = evfd /\ poster' = poster /\ pc' = pc
        BY <1>7, <3>1 DEF QueueInLoopOwn
      <4> QED BY <3>1, <4>1, <4>2
    <3>2. CASE pc = "handle"
      BY <1>7, <3>2 DEF QueueInLoopOwn
    <3>3. CASE pc = "functor"
      BY <1>7, <2>1, <3>3, SignalledIsNonzero DEF QueueInLoopOwn
    <3> QED BY <1>7, <3>1, <3>2, <3>3 DEF QueueInLoopOwn, InCallback
  <2>4. NoLostQuit' /\ BatchInv'
    BY <1>7 DEF QueueInLoopOwn, InCallback
  <2> QED BY <1>0, <2>3, <2>4
<1>8. ASSUME NEW p \in Posters, Quit(p) PROVE Inv'
  <2>1. poster'[p] = "wake"
    BY <1>8 DEF Quit, TypeOK
  <2> QED BY <1>0, <1>8, <2>1 DEF Quit
<1>9. ASSUME NEW p \in Posters, Wakeup(p) PROVE Inv'
  <2>1. evfd' > 0
    BY <1>9, SignalledIsNonzero DEF Wakeup, TypeOK
  <2> QED BY <1>0, <1>9, <2>1 DEF Wakeup
<1>10. ASSUME NEW p \in Posters, NEW t \in Task, QueueInLoop(p, t) PROVE Inv'
  <2>1. poster'[p] = "wake"
    BY <1>10 DEF QueueInLoop, TypeOK
  <2> QED BY <1>0, <1>10, <2>1 DEF QueueInLoop
<1>11. CASE UNCHANGED vars
  BY <1>0, <1>11 DEF vars
<1> QED
  BY <1>1, <1>2, <1>3, <1>4, <1>5, <1>6, <1>7, <1>8, <1>9, <1>10, <1>11
  DEF Next, Proceed, Own, Other

\* The invariant holds throughout every behaviour.
THEOREM InvHolds == Spec => []Inv
<1>1. Init => Inv
  BY TypeInit, RangeEmpty DEF Init, Inv, SignalInv, NoLostQuit, BatchInv
<1> QED BY <1>1, InvStep, PTL DEF Spec

\* queueInLoop never leaves a functor behind a sleeping loop thread: the
\* swap under the lock, the unlocked eventfd write and the read that clears
\* the counter can interleave in any way among any number of threads.
THEOREM WakeupsAreNotLost == Spec => []NoLostWakeup
<1>1. Inv => NoLostWakeup
  BY DEF Inv, SignalInv, NoLostWakeup
<1> QED BY <1>1, InvHolds, PTL

\* quit() from any thread is never slept through.
THEOREM QuitsAreNotLost == Spec => []NoLostQuit
<1>1. Inv => NoLostQuit
  BY DEF Inv
<1> QED BY <1>1, InvHolds, PTL

-----------------------------------------------------------------------------
(* EventLoop implements TaskQueue *)

\* Vectors: what the swap and the loop over the batch do to the whole backlog.
LEMMA ConcatAppend ==
  ASSUME NEW s \in Seq(Task), NEW u \in Seq(Task), NEW t \in Task
  PROVE  s \o Append(u, t) = Append(s \o u, t)
OBVIOUS

LEMMA ConcatHeadTail ==
  ASSUME NEW s \in Seq(Task), NEW u \in Seq(Task), s # <<>>
  PROVE  /\ s \o u # <<>>
         /\ Head(s \o u) = Head(s)
         /\ Tail(s \o u) = Tail(s) \o u
<1>1. s \o u \in Seq(Task) /\ Len(s) > 0 /\ Len(s \o u) = Len(s) + Len(u)
  OBVIOUS
<1>2. s \o u # <<>> /\ Head(s \o u) = Head(s)
  BY <1>1
<1>3. Tail(s \o u) = Tail(s) \o u
  <2>1. Len(Tail(s \o u)) = Len(Tail(s) \o u)
    BY <1>1, <1>2
  <2>2. ASSUME NEW i \in 1..Len(Tail(s \o u))
        PROVE  Tail(s \o u)[i] = (Tail(s) \o u)[i]
    BY <1>1, <1>2
  <2>3. Tail(s \o u) \in Seq(Task) /\ Tail(s) \o u \in Seq(Task)
    BY <1>1, <1>2
  <2> QED BY <2>1, <2>2, <2>3
<1> QED BY <1>2, <1>3

LEMMA ConcatEmpty ==
  ASSUME NEW s \in Seq(Task)
  PROVE  <<>> \o s = s /\ s \o <<>> = s
OBVIOUS

\* Each step of the loop and of its callers is a step of TaskQueue or leaves
\* the backlog as it is: only starting a functor takes from it, the swap moves
\* it from one vector to the other.
LEMMA RefinementStep == Inv /\ [Next]_vars => [TQ!Next]_(TQ!vars)
<1> SUFFICES ASSUME Inv, [Next]_vars PROVE [TQ!Next]_(TQ!vars)
  OBVIOUS
<1> USE DEF TQ!Next, TQ!vars, loopVars, history
<1>0. pending \in Seq(Task) /\ functors \in Seq(Task)
  BY DEF Inv, TypeOK
<1>1. CASE Poll
  BY <1>1 DEF Poll, PollEmpty, PollReady
<1>2. CASE StartLoop \/ KeepLooping \/ StopLoop \/ HandleWakeup \/ HandleIo
  BY <1>2 DEF StartLoop, KeepLooping, StopLoop, HandleWakeup, HandleIo
<1>3. CASE TakeFunctors
  <2>1. functors = <<>>
    BY <1>3 DEF Inv, BatchInv, TakeFunctors
  <2>2. functors' \o pending' = functors \o pending
    BY <1>0, <1>3, <2>1, ConcatEmpty DEF TakeFunctors
  <2> QED BY <1>3, <2>2 DEF TakeFunctors
<1>4. CASE RunFunctor
  <2>1. TQ!RunNext
    BY <1>0, <1>4, ConcatHeadTail DEF RunFunctor, TQ!RunNext
  <2> QED BY <2>1
<1>5. CASE FunctorReturns \/ FinishFunctors
  BY <1>5 DEF FunctorReturns, FinishFunctors
<1>6. CASE QuitOwn
  BY <1>6 DEF QuitOwn
<1>7. ASSUME NEW t \in Task, QueueInLoopOwn(t) PROVE TQ!Submit(t)
  BY <1>0, <1>7, ConcatAppend DEF QueueInLoopOwn, TQ!Submit
<1>8. ASSUME NEW p \in Posters, NEW t \in Task, QueueInLoop(p, t) PROVE TQ!Submit(t)
  BY <1>0, <1>8, ConcatAppend DEF QueueInLoop, TQ!Submit
<1>9. ASSUME NEW p \in Posters, Quit(p) \/ Wakeup(p) PROVE UNCHANGED TQ!vars
  BY <1>9 DEF Quit, Wakeup
<1>10. CASE UNCHANGED vars
  BY <1>10 DEF vars
<1> QED
  BY <1>1, <1>2, <1>3, <1>4, <1>5, <1>6, <1>7, <1>8, <1>9, <1>10
  DEF Next, Proceed, Own, Other

\* Functors start in the order queueInLoop took them and at most once each,
\* whatever the interleaving of the two vectors' swap with push_back.
THEOREM LoopIsFifo == Spec => FifoAtMostOnce
<1>1. Init => TQ!Init
  BY ConcatEmpty, EmptyIsSeq DEF Init, TQ!Init
<1> QED BY <1>1, InvHolds, RefinementStep, PTL DEF Spec, FifoAtMostOnce, TQ!Spec

=============================================================================
