--------------------- MODULE EventLoopThreadPool_proofs ---------------------
(***************************************************************************)
(* For any number of IO threads: the pool's variables keep their types,    *)
(* loops are dealt out evenly, and what the base thread uses or destroys   *)
(* exists or has ended.                                                    *)
(***************************************************************************)
EXTENDS EventLoopThreadPool, TLAPS

USE NAssumption, QuittersAssumption

\* The invariant holds of a pool that has been constructed.
LEMMA InitInv == Init => Inv
<1> SUFFICES ASSUME Init PROVE Inv
  OBVIOUS
<1> USE DEF Init
<1>1. TypeOK
  BY DEF TypeOK, BaseAt, Starting, Destroying, ThreadAt, Threads
<1>2. Progress
  BY DEF Progress, Starting, Destroying
<1>3. SpawnInv /\ PublishedInv
  BY DEF SpawnInv, PublishedInv, Threads
<1>4. QuitInv /\ ThreadsAreJoined
  BY DEF QuitInv, ThreadsAreJoined, Undisturbed, Threads
<1>5. DealInv
  BY DEF DealInv, Threads
<1> QED
  BY <1>1, <1>2, <1>3, <1>4, <1>5 DEF Inv

\* Every action keeps the types.
LEMMA NextTypeOK == Inv /\ [Next]_vars => TypeOK'
<1> SUFFICES ASSUME TypeOK, Progress, DealInv, [Next]_vars PROVE TypeOK'
  BY DEF Inv
<1> USE DEF TypeOK, BaseAt, Starting, Destroying, ThreadAt, Threads, Progress
<1>1. CASE Start \/ SemWait \/ WaitForLoop \/ SpuriousWakeup
  BY <1>1 DEF Start, SemWait, WaitForLoop, SpuriousWakeup
<1>2. CASE Spawn
  BY <1>2 DEF Spawn, Move
<1>3. CASE GetLoop
  <2>1. next = 0
    BY <1>3 DEF GetLoop, DealInv
  <2> QED
    BY <1>3, <2>1 DEF GetLoop
<1>4. CASE GetNextLoop
  <2>1. CASE loops > 0
    <3>1. next + 1 \in 0..N /\ After(next) \in 0..N /\ After(next) < loops
      BY <2>1 DEF After
    <3>2. dealt' \in [0..N -> Nat]
      BY <1>4, <2>1, <3>1 DEF GetNextLoop
    <3>3. UNCHANGED <<at, cur, loops, freed, thread, published, quit>>
          /\ next' = After(next)
      BY <1>4, <2>1 DEF GetNextLoop
    <3> QED
      BY <2>1, <3>1, <3>2, <3>3
  <2>2. CASE loops = 0
    <3>1. dealt' = [dealt EXCEPT ![0] = @ + 1]
          /\ UNCHANGED <<at, cur, loops, next, freed, thread, published, quit>>
      BY <1>4, <2>2 DEF GetNextLoop
    <3>2. dealt' \in [0..N -> Nat]
      BY <3>1
    <3> QED
      BY <2>2, <3>1, <3>2
  <2>3. loops > 0 \/ loops = 0
    OBVIOUS
  <2> HIDE DEF TypeOK, Progress
  <2> QED
    BY <2>1, <2>2, <2>3
<1>5. CASE Destroy
  BY <1>5 DEF Destroy
<1>6. CASE ReadLoop \/ QuitLoop \/ WakeLoop
  BY <1>6 DEF ReadLoop, QuitLoop, WakeLoop
<1>7. CASE Detach \/ Join
  <2>1. Free /\ cur <= N /\ UNCHANGED <<loops, next, dealt, thread, published, quit>>
    BY <1>7 DEF Detach, Join
  <2>2. freed' \subseteq Threads /\ cur' \in 1..(N + 1) /\ at' \in BaseAt
    BY <2>1 DEF Free
  <2> QED
    BY <2>1, <2>2
<1>8. ASSUME NEW t \in Threads, ThreadStep(t) \/ UserQuit(t) PROVE TypeOK'
  <2>1. CASE Publish(t)
    BY <2>1 DEF Publish, Move
  <2>2. CASE Post(t) \/ MakeLoop(t) \/ EnterLoop(t) \/ LeaveLoop(t)
    BY <2>2 DEF Post, MakeLoop, EnterLoop, LeaveLoop, Move, base
  <2>3. CASE ClearLoop(t) \/ Unlock(t) \/ DestroyLoop(t) \/ UserQuit(t)
    BY <2>3 DEF ClearLoop, Unlock, DestroyLoop, UserQuit, Move, base
  <2> QED
    BY <1>8, <2>1, <2>2, <2>3 DEF ThreadStep
<1>9. CASE UNCHANGED vars
  BY <1>9 DEF vars
<1> QED
  BY <1>1, <1>2, <1>3, <1>4, <1>5, <1>6, <1>7, <1>8, <1>9
     DEF Next, StartStep, DestroyStep

\* The base thread's place in start() and in the destructor.
LEMMA NextProgress == Inv /\ [Next]_vars => Progress'
<1> SUFFICES ASSUME TypeOK, Progress, [Next]_vars PROVE Progress'
  BY DEF Inv
<1> USE DEF TypeOK, BaseAt, Starting, Destroying, Threads, Progress
<1>1. CASE Start \/ Spawn \/ SemWait
  <2>1. CASE Start
    BY <2>1 DEF Start
  <2>2. CASE Spawn \/ SemWait
    BY <2>2 DEF Spawn, SemWait
  <2> QED
    BY <1>1, <2>1, <2>2
<1>2. CASE WaitForLoop \/ SpuriousWakeup
  BY <1>2 DEF WaitForLoop, SpuriousWakeup
<1>3. CASE GetLoop
  BY <1>3 DEF GetLoop
<1>4. CASE GetNextLoop \/ Destroy
  <2>1. CASE GetNextLoop
    BY <2>1 DEF GetNextLoop
  <2>2. CASE Destroy
    BY <2>2 DEF Destroy
  <2> QED
    BY <1>4, <2>1, <2>2
<1>5. CASE DestroyStep
  <2>1. CASE ReadLoop \/ QuitLoop \/ WakeLoop
    BY <2>1 DEF ReadLoop, QuitLoop, WakeLoop
  <2>2. CASE Free /\ at \in Destroying /\ UNCHANGED loops
    <3>1. freed' = 1..cur /\ cur' = cur + 1
      BY <2>2 DEF Free
    <3>2. CASE cur < N
      BY <2>2, <3>1, <3>2 DEF Free
    <3>3. CASE cur = N
      BY <2>2, <3>1, <3>3 DEF Free
    <3> QED
      BY <2>2, <3>2, <3>3
  <2> QED
    BY <1>5, <2>1, <2>2 DEF DestroyStep, Detach, Join
<1>6. ASSUME NEW t \in Threads, ThreadStep(t) \/ UserQuit(t) PROVE Progress'
  <2>1. CASE Publish(t)
    BY <2>1 DEF Publish
  <2>2. CASE UNCHANGED base
    BY <2>2 DEF base
  <2> QED
    BY <1>6, <2>1, <2>2
       DEF ThreadStep, Post, MakeLoop, EnterLoop, LeaveLoop, ClearLoop, Unlock,
           DestroyLoop, UserQuit, base
<1>7. CASE UNCHANGED vars
  BY <1>7 DEF vars
<1> QED
  BY <1>1, <1>2, <1>3, <1>4, <1>5, <1>6, <1>7 DEF Next, StartStep

\* loop_ is set exactly while the thread is between its two critical sections.
LEMMA NextPublished == Inv /\ [Next]_vars => PublishedInv'
<1> SUFFICES ASSUME TypeOK, PublishedInv, [Next]_vars PROVE PublishedInv'
  BY DEF Inv
<1> USE DEF TypeOK, ThreadAt, PublishedInv
<1>1. CASE UNCHANGED <<thread, published>>
  BY <1>1
<1>2. CASE Spawn
  BY <1>2 DEF Spawn, Move
<1>3. ASSUME NEW t \in Threads, ThreadStep(t) PROVE PublishedInv'
  <2>1. CASE Publish(t) \/ ClearLoop(t)
    BY <2>1 DEF Publish, ClearLoop, Move
  <2>2. CASE Post(t) \/ MakeLoop(t) \/ EnterLoop(t) \/ LeaveLoop(t) \/ Unlock(t)
             \/ DestroyLoop(t)
    BY <2>2 DEF Post, MakeLoop, EnterLoop, LeaveLoop, Unlock, DestroyLoop, Move
  <2> QED
    BY <1>3, <2>1, <2>2 DEF ThreadStep
<1> QED
  BY <1>1, <1>2, <1>3
     DEF Next, StartStep, DestroyStep, Start, SemWait, GetLoop, WaitForLoop,
         SpuriousWakeup, GetNextLoop, Destroy, ReadLoop, Detach, QuitLoop, WakeLoop,
         Join, UserQuit, vars

\* Threads are spawned in turn, and only loops that are ready are in loops_.
LEMMA NextSpawn == Inv /\ [Next]_vars => SpawnInv'
<1> SUFFICES ASSUME TypeOK, Progress, PublishedInv, SpawnInv, [Next]_vars
             PROVE  SpawnInv'
  BY DEF Inv
<1> USE DEF TypeOK, ThreadAt, BaseAt, Starting, Destroying, Threads, SpawnInv, Progress
<1>1. CASE Start \/ SemWait \/ WaitForLoop \/ SpuriousWakeup
  BY <1>1 DEF Start, SemWait, WaitForLoop, SpuriousWakeup
<1>2. CASE Spawn
  BY <1>2 DEF Spawn, Move
<1>3. CASE GetLoop
  BY <1>3 DEF GetLoop, PublishedInv
<1>4. CASE GetNextLoop \/ Destroy
  BY <1>4 DEF GetNextLoop, Destroy
<1>5. CASE ReadLoop \/ QuitLoop \/ WakeLoop \/ Detach \/ Join
  BY <1>5 DEF ReadLoop, QuitLoop, WakeLoop, Detach, Join, Free
<1>6. ASSUME NEW t \in Threads, ThreadStep(t) \/ UserQuit(t) PROVE SpawnInv'
  <2>1. CASE Publish(t)
    BY <2>1 DEF Publish, Move
  <2>2. CASE Post(t)
    BY <2>2 DEF Post, Move, base
  <2>3. CASE MakeLoop(t)
    BY <2>3 DEF MakeLoop, Move, base
  <2>4. CASE EnterLoop(t)
    BY <2>4 DEF EnterLoop, Move, base
  <2>5. CASE LeaveLoop(t)
    BY <2>5 DEF LeaveLoop, Move, base
  <2>6. CASE ClearLoop(t)
    BY <2>6 DEF ClearLoop, Move, base
  <2>7. CASE Unlock(t)
    BY <2>7 DEF Unlock, Move, base
  <2>8. CASE DestroyLoop(t)
    BY <2>8 DEF DestroyLoop, Move, base
  <2>9. CASE UserQuit(t)
    BY <2>9 DEF UserQuit, base
  <2> QED
    BY <1>6, <2>1, <2>2, <2>3, <2>4, <2>5, <2>6, <2>7, <2>8, <2>9 DEF ThreadStep
<1>7. CASE UNCHANGED vars
  BY <1>7 DEF vars
<1> QED
  BY <1>1, <1>2, <1>3, <1>4, <1>5, <1>6, <1>7 DEF Next, StartStep, DestroyStep

\* quit_ of an undisturbed loop is set by its destructor alone, and the loop
\* ends only after that.
LEMMA NextQuit == Inv /\ [Next]_vars => QuitInv'
<1> SUFFICES ASSUME Inv, [Next]_vars, NEW u \in Undisturbed
             PROVE  /\ thread'[u] \in {"returned", "locked", "unlocked", "exited"}
                         => quit'[u]
                    /\ quit'[u] => \/ at' \in {"waking", "joining"} /\ cur' = u
                                   \/ u \in freed'
  BY DEF QuitInv
<1> USE DEF Inv, TypeOK, QuitInv, Undisturbed
<1>1. CASE Start \/ SemWait \/ WaitForLoop \/ SpuriousWakeup \/ GetLoop
  BY <1>1 DEF Start, SemWait, WaitForLoop, SpuriousWakeup, GetLoop
<1>2. CASE Spawn
  BY <1>2 DEF Spawn, Move
<1>3. CASE GetNextLoop \/ Destroy \/ ReadLoop \/ WakeLoop
  BY <1>3 DEF GetNextLoop, Destroy, ReadLoop, WakeLoop
<1>4. CASE QuitLoop
  BY <1>4 DEF QuitLoop
<1>5. CASE Detach \/ Join
  BY <1>5 DEF Detach, Join, Free
<1>6. ASSUME NEW t \in Threads, ThreadStep(t) PROVE QuitInv'
  <2>1. CASE Publish(t)
    BY <2>1 DEF Publish, Move
  <2>2. CASE EnterLoop(t)
    BY <2>2 DEF EnterLoop, Move, base
  <2>3. CASE Post(t) \/ MakeLoop(t) \/ LeaveLoop(t)
    BY <2>3 DEF Post, MakeLoop, LeaveLoop, Move, base
  <2>4. CASE ClearLoop(t) \/ Unlock(t) \/ DestroyLoop(t)
    BY <2>4 DEF ClearLoop, Unlock, DestroyLoop, Move, base
  <2> QED
    BY <1>6, <2>1, <2>2, <2>3, <2>4 DEF ThreadStep
<1>7. ASSUME NEW t \in Threads, UserQuit(t) PROVE QuitInv'
  BY <1>7 DEF UserQuit, base
<1>8. CASE UNCHANGED vars
  BY <1>8 DEF vars
<1> QED
  BY <1>1, <1>2, <1>3, <1>4, <1>5, <1>6, <1>7, <1>8
     DEF Next, StartStep, DestroyStep

\* An undisturbed thread whose object is being destroyed has loop_ set unless
\* the destructor has told it to quit.
LEMMA StillPublished ==
  ASSUME Inv, at \in {"reading", "quitting"}, cur \in Undisturbed
  PROVE  published[cur] /\ Alive(cur)
<1>1. cur \in Threads /\ cur <= loops /\ cur \notin freed
  BY DEF Inv, TypeOK, Progress, Starting, Destroying, Undisturbed, Threads
<1>2. ~quit[cur]
  BY <1>1 DEF Inv, QuitInv
<1>3. thread[cur] \in {"ready", "looping"}
  BY <1>1, <1>2 DEF Inv, TypeOK, ThreadAt, SpawnInv, QuitInv
<1> QED
  BY <1>1, <1>3 DEF Inv, PublishedInv, Alive

\* EventLoopThread objects go after their threads.
LEMMA NextJoined == Inv /\ [Next]_vars => ThreadsAreJoined'
<1> SUFFICES ASSUME Inv, [Next]_vars PROVE ThreadsAreJoined'
  OBVIOUS
<1> USE DEF Inv, TypeOK, ThreadsAreJoined
<1>1. CASE UNCHANGED <<thread, freed>>
  BY <1>1
<1>2. CASE Spawn
  BY <1>2 DEF Spawn, Move
<1>3. CASE Detach
  BY <1>3, StillPublished DEF Detach, Free
<1>4. CASE Join
  BY <1>4 DEF Join, Free
<1>5. ASSUME NEW t \in Threads, ThreadStep(t) PROVE ThreadsAreJoined'
  BY <1>5
     DEF ThreadStep, Post, MakeLoop, Publish, EnterLoop, LeaveLoop, ClearLoop,
         Unlock, DestroyLoop, Move, base
<1> QED
  BY <1>1, <1>2, <1>3, <1>4, <1>5
     DEF Next, StartStep, DestroyStep, Start, SemWait, GetLoop, WaitForLoop,
         SpuriousWakeup, GetNextLoop, Destroy, ReadLoop, QuitLoop, WakeLoop,
         UserQuit, base, vars

\* getNextLoop() goes round.
LEMMA NextDeal == Inv /\ [Next]_vars => DealInv'
<1> SUFFICES ASSUME Inv, [Next]_vars PROVE DealInv'
  OBVIOUS
<1>1. ASSUME UNCHANGED <<next, dealt>>, at' \in Starting => at \in Starting
      PROVE  DealInv'
  BY <1>1 DEF Inv, DealInv
<1>2. ASSUME GetNextLoop PROVE DealInv'
  <2> USE <1>2 DEF Inv, TypeOK, Progress, DealInv, Threads
  <2>1. at = "serving" /\ at' = "serving" /\ loops = N
    BY DEF GetNextLoop, Starting
  <2>2. CASE N = 0
    BY <2>1, <2>2 DEF Starting
  <2>3. CASE N > 0
    <3>1. /\ next \in 0..(N - 1) /\ next + 1 \in Threads
          /\ next' = IF next + 1 >= N THEN 0 ELSE next + 1
          /\ dealt' = [dealt EXCEPT ![next + 1] = @ + 1]
      BY <2>1, <2>3 DEF GetNextLoop, After
    <3>2. dealt'[0] = 0 /\ next' < N
      BY <2>3, <3>1
    <3>3. ASSUME NEW a \in Threads, NEW b \in Threads
          PROVE  /\ (a <= next' <=> b <= next') => dealt'[a] = dealt'[b]
                 /\ a <= next' /\ next' < b => dealt'[a] = dealt'[b] + 1
      <4>1. ASSUME NEW c \in Threads
            PROVE  /\ dealt[c] \in Nat
                   /\ dealt'[c] = IF c = next + 1 THEN dealt[c] + 1 ELSE dealt[c]
        BY <3>1, <4>1
      <4>2. CASE next + 1 >= N
        BY <3>1, <4>1, <4>2
      <4>3. CASE next + 1 < N
        BY <3>1, <4>1, <4>3
      <4> QED
        BY <3>1, <4>2, <4>3
    <3> QED
      BY <2>1, <3>2, <3>3 DEF Starting
  <2> QED
    BY <2>2, <2>3
<1> QED
  BY <1>1, <1>2
     DEF Next, StartStep, DestroyStep, Start, Spawn, SemWait, GetLoop, WaitForLoop,
         SpuriousWakeup, Destroy, ReadLoop, Detach, QuitLoop, WakeLoop, Join, Free,
         ThreadStep, Post, MakeLoop, Publish, EnterLoop, LeaveLoop, ClearLoop, Unlock,
         DestroyLoop, UserQuit, base, vars, Starting

-----------------------------------------------------------------------------
\* Every reachable state satisfies the inductive invariant.
THEOREM InvHolds == Spec => []Inv
<1>1. Inv /\ [Next]_vars => Inv'
  BY NextTypeOK, NextProgress, NextSpawn, NextPublished, NextQuit, NextDeal, NextJoined
     DEF Inv
<1> QED
  BY InitInv, <1>1, PTL DEF Spec

\* The variables keep their types.
THEOREM TypeCorrect == Spec => []TypeOK
<1>1. Inv => TypeOK
  BY DEF Inv
<1> QED
  BY InvHolds, <1>1, PTL

\* EventLoopThreadPool::getNextLoop is fair to the loops, however many there are.
THEOREM DealsEvenly == Spec => []EvenDealing
<1>1. Inv => EvenDealing
  <2> SUFFICES ASSUME Inv PROVE EvenDealing
    OBVIOUS
  <2>1. ASSUME NEW a \in Threads, NEW b \in Threads PROVE dealt[a] <= dealt[b] + 1
    <3>1. dealt[a] \in Nat /\ dealt[b] \in Nat /\ next \in Nat
      BY DEF Inv, TypeOK, Threads
    <3>2. CASE a <= next <=> b <= next
      BY <3>1, <3>2 DEF Inv, DealInv
    <3>3. CASE a <= next /\ next < b
      BY <3>1, <3>3 DEF Inv, DealInv
    <3>4. CASE b <= next /\ next < a
      BY <3>1, <3>4 DEF Inv, DealInv
    <3> QED
      BY <3>1, <3>2, <3>3, <3>4 DEF Threads
  <2> QED
    BY <2>1 DEF EvenDealing, Inv, DealInv
<1> QED
  BY InvHolds, <1>1, PTL

\* Loops that are dealt out, and the loop ~EventLoopThread is about to quit,
\* exist, unless user code has told them to quit.
THEOREM LoopsStayAlive == Spec => []LoopsAreAlive
<1>1. Inv => LoopsAreAlive
  <2> SUFFICES ASSUME Inv PROVE LoopsAreAlive
    OBVIOUS
  <2>1. ASSUME at = "serving", NEW t \in Undisturbed PROVE Alive(t)
    <3>1. t \in Threads /\ t <= loops /\ t \notin freed
      BY <2>1 DEF Inv, Progress, Starting, Undisturbed, Threads
    <3>2. ~quit[t]
      BY <2>1, <3>1 DEF Inv, QuitInv
    <3> QED
      BY <3>1, <3>2 DEF Inv, SpawnInv, QuitInv, Alive
  <2>2. ASSUME at = "quitting", cur \in Undisturbed PROVE Alive(cur)
    BY <2>2, StillPublished
  <2> QED
    BY <2>1, <2>2 DEF LoopsAreAlive
<1> QED
  BY InvHolds, <1>1, PTL

\* ~EventLoopThread never destroys the object under its thread, unless user code
\* has told the loop to quit.
THEOREM ThreadsGoFirst == Spec => []ThreadsAreJoined
<1>1. Inv => ThreadsAreJoined
  BY DEF Inv
<1> QED
  BY InvHolds, <1>1, PTL

-----------------------------------------------------------------------------
\* While startLoop() sleeps in cond_.wait the notification is still to come.
\* This is what no step may break if StartReturns is to hold without spurious
\* wakeups.
WaitsForNotify ==
  at = "waiting" /\ cur \in Undisturbed => thread[cur] \in {"posted", "made"}

\* startLoop() begins to wait only before the thread has set loop_: what it
\* finds null has not been set and cleared again.
LEMMA WaitBegins ==
  ASSUME Inv, WaitForLoop, cur \in Undisturbed
  PROVE  thread[cur] \in {"posted", "made"}
<1>1. /\ at = "check" /\ ~published[cur] /\ thread[cur] # "locked"
      /\ cur \in Threads /\ freed = {}
  BY DEF Inv, WaitForLoop, Progress, Starting, Undisturbed
<1>2. thread[cur] \in ThreadAt \ {"new", "running", "ready", "looping", "returned", "locked"}
  BY <1>1 DEF Inv, TypeOK, SpawnInv, PublishedInv
<1>3. ~quit[cur]
  BY <1>1 DEF Inv, QuitInv
<1>4. thread[cur] \notin {"unlocked", "exited"}
  BY <1>3 DEF Inv, QuitInv
<1> QED BY <1>2, <1>4 DEF ThreadAt

LEMMA NextWaits == Inv /\ WaitsForNotify /\ [Next]_vars => WaitsForNotify'
<1> SUFFICES ASSUME Inv, WaitsForNotify, [Next]_vars, at' = "waiting", cur' \in Undisturbed
             PROVE  thread'[cur'] \in {"posted", "made"}
  BY DEF WaitsForNotify
<1> USE DEF WaitsForNotify
<1>1. thread \in [Threads -> ThreadAt] /\ Undisturbed \subseteq Threads
  BY DEF Inv, TypeOK, Undisturbed
<1>2. CASE WaitForLoop
  BY <1>2, WaitBegins DEF WaitForLoop
<1>3. ~ \/ Start \/ Spawn \/ SemWait \/ GetLoop \/ SpuriousWakeup \/ Destroy \/ DestroyStep
  BY DEF Start, Spawn, SemWait, GetLoop, SpuriousWakeup, Destroy, DestroyStep, ReadLoop,
         Detach, QuitLoop, WakeLoop, Join, Free
<1>4. CASE GetNextLoop
  BY <1>4 DEF GetNextLoop
<1>5. ASSUME NEW t \in Threads, Publish(t) PROVE cur' # t /\ thread'[cur'] = thread[cur]
  BY <1>1, <1>5 DEF Publish, Move
<1>6. ASSUME NEW t \in Threads, ThreadStep(t), ~Publish(t)
      PROVE  thread'[cur'] \in {"posted", "made"}
  <2>1. at = "waiting" /\ cur' = cur
    BY <1>6 DEF ThreadStep, Post, MakeLoop, EnterLoop, LeaveLoop, ClearLoop, Unlock,
                DestroyLoop, base
  <2>2. thread[cur] \in {"posted", "made"}
    BY <2>1
  <2>3. CASE t # cur
    <3>1. thread'[cur] = thread[cur]
      BY <1>1, <1>6, <2>1, <2>3 DEF ThreadStep, Post, MakeLoop, EnterLoop, LeaveLoop, ClearLoop,
                              Unlock, DestroyLoop, Move
    <3> QED BY <2>1, <2>2, <3>1
  <2>4. CASE t = cur
    <3>1. MakeLoop(cur)
      BY <1>6, <2>2, <2>4 DEF ThreadStep, Post, EnterLoop, LeaveLoop, ClearLoop, Unlock,
                              DestroyLoop, Move
    <3> QED BY <1>1, <2>1, <2>4, <3>1 DEF MakeLoop, Move
  <2> QED BY <2>3, <2>4
<1>7. ASSUME NEW t \in Threads, UserQuit(t) PROVE thread'[cur'] \in {"posted", "made"}
  BY <1>7 DEF UserQuit, base
<1>8. CASE UNCHANGED vars
  BY <1>8 DEF vars
<1>9. ASSUME NEW t \in Threads, Publish(t) PROVE thread'[cur'] \in {"posted", "made"}
  <2>1. at = "waiting" /\ cur' = cur
    BY <1>9 DEF Publish
  <2> QED BY <1>5, <1>9, <2>1
<1> QED
  BY <1>2, <1>3, <1>4, <1>6, <1>7, <1>8, <1>9 DEF Next, StartStep

\* The notification of cond_ is never lost, whichever of the thread's start,
\* the test, the wait and the notification comes first
\* (EventLoopThread.cc:35-43, 61-73).
THEOREM NotifyIsNotLost == Spec => []WaitsForNotify
<1>1. Init => WaitsForNotify
  BY DEF Init, WaitsForNotify
<1> QED
  BY <1>1, NextWaits, InvHolds, PTL DEF Spec

=============================================================================
