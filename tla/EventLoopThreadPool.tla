------------------------ MODULE EventLoopThreadPool ------------------------
(***************************************************************************)
(* An EventLoopThreadPool from start() to its destruction: the base thread *)
(* that starts the IO threads one after the other, deals out their loops   *)
(* and finally destroys the EventLoopThread objects, and the IO threads,   *)
(* each with an EventLoop on its stack.                                    *)
(*                                                                         *)
(* The IO loop is used through what module EventLoop says of it: a quit_   *)
(* that is set while loop() runs ends it (QuitEndsLoop), and loop() begins *)
(* by clearing quit_.  A critical section of mutex_ is one step, except    *)
(* the one that ends threadFunc(), whose unlock is a step of its own: it   *)
(* is the thread's last use of the EventLoopThread object.                 *)
(***************************************************************************)
EXTENDS Naturals

CONSTANTS
  N,            \* numThreads_
  Quitters,     \* threads whose loop user code may tell to quit
  MaxDeals      \* bounds the calls of getNextLoop()

Threads == 1..N

ASSUME NAssumption == N \in Nat
ASSUME MaxDealsAssumption == MaxDeals \in Nat
ASSUME QuittersAssumption == Quitters \subseteq Threads

VARIABLES
  at,           \* where the base thread is
  cur,          \* the EventLoopThread it starts or destroys
  loops,        \* loops_.size(): loops_ holds the loops of threads 1..loops
  next,         \* next_
  dealt,        \* history: how often getNextLoop() gave each loop (0: baseLoop_)
  freed,        \* EventLoopThread objects destroyed
  thread,       \* where each IO thread is
  published,    \* per EventLoopThread: loop_ # nullptr
  quit          \* per EventLoop: quit_

base   == <<at, cur, loops, next, dealt, freed>>
vars   == <<at, cur, loops, next, dealt, freed, thread, published, quit>>

Starting   == {"idle", "spawn", "sem", "check", "waiting"}
Destroying == {"reading", "quitting", "waking", "joining"}
BaseAt     == Starting \cup {"serving"} \cup Destroying \cup {"done"}

\* "new": not spawned; "running": before sem_post; "posted": func_ begins;
\* "made": the EventLoop exists, callback_ runs; "ready": loop_ is set;
\* "looping": in loop(); "returned": loop() has returned; "locked": loop_ is
\* null again, mutex_ is held; "unlocked": only the EventLoop is left to
\* destroy; "exited": threadFunc() has returned.
ThreadAt == {"new", "running", "posted", "made", "ready", "looping", "returned",
             "locked", "unlocked", "exited"}

TypeOK ==
  /\ at \in BaseAt
  /\ cur \in 1..(N + 1)
  /\ loops \in 0..N
  /\ next \in 0..N /\ (loops > 0 => next < loops)
  /\ dealt \in [0..N -> Nat]
  /\ freed \subseteq Threads
  /\ thread \in [Threads -> ThreadAt]
  /\ published \in [Threads -> BOOLEAN]
  /\ quit \in [Threads -> BOOLEAN]

Init ==
  /\ at = "idle" /\ cur = 1
  /\ loops = 0 /\ next = 0
  /\ dealt = [l \in 0..N |-> 0]
  /\ freed = {}
  /\ thread = [t \in Threads |-> "new"]
  /\ published = [t \in Threads |-> FALSE]
  /\ quit = [t \in Threads |-> FALSE]

\* The EventLoop on thread t's stack exists.
Alive(t) == thread[t] \notin {"new", "running", "posted", "exited"}

Move(t, from, to) ==
  /\ thread[t] = from
  /\ thread' = [thread EXCEPT ![t] = to]

-----------------------------------------------------------------------------
(* Wrong variants of operations below, each a slip one could make. *)

\* getNextLoop() that wraps one too late, or to the wrong loop.
AfterWrapsLate(n)  == IF n + 1 > loops THEN 0 ELSE n + 1
AfterSkipsFirst(n) == IF n + 1 >= loops THEN (IF loops > 1 THEN 1 ELSE 0) ELSE n + 1

\* startLoop() with "if" for "while": a spurious wakeup passes for the loop.
SpuriousWakeupTrusted ==
  /\ at = "waiting"
  /\ loops' = loops + 1
  /\ cur' = cur + 1
  /\ at' = IF cur < N THEN "spawn" ELSE "serving"
  /\ UNCHANGED <<next, dealt, freed, thread, published, quit>>

\* The destructor quits the loop and does not wait for the thread.
JoinSkipped ==
  /\ at = "joining"
  /\ freed' = freed \cup {cur}
  /\ cur' = cur + 1
  /\ at' = IF cur < N THEN "reading" ELSE "done"
  /\ UNCHANGED <<loops, next, dealt, thread, published, quit>>

\* threadFunc() sets loop_ and notifies nobody.
PublishSilently(t) ==
  /\ Move(t, "made", "ready")
  /\ published' = [published EXCEPT ![t] = TRUE]
  /\ UNCHANGED <<base, quit>>

\* The destructor sets exiting_, which nobody reads, and tells no loop to quit.
QuitLoopByExiting ==
  /\ at = "quitting"
  /\ at' = "waking"
  /\ UNCHANGED <<cur, loops, next, dealt, freed, thread, published, quit>>

-----------------------------------------------------------------------------
(* The base thread: start() *)

Start ==
  /\ at = "idle"
  /\ at' = IF N > 0 THEN "spawn" ELSE "serving"
  /\ UNCHANGED <<cur, loops, next, dealt, freed, thread, published, quit>>

\* Thread::start: make the std::thread, ...
Spawn ==
  /\ at = "spawn"
  /\ Move(cur, "new", "running")
  /\ at' = "sem"
  /\ UNCHANGED <<cur, loops, next, dealt, freed, published, quit>>

\* ... and sem_wait until it has posted.
SemWait ==
  /\ at = "sem" /\ thread[cur] # "running"
  /\ at' = "check"
  /\ UNCHANGED <<cur, loops, next, dealt, freed, thread, published, quit>>

\* The test of startLoop()'s while, with mutex_ held.
GetLoop ==
  /\ at = "check" /\ thread[cur] # "locked"
  /\ published[cur]
  /\ loops' = loops + 1
  /\ cur' = cur + 1
  /\ at' = IF cur < N THEN "spawn" ELSE "serving"
  /\ UNCHANGED <<next, dealt, freed, thread, published, quit>>

WaitForLoop ==
  /\ at = "check" /\ thread[cur] # "locked"
  /\ ~published[cur]
  /\ at' = "waiting"
  /\ UNCHANGED <<cur, loops, next, dealt, freed, thread, published, quit>>

\* cond_.wait may return without a notification.
SpuriousWakeup ==
  /\ at = "waiting"
  /\ at' = "check"
  /\ UNCHANGED <<cur, loops, next, dealt, freed, thread, published, quit>>

-----------------------------------------------------------------------------
(* The base thread: getNextLoop() *)

After(n) == IF n + 1 >= loops THEN 0 ELSE n + 1

GetNextLoop ==
  /\ at = "serving" /\ \A l \in 0..N : dealt[l] < MaxDeals
  /\ IF loops > 0
     THEN /\ dealt' = [dealt EXCEPT ![next + 1] = @ + 1]
          /\ next' = After(next)
     ELSE /\ dealt' = [dealt EXCEPT ![0] = @ + 1]
          /\ UNCHANGED next
  /\ UNCHANGED <<at, cur, loops, freed, thread, published, quit>>

-----------------------------------------------------------------------------
(* The base thread: the pool is destroyed, and with it its EventLoopThreads, *)
(* first to last.                                                            *)

Destroy ==
  /\ at = "serving"
  /\ cur' = 1
  /\ at' = IF N > 0 THEN "reading" ELSE "done"
  /\ UNCHANGED <<loops, next, dealt, freed, thread, published, quit>>

\* The object is gone; go on with the next one.
Free ==
  /\ freed' = freed \cup {cur}
  /\ cur' = cur + 1
  /\ at' = IF cur < N THEN "reading" ELSE "done"

\* ~EventLoopThread tests loop_ without the lock ...
ReadLoop ==
  /\ at = "reading" /\ published[cur]
  /\ at' = "quitting"
  /\ UNCHANGED <<cur, loops, next, dealt, freed, thread, published, quit>>

\* ... and, if the loop has ended already, lets ~Thread detach the thread.
Detach ==
  /\ at = "reading" /\ ~published[cur]
  /\ Free
  /\ UNCHANGED <<loops, next, dealt, thread, published, quit>>

\* loop_->quit(): the store, ...
QuitLoop ==
  /\ at = "quitting"
  /\ quit' = [quit EXCEPT ![cur] = TRUE]
  /\ at' = "waking"
  /\ UNCHANGED <<cur, loops, next, dealt, freed, thread, published>>

\* ... then the wakeup, which by now may be of a loop that has ended.
WakeLoop ==
  /\ at = "waking"
  /\ at' = "joining"
  /\ UNCHANGED <<cur, loops, next, dealt, freed, thread, published, quit>>

Join ==
  /\ at = "joining" /\ thread[cur] = "exited"
  /\ Free
  /\ UNCHANGED <<loops, next, dealt, thread, published, quit>>

-----------------------------------------------------------------------------
(* IO thread t: threadFunc() *)

Post(t) ==
  /\ Move(t, "running", "posted")
  /\ UNCHANGED <<base, published, quit>>

MakeLoop(t) ==
  /\ Move(t, "posted", "made")
  /\ UNCHANGED <<base, published, quit>>

\* Set loop_ and notify the base thread if it waits for this loop.
Publish(t) ==
  /\ Move(t, "made", "ready")
  /\ published' = [published EXCEPT ![t] = TRUE]
  /\ at' = IF at = "waiting" /\ cur = t THEN "check" ELSE at
  /\ UNCHANGED <<cur, loops, next, dealt, freed, quit>>

\* EventLoop::loop begins with quit_ = false, ...
EnterLoop(t) ==
  /\ Move(t, "ready", "looping")
  /\ quit' = [quit EXCEPT ![t] = FALSE]
  /\ UNCHANGED <<base, published>>

\* ... and returns when it sees quit_.
LeaveLoop(t) ==
  /\ quit[t]
  /\ Move(t, "looping", "returned")
  /\ UNCHANGED <<base, published, quit>>

ClearLoop(t) ==
  /\ Move(t, "returned", "locked")
  /\ published' = [published EXCEPT ![t] = FALSE]
  /\ UNCHANGED <<base, quit>>

Unlock(t) ==
  /\ Move(t, "locked", "unlocked")
  /\ UNCHANGED <<base, published, quit>>

DestroyLoop(t) ==
  /\ Move(t, "unlocked", "exited")
  /\ UNCHANGED <<base, published, quit>>

\* User code with the EventLoop pointer (from callback_, a connection or
\* getAllLoops()) calls quit() on it.
UserQuit(t) ==
  /\ t \in Quitters
  /\ thread[t] \in {"made", "ready", "looping"}
  /\ quit' = [quit EXCEPT ![t] = TRUE]
  /\ UNCHANGED <<base, thread, published>>

-----------------------------------------------------------------------------
StartStep == Spawn \/ SemWait \/ GetLoop \/ WaitForLoop
DestroyStep == ReadLoop \/ Detach \/ QuitLoop \/ WakeLoop \/ Join

ThreadStep(t) ==
  \/ Post(t) \/ MakeLoop(t) \/ Publish(t)
  \/ EnterLoop(t) \/ LeaveLoop(t)
  \/ ClearLoop(t) \/ Unlock(t) \/ DestroyLoop(t)

Next ==
  \/ Start \/ StartStep \/ SpuriousWakeup
  \/ GetNextLoop
  \/ Destroy \/ DestroyStep
  \/ \E t \in Threads : ThreadStep(t) \/ UserQuit(t)

Spec == Init /\ [][Next]_vars

\* Threads keep running, callback_ returns and a loop that is told to quit does.
\* Nobody has to start or destroy the pool, and no spurious wakeup is relied on.
Fairness ==
  /\ WF_vars(StartStep) /\ WF_vars(DestroyStep)
  /\ \A t \in Threads : WF_vars(ThreadStep(t))

FairSpec == Spec /\ Fairness

-----------------------------------------------------------------------------
(* Properties.  User code that quits an IO loop behind the pool's back       *)
(* breaks most of them for that loop's thread; they are stated for the rest. *)

Undisturbed == Threads \ Quitters

\* getNextLoop() deals the loops out evenly, and the base loop only if there
\* are no others.
EvenDealing ==
  /\ \A a, b \in Threads : dealt[a] <= dealt[b] + 1
  /\ N > 0 => dealt[0] = 0

\* Every loop the server can be given exists, and so does the loop whose quit_
\* the destructor is about to set, although it read loop_ without the lock.
LoopsAreAlive ==
  /\ at = "serving" => \A t \in Undisturbed : Alive(t)
  /\ at = "quitting" /\ cur \in Undisturbed => Alive(cur)

\* No EventLoopThread is destroyed under its thread, which uses mutex_, cond_
\* and loop_ until it has unlocked mutex_ for the last time.
ThreadsAreJoined == \A t \in freed \cap Undisturbed : thread[t] = "exited"

\* startLoop() returns: the notification is not lost, whichever of the test,
\* the wait and the notification comes first.
StartReturns ==
  \A t \in Undisturbed : (at = "spawn" /\ cur = t) ~> (loops >= t)

\* A quit by the destructor that finds the thread in loop() ends it, and the
\* destructor returns.
QuitThenJoin ==
  \A t \in Undisturbed :
    (at = "quitting" /\ cur = t /\ thread[t] = "looping") ~> (t \in freed)

-----------------------------------------------------------------------------
(* Why the safety properties hold. *)

\* How far along start() and the destructor are.
Progress ==
  /\ at \in Starting => loops + 1 = cur /\ cur <= N + 1 /\ freed = {}
  /\ at = "idle" => cur = 1
  /\ at \in {"spawn", "sem", "check", "waiting"} => cur <= N
  /\ at \notin Starting => loops = N
  /\ at = "serving" => freed = {}
  /\ at \in Destroying => cur <= N /\ freed = 1..(cur - 1)

\* Only published loops are in loops_, and a thread is not spawned early.
SpawnInv ==
  /\ \A t \in Threads :
       t <= loops => thread[t] \notin {"new", "running", "posted", "made"}
  /\ at = "sem" => thread[cur] # "new"
  /\ at \in {"check", "waiting"} => thread[cur] \notin {"new", "running"}

PublishedInv ==
  \A t \in Threads : published[t] <=> thread[t] \in {"ready", "looping", "returned"}

\* A loop that nobody else quits ends only by its destructor's quit().
QuitInv ==
  \A t \in Undisturbed :
    /\ thread[t] \in {"returned", "locked", "unlocked", "exited"} => quit[t]
    /\ quit[t] => \/ at \in {"waking", "joining"} /\ cur = t
                  \/ t \in freed

\* Nothing is dealt before the pool is complete; then a round of dealing has
\* reached the loops up to next_.
DealInv ==
  /\ at \in Starting => next = 0 /\ \A l \in 0..N : dealt[l] = 0
  /\ N > 0 => dealt[0] = 0 /\ next < N
  /\ \A a, b \in Threads :
       /\ (a <= next <=> b <= next) => dealt[a] = dealt[b]
       /\ a <= next /\ next < b => dealt[a] = dealt[b] + 1

Inv ==
  /\ TypeOK /\ Progress /\ SpawnInv /\ PublishedInv /\ QuitInv /\ DealInv
  /\ ThreadsAreJoined

-----------------------------------------------------------------------------
(* What the repository says and the code does not do. *)

\* EventLoopThread.cc:20-22: the destructor quits the loop and waits for the
\* thread to exit.  loop() may come after that quit() and erase it.
DestructorReturns == (at = "reading") ~> (at = "done")

=============================================================================
