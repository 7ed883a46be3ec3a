----------------------------- MODULE EventLoop -----------------------------
(***************************************************************************)
(* One EventLoop object: the thread that runs loop(), the other threads    *)
(* that call queueInLoop / runInLoop / quit on it, the mutex-protected     *)
(* functor list and the eventfd that ends epoll_wait.                      *)
(*                                                                         *)
(* The loop thread is a program counter over the statements of loop() and  *)
(* doPendingFunctors().  Another thread's call is two steps, because the   *)
(* code leaves the lock (or finishes the store to quit_) before it writes  *)
(* the eventfd, and the loop thread can run in between.                    *)
(***************************************************************************)
EXTENDS Naturals, Sequences, Functions

CONSTANTS
  Posters,      \* the threads other than the one that runs loop()
  Task,         \* functors; each object is queued at most once (bounds a run)
  EventfdMax    \* largest value of the eventfd counter (2^64 - 2 in Linux)

ASSUME EventfdAssumption == EventfdMax \in Nat \ {0}

VARIABLES
  pc,           \* where the loop thread is
  looping,      \* looping_
  quit,         \* quit_
  calling,      \* callingPendingFunctors_
  pending,      \* pendingFunctors_
  functors,     \* the local vector of doPendingFunctors(): what is left to run
  active,       \* activeChannels_: what is left to handle
  evfd,         \* the counter behind wakeupFd_
  poster,       \* per other thread: inside a call and about to write the eventfd?
  fresh,        \* history: functors not queued yet
  executed,     \* history: functors started, in order
  early         \* history: functors the loop thread queued before calling loop()

loopVars == <<pc, looping, quit, calling, functors, active>>
history  == <<fresh, executed, early>>
vars == <<pc, looping, quit, calling, pending, functors, active, evfd, poster,
          fresh, executed, early>>

PC == {"start", "check", "poll", "handle", "run", "functor", "exited"}

\* The wakeup channel, and any other channel (its callback is user code).
Channels == {"wakeup", "io"}

TypeOK ==
  /\ pc \in PC
  /\ looping \in BOOLEAN /\ quit \in BOOLEAN /\ calling \in BOOLEAN
  /\ pending \in Seq(Task) /\ functors \in Seq(Task) /\ executed \in Seq(Task)
  /\ active \subseteq Channels
  /\ evfd \in 0..EventfdMax
  /\ poster \in [Posters -> {"idle", "wake"}]
  /\ fresh \subseteq Task /\ early \subseteq Task

\* The constructor: no poll yet, the wakeup channel already registered.
Init ==
  /\ pc = "start"
  /\ looping = FALSE /\ quit = FALSE /\ calling = FALSE
  /\ pending = <<>> /\ functors = <<>>
  /\ active = {}
  /\ evfd = 0
  /\ poster = [p \in Posters |-> "idle"]
  /\ fresh = Task /\ executed = <<>> /\ early = {}

-----------------------------------------------------------------------------
(* Wrong variants of the operations below: each is a slip one could make in *)
(* the code, and the properties must notice it.                             *)

\* wakeup() that assumes the write always succeeds: no maximum.
SignalledUncapped(n) == n + 1

\* epoll_wait timed out: back to the loop condition, past doPendingFunctors().
PollEmptySkips ==
  /\ pc = "poll"
  /\ active' = {}
  /\ pc' = "check"
  /\ UNCHANGED <<looping, quit, calling, pending, functors, evfd, poster, history>>

\* functors = pendingFunctors_ where the code swaps.
TakeFunctorsCopy ==
  /\ pc = "handle" /\ active = {}
  /\ calling' = TRUE
  /\ functors' = pending
  /\ pc' = "run"
  /\ UNCHANGED <<looping, quit, active, pending, evfd, poster, history>>

\* queueInLoop() without "|| callingPendingFunctors_".
QueueInLoopOwnSilent(t) ==
  /\ pc \in {"start", "functor"} \/ (pc = "handle" /\ "io" \in active)
  /\ t \in fresh
  /\ fresh' = fresh \ {t}
  /\ pending' = Append(pending, t)
  /\ early' = IF pc = "start" THEN early \cup {t} ELSE early
  /\ UNCHANGED <<loopVars, evfd, poster, executed>>

\* queueInLoop() without "!isInLoopThread() ||".
QueueInLoopSilent(p, t) ==
  /\ poster[p] = "idle"
  /\ t \in fresh
  /\ fresh' = fresh \ {t}
  /\ pending' = Append(pending, t)
  /\ UNCHANGED <<loopVars, evfd, poster, executed, early>>

\* quit() without its wakeup().
QuitSilent(p) ==
  /\ poster[p] = "idle"
  /\ quit' = TRUE
  /\ UNCHANGED <<pc, looping, calling, pending, functors, active, evfd, poster, history>>

-----------------------------------------------------------------------------
\* wakeup(): write(1); when the counter is at its maximum the nonblocking
\* write fails with EAGAIN, which is only logged.
Signalled(n) == IF n < EventfdMax THEN n + 1 ELSE n

(* loop() *)

StartLoop ==
  /\ pc = "start"
  /\ looping' = TRUE
  /\ quit' = FALSE
  /\ pc' = "check"
  /\ UNCHANGED <<calling, pending, functors, active, evfd, poster, history>>

KeepLooping ==
  /\ pc = "check" /\ ~quit
  /\ pc' = "poll"
  /\ UNCHANGED <<looping, quit, calling, pending, functors, active, evfd, poster, history>>

StopLoop ==
  /\ pc = "check" /\ quit
  /\ looping' = FALSE
  /\ pc' = "exited"
  /\ UNCHANGED <<quit, calling, pending, functors, active, evfd, poster, history>>

\* epoll_wait returns events.  The wakeup channel is level triggered, so it
\* is reported while the counter is not zero; it can be missing from one
\* answer only because other channels filled the event array.
PollReady(ready) ==
  /\ pc = "poll"
  /\ ready # {}
  /\ "wakeup" \in ready => evfd > 0
  /\ active' = ready
  /\ pc' = "handle"
  /\ UNCHANGED <<looping, quit, calling, pending, functors, evfd, poster, history>>

\* epoll_wait returns nothing: kPollTimeMs has passed, or a signal came.
PollEmpty ==
  /\ pc = "poll"
  /\ active' = {}
  /\ pc' = "handle"
  /\ UNCHANGED <<looping, quit, calling, pending, functors, evfd, poster, history>>

\* EventLoop::handleRead: the read takes the whole counter.
HandleWakeup ==
  /\ pc = "handle" /\ "wakeup" \in active
  /\ active' = active \ {"wakeup"}
  /\ evfd' = 0
  /\ UNCHANGED <<pc, looping, quit, calling, pending, functors, poster, history>>

\* Channel::handleEvent of another channel returns.
HandleIo ==
  /\ pc = "handle" /\ "io" \in active
  /\ active' = active \ {"io"}
  /\ UNCHANGED <<pc, looping, quit, calling, pending, functors, evfd, poster, history>>

-----------------------------------------------------------------------------
(* doPendingFunctors() *)

\* calling is read by the loop thread alone (other threads short-circuit on
\* isInLoopThread()), so setting it and the swap under the lock are one step.
TakeFunctors ==
  /\ pc = "handle" /\ active = {}
  /\ calling' = TRUE
  /\ functors' = pending
  /\ pending' = <<>>
  /\ pc' = "run"
  /\ UNCHANGED <<looping, quit, active, evfd, poster, history>>

RunFunctor ==
  /\ pc = "run" /\ functors # <<>>
  /\ executed' = Append(executed, Head(functors))
  /\ functors' = Tail(functors)
  /\ pc' = "functor"
  /\ UNCHANGED <<looping, quit, calling, pending, active, evfd, poster, fresh, early>>

FunctorReturns ==
  /\ pc = "functor"
  /\ pc' = "run"
  /\ UNCHANGED <<looping, quit, calling, pending, functors, active, evfd, poster, history>>

FinishFunctors ==
  /\ pc = "run" /\ functors = <<>>
  /\ calling' = FALSE
  /\ pc' = "check"
  /\ UNCHANGED <<looping, quit, pending, functors, active, evfd, poster, history>>

-----------------------------------------------------------------------------
(* Calls on the loop from its own thread: a thread-init callback before    *)
(* loop(), an event callback, or a functor.  (runInLoop from here runs the *)
(* functor at once and never queues it.)                                   *)

InCallback == pc \in {"start", "functor"} \/ (pc = "handle" /\ "io" \in active)

QueueInLoopOwn(t) ==
  /\ InCallback
  /\ t \in fresh
  /\ fresh' = fresh \ {t}
  /\ pending' = Append(pending, t)
  /\ evfd' = IF calling THEN Signalled(evfd) ELSE evfd
  /\ early' = IF pc = "start" THEN early \cup {t} ELSE early
  /\ UNCHANGED <<loopVars, poster, executed>>

QuitOwn ==
  /\ InCallback
  /\ quit' = TRUE
  /\ UNCHANGED <<pc, looping, calling, pending, functors, active, evfd, poster, history>>

(* Calls from another thread. *)

QueueInLoop(p, t) ==
  /\ poster[p] = "idle"
  /\ t \in fresh
  /\ fresh' = fresh \ {t}
  /\ pending' = Append(pending, t)
  /\ poster' = [poster EXCEPT ![p] = "wake"]
  /\ UNCHANGED <<loopVars, evfd, executed, early>>

Quit(p) ==
  /\ poster[p] = "idle"
  /\ quit' = TRUE
  /\ poster' = [poster EXCEPT ![p] = "wake"]
  /\ UNCHANGED <<pc, looping, calling, pending, functors, active, evfd, history>>

Wakeup(p) ==
  /\ poster[p] = "wake"
  /\ evfd' = Signalled(evfd)
  /\ poster' = [poster EXCEPT ![p] = "idle"]
  /\ UNCHANGED <<loopVars, pending, history>>

-----------------------------------------------------------------------------
Poll == PollEmpty \/ \E ready \in SUBSET Channels : PollReady(ready)

\* What the loop thread does on its own, once epoll_wait has returned.
Proceed ==
  \/ StartLoop \/ KeepLooping \/ StopLoop
  \/ HandleWakeup \/ HandleIo
  \/ TakeFunctors \/ RunFunctor \/ FunctorReturns \/ FinishFunctors

Own == QuitOwn \/ \E t \in Task : QueueInLoopOwn(t)

Other == \E p \in Posters : Quit(p) \/ Wakeup(p) \/ \E t \in Task : QueueInLoop(p, t)

Next == Poll \/ Proceed \/ Own \/ Other

Spec == Init /\ [][Next]_vars

\* Threads keep running and callbacks return; a nonzero eventfd ends
\* epoll_wait.  Nothing is assumed of the 10 s timeout or of other channels.
Fairness ==
  /\ WF_vars(Proceed)
  /\ WF_vars(\E ready \in SUBSET Channels : "wakeup" \in ready /\ PollReady(ready))
  /\ \A p \in Posters : WF_vars(Wakeup(p))

FairSpec == Spec /\ Fairness

\* epoll_wait returns after kPollTimeMs (10 s) at the latest.
PollTimesOut == WF_vars(Poll)

-----------------------------------------------------------------------------
(* Properties *)

WakeupOnItsWay == evfd > 0 \/ \E p \in Posters : poster[p] = "wake"

\* No lost wakeup: when the loop thread is in (or entering) epoll_wait with
\* work queued, the eventfd is set or a thread is about to set it.  Only
\* functors the loop thread itself queued before loop() may wait unannounced
\* (queueInLoop writes no eventfd for those), until the poll timeout.
NoLostWakeup ==
  pc = "poll" /\ Range(pending) \ early # {} => WakeupOnItsWay

\* The same for quit(): the loop thread never settles in epoll_wait after a
\* quit it has not seen.
NoLostQuit == pc = "poll" /\ quit => WakeupOnItsWay

\* Why the two hold: work or a quit that nobody has signalled is possible only
\* while the loop thread is sure to reach doPendingFunctors() or the loop
\* condition before epoll_wait; callingPendingFunctors_ says exactly when the
\* local batch may be nonempty.
SignalInv ==
  Range(pending) \ early # {} => pc = "handle" \/ WakeupOnItsWay
BatchInv ==
  /\ calling <=> pc \in {"run", "functor"}
  /\ ~calling => functors = <<>>
Inv == TypeOK /\ SignalInv /\ NoLostQuit /\ BatchInv

\* Functors start in the order queueInLoop took them, each at most once, over
\* every interleaving of the swap with other threads' push_back.
TQ == INSTANCE TaskQueue WITH backlog <- functors \o pending, done <- executed
FifoAtMostOnce == TQ!Spec

\* A functor queued while the loop could be woken runs, without help from the
\* poll timeout, unless the loop is told to stop.
QueuedFunctorsRun ==
  \A t \in Task : (t \in Range(pending) \ early)
                    ~> (t \in Range(executed) \/ pc = "exited")

\* With the poll timeout every queued functor runs or the loop is told to stop,
\* those the loop thread queued before loop() (a thread-init callback) included.
EarlyFunctorsRun ==
  PollTimesOut =>
    \A t \in Task : (t \in Range(pending)) ~> (t \in Range(executed) \/ pc = "exited")

\* A quit() that lands after loop() has begun ends it, whoever called it.  (One
\* that comes before is erased by the store quit_ = false at the head of loop();
\* module EventLoopThreadPool shows what follows from that.)
QuitEndsLoop == (looping /\ quit) ~> (pc = "exited")

=============================================================================
