----------------------------- MODULE TaskQueue -----------------------------
(***************************************************************************)
(* What EventLoop::queueInLoop promises its callers, without threads,      *)
(* wakeups or batches: functors handed in are run one at a time, in the    *)
(* order they were handed in, each at most once.  Module EventLoop         *)
(* implements this specification.                                          *)
(***************************************************************************)
EXTENDS Naturals, Sequences, Functions

CONSTANT Task           \* the functors; each object is handed in at most once

VARIABLES
  fresh,                \* functors nobody has handed in yet
  backlog,              \* handed in, not started
  done                  \* started, in the order they were started

vars == <<fresh, backlog, done>>

Init ==
  /\ fresh = Task
  /\ backlog = <<>>
  /\ done = <<>>

Submit(t) ==
  /\ t \in fresh
  /\ fresh' = fresh \ {t}
  /\ backlog' = Append(backlog, t)
  /\ UNCHANGED done

RunNext ==
  /\ backlog # <<>>
  /\ done' = Append(done, Head(backlog))
  /\ backlog' = Tail(backlog)
  /\ UNCHANGED fresh

Next == RunNext \/ \E t \in Task : Submit(t)

Spec == Init /\ [][Next]_vars

=============================================================================
