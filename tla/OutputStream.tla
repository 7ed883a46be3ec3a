---------------------------- MODULE OutputStream ----------------------------
(***************************************************************************)
(* What TcpConnection promises about the bytes a program sends on it: they *)
(* leave in the order they were accepted, none is dropped, repeated or     *)
(* overtaken, and the write side is shut down only after the last of them, *)
(* unless the connection was reported closed.  There are no threads, epoll *)
(* events or partial writes here; module TcpConnection implements this.    *)
(***************************************************************************)
EXTENDS Naturals, Sequences

CONSTANTS
  Msg,          \* what the program may send, each at most once
  Bytes(_)      \* the bytes of a message

VARIABLES
  backlog,      \* accepted, not handed to the kernel yet
  wire,         \* handed to the kernel
  shut,         \* the write side has been shut down
  closed        \* the connection was reported closed (output may be abandoned)

vars == <<backlog, wire, shut, closed>>

Init == backlog = <<>> /\ wire = <<>> /\ shut = FALSE /\ closed = FALSE

\* Take a message; hand over its first n bytes at once if nothing waits.
Accept(m, n) ==
  /\ n > 0 => backlog = <<>> /\ ~shut
  /\ wire' = wire \o SubSeq(Bytes(m), 1, n)
  /\ backlog' = backlog \o SubSeq(Bytes(m), n + 1, Len(Bytes(m)))
  /\ UNCHANGED <<shut, closed>>

\* Hand over n more bytes; the write side may be shut down in the same step
\* when they were the last.
Transmit(n) ==
  /\ ~shut /\ n > 0
  /\ wire' = wire \o SubSeq(backlog, 1, n)
  /\ backlog' = SubSeq(backlog, n + 1, Len(backlog))
  /\ shut' \in {FALSE, backlog' = <<>>}
  /\ UNCHANGED closed

Shut ==
  /\ backlog = <<>> \/ closed
  /\ shut' = TRUE
  /\ UNCHANGED <<backlog, wire, closed>>

Close ==
  /\ closed' = TRUE
  /\ UNCHANGED <<backlog, wire, shut>>

Next ==
  \/ Shut \/ Close
  \/ \E n \in 1..Len(backlog) : Transmit(n)
  \/ \E m \in Msg : \E n \in 0..Len(Bytes(m)) : Accept(m, n)

Spec == Init /\ [][Next]_vars

=============================================================================
