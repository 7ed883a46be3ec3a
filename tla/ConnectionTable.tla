-------------------------- MODULE ConnectionTable --------------------------
(***************************************************************************)
(* What a TcpServer promises about its connections, without loops, threads *)
(* or queues: a client gets a file descriptor nobody else has, is reported *)
(* UP and then DOWN, at most once each, and its descriptor is given up     *)
(* only after DOWN, unless the server itself is being destroyed.           *)
(* Module TcpServer implements this specification.                         *)
(***************************************************************************)
EXTENDS Naturals

CONSTANTS
  Conn,         \* connections; each is accepted at most once
  Fd,           \* file descriptors
  NoConn        \* the owner of a free descriptor (no member of Conn)

VARIABLES
  owner,        \* per descriptor: the connection that holds it
  used,         \* connections accepted so far
  told,         \* per connection: what connectionCallback_ last reported
  reports,      \* per connection: how many calls of connectionCallback_
  stopping      \* ~TcpServer has begun

vars == <<owner, used, told, reports, stopping>>

Init ==
  /\ owner = [f \in Fd |-> NoConn]
  /\ used = {}
  /\ told = [c \in Conn |-> "nothing"]
  /\ reports = [c \in Conn |-> 0]
  /\ stopping = FALSE

Holds(c, f) == owner[f] = c
Owned(c) == \E f \in Fd : Holds(c, f)

\* One call of connectionCallback_.
Report(c, what) ==
  /\ told' = [told EXCEPT ![c] = what]
  /\ reports' = [reports EXCEPT ![c] = @ + 1]

\* Accepting a connection may report it UP at once (no IO threads).
Accept(c, f) ==
  /\ ~stopping
  /\ c \notin used /\ owner[f] = NoConn
  /\ used' = used \cup {c}
  /\ owner' = [owner EXCEPT ![f] = c]
  /\ UNCHANGED <<told, reports>> \/ (told[c] = "nothing" /\ Report(c, "up"))
  /\ UNCHANGED stopping

Up(c) ==
  /\ Owned(c) /\ told[c] = "nothing"
  /\ Report(c, "up")
  /\ UNCHANGED <<owner, used, stopping>>

Down(c) ==
  /\ Owned(c) /\ told[c] = "up"
  /\ Report(c, "down")
  /\ UNCHANGED <<owner, used, stopping>>

\* Sockets are closed, several at once when a batch of functors is freed.
Release(S) ==
  /\ \A f \in S : owner[f] # NoConn /\ (stopping \/ told[owner[f]] = "down")
  /\ owner' = [f \in Fd |-> IF f \in S THEN NoConn ELSE owner[f]]
  /\ UNCHANGED <<used, told, reports, stopping>>

Stop ==
  /\ stopping' = TRUE
  /\ UNCHANGED <<owner, used, told, reports>>

\* A stopping server may report DOWN and close the socket in one go.
Discard(c, f) ==
  /\ stopping
  /\ Holds(c, f) /\ told[c] = "up"
  /\ Report(c, "down")
  /\ owner' = [owner EXCEPT ![f] = NoConn]
  /\ UNCHANGED <<used, stopping>>

Next ==
  \/ Stop
  \/ \E c \in Conn : Up(c) \/ Down(c) \/ \E f \in Fd : Accept(c, f) \/ Discard(c, f)
  \/ \E S \in SUBSET Fd : Release(S)

Spec == Init /\ [][Next]_vars

=============================================================================
