------------------------------ MODULE Channel ------------------------------
(***************************************************************************)
(* A Channel, its place in the EPollPoller and the entry epoll keeps for   *)
(* its fd, as one record; and the operations on it, which all run in the   *)
(* loop thread and so are functions of the record.                         *)
(*                                                                         *)
(* epoll_ctl is modelled by its errors: ADD of an fd that is registered    *)
(* and MOD or DEL of one that is not fail, and EPollPoller::update makes   *)
(* the first two fatal (LOG_FATAL exits).                                  *)
(***************************************************************************)
EXTENDS Naturals

Events == {"in", "out"}          \* kReadEvent, kWriteEvent
Index  == {"kNew", "kAdded", "kDeleted"}

ChannelType == [events     : SUBSET Events,   \* events_
                index      : Index,           \* index_
                registered : BOOLEAN,         \* epoll knows the fd
                interest   : SUBSET Events,   \* ... with this event mask
                fatal      : BOOLEAN]         \* LOG_FATAL was reached

\* A wrong variant of the constructor: index_ is not initialised.
NewChannelNoIndex == [events |-> {}, index |-> "unset", registered |-> FALSE,
                      interest |-> {}, fatal |-> FALSE]

NewChannel == [events |-> {}, index |-> "kNew", registered |-> FALSE,
               interest |-> {}, fatal |-> FALSE]

\* EPollPoller::update
CtlAdd(c) == IF c.registered THEN [c EXCEPT !.fatal = TRUE]
             ELSE [c EXCEPT !.registered = TRUE, !.interest = c.events]
CtlMod(c) == IF c.registered THEN [c EXCEPT !.interest = c.events]
             ELSE [c EXCEPT !.fatal = TRUE]
CtlDel(c) == [c EXCEPT !.registered = FALSE, !.interest = {}]

\* A wrong variant of updateChannel: a channel that was deleted from epoll is
\* treated as if it were still there (the kDeleted test forgotten).
UpdateChannelForgets(c) ==
  IF c.index = "kNew" THEN CtlAdd([c EXCEPT !.index = "kAdded"])
  ELSE IF c.events = {} THEN CtlDel([c EXCEPT !.index = "kDeleted"])
  ELSE CtlMod(c)

\* EPollPoller::updateChannel.  A channel without an entry is added whatever
\* its events are, the empty set included: epoll then still reports hang-ups.
UpdateChannel(c) ==
  IF c.index \in {"kNew", "kDeleted"} THEN CtlAdd([c EXCEPT !.index = "kAdded"])
  ELSE IF c.events = {} THEN CtlDel([c EXCEPT !.index = "kDeleted"])
  ELSE CtlMod(c)

\* A wrong variant of removeChannel: the fd stays in epoll.
RemoveChannelKeepsFd(c) == [c EXCEPT !.index = "kNew"]

\* EPollPoller::removeChannel
RemoveChannel(c) ==
  [(IF c.index = "kAdded" THEN CtlDel(c) ELSE c) EXCEPT !.index = "kNew"]

\* Wrong variants: events_ is changed, update() is not called.
EnableWritingSilently(c)  == [c EXCEPT !.events = @ \cup {"out"}]
DisableWritingSilently(c) == [c EXCEPT !.events = @ \ {"out"}]

EnableReading(c)  == UpdateChannel([c EXCEPT !.events = @ \cup {"in"}])
EnableWriting(c)  == UpdateChannel([c EXCEPT !.events = @ \cup {"out"}])
DisableWriting(c) == UpdateChannel([c EXCEPT !.events = @ \ {"out"}])
DisableAll(c)     == UpdateChannel([c EXCEPT !.events = {}])

IsWriting(c) == "out" \in c.events

\* index_, events_ and epoll agree, and no epoll_ctl has failed.
InStep(c) ==
  /\ ~c.fatal
  /\ c.registered <=> c.index = "kAdded"
  /\ c.registered => c.interest = c.events

=============================================================================
