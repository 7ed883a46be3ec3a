------------------------------- MODULE Buffer -------------------------------
(***************************************************************************)
(* A Buffer as a FIFO of bytes: the vector with its two indices, and the   *)
(* functions that append, retrieve, move and grow as functions of that     *)
(* record.  A client (TcpConnection) calls them in any order.              *)
(*                                                                         *)
(* The k-th byte ever put in is the number k, so what the buffer must hold *)
(* is known from two counters: the bytes put in and the bytes taken out.   *)
(***************************************************************************)
EXTENDS Integers

CONSTANTS
  CheapPrepend,   \* kCheapPrepend
  InitialSize,    \* kInitialSize
  ExtraSize,      \* sizeof extrabuf in readFd
  MaxBytes        \* bounds the bytes put in

ASSUME SizesAssumption ==
  CheapPrepend \in Nat /\ InitialSize \in Nat /\ ExtraSize \in Nat
ASSUME MaxBytesAssumption == MaxBytes \in Nat

VARIABLES
  buf,            \* the Buffer
  put, taken,     \* history: bytes put in, bytes taken out
  most            \* history: the most bytes it has held

vars == <<buf, put, taken, most>>

\* buffer_ (its size and its elements), readerIndex_, writerIndex_.  An element
\* nobody has written is 0.
IsBuffer(b) ==
  /\ b.size \in Nat /\ b.r \in 0..b.w /\ b.w \in 0..b.size
  /\ b.cells \in [0..(b.size - 1) -> Nat]

\* A Buffer over a vector of n elements, element i given by Elem(i).
Buf(n, Elem(_), r, w) ==
  [size |-> n, cells |-> [i \in 0..(n - 1) |-> Elem(i)], r |-> r, w |-> w]

NewBuffer ==
  LET Elem(i) == 0
  IN Buf(CheapPrepend + InitialSize, Elem, CheapPrepend, CheapPrepend)

Readable(b) == b.w - b.r
Writable(b) == b.size - b.w
Prependable(b) == b.r

-----------------------------------------------------------------------------
(* Wrong variants of operations below, each a slip one could make. *)

\* The test of makeSpace is off by one: data that just fits makes it grow.
MustGrowAtLimit(b, len) == Writable(b) + Prependable(b) <= len + CheapPrepend

\* makeSpace always grows.
MustGrowAlways(b, len) == TRUE

\* retrieve() that always advances the index and never resets it.
RetrieveNoReset(b, len) == [b EXCEPT !.r = @ + len]

\* makeSpace moves the bytes and leaves writerIndex_ where it was.
MoveUpKeepsWriter(b) ==
  LET Elem(i) == IF CheapPrepend <= i /\ i < CheapPrepend + Readable(b)
                 THEN b.cells[b.r + (i - CheapPrepend)] ELSE b.cells[i]
  IN Buf(b.size, Elem, CheapPrepend, b.w)

-----------------------------------------------------------------------------
\* Write the len bytes first, first + 1, ... at writerIndex_ and advance it.
Fill(b, first, len) ==
  LET Elem(i) == IF b.w <= i /\ i < b.w + len THEN first + (i - b.w) ELSE b.cells[i]
  IN Buf(b.size, Elem, b.r, b.w + len)

(* makeSpace *)

\* buffer_.resize: std::vector keeps the elements and zeroes the new ones.
Resized(b, n) ==
  LET Elem(i) == IF i < b.size THEN b.cells[i] ELSE 0
  IN Buf(n, Elem, b.r, b.w)

\* The readable bytes go to the front.
MoveUp(b) ==
  LET Elem(i) == IF CheapPrepend <= i /\ i < CheapPrepend + Readable(b)
                 THEN b.cells[b.r + (i - CheapPrepend)] ELSE b.cells[i]
  IN Buf(b.size, Elem, CheapPrepend, CheapPrepend + Readable(b))

MustGrow(b, len) == Writable(b) + Prependable(b) < len + CheapPrepend

MakeSpace(b, len) == IF MustGrow(b, len) THEN Resized(b, b.w + len) ELSE MoveUp(b)

EnsureWriteableBytes(b, len) == IF Writable(b) < len THEN MakeSpace(b, len) ELSE b

AppendBytes(b, first, len) == Fill(EnsureWriteableBytes(b, len), first, len)

AtIndices(b, r, w) == [size |-> b.size, cells |-> b.cells, r |-> r, w |-> w]

RetrieveAll(b) == AtIndices(b, CheapPrepend, CheapPrepend)

Retrieve(b, len) ==
  IF len < Readable(b) THEN AtIndices(b, b.r + len, b.w) ELSE RetrieveAll(b)

\* readFd when readv has read the n bytes first, first + 1, ...: they fill the
\* writable part, then extrabuf, which is appended.
ReadFd(b, first, n) ==
  IF n <= Writable(b) THEN Fill(b, first, n)
  ELSE AppendBytes(Fill(b, first, Writable(b)), first + Writable(b), n - Writable(b))

\* The most readv can read: extrabuf is used if the writable part is smaller.
ReadLimit(b) == IF Writable(b) < ExtraSize THEN Writable(b) + ExtraSize ELSE Writable(b)

-----------------------------------------------------------------------------
Init == buf = NewBuffer /\ put = 0 /\ taken = 0 /\ most = 0

Puts(b, n) ==
  /\ put + n <= MaxBytes
  /\ buf' = b
  /\ put' = put + n
  /\ most' = IF put' - taken > most THEN put' - taken ELSE most
  /\ UNCHANGED taken

\* sendInLoop buffers what it could not write.
Append(n) == Puts(AppendBytes(buf, put + 1, n), n)

\* handleRead.
Read(n) == n <= ReadLimit(buf) /\ Puts(ReadFd(buf, put + 1, n), n)

\* retrieve(): handleWrite after a write of len bytes, and users of the input
\* buffer, who may ask for more than there is.  (retrieveAsString() then also
\* copies what lies behind the data: here, as in retrieve(), only what it leaves
\* in the buffer counts.)
Take(len) ==
  /\ buf' = Retrieve(buf, len)
  /\ taken' = IF taken + len < put THEN taken + len ELSE put
  /\ UNCHANGED <<put, most>>

Next == \E n \in 0..(MaxBytes + 1) : Append(n) \/ Read(n) \/ Take(n)

Spec == Init /\ [][Next]_vars

-----------------------------------------------------------------------------
(* Properties *)

\* b's readable part is the bytes lo + 1 .. hi, behind the room kept for
\* prepending.
Holds(b, lo, hi) ==
  /\ CheapPrepend <= b.r
  /\ Readable(b) = hi - lo
  /\ \A i \in 0..(Readable(b) - 1) : b.cells[b.r + i] = lo + 1 + i

TypeOK ==
  /\ IsBuffer(buf)
  /\ put \in 0..MaxBytes /\ taken \in 0..put /\ most \in 0..MaxBytes

\* First in, first out, nothing lost, repeated or overwritten: over moves,
\* growth, a reset and the scattered read of readFd.
BytesIntact == Holds(buf, taken, put)

\* However long it is used, the vector stays below twice the most it had to
\* hold: makeSpace reuses the room that retrieve() leaves in front.
GrowthIsBounded ==
  buf.size <= CheapPrepend + InitialSize \/ buf.size <= CheapPrepend + 2 * most

\* makeSpace uses the room that retrieve() has left in front before it asks for
\* more: the vector grows only in a step after which the bytes held, behind
\* those kept for prepending, do not fit the old one.
GrowsOnlyWhenFull ==
  [][buf'.size > buf.size => CheapPrepend + (put' - taken') > buf.size]_vars

Inv ==
  /\ TypeOK /\ BytesIntact /\ GrowthIsBounded
  /\ put - taken <= most

=============================================================================
