---------------------------- MODULE Buffer_proofs ----------------------------
(***************************************************************************)
(* What each Buffer function does to a buffer that holds the bytes         *)
(* lo + 1 .. hi, for any sizes; and from that, the FIFO and the bound on   *)
(* the vector.                                                             *)
(***************************************************************************)
EXTENDS Buffer, TLAPS

USE SizesAssumption, MaxBytesAssumption

\* Fill appends, if there is room.
LEMMA FillHolds ==
  ASSUME NEW b, IsBuffer(b), NEW lo \in Nat, NEW hi \in Nat, Holds(b, lo, hi),
         NEW n \in Nat, n <= Writable(b), NEW f, f = Fill(b, hi + 1, n)
  PROVE  IsBuffer(f) /\ Holds(f, lo, hi + n) /\ f.size = b.size /\ f.w = b.w + n
<1>1. f.size = b.size /\ f.r = b.r /\ f.w = b.w + n
  BY DEF Fill, Buf
<1>2. f.cells = [i \in 0..(b.size - 1) |->
                   IF b.w <= i /\ i < b.w + n THEN hi + 1 + (i - b.w) ELSE b.cells[i]]
  BY DEF Fill, Buf
<1>3. /\ b.size \in Nat /\ b.w \in Nat /\ b.r \in Nat
      /\ b.r <= b.w /\ b.w <= b.size /\ b.w + n <= b.size
  BY DEF IsBuffer, Writable
<1>4. b.cells \in [0..(b.size - 1) -> Nat]
  BY DEF IsBuffer
<1>5. hi - lo = b.w - b.r /\ CheapPrepend <= b.r
  BY DEF Holds, Readable
<1>6. f.cells \in [0..(b.size - 1) -> Nat]
  <2>1. ASSUME NEW j \in 0..(b.size - 1), b.w <= j PROVE hi + 1 + (j - b.w) \in Nat
    BY <1>3, <2>1
  <2>2. ASSUME NEW j \in 0..(b.size - 1) PROVE b.cells[j] \in Nat
    BY <1>4, <2>2
  <2> QED
    BY <1>2, <2>1, <2>2, Zenon
<1>7. IsBuffer(f)
  BY <1>1, <1>3, <1>6 DEF IsBuffer
<1>8. Readable(f) = b.w + n - b.r /\ Readable(f) = hi + n - lo
  BY <1>1, <1>3, <1>5 DEF Readable
<1>9. ASSUME NEW i \in 0..(b.w + n - b.r - 1) PROVE f.cells[b.r + i] = lo + 1 + i
  <2>1. b.r + i \in 0..(b.size - 1)
    BY <1>3
  <2>2. CASE i < b.w - b.r
    <3>1. i \in 0..(b.w - b.r - 1) /\ b.r + i < b.w
      BY <1>3, <2>2
    <3>2. b.cells[b.r + i] = lo + 1 + i
      BY <3>1 DEF Holds, Readable
    <3>3. ~(b.w <= b.r + i)
      BY <1>3, <3>1
    <3> QED
      BY <1>2, <2>1, <3>2, <3>3
  <2>3. CASE i >= b.w - b.r
    <3>1. b.w <= b.r + i /\ b.r + i < b.w + n
      BY <1>3, <2>3
    <3>2. f.cells[b.r + i] = hi + 1 + ((b.r + i) - b.w)
      BY <1>2, <2>1, <3>1, Zenon
    <3>3. hi + 1 + ((b.r + i) - b.w) = lo + 1 + i
      BY <1>3, <1>5
    <3> QED
      BY <3>2, <3>3
  <2> QED
    BY <1>3, <2>2, <2>3
<1>10. ASSUME NEW i \in 0..(Readable(f) - 1) PROVE f.cells[f.r + i] = lo + 1 + i
  <2>1. i \in 0..(b.w + n - b.r - 1)
    <3>1. Readable(f) - 1 = b.w + n - b.r - 1
      BY <1>3, <1>8
    <3> QED
      BY <3>1, <1>10, Zenon
  <2>2. f.cells[b.r + i] = lo + 1 + i
    BY <2>1, <1>9
  <2> QED
    BY <1>1, <2>2, Zenon
<1> QED
  BY <1>1, <1>5, <1>7, <1>8, <1>10 DEF Holds

\* What IsBuffer and Holds say of the indices.
LEMMA Indices ==
  ASSUME NEW b, IsBuffer(b), NEW lo \in Nat, NEW hi \in Nat, Holds(b, lo, hi)
  PROVE  /\ b.size \in Nat /\ b.w \in Nat /\ b.r \in Nat
         /\ CheapPrepend <= b.r /\ b.r <= b.w /\ b.w <= b.size
         /\ hi - lo = b.w - b.r
  BY DEF IsBuffer, Holds, Readable

\* How a readable part that starts at some index is read off.
LEMMA HoldsFrom ==
  ASSUME NEW f, NEW r \in Nat, NEW k \in Nat, NEW lo \in Nat, NEW hi \in Nat,
         f.r = r, f.w = r + k, hi = lo + k, CheapPrepend <= r,
         \A i \in 0..(k - 1) : f.cells[r + i] = lo + 1 + i
  PROVE  Holds(f, lo, hi)
<1>1. Readable(f) = k /\ hi - lo = k
  BY DEF Readable
<1>2. \A i \in 0..(Readable(f) - 1) : f.cells[f.r + i] = lo + 1 + i
  BY <1>1, Zenon
<1> QED
  BY <1>1, <1>2 DEF Holds

\* resize keeps the contents.
LEMMA ResizedHolds ==
  ASSUME NEW b, IsBuffer(b), NEW lo \in Nat, NEW hi \in Nat, Holds(b, lo, hi),
         NEW n \in Nat, n >= b.size, NEW f, f = Resized(b, n)
  PROVE  IsBuffer(f) /\ Holds(f, lo, hi) /\ f.size = n /\ f.w = b.w /\ f.r = b.r
<1>1. f.size = n /\ f.r = b.r /\ f.w = b.w
  BY DEF Resized, Buf
<1>2. f.cells = [i \in 0..(n - 1) |-> IF i < b.size THEN b.cells[i] ELSE 0]
  BY DEF Resized, Buf
<1>3. /\ b.size \in Nat /\ b.w \in Nat /\ b.r \in Nat
      /\ CheapPrepend <= b.r /\ b.r <= b.w /\ b.w <= b.size
      /\ hi - lo = b.w - b.r
  BY Indices
<1>4. f.cells \in [0..(n - 1) -> Nat]
  <2>1. ASSUME NEW j \in 0..(n - 1), j < b.size PROVE b.cells[j] \in Nat
    <3>1. j \in 0..(b.size - 1)
      BY <1>3, <2>1
    <3> QED
      BY <3>1 DEF IsBuffer
  <2> QED
    BY <1>2, <2>1
<1>5. IsBuffer(f)
  BY <1>1, <1>3, <1>4 DEF IsBuffer
<1>6. ASSUME NEW i \in 0..(b.w - b.r - 1) PROVE f.cells[b.r + i] = lo + 1 + i
  <2>1. b.r + i \in 0..(n - 1) /\ b.r + i < b.size
    BY <1>3
  <2>2. f.cells[b.r + i] = b.cells[b.r + i]
    BY <1>2, <2>1, Zenon
  <2> QED
    BY <2>2 DEF Holds, Readable
<1> QED
  BY <1>1, <1>3, <1>5, <1>6 DEF Holds, Readable

\* Moving to the front keeps the contents.
LEMMA MoveUpHolds ==
  ASSUME NEW b, IsBuffer(b), NEW lo \in Nat, NEW hi \in Nat, Holds(b, lo, hi),
         NEW f, f = MoveUp(b)
  PROVE  /\ IsBuffer(f) /\ Holds(f, lo, hi) /\ f.size = b.size
         /\ f.w = CheapPrepend + (b.w - b.r)
<1>1. f.size = b.size /\ f.r = CheapPrepend /\ f.w = CheapPrepend + (b.w - b.r)
  BY DEF MoveUp, Buf, Readable
<1>2. f.cells = [i \in 0..(b.size - 1) |->
                   IF CheapPrepend <= i /\ i < CheapPrepend + (b.w - b.r)
                   THEN b.cells[b.r + (i - CheapPrepend)] ELSE b.cells[i]]
  BY DEF MoveUp, Buf, Readable
<1>3. /\ b.size \in Nat /\ b.w \in Nat /\ b.r \in Nat
      /\ CheapPrepend <= b.r /\ b.r <= b.w /\ b.w <= b.size
      /\ hi - lo = b.w - b.r
  BY Indices
<1>4. f.cells \in [0..(b.size - 1) -> Nat]
  <2>1. ASSUME NEW j \in 0..(b.size - 1) PROVE b.cells[j] \in Nat
    BY DEF IsBuffer
  <2>2. ASSUME NEW j \in 0..(b.size - 1), CheapPrepend <= j, j < CheapPrepend + (b.w - b.r)
        PROVE  b.cells[b.r + (j - CheapPrepend)] \in Nat
    <3>1. b.r + (j - CheapPrepend) \in 0..(b.size - 1)
      BY <1>3, <2>2
    <3> QED
      BY <2>1, <3>1
  <2> QED
    BY <1>2, <2>1, <2>2, Zenon
<1>5. IsBuffer(f)
  BY <1>1, <1>3, <1>4 DEF IsBuffer
<1>6. ASSUME NEW i \in 0..((b.w - b.r) - 1) PROVE f.cells[CheapPrepend + i] = lo + 1 + i
  <2>1. /\ CheapPrepend + i \in 0..(b.size - 1) /\ CheapPrepend <= CheapPrepend + i
        /\ CheapPrepend + i < CheapPrepend + (b.w - b.r)
        /\ b.r + ((CheapPrepend + i) - CheapPrepend) = b.r + i
    BY <1>3
  <2>2. f.cells[CheapPrepend + i] = b.cells[b.r + i]
    BY <1>2, <2>1, Zenon
  <2> QED
    BY <2>2 DEF Holds, Readable
<1>7. Holds(f, lo, hi)
  <2> DEFINE k == b.w - b.r
  <2>1. k \in Nat /\ CheapPrepend \in Nat /\ CheapPrepend <= CheapPrepend /\ hi = lo + k
    BY <1>3
  <2>2. f.r = CheapPrepend /\ f.w = CheapPrepend + k
    BY <1>1
  <2>3. \A i \in 0..(k - 1) : f.cells[CheapPrepend + i] = lo + 1 + i
    BY <1>6
  <2> HIDE DEF k
  <2> QED
    BY <2>1, <2>2, <2>3, HoldsFrom, Zenon
<1> QED
  BY <1>1, <1>5, <1>7

\* ensureWriteableBytes makes room, keeps the contents and bounds the vector.
LEMMA EnsureHolds ==
  ASSUME NEW b, IsBuffer(b), NEW lo \in Nat, NEW hi \in Nat, Holds(b, lo, hi),
         NEW n \in Nat, NEW e, e = EnsureWriteableBytes(b, n)
  PROVE  /\ IsBuffer(e) /\ Holds(e, lo, hi) /\ n <= Writable(e)
         /\ e.size = b.size \/ e.size <= CheapPrepend + 2 * (hi + n - lo)
         /\ e.size = b.size \/ b.size < CheapPrepend + (hi + n - lo)
<1>1. /\ b.size \in Nat /\ b.w \in Nat /\ b.r \in Nat
      /\ CheapPrepend <= b.r /\ b.r <= b.w /\ b.w <= b.size
      /\ hi - lo = b.w - b.r
  BY Indices
<1>2. CASE n <= Writable(b)
  BY <1>1, <1>2 DEF EnsureWriteableBytes, Writable
<1>3. CASE Writable(b) < n /\ MustGrow(b, n)
  <2>1. e = Resized(b, b.w + n)
    BY <1>3 DEF EnsureWriteableBytes, MakeSpace
  <2>2. b.w + n \in Nat /\ b.w + n >= b.size
    BY <1>1, <1>3 DEF Writable
  <2>3. IsBuffer(e) /\ Holds(e, lo, hi) /\ e.size = b.w + n /\ e.w = b.w
    BY <2>1, <2>2, ResizedHolds
  <2>4. /\ b.w + n <= CheapPrepend + 2 * (hi + n - lo)
        /\ b.size < CheapPrepend + (hi + n - lo)
    BY <1>1, <1>3 DEF MustGrow, Writable, Prependable
  <2> QED
    BY <1>1, <2>3, <2>4 DEF Writable
<1>4. CASE Writable(b) < n /\ ~MustGrow(b, n)
  <2>1. e = MoveUp(b)
    BY <1>4 DEF EnsureWriteableBytes, MakeSpace
  <2>2. IsBuffer(e) /\ Holds(e, lo, hi) /\ e.size = b.size
        /\ e.w = CheapPrepend + (b.w - b.r)
    BY <2>1, MoveUpHolds
  <2> QED
    BY <1>1, <1>4, <2>2 DEF MustGrow, Writable, Prependable
<1> QED
  BY <1>1, <1>2, <1>3, <1>4 DEF Writable

\* append
LEMMA AppendHolds ==
  ASSUME NEW b, IsBuffer(b), NEW lo \in Nat, NEW hi \in Nat, Holds(b, lo, hi),
         NEW n \in Nat, NEW f, f = AppendBytes(b, hi + 1, n)
  PROVE  /\ IsBuffer(f) /\ Holds(f, lo, hi + n)
         /\ f.size = b.size \/ f.size <= CheapPrepend + 2 * (hi + n - lo)
         /\ f.size = b.size \/ b.size < CheapPrepend + (hi + n - lo)
<1> DEFINE e == EnsureWriteableBytes(b, n)
<1>1. /\ IsBuffer(e) /\ Holds(e, lo, hi) /\ n <= Writable(e)
      /\ e.size = b.size \/ e.size <= CheapPrepend + 2 * (hi + n - lo)
      /\ e.size = b.size \/ b.size < CheapPrepend + (hi + n - lo)
  BY EnsureHolds
<1>2. f = Fill(e, hi + 1, n)
  BY DEF AppendBytes
<1> HIDE DEF e
<1>3. IsBuffer(f) /\ Holds(f, lo, hi + n) /\ f.size = e.size
  BY <1>1, <1>2, FillHolds
<1> QED
  BY <1>1, <1>3

\* readFd: the two parts of the scattered read come one after the other.
LEMMA ReadHolds ==
  ASSUME NEW b, IsBuffer(b), NEW lo \in Nat, NEW hi \in Nat, Holds(b, lo, hi),
         NEW n \in Nat, NEW f, f = ReadFd(b, hi + 1, n)
  PROVE  /\ IsBuffer(f) /\ Holds(f, lo, hi + n)
         /\ f.size = b.size \/ f.size <= CheapPrepend + 2 * (hi + n - lo)
         /\ f.size = b.size \/ b.size < CheapPrepend + (hi + n - lo)
<1>1. Writable(b) \in Nat
  BY Indices DEF Writable
<1>2. CASE n <= Writable(b)
  <2>1. f = Fill(b, hi + 1, n)
    BY <1>2 DEF ReadFd
  <2> QED
    BY <1>2, <2>1, FillHolds
<1>3. CASE ~(n <= Writable(b))
  <2> DEFINE k == Writable(b)
             g == Fill(b, hi + 1, k)
  <2>1. k \in Nat /\ n - k \in Nat /\ hi + k \in Nat /\ (hi + k) + (n - k) = hi + n
        /\ k <= Writable(b) /\ (hi + k) + 1 = (hi + 1) + k
    BY <1>1, <1>3
  <2>2. IsBuffer(g) /\ Holds(g, lo, hi + k) /\ g.size = b.size
    BY <2>1, FillHolds
  <2>3. f = AppendBytes(g, (hi + 1) + k, n - k)
    BY <1>3 DEF ReadFd
  <2> HIDE DEF g, k
  <2>4. f = AppendBytes(g, (hi + k) + 1, n - k)
    BY <2>1, <2>3
  <2>5. /\ IsBuffer(f) /\ Holds(f, lo, (hi + k) + (n - k))
        /\ f.size = g.size \/ f.size <= CheapPrepend + 2 * ((hi + k) + (n - k) - lo)
        /\ f.size = g.size \/ g.size < CheapPrepend + ((hi + k) + (n - k) - lo)
    BY <2>1, <2>2, <2>4, AppendHolds
  <2> QED
    BY <2>1, <2>2, <2>5
<1> QED
  BY <1>2, <1>3

\* retrieve: from the front, all of it if it is asked for too much.
LEMMA RetrieveHolds ==
  ASSUME NEW b, IsBuffer(b), NEW lo \in Nat, NEW hi \in Nat, Holds(b, lo, hi), lo <= hi,
         NEW n \in Nat, NEW f, f = Retrieve(b, n),
         NEW l, l = (IF lo + n < hi THEN lo + n ELSE hi)
  PROVE  IsBuffer(f) /\ Holds(f, l, hi) /\ f.size = b.size
<1>1. /\ b.size \in Nat /\ b.w \in Nat /\ b.r \in Nat
      /\ CheapPrepend <= b.r /\ b.r <= b.w /\ b.w <= b.size
      /\ hi - lo = b.w - b.r
  BY Indices
<1>2. b.cells \in [0..(b.size - 1) -> Nat]
  BY DEF IsBuffer
<1>3. CASE n < Readable(b)
  <2>1. f.size = b.size /\ f.cells = b.cells /\ f.r = b.r + n /\ f.w = b.w
    BY <1>3 DEF Retrieve, AtIndices
  <2>2. l = lo + n /\ n <= b.w - b.r
    BY <1>1, <1>3 DEF Readable
  <2>3. ASSUME NEW i \in 0..((b.w - b.r) - n - 1)
        PROVE  f.cells[(b.r + n) + i] = (lo + n) + 1 + i
    <3>1. n + i \in 0..((b.w - b.r) - 1)
      BY <1>1, <2>2
    <3>2. b.cells[b.r + (n + i)] = lo + 1 + (n + i)
      BY <3>1 DEF Holds, Readable
    <3> QED
      BY <1>1, <2>1, <3>1, <3>2
  <2>4. Holds(f, l, hi)
    BY <1>1, <2>1, <2>2, <2>3 DEF Holds, Readable
  <2> QED
    BY <1>1, <1>2, <2>1, <2>2, <2>4 DEF IsBuffer
<1>4. CASE ~(n < Readable(b))
  <2>1. f.size = b.size /\ f.cells = b.cells /\ f.r = CheapPrepend /\ f.w = CheapPrepend
    BY <1>4 DEF Retrieve, RetrieveAll, AtIndices
  <2>2. l = hi
    BY <1>1, <1>4 DEF Readable
  <2> QED
    BY <1>1, <1>2, <2>1, <2>2 DEF IsBuffer, Holds, Readable
<1> QED
  BY <1>3, <1>4

-----------------------------------------------------------------------------
\* A step that puts bytes in.
LEMMA PutsInv ==
  ASSUME Inv, NEW n \in Nat, NEW f,
         IsBuffer(f), Holds(f, taken, put + n),
         f.size = buf.size \/ f.size <= CheapPrepend + 2 * (put + n - taken),
         Puts(f, n)
  PROVE  Inv'
<1>1. /\ put \in Nat /\ taken \in Nat /\ most \in Nat /\ taken <= put
      /\ put - taken <= most /\ most <= MaxBytes
      /\ buf.size <= CheapPrepend + InitialSize \/ buf.size <= CheapPrepend + 2 * most
  BY DEF Inv, TypeOK, GrowthIsBounded
<1>2. /\ buf' = f /\ put' = put + n /\ taken' = taken /\ put + n <= MaxBytes
      /\ most' = IF (put + n) - taken > most THEN (put + n) - taken ELSE most
  BY DEF Puts
<1>3. /\ put' \in 0..MaxBytes /\ taken' \in 0..put' /\ most' \in 0..MaxBytes
      /\ put' - taken' <= most' /\ most <= most'
  BY <1>1, <1>2
<1>4. BytesIntact'
  BY <1>2 DEF BytesIntact
<1>5. buf'.size \in Nat /\ buf.size \in Nat
  BY <1>2 DEF IsBuffer, Inv, TypeOK
<1>6. buf'.size = buf.size \/ buf'.size <= CheapPrepend + 2 * (put' - taken')
  <2>1. put' - taken' = put + n - taken
    BY <1>1, <1>2
  <2> QED
    BY <1>2, <2>1, Zenon
<1>7. GrowthIsBounded'
  <2>1. put' \in Nat /\ taken' \in Nat /\ most' \in Nat
    BY <1>1, <1>2, <1>3
  <2>2. CASE buf'.size = buf.size
    <3>1. \/ buf'.size <= CheapPrepend + InitialSize
          \/ buf'.size <= CheapPrepend + 2 * most
      BY <1>1, <2>2, Zenon
    <3>2. CASE buf'.size <= CheapPrepend + InitialSize
      BY <3>2 DEF GrowthIsBounded
    <3>3. CASE buf'.size <= CheapPrepend + 2 * most
      <4>1. most \in Nat /\ most <= most'
        BY <1>1, <1>3
      <4>2. buf'.size <= CheapPrepend + 2 * most'
        BY <1>5, <2>1, <3>3, <4>1
      <4> QED
        BY <4>2 DEF GrowthIsBounded
    <3> QED
      BY <3>1, <3>2, <3>3
  <2>3. CASE buf'.size <= CheapPrepend + 2 * (put' - taken')
    <3>1. put' - taken' <= most'
      BY <1>3
    <3> DEFINE d == put' - taken'
    <3>2. buf'.size <= CheapPrepend + 2 * most'
      <4>1. d \in Int
        BY <2>1
      <4>2. d <= most'
        BY <3>1
      <4>3. buf'.size <= CheapPrepend + 2 * d
        BY <2>3, Zenon
      <4> HIDE DEF d
      <4> QED
        BY <1>5, <2>1, <4>1, <4>2, <4>3
    <3> QED
      BY <3>2 DEF GrowthIsBounded
  <2> QED
    BY <1>6, <2>2, <2>3
<1> QED
  BY <1>2, <1>3, <1>4, <1>7 DEF Inv, TypeOK

LEMMA InitInv == Init => Inv
<1> SUFFICES ASSUME Init PROVE Inv
  OBVIOUS
<1> DEFINE size == CheapPrepend + InitialSize
<1>1. /\ buf.size = size /\ buf.r = CheapPrepend /\ buf.w = CheapPrepend
      /\ buf.cells = [i \in 0..(size - 1) |-> 0]
      /\ put = 0 /\ taken = 0 /\ most = 0
  BY DEF Init, NewBuffer, Buf
<1>2. IsBuffer(buf)
  BY <1>1 DEF IsBuffer
<1>3. Holds(buf, 0, 0)
  BY <1>1 DEF Holds, Readable
<1> QED
  BY <1>1, <1>2, <1>3 DEF Inv, TypeOK, BytesIntact, GrowthIsBounded

LEMMA StepInv == Inv /\ [Next]_vars => Inv'
<1> SUFFICES ASSUME Inv, [Next]_vars PROVE Inv'
  OBVIOUS
<1>1. /\ IsBuffer(buf) /\ Holds(buf, taken, put)
      /\ put \in Nat /\ taken \in Nat /\ taken <= put
  BY DEF Inv, TypeOK, BytesIntact
<1>2. ASSUME NEW n \in Nat, Append(n) PROVE Inv'
  <2> DEFINE f == AppendBytes(buf, put + 1, n)
  <2>1. /\ IsBuffer(f) /\ Holds(f, taken, put + n)
        /\ f.size = buf.size \/ f.size <= CheapPrepend + 2 * (put + n - taken)
    BY <1>1, AppendHolds
  <2>2. Puts(f, n)
    BY <1>2 DEF Append
  <2> HIDE DEF f
  <2> QED
    BY <2>1, <2>2, PutsInv
<1>3. ASSUME NEW n \in Nat, Read(n) PROVE Inv'
  <2> DEFINE f == ReadFd(buf, put + 1, n)
  <2>1. /\ IsBuffer(f) /\ Holds(f, taken, put + n)
        /\ f.size = buf.size \/ f.size <= CheapPrepend + 2 * (put + n - taken)
    BY <1>1, ReadHolds
  <2>2. Puts(f, n)
    BY <1>3 DEF Read
  <2> HIDE DEF f
  <2> QED
    BY <2>1, <2>2, PutsInv
<1>4. ASSUME NEW n \in Nat, Take(n) PROVE Inv'
  <2> DEFINE f == Retrieve(buf, n)
             l == IF taken + n < put THEN taken + n ELSE put
  <2>1. IsBuffer(f) /\ Holds(f, l, put) /\ f.size = buf.size
    BY <1>1, RetrieveHolds
  <2>2. /\ buf' = f /\ taken' = l /\ put' = put /\ most' = most
    BY <1>4 DEF Take
  <2>3. l \in 0..put /\ taken <= l
    BY <1>1
  <2> HIDE DEF f, l
  <2>4. /\ put \in 0..MaxBytes /\ most \in 0..MaxBytes /\ put - taken <= most
        /\ buf.size <= CheapPrepend + InitialSize \/ buf.size <= CheapPrepend + 2 * most
    BY DEF Inv, TypeOK, GrowthIsBounded
  <2>5. put' - taken' <= most'
    BY <1>1, <2>2, <2>3, <2>4
  <2>6. IsBuffer(buf') /\ Holds(buf', taken', put') /\ buf'.size = buf.size
    BY <2>1, <2>2
  <2>7. TypeOK' /\ BytesIntact' /\ GrowthIsBounded'
    BY <2>2, <2>3, <2>4, <2>6 DEF TypeOK, BytesIntact, GrowthIsBounded
  <2> QED
    BY <2>5, <2>7 DEF Inv
<1>5. CASE UNCHANGED vars
  BY <1>5 DEF vars, Inv, TypeOK, BytesIntact, GrowthIsBounded
<1>6. CASE Next
  <2>1. PICK n \in 0..(MaxBytes + 1) : Append(n) \/ Read(n) \/ Take(n)
    BY <1>6 DEF Next
  <2>2. n \in Nat
    OBVIOUS
  <2> QED
    BY <1>2, <1>3, <1>4, <2>1, <2>2
<1> QED
  BY <1>5, <1>6

\* The inductive invariant, of every run of a buffer of any sizes.
THEOREM InvHolds == Spec => []Inv
  BY InitInv, StepInv, PTL DEF Spec

\* The indices and the vector of the Buffer stay consistent: 0 <= readerIndex_
\* <= writerIndex_ <= buffer_.size().
THEOREM TypeCorrect == Spec => []TypeOK
<1>1. Inv => TypeOK
  BY DEF Inv
<1> QED
  BY <1>1, InvHolds, PTL

\* append, retrieve, makeSpace and readFd together are a FIFO of bytes.
THEOREM FirstInFirstOut == Spec => []BytesIntact
<1>1. Inv => BytesIntact
  BY DEF Inv
<1> QED
  BY <1>1, InvHolds, PTL

\* makeSpace grows the vector only when the room in front does not do.
THEOREM GrowthBounded == Spec => []GrowthIsBounded
<1>1. Inv => GrowthIsBounded
  BY DEF Inv
<1> QED
  BY <1>1, InvHolds, PTL

\* The vector grows only in a step after which the bytes held would not fit the
\* old one: makeSpace moves them as long as that makes room.
THEOREM GrowthNeeded == Spec => GrowsOnlyWhenFull
<1> DEFINE Needed == buf'.size > buf.size => CheapPrepend + (put' - taken') > buf.size
<1>1. Inv /\ [Next]_vars => Needed
  <2> SUFFICES ASSUME Inv, [Next]_vars PROVE Needed
    OBVIOUS
  <2>1. /\ IsBuffer(buf) /\ Holds(buf, taken, put) /\ taken <= put
        /\ put \in Nat /\ taken \in Nat /\ buf.size \in Nat
    BY DEF Inv, TypeOK, BytesIntact, IsBuffer
  <2>2. ASSUME NEW n \in Nat, Append(n) \/ Read(n) PROVE Needed
    <3>1. /\ Append(n) => buf' = AppendBytes(buf, put + 1, n)
          /\ Read(n) => buf' = ReadFd(buf, put + 1, n)
          /\ put' = put + n /\ taken' = taken
      BY <2>2 DEF Append, Read, Puts
    <3>2. buf'.size = buf.size \/ buf.size < CheapPrepend + (put + n - taken)
      BY <2>1, <2>2, <3>1, AppendHolds, ReadHolds
    <3> QED
      BY <2>1, <3>1, <3>2
  <2>3. ASSUME NEW n \in Nat, Take(n) PROVE Needed
    <3> DEFINE l == IF taken + n < put THEN taken + n ELSE put
    <3>1. buf' = Retrieve(buf, n)
      BY <2>3 DEF Take
    <3>2. buf'.size = buf.size
      BY <2>1, <3>1, RetrieveHolds
    <3> QED
      BY <2>1, <3>2
  <2>4. CASE UNCHANGED vars
    BY <2>1, <2>4 DEF vars
  <2>5. CASE Next
    <3>1. PICK n \in 0..(MaxBytes + 1) : Append(n) \/ Read(n) \/ Take(n)
      BY <2>5 DEF Next
    <3>2. n \in Nat
      OBVIOUS
    <3> QED
      BY <2>2, <2>3, <3>1, <3>2
  <2> QED
    BY <2>4, <2>5
<1> QED
  BY <1>1, InvHolds, PTL DEF Spec, GrowsOnlyWhenFull

=============================================================================
