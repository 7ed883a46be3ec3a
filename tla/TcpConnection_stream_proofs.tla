-------------------- MODULE TcpConnection_stream_proofs --------------------
(***************************************************************************)
(* Proofs about the bytes a TcpConnection sends, for any threads, messages *)
(* and sizes: it implements OutputStream, every accepted byte is on the    *)
(* wire or in outputBuffer_ in order, and the high-water callback is       *)
(* queued exactly when the buffer passes the mark.                         *)
(***************************************************************************)
EXTENDS TcpConnection_proofs, FiniteSetTheorems, WellFoundedInduction

-----------------------------------------------------------------------------
(* TcpConnection implements OutputStream *)

\* sendInLoop takes a message whole, or drops it whole.
LEMMA SendIsAccept ==
  ASSUME Inv, NEW m \in Msg, NEW q, SendInLoop(m, q), UNCHANGED <<writeClosed, downs>>
  PROVE  Out!Next \/ UNCHANGED Out!vars
<1>1. CASE UNCHANGED <<output, channel>>
  BY <1>1 DEF output, Out!vars
<1>2. ASSUME NEW n \in 0..MsgLen,
             MayWriteAtOnce => ~WriteFails,
             n > 0 => MayWriteAtOnce,
             wire' = wire \o SubSeq(Bytes(m), 1, n),
             outBuf' = outBuf \o SubSeq(Bytes(m), n + 1, MsgLen)
      PROVE  Out!Next
  <2>1. Len(Bytes(m)) = MsgLen
    BY SizesAssumption DEF SizesAssumption, Bytes
  <2>2. n > 0 => outBuf = <<>> /\ ~writeClosed
    BY <1>2 DEF MayWriteAtOnce, WriteFails
  <2>3. Out!Accept(m, n)
    BY <1>2, <2>1, <2>2 DEF Out!Accept
  <2>4. n \in 0..Len(Bytes(m))
    BY <2>1
  <2> QED BY <2>3, <2>4 DEF Out!Next
<1> QED BY <1>1, <1>2 DEF SendInLoop

\* handleWrite hands over the first bytes that wait; it may shut down the write
\* side with the last of them.
LEMMA WriteIsTransmit ==
  ASSUME Inv, NEW n \in 1..Len(outBuf), OnWriteSome(n)
  PROVE  Out!Next
<1>1. ~writeClosed /\ n > 0 /\ outBuf \in Seq(Byte)
  BY DEF OnWriteSome, WriteFails, Inv, TypeOK
<1>2. /\ wire' = wire \o SubSeq(outBuf, 1, n)
      /\ outBuf' = SubSeq(outBuf, n + 1, Len(outBuf))
      /\ downs' = downs
  BY DEF OnWriteSome, history
<1>3. writeClosed' \in {FALSE, outBuf' = <<>>}
  <2>1. CASE outBuf' = <<>>
    <3>1. writeClosed' = FALSE \/ writeClosed' = TRUE
      BY <1>1 DEF OnWriteSome, ShutdownAfterOutput, ShutdownInLoop
    <3>2. (outBuf' = <<>>) = TRUE
      BY <2>1
    <3> QED BY <3>1, <3>2
  <2>2. CASE outBuf' # <<>>
    BY <1>1, <1>2, <2>2 DEF OnWriteSome, Inv, TypeOK
  <2> QED BY <2>1, <2>2
<1>4. Out!Transmit(n)
  BY <1>1, <1>2, <1>3 DEF Out!Transmit
<1> QED BY <1>4 DEF Out!Next

\* shutdownInLoop finds the buffer empty, or leaves FIN to handleWrite.
LEMMA ShutdownIsShut ==
  ASSUME Inv, ShutdownInLoop(channel), UNCHANGED <<outBuf, wire, downs>>
  PROVE  Out!Next \/ UNCHANGED Out!vars
<1>1. writeClosed \in BOOLEAN /\ downs \in Nat
  BY DEF Inv, TypeOK
<1>2. CASE IsWriting(channel)
  BY <1>1, <1>2 DEF ShutdownInLoop, Out!vars
<1>3. CASE ~IsWriting(channel)
  <2>1. outBuf = <<>> \/ downs > 0
    BY <1>1, <1>3 DEF Inv, OutputInv
  <2>2. Out!Shut
    BY <1>1, <1>3, <2>1 DEF ShutdownInLoop, Out!Shut
  <2> QED BY <2>2 DEF Out!Next
<1> QED BY <1>2, <1>3

\* Every step of TcpConnection is a step of OutputStream or leaves it alone.
LEMMA OutputStep ==
  ASSUME Inv, [Next]_vars
  PROVE  Out!Next \/ UNCHANGED Out!vars
<1> USE DEF output, kernel, loopOnly, server, callers, history
<1>1. ioq \in Seq(FunctorType) /\ downs \in Nat
  BY DEF Inv, TypeOK
<1>2. CASE UNCHANGED <<outBuf, wire, writeClosed, downs>>
  BY <1>2 DEF Out!vars
<1>3. CASE UNCHANGED <<outBuf, wire, writeClosed>> /\ downs' = downs + 1
  <2>1. Out!Close
    BY <1>1, <1>3 DEF Out!Close
  <2> QED BY <2>1 DEF Out!Next
<1>4. CASE OnClose \/ OnRead
  BY <1>2, <1>3, <1>4 DEF OnClose, OnRead, HandleClose
<1>5. CASE OnWrite
  BY <1>5, WriteIsTransmit DEF OnWrite
<1>6. CASE ConnectDestroyed
  BY <1>2, <1>3, <1>6 DEF ConnectDestroyed
<1>7. CASE RunSend
  <2>1. Head(ioq) \in FunctorType
    BY <1>1, <1>7 DEF RunSend, Runs
  <2>2. Head(ioq).msg \in Msg
    BY <1>7, <2>1 DEF RunSend, Runs, FunctorType
  <2> QED BY <1>7, <2>2, SendIsAccept DEF RunSend
<1>8. ASSUME NEW m \in Msg, UserSend(m) PROVE Out!Next \/ UNCHANGED Out!vars
  BY <1>8, SendIsAccept DEF UserSend
<1>9. CASE RunShutdown \/ UserShutdown
  BY <1>9, ShutdownIsShut DEF RunShutdown, UserShutdown
<1>10. CASE Poll \/ OnWriteNothing \/ ConnectEstablished \/ RunUserFunctor \/ UserReturns
  BY <1>2, <1>10 DEF Poll, OnWriteNothing, ConnectEstablished, RunUserFunctor, UserReturns
<1>11. CASE Callers
  BY <1>2, <1>11 DEF Callers, DropConnection, DropString, Finish, SendPosts, ShutdownSets,
                     ShutdownPosts, ShutdownChecks, SendChecks
<1>12. CASE RemoveConnectionInLoop \/ DestroyServer \/ LoopEnds \/ PeerSends
  BY <1>2, <1>12 DEF RemoveConnectionInLoop, DestroyServer, LoopEnds, PeerSends
<1>13. CASE (\E how \in {"fin", "rst"} : PeerCloses(how)) \/ UNCHANGED vars
  BY <1>2, <1>13 DEF PeerCloses, vars
<1> QED
  BY <1>4, <1>5, <1>6, <1>7, <1>8, <1>9, <1>10, <1>11, <1>12, <1>13
  DEF Next, LoopStep, RunFunctor, User

\* Whichever threads call send() and shutdown(), and however the kernel splits
\* the writes: accepted bytes leave in order, none lost, doubled or overtaken,
\* and FIN after the last.
THEOREM ImplementsOutputStream == Spec => StreamRefinement
<1>1. Init => Out!Init
  BY DEF Init, Out!Init
<1>2. Inv /\ [Next]_vars => [Out!Next]_Out!vars
  BY OutputStep
<1> QED BY <1>1, <1>2, InvHolds, PTL DEF Spec, StreamRefinement, Out!Spec

-----------------------------------------------------------------------------
(* Flattening a sequence one element longer *)

\* Induction over the natural numbers, for a set of them.
LEMMA SetInduction ==
  ASSUME NEW T, 0 \in T, \A n \in Nat : n \in T => n + 1 \in T
  PROVE  \A n \in Nat : n \in T
<1> DEFINE U == Nat \ T
<1> SUFFICES ASSUME U # {} PROVE FALSE
  OBVIOUS
<1>1. PICK x \in U : \A y \in U : ~(<<y, x>> \in OpToRel(<, Nat))
  BY NatLessThanWellFounded, WFMin
<1>2. \A y \in U : ~(y < x)
  BY <1>1 DEF OpToRel
<1>3. x # 0 /\ x - 1 \in Nat /\ x - 1 < x
  OBVIOUS
<1>4. x - 1 \in T
  BY <1>2, <1>3
<1> QED BY <1>3, <1>4

\* f[i] is the concatenation of the first i elements of s.
Flattens(f, s, N) == f = [i \in 1..N |-> IF i = 1 THEN s[i] ELSE f[i - 1] \o s[i]]

LEMMA FlatteningExists ==
  ASSUME NEW s
  PROVE  \A n \in Nat : \E f : Flattens(f, s, n)
<1> DEFINE T == {n \in Nat : \E f : Flattens(f, s, n)}
<1>1. 0 \in T
  <2> DEFINE f == [i \in 1..0 |-> IF i = 1 THEN s[i] ELSE s[i]]
  <2>1. f = [i \in 1..0 |-> IF i = 1 THEN s[i] ELSE f[i - 1] \o s[i]]
    BY \A i : i \notin 1..0
  <2> QED BY <2>1 DEF Flattens
<1>2. ASSUME NEW n \in Nat, n \in T
      PROVE  n + 1 \in T
  <2>1. PICK f : Flattens(f, s, n)
    BY <1>2
  <2> DEFINE last == IF n + 1 = 1 THEN s[n + 1] ELSE f[n] \o s[n + 1]
             g == [i \in 1..(n + 1) |-> IF i = n + 1 THEN last ELSE f[i]]
  <2>2. \A i \in 1..n : f[i] = IF i = 1 THEN s[i] ELSE f[i - 1] \o s[i]
    BY <2>1 DEF Flattens
  <2>3. \A i \in 1..(n + 1) : g[i] = IF i = 1 THEN s[i] ELSE g[i - 1] \o s[i]
    <3>1. ASSUME NEW i \in 1..n
          PROVE  g[i] = IF i = 1 THEN s[i] ELSE g[i - 1] \o s[i]
      <4>1. g[i] = f[i] /\ (i # 1 => i - 1 \in 1..n /\ g[i - 1] = f[i - 1])
        OBVIOUS
      <4> QED BY <2>2, <4>1
    <3>2. g[n + 1] = IF n + 1 = 1 THEN s[n + 1] ELSE g[n + 1 - 1] \o s[n + 1]
      <4>1. g[n + 1] = last /\ (n + 1 # 1 => g[n + 1 - 1] = f[n])
        OBVIOUS
      <4> QED BY <4>1
    <3> HIDE DEF g
    <3> QED BY <3>1, <3>2
  <2>4. g = [i \in 1..(n + 1) |-> IF i = 1 THEN s[i] ELSE g[i - 1] \o s[i]]
    <3>1. g = [i \in 1..(n + 1) |-> g[i]]
      OBVIOUS
    <3> HIDE DEF g
    <3> QED BY <2>3, <3>1
  <2> HIDE DEF g
  <2>5. Flattens(g, s, n + 1)
    BY <2>4 DEF Flattens
  <2> QED BY <2>5
<1> HIDE DEF T
<1>3. \A n \in Nat : n \in T
  BY <1>1, <1>2, SetInduction
<1> QED BY <1>3 DEF T

\* Two sequences that agree on their first N elements flatten alike so far.
LEMMA FlatteningUnique ==
  ASSUME NEW s, NEW t, NEW f, NEW g, NEW N \in Nat, NEW M \in Nat, N <= M,
         Flattens(f, s, N), Flattens(g, t, M), \A i \in 1..N : t[i] = s[i]
  PROVE  \A i \in 1..N : g[i] = f[i]
<1> DEFINE T == {n \in Nat : n \in 1..N => g[n] = f[n]}
<1>1. 0 \in T
  OBVIOUS
<1>2. /\ \A i \in 1..N : f[i] = IF i = 1 THEN s[i] ELSE f[i - 1] \o s[i]
      /\ \A i \in 1..N : g[i] = IF i = 1 THEN t[i] ELSE g[i - 1] \o t[i]
  <2>1. \A i \in 1..N : i \in 1..M
    OBVIOUS
  <2> QED BY <2>1 DEF Flattens
<1>3. ASSUME NEW n \in Nat, n \in T
      PROVE  n + 1 \in T
  <2> SUFFICES ASSUME n + 1 \in 1..N PROVE g[n + 1] = f[n + 1]
    OBVIOUS
  <2>1. CASE n = 0
    BY <1>2, <2>1
  <2>2. CASE n # 0
    <3>1. n \in 1..N /\ n + 1 - 1 = n /\ n + 1 # 1
      BY <2>2
    <3>2. g[n] = f[n]
      BY <1>3, <3>1
    <3> DEFINE k == n + 1
    <3>3. k \in 1..N /\ k # 1 /\ k - 1 = n
      BY <3>1
    <3> HIDE DEF k
    <3>4. f[k] = f[k - 1] \o s[k] /\ g[k] = g[k - 1] \o t[k] /\ t[k] = s[k]
      BY <1>2, <3>3
    <3> QED BY <3>2, <3>3, <3>4 DEF k
  <2> QED BY <2>1, <2>2
<1> HIDE DEF T
<1>4. \A n \in Nat : n \in T
  BY <1>1, <1>3, SetInduction
<1> QED BY <1>4 DEF T

\* FlattenSeq by its recursive function.
LEMMA FlattenSeqValue ==
  ASSUME NEW N \in Nat \ {0}, NEW s, DOMAIN s = 1..N, Len(s) = N
  PROVE  \E f : Flattens(f, s, N) /\ FlattenSeq(s) = f[N]
<1> DEFINE f == CHOOSE h : h = [i \in 1..N |-> IF i = 1 THEN s[i] ELSE h[i - 1] \o s[i]]
<1>1. \E h : h = [i \in 1..N |-> IF i = 1 THEN s[i] ELSE h[i - 1] \o s[i]]
  BY FlatteningExists DEF Flattens
<1>2. f = [i \in 1..N |-> IF i = 1 THEN s[i] ELSE f[i - 1] \o s[i]]
  BY <1>1
<1>3. FlattenSeq(s) = f[N]
  BY DEF FlattenSeq
<1> HIDE DEF f
<1> QED BY <1>2, <1>3 DEF Flattens

\* One more element goes to the end.
LEMMA FlattenSeqGrows ==
  ASSUME NEW X, NEW N \in Nat, NEW s, NEW t,
         DOMAIN s = 1..N, Len(s) = N, DOMAIN t = 1..(N + 1), Len(t) = N + 1,
         \A i \in 1..N : t[i] = s[i], t[N + 1] \in Seq(X),
         N = 0 => s = <<>>
  PROVE  FlattenSeq(t) = FlattenSeq(s) \o t[N + 1]
<1>1. PICK g : Flattens(g, t, N + 1) /\ FlattenSeq(t) = g[N + 1]
  BY FlattenSeqValue
<1>2. g[N + 1] = IF N + 1 = 1 THEN t[N + 1] ELSE g[N + 1 - 1] \o t[N + 1]
  <2> DEFINE k == N + 1
  <2>1. Flattens(g, t, k) /\ k \in 1..k
    BY <1>1
  <2> HIDE DEF k
  <2>2. g[k] = IF k = 1 THEN t[k] ELSE g[k - 1] \o t[k]
    BY <2>1 DEF Flattens
  <2> QED BY <2>2 DEF k
<1>3. CASE N = 0
  <2>1. FlattenSeq(s) = <<>>
    BY <1>3 DEF FlattenSeq
  <2>2. g[N + 1] = t[N + 1]
    BY <1>2, <1>3
  <2>3. <<>> \o t[N + 1] = t[N + 1]
    BY ConcatEmptySeq
  <2> QED BY <1>1, <2>1, <2>2, <2>3
<1>4. CASE N # 0
  <2>1. PICK f : Flattens(f, s, N) /\ FlattenSeq(s) = f[N]
    BY <1>4, FlattenSeqValue
  <2>2. g[N] = f[N]
    BY <1>1, <1>4, <2>1, FlatteningUnique
  <2>3. N + 1 # 1 /\ N + 1 - 1 = N
    BY <1>4
  <2>4. g[N + 1] = g[N] \o t[N + 1]
    BY <1>2, <2>3
  <2> QED BY <1>1, <2>1, <2>2, <2>4
<1> QED BY <1>3, <1>4

-----------------------------------------------------------------------------
(* Nothing accepted is lost, doubled or overtaken *)

\* A message split anywhere is put together again.
LEMMA SplitBytes ==
  ASSUME NEW m \in Msg, NEW n \in 0..MsgLen
  PROVE  SubSeq(Bytes(m), 1, n) \o SubSeq(Bytes(m), n + 1, MsgLen) = Bytes(m)
<1>1. MsgLen \in Nat \ {0}
  BY SizesAssumption DEF SizesAssumption
<1>2. Bytes(m) \in Seq(Byte) /\ Len(Bytes(m)) = MsgLen
  BY <1>1 DEF Bytes, Byte
<1> HIDE DEF Bytes
<1> QED BY <1>1, <1>2, ConcatAdjacentSubSeq

\* The bytes of all accepted messages, and what one more adds.
Accepted(a) == FlattenSeq([i \in DOMAIN a |-> Bytes(a[i])])

LEMMA AcceptedGrows ==
  ASSUME NEW a \in Seq(Msg), NEW m \in Msg
  PROVE  Accepted(Append(a, m)) = Accepted(a) \o Bytes(m)
<1> DEFINE N == Len(a)
           s == [i \in DOMAIN a |-> Bytes(a[i])]
           t == [i \in DOMAIN Append(a, m) |-> Bytes(Append(a, m)[i])]
<1>1. /\ N \in Nat /\ DOMAIN a = 1..N
      /\ DOMAIN Append(a, m) = 1..(N + 1) /\ Append(a, m)[N + 1] = m
      /\ \A i \in 1..N : Append(a, m)[i] = a[i]
  BY AppendProperties
<1>2. DOMAIN s = 1..N /\ Len(s) = N
  BY <1>1
<1>3. DOMAIN t = 1..(N + 1) /\ Len(t) = N + 1
  BY <1>1
<1>4. t[N + 1] = Bytes(m) /\ \A i \in 1..N : t[i] = s[i]
  BY <1>1
<1>5. Bytes(m) \in Seq(Byte)
  BY SizesAssumption DEF SizesAssumption, Bytes, Byte
<1>6. N = 0 => s = <<>>
  BY <1>1
<1>7. Accepted(a) = FlattenSeq(s) /\ Accepted(Append(a, m)) = FlattenSeq(t)
  BY DEF Accepted
<1> HIDE DEF N, s, t
<1>8. t[N + 1] \in Seq(Byte)
  BY <1>4, <1>5
<1>9. \A i \in 1..N : t[i] = s[i]
  BY <1>4
<1>10. N \in Nat
  BY <1>1
<1>11. FlattenSeq(t) = FlattenSeq(s) \o t[N + 1]
  BY <1>2, <1>3, <1>6, <1>8, <1>9, <1>10, FlattenSeqGrows, SMTT(30)
<1> QED BY <1>4, <1>7, <1>11

\* A message goes behind everything accepted before it, wherever it is split
\* into a part that is written at once and a part that is buffered.
LEMMA SendKeepsStream ==
  ASSUME TypeOK, wire \o outBuf = Accepted(accepted), NEW m \in Msg, NEW q, SendInLoop(m, q)
  PROVE  wire' \o outBuf' = Accepted(accepted')
<1>1. wire \in Seq(Byte) /\ outBuf \in Seq(Byte) /\ accepted \in Seq(Msg)
  BY DEF TypeOK
<1>2. \A x, y, z \in Seq(Byte) : (x \o y) \o z = x \o (y \o z)
  BY ConcatAssociative
<1>3. CASE UNCHANGED <<output, channel>>
  BY <1>3 DEF output
<1>4. ASSUME NEW n \in 0..MsgLen,
             n > 0 => MayWriteAtOnce,
             wire' = wire \o SubSeq(Bytes(m), 1, n),
             outBuf' = outBuf \o SubSeq(Bytes(m), n + 1, MsgLen),
             accepted' = Append(accepted, m)
      PROVE  wire' \o outBuf' = Accepted(accepted')
  <2> DEFINE now == SubSeq(Bytes(m), 1, n)
             later == SubSeq(Bytes(m), n + 1, MsgLen)
             before == wire \o outBuf
  <2>1. now \in Seq(Byte) /\ later \in Seq(Byte) /\ now \o later = Bytes(m)
    BY BytesType, SplitBytes
  <2>2. now = <<>> \/ outBuf = <<>>
    BY <1>4, SubSeqEmpty DEF MayWriteAtOnce
  <2>3. wire' = wire \o now /\ outBuf' = outBuf \o later
    BY <1>4
  <2> HIDE DEF now, later
  <2>4. now \in Seq(Byte) /\ later \in Seq(Byte)
    BY <2>1
  <2>5. (wire \o outBuf) \o later = wire \o (outBuf \o later)
    BY <1>1, <1>2, <2>4
  <2>6. (wire \o now) \o later = wire \o (now \o later)
    BY <1>1, <2>4, ConcatAssociative
  <2>7. wire' \o outBuf' = before \o (now \o later)
    <3>1. CASE now = <<>>
      <4>1. wire \o now = wire /\ now \o later = later
        BY <1>1, <2>1, <3>1, ConcatEmptySeq
      <4> QED BY <2>3, <2>5, <4>1
    <3>2. CASE outBuf = <<>>
      <4>1. wire \o outBuf = wire /\ outBuf \o later = later
        BY <1>1, <2>1, <3>2, ConcatEmptySeq
      <4> QED BY <2>3, <2>6, <4>1
    <3> QED BY <2>2, <3>1, <3>2
  <2> QED BY <1>1, <1>4, <2>1, <2>7, AcceptedGrows
<1> QED BY <1>3, <1>4 DEF SendInLoop

\* handleWrite moves the first bytes of the buffer behind the last on the wire.
LEMMA WriteKeepsStream ==
  ASSUME TypeOK, NEW n \in 1..Len(outBuf), OnWriteSome(n)
  PROVE  wire' \o outBuf' = wire \o outBuf /\ accepted' = accepted
<1>1. wire \in Seq(Byte) /\ outBuf \in Seq(Byte) /\ Len(outBuf) \in Nat
  BY DEF TypeOK
<1> DEFINE now == SubSeq(outBuf, 1, n)
           rest == SubSeq(outBuf, n + 1, Len(outBuf))
<1>2. now \in Seq(Byte) /\ rest \in Seq(Byte)
  BY <1>1, SubSeqProperties
<1>3. now \o rest = outBuf
  BY <1>1, ConcatAdjacentSubSeq, SubSeqFull
<1>4. wire' = wire \o now /\ outBuf' = rest /\ accepted' = accepted
  BY DEF OnWriteSome
<1> HIDE DEF now, rest
<1>5. \A x, y, z \in Seq(Byte) : (x \o y) \o z = x \o (y \o z)
  BY ConcatAssociative
<1>6. (wire \o now) \o rest = wire \o (now \o rest)
  BY <1>1, <1>2, <1>5
<1> QED BY <1>3, <1>4, <1>6

\* Who touches the output at all.
LEMMA StreamStep ==
  ASSUME TypeOK, wire \o outBuf = Accepted(accepted), [Next]_vars
  PROVE  wire' \o outBuf' = Accepted(accepted')
<1> USE DEF output, kernel, loopOnly, server, callers, history
<1>1. CASE UNCHANGED output
  BY <1>1
<1>2. CASE OnWrite
  BY <1>2, WriteKeepsStream DEF OnWrite
<1>3. CASE RunSend
  <2>1. Head(ioq) \in FunctorType
    BY <1>3 DEF RunSend, Runs, TypeOK
  <2>2. Head(ioq).msg \in Msg
    BY <1>3, <2>1 DEF RunSend, Runs, FunctorType
  <2> QED BY <1>3, <2>2, SendKeepsStream DEF RunSend
<1>4. CASE \E m \in Msg : UserSend(m)
  BY <1>4, SendKeepsStream DEF UserSend
<1>5. CASE Poll \/ OnClose \/ OnRead \/ OnWriteNothing
  BY <1>1, <1>5 DEF Poll, OnClose, OnRead, OnWriteNothing
<1>6. CASE ConnectEstablished \/ ConnectDestroyed \/ RunShutdown \/ RunUserFunctor
  BY <1>1, <1>6 DEF ConnectEstablished, ConnectDestroyed, RunShutdown, RunUserFunctor
<1>7. CASE UserShutdown \/ UserReturns
  BY <1>1, <1>7 DEF UserShutdown, UserReturns
<1>8. CASE Callers
  BY <1>1, <1>8 DEF Callers, DropConnection, DropString, Finish, SendPosts, ShutdownSets,
                    ShutdownPosts, ShutdownChecks, SendChecks
<1>9. CASE RemoveConnectionInLoop \/ DestroyServer \/ LoopEnds \/ PeerSends
  BY <1>1, <1>9 DEF RemoveConnectionInLoop, DestroyServer, LoopEnds, PeerSends
<1>10. CASE (\E how \in {"fin", "rst"} : PeerCloses(how)) \/ UNCHANGED vars
  BY <1>1, <1>10 DEF PeerCloses, vars
<1> QED BY <1>2, <1>3, <1>4, <1>5, <1>6, <1>7, <1>8, <1>9, <1>10
        DEF Next, LoopStep, RunFunctor, User

\* At every moment the wire and outputBuffer_ together are what was accepted,
\* byte for byte, whoever sent it and however the writes were split.
THEOREM StreamStaysIntact == Spec => []StreamIntact
<1>1. StreamIntact <=> wire \o outBuf = Accepted(accepted)
  BY DEF StreamIntact, Accepted
<1>2. Init => StreamIntact
  <2> SUFFICES ASSUME Init PROVE wire \o outBuf = Accepted(accepted)
    BY <1>1
  <2>1. wire = <<>> /\ outBuf = <<>> /\ accepted = <<>>
    BY DEF Init
  <2>2. Accepted(<<>>) = <<>>
    BY DEF Accepted, FlattenSeq
  <2>3. <<>> \o <<>> = <<>>
    BY EmptySeq, ConcatEmptySeq
  <2> QED BY <2>1, <2>2, <2>3
<1>3. TypeOK /\ StreamIntact /\ [Next]_vars => StreamIntact'
  <2> SUFFICES ASSUME TypeOK, StreamIntact, [Next]_vars PROVE StreamIntact'
    OBVIOUS
  <2>1. wire' \o outBuf' = Accepted(accepted')
    BY <1>1, StreamStep
  <2> QED BY <2>1 DEF StreamIntact, Accepted
<1> QED BY <1>2, <1>3, TypeCorrect, PTL DEF Spec

-----------------------------------------------------------------------------
(* Counting the high-water callbacks that wait *)

Marks(q) == {i \in DOMAIN q : q[i].do = "highWater"}
Count(q) == Cardinality(Marks(q))

LEMMA CountType ==
  ASSUME NEW q \in Seq(FunctorType)
  PROVE  IsFiniteSet(Marks(q)) /\ Count(q) \in Nat
<1>1. IsFiniteSet(1..Len(q)) /\ Marks(q) \subseteq 1..Len(q)
  BY FS_Interval DEF Marks
<1> QED BY <1>1, FS_Subset, FS_CardinalityType DEF Count

\* One functor more behind the queue.
LEMMA CountAppend ==
  ASSUME NEW q \in Seq(FunctorType), NEW f \in FunctorType
  PROVE  Count(Append(q, f)) = IF f.do = "highWater" THEN Count(q) + 1 ELSE Count(q)
<1>1. /\ Len(q) \in Nat /\ DOMAIN q = 1..Len(q)
      /\ DOMAIN Append(q, f) = 1..(Len(q) + 1) /\ Append(q, f)[Len(q) + 1] = f
      /\ \A i \in 1..Len(q) : Append(q, f)[i] = q[i]
  BY AppendProperties
<1>2. IsFiniteSet(Marks(q)) /\ Len(q) + 1 \notin Marks(q)
  BY <1>1, CountType DEF Marks
<1>3. CASE f.do = "highWater"
  <2>1. Marks(Append(q, f)) = Marks(q) \cup {Len(q) + 1}
    BY <1>1, <1>3 DEF Marks
  <2> QED BY <1>2, <1>3, <2>1, FS_AddElement DEF Count
<1>4. CASE f.do # "highWater"
  <2>1. Marks(Append(q, f)) = Marks(q)
    BY <1>1, <1>4 DEF Marks
  <2> QED BY <1>4, <2>1 DEF Count
<1> QED BY <1>3, <1>4

\* One functor less at its head.
LEMMA CountTail ==
  ASSUME NEW q \in Seq(FunctorType), q # <<>>
  PROVE  Count(q) = IF Head(q).do = "highWater" THEN Count(Tail(q)) + 1 ELSE Count(Tail(q))
<1> DEFINE t == Tail(q)
           Rest == Marks(q) \ {1}
           next == [i \in Marks(t) |-> i + 1]
<1>1. /\ t \in Seq(FunctorType) /\ Len(q) \in Nat \ {0} /\ Len(t) = Len(q) - 1
      /\ DOMAIN q = 1..Len(q) /\ DOMAIN t = 1..Len(t) /\ Head(q) = q[1]
      /\ \A i \in 1..Len(t) : t[i] = q[i + 1]
  BY HeadTailProperties, EmptySeq
<1> HIDE DEF t
<1>2. IsFiniteSet(Marks(t)) /\ Count(t) \in Nat
  BY <1>1, CountType
<1>3. next \in Bijection(Marks(t), Rest)
  <2>1. \A i \in Marks(t) : i \in 1..Len(t) /\ i + 1 \in Rest
    BY <1>1 DEF Marks
  <2>2. \A j \in Rest : j - 1 \in Marks(t) /\ next[j - 1] = j
    BY <1>1 DEF Marks
  <2>3. \A i, j \in Marks(t) : next[i] = next[j] => i = j
    BY <2>1
  <2>4. next \in [Marks(t) -> Rest]
    BY <2>1
  <2> HIDE DEF next, Rest
  <2>5. \A j \in Rest : \E i \in Marks(t) : next[i] = j
    BY <2>2
  <2> QED BY <2>3, <2>4, <2>5 DEF Bijection, Injection, Surjection, IsInjective
<1>4. IsFiniteSet(Rest) /\ Cardinality(Rest) = Count(t)
  BY <1>2, <1>3, FS_Bijection DEF ExistsBijection, Count
<1>5. CASE Head(q).do = "highWater"
  <2>1. Marks(q) = Rest \cup {1} /\ 1 \notin Rest
    BY <1>1, <1>5 DEF Marks
  <2> QED BY <1>4, <1>5, <2>1, FS_AddElement DEF Count, t
<1>6. CASE Head(q).do # "highWater"
  <2>1. Marks(q) = Rest
    BY <1>1, <1>6 DEF Marks
  <2> QED BY <1>4, <1>6, <2>1 DEF Count, t
<1> QED BY <1>5, <1>6

\* A batch behind the queue.
LEMMA CountBatch ==
  ASSUME NEW q \in Seq(FunctorType), NEW a \in BOOLEAN, NEW b \in BOOLEAN
  PROVE  Count(q \o Batch(a, b)) = IF b THEN Count(q) + 1 ELSE Count(q)
<1> DEFINE f == Functor("writeComplete")
           g == Functor("highWater")
           x == When(a, "writeComplete")
           y == When(b, "highWater")
<1>1. /\ f \in FunctorType /\ f.do = "writeComplete"
      /\ g \in FunctorType /\ g.do = "highWater"
  BY DEF Functor, FunctorType
<1> HIDE DEF f, g
<1>2. x = (IF a THEN <<f>> ELSE <<>>) /\ y = (IF b THEN <<g>> ELSE <<>>)
  BY DEF When, f, g
<1>3. Batch(a, b) = x \o y
  BY DEF Batch
<1> HIDE DEF x, y
<1>4. <<f>> \in Seq(FunctorType) /\ <<g>> \in Seq(FunctorType) /\ <<>> \in Seq(FunctorType)
  BY <1>1
<1>5. x \in Seq(FunctorType) /\ y \in Seq(FunctorType) /\ Batch(a, b) = x \o y
  BY <1>2, <1>3, <1>4
<1>6. q \o (x \o y) = (q \o x) \o y
  <2>1. \A u, v, w \in Seq(FunctorType) : (u \o v) \o w = u \o (v \o w)
    BY ConcatAssociative
  <2> QED BY <1>5, <2>1
<1>7. q \o x \in Seq(FunctorType) /\ Count(q \o x) = Count(q)
  <2>1. CASE a
    <3>1. q \o x = Append(q, f)
      BY <1>1, <1>2, <2>1, AppendIsConcat
    <3>2. Count(Append(q, f)) = Count(q)
      BY <1>1, CountAppend
    <3> QED BY <1>1, <3>1, <3>2, AppendProperties
  <2>2. CASE ~a
    BY <1>2, <2>2, ConcatEmptySeq
  <2> QED BY <2>1, <2>2
<1> DEFINE r == q \o x
<1>8. r \in Seq(FunctorType) /\ Count(r) = Count(q) /\ q \o Batch(a, b) = r \o y
  BY <1>5, <1>6, <1>7
<1> HIDE DEF r
<1>9. CASE b
  <2>1. r \o y = Append(r, g)
    BY <1>1, <1>2, <1>8, <1>9, AppendIsConcat
  <2> QED BY <1>1, <1>8, <1>9, <2>1, CountAppend
<1>10. CASE ~b
  <2>1. r \o y = r
    BY <1>2, <1>8, <1>10, ConcatEmptySeq
  <2> QED BY <1>8, <1>10, <2>1
<1> QED BY <1>9, <1>10

\* sendInLoop queues the callback when the buffer passes the mark.
LEMMA SendCount ==
  ASSUME TypeOK, NEW m \in Msg, NEW q \in Seq(FunctorType), SendInLoop(m, q)
  PROVE  Count(ioq') > Count(q) <=> Len(outBuf) < HighWater /\ Len(outBuf') >= HighWater
<1>1. /\ Count(q) \in Nat /\ outBuf \in Seq(Byte) /\ Len(outBuf) \in Nat
      /\ HighWater \in Nat /\ MsgLen \in Nat
  BY CountType, SizesAssumption DEF TypeOK, SizesAssumption
<1>2. CASE Queue(q, <<>>) /\ UNCHANGED <<output, channel>>
  <2>1. ioq' = q /\ outBuf' = outBuf
    BY <1>2, ConcatEmptySeq DEF Queue, output
  <2> QED BY <1>1, <2>1
<1>3. ASSUME NEW n \in 0..MsgLen,
             outBuf' = outBuf \o SubSeq(Bytes(m), n + 1, MsgLen),
             Queue(q, When(n = MsgLen, "writeComplete")
                        \o When(n < MsgLen /\ Crosses(Len(outBuf), Len(outBuf) + MsgLen - n),
                                "highWater"))
      PROVE  Count(ioq') > Count(q)
               <=> Len(outBuf) < HighWater /\ Len(outBuf') >= HighWater
  <2> DEFINE a == n = MsgLen
             b == n < MsgLen /\ Crosses(Len(outBuf), Len(outBuf) + MsgLen - n)
  <2>1. a \in BOOLEAN /\ b \in BOOLEAN
    OBVIOUS
  <2>2. ioq' = q \o Batch(a, b)
    BY <1>3 DEF Queue, Batch
  <2>3. /\ SubSeq(Bytes(m), n + 1, MsgLen) \in Seq(Byte)
        /\ Len(SubSeq(Bytes(m), n + 1, MsgLen)) = MsgLen - n
    BY BytesType
  <2>4. Len(outBuf') = Len(outBuf) + (MsgLen - n)
    BY <1>1, <1>3, <2>3, ConcatProperties
  <2>5. b <=> Len(outBuf) < HighWater /\ Len(outBuf') >= HighWater
    BY <1>1, <2>4 DEF Crosses
  <2> HIDE DEF a, b
  <2>6. Count(ioq') = IF b THEN Count(q) + 1 ELSE Count(q)
    BY <2>1, <2>2, CountBatch
  <2>7. Count(ioq') > Count(q) <=> b
    BY <1>1, <2>1, <2>6
  <2> QED BY <2>5, <2>7
<1> QED BY <1>2, <1>3 DEF SendInLoop

\* What the other steps do: the buffer does not grow, and the only functors
\* they add are others or, behind a write that empties it, "writeComplete".
LEMMA PlainCount ==
  ASSUME TypeOK,
         \/ outBuf' = outBuf /\ ioq' = ioq
         \/ /\ outBuf' = outBuf
            /\ \E f \in FunctorType : f.do # "highWater" /\ ioq' = Append(ioq, f)
         \/ outBuf' = outBuf /\ ioq # <<>> /\ ioq' = Tail(ioq)
         \/ outBuf' = outBuf /\ ioq' = <<>>
         \/ \E n \in 1..Len(outBuf) : OnWriteSome(n)
  PROVE  Count(ioq') > Count(ioq) <=> Len(outBuf) < HighWater /\ Len(outBuf') >= HighWater
<1>1. /\ Count(ioq) \in Nat /\ ioq \in Seq(FunctorType)
      /\ outBuf \in Seq(Byte) /\ Len(outBuf) \in Nat /\ HighWater \in Nat
  BY CountType, SizesAssumption DEF TypeOK, SizesAssumption
<1>2. SUFFICES /\ ~(Count(ioq') > Count(ioq))
               /\ ~(Len(outBuf) < HighWater /\ Len(outBuf') >= HighWater)
  OBVIOUS
<1>3. CASE outBuf' = outBuf /\ ioq' = ioq
  BY <1>1, <1>3
<1>4. CASE /\ outBuf' = outBuf
           /\ \E f \in FunctorType : f.do # "highWater" /\ ioq' = Append(ioq, f)
  <2>1. PICK f \in FunctorType : f.do # "highWater" /\ ioq' = Append(ioq, f)
    BY <1>4
  <2>2. Count(ioq') = Count(ioq)
    BY <1>1, <2>1, CountAppend
  <2> QED BY <1>1, <1>4, <2>2
<1>5. CASE outBuf' = outBuf /\ ioq # <<>> /\ ioq' = Tail(ioq)
  <2>1. Count(ioq') \in Nat
    BY <1>1, <1>5, HeadTailProperties, CountType
  <2>2. Count(ioq) = Count(ioq') + 1 \/ Count(ioq) = Count(ioq')
    BY <1>1, <1>5, CountTail
  <2> QED BY <1>1, <1>5, <2>1, <2>2
<1>6. CASE \E n \in 1..Len(outBuf) : OnWriteSome(n)
  <2>1. PICK n \in 1..Len(outBuf) : OnWriteSome(n)
    BY <1>6
  <2>2. Len(outBuf') <= Len(outBuf)
    BY <1>1, <2>1 DEF OnWriteSome
  <2>3. ioq' = ioq \o Batch(outBuf' = <<>>, FALSE)
    BY <2>1, BatchType DEF OnWriteSome, Queue
  <2>4. Count(ioq') = Count(ioq)
    BY <1>1, <2>3, CountBatch
  <2>5. Len(outBuf') \in Nat
    BY <1>1, <2>1 DEF OnWriteSome
  <2> QED BY <1>1, <2>2, <2>4, <2>5
<1>7. CASE outBuf' = outBuf /\ ioq' = <<>>
  <2>1. Marks(<<>>) = {}
    BY DEF Marks
  <2>2. Count(<<>>) = 0
    BY <2>1, FS_EmptySet DEF Count
  <2> QED BY <1>1, <1>7, <2>2
<1> QED BY <1>3, <1>4, <1>5, <1>6, <1>7

\* The step itself: sendInLoop by SendCount, every other member function and
\* every other thread by PlainCount.
LEMMA MarksStep ==
  ASSUME TypeOK, [Next]_vars
  PROVE  Count(ioq') > Count(ioq) <=> Len(outBuf) < HighWater /\ Len(outBuf') >= HighWater
<1> USE DEF output, kernel, loopOnly, server, callers, history
<1>1. ASSUME NEW m \in Msg, UserSend(m)
      PROVE  Count(ioq') > Count(ioq) <=> Len(outBuf) < HighWater /\ Len(outBuf') >= HighWater
  BY <1>1, SendCount DEF UserSend, TypeOK
<1>2. CASE RunSend
  <2>1. /\ ioq \in Seq(FunctorType) /\ ioq # <<>> /\ Head(ioq).do = "send"
        /\ Head(ioq) \in FunctorType /\ Tail(ioq) \in Seq(FunctorType)
    BY <1>2, HeadTailProperties DEF RunSend, Runs, TypeOK
  <2>2. Head(ioq).msg \in Msg
    BY <2>1 DEF FunctorType
  <2>3. Count(ioq) = Count(Tail(ioq))
    BY <2>1, CountTail
  <2>4. SendInLoop(Head(ioq).msg, Tail(ioq))
    BY <1>2 DEF RunSend
  <2> QED BY <2>1, <2>2, <2>3, <2>4, SendCount
<1>3. ASSUME NEW w \in Threads, SendPosts(w)
      PROVE  Count(ioq') > Count(ioq) <=> Len(outBuf) < HighWater /\ Len(outBuf') >= HighWater
  <2>1. call[w] \in CallType /\ call[w].at = "send"
    BY <1>3 DEF SendPosts, TypeOK
  <2>2. call[w].msg \in Msg
    BY <2>1 DEF CallType
  <2>3. SendFunctor(call[w].msg) \in FunctorType /\ SendFunctor(call[w].msg).do = "send"
    BY <2>2 DEF SendFunctor, FunctorType
  <2> QED BY <1>3, <2>3, PlainCount DEF SendPosts
<1>4. \A do \in {"shutdown", "destroyed"} :
        Functor(do) \in FunctorType /\ Functor(do).do # "highWater"
  BY DEF Functor, FunctorType
<1>5. ASSUME NEW w \in Threads, ShutdownPosts(w)
      PROVE  Count(ioq') > Count(ioq) <=> Len(outBuf) < HighWater /\ Len(outBuf') >= HighWater
  BY <1>4, <1>5, PlainCount DEF ShutdownPosts
<1>6. CASE RemoveConnectionInLoop
  BY <1>4, <1>6, PlainCount DEF RemoveConnectionInLoop
<1>7. CASE DestroyServer
  BY <1>4, <1>7, PlainCount DEF DestroyServer
<1>8. CASE ConnectEstablished \/ ConnectDestroyed \/ RunShutdown \/ RunUserFunctor
  <2>1. outBuf' = outBuf /\ ioq # <<>> /\ ioq' = Tail(ioq)
    BY <1>8 DEF ConnectEstablished, ConnectDestroyed, RunShutdown, RunUserFunctor, Runs
  <2> QED BY <2>1, PlainCount
<1>9. CASE OnWrite
  BY <1>9, PlainCount DEF OnWrite
<1>10. CASE Poll \/ OnClose \/ OnRead \/ OnWriteNothing \/ UserReturns \/ UserShutdown
  <2>1. outBuf' = outBuf /\ ioq' = ioq
    BY <1>10 DEF Poll, OnClose, OnRead, OnWriteNothing, UserReturns, UserShutdown
  <2> QED BY <2>1, PlainCount
<1>11. CASE \/ DropConnection \/ \E m \in Msg : DropString(m)
            \/ \E w \in Threads :
                 ShutdownSets(w) \/ ShutdownChecks(w) \/ \E m \in Msg : SendChecks(w, m)
  <2>1. outBuf' = outBuf /\ ioq' = ioq
    BY <1>11 DEF DropConnection, DropString, ShutdownSets, ShutdownChecks, SendChecks
  <2> QED BY <2>1, PlainCount
<1>12. CASE PeerSends \/ \E how \in {"fin", "rst"} : PeerCloses(how)
  <2>1. outBuf' = outBuf /\ ioq' = ioq
    BY <1>12 DEF PeerSends, PeerCloses
  <2> QED BY <2>1, PlainCount
<1>13. CASE LoopEnds
  BY <1>13, PlainCount DEF LoopEnds
<1>14. CASE UNCHANGED vars
  BY <1>14, PlainCount DEF vars
<1> QED BY <1>1, <1>2, <1>3, <1>5, <1>6, <1>7, <1>8, <1>9, <1>10, <1>11, <1>12, <1>13, <1>14
        DEF Next, LoopStep, RunFunctor, User, Callers, Finish

\* The high-water callback is queued exactly in the steps that take
\* outputBuffer_ past highWaterMark_ from below (TcpConnection.cc:267), for
\* any mark, message length, partial writes and interleaving of callers.
THEOREM HighWaterOnRisingEdge == Spec => HighWaterIsRisingEdge
<1> DEFINE Rises == Cardinality(Queued("highWater")') > Cardinality(Queued("highWater"))
                      <=> Len(outBuf) < HighWater /\ Len(outBuf') >= HighWater
<1>1. TypeOK /\ [Next]_vars => [Rises]_vars
  <2>1. Queued("highWater") = Marks(ioq) /\ Queued("highWater")' = Marks(ioq')
    BY DEF Queued, Marks
  <2> QED BY <2>1, MarksStep DEF Count
<1> QED BY <1>1, TypeCorrect, PTL DEF Spec, HighWaterIsRisingEdge

=============================================================================
