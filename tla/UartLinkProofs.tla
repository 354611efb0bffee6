--------------------------- MODULE UartLinkProofs ---------------------------
(***************************************************************************)
(* What a lost byte can do to the parser of the power board, for every     *)
(* size of the ring, any number of messages and any number of losses.      *)
(*                                                                         *)
(* The argument follows the byte the parser gets next, Due, and how many   *)
(* bytes were lost before it.  Outside a message the parser has missed at  *)
(* most two messages for each of them; inside a message the same held at   *)
(* its letter, and the bytes lost since then are still to be spent.        *)
(***************************************************************************)
EXTENDS UartLink, RingProofs

N == RX_RING_BUFFER

AnyByte == [msg : 1 .. MaxMessages + 1, pos : 0 .. Digits]

\* Where a byte is in the stream that the control board sends.
Index(b) == (Digits + 1) * (b.msg - 1) + b.pos

Unparsed == Append(Contents(rx, N), next)
Due == Unparsed[1]

\* Of the bytes in front of Due those were lost that were not read.
LostBefore == lost - (Index(next) - Index(Due) - Pending(rx, N))

-----------------------------------------------------------------------------
(* The account, in numbers: byte r of message m is due, e messages have been *)
(* executed and l bytes were lost before it.                               *)

Position(m, r) == 4 * (m - 1) + r

\* Outside a message: those of which at least the letter is in front of the due
\* byte have been executed, but for two for each byte lost.
Settled(m, r, e, l) == (IF r = 0 THEN m - 1 ELSE m) - e <= l + l

\* Bytes lost since the letter of message d, of which n digits have been read.
Since(m, r, d, n) == Position(m, r) - Position(d, 0) - 1 - n

\* Inside message d: its letter found everything settled, and the bytes lost
\* since then have not been held against anything yet.
Pledged(m, r, d, n, e, l) ==
    /\ Since(m, r, d, n) \in 0 .. l
    /\ LET before == l - Since(m, r, d, n) IN d - 1 - e <= before + before

-----------------------------------------------------------------------------
(* The inductive invariant *)

InOrder ==
    /\ \A k \in 1 .. Len(Unparsed) :
          Index(next) - Index(Unparsed[k]) >= Len(Unparsed) - k
    /\ \A k \in 1 .. Len(Unparsed) - 1 : Index(Unparsed[k]) < Index(Unparsed[k + 1])

Wire ==
    /\ next \in AnyByte
    /\ lost \in 0 .. MaxLost
    /\ rx \in Rings(N, Byte)
    /\ InOrder
    /\ LostBefore >= 0

Outside == Settled(Due.msg, Due.pos, Len(executed), LostBefore)

Inside ==
    /\ parsed_dp.pos = 0
    /\ Pledged(Due.msg, Due.pos, parsed_dp.msg, Len(buff), Len(executed), LostBefore)
    /\ Since(Due.msg, Due.pos, parsed_dp.msg, Len(buff)) = 0 =>
          \A k \in 1 .. Len(buff) : buff[k] = [msg |-> parsed_dp.msg, pos |-> k]

LinkIInv ==
    /\ LinkTypeOK
    /\ Wire
    /\ IF in_msg THEN Inside ELSE Outside
    /\ OneLossNeverMixes

-----------------------------------------------------------------------------
(* The wire *)

LEMMA Positive ==
    N \in Nat \ {0, 1} /\ MaxMessages \in Nat \ {0} /\ MaxLost \in Nat /\ Digits = 3
BY LinkAssumption DEF N, Digits

\* Bytes are in the order of their indices.
LEMMA IndexType ==
    ASSUME NEW b \in AnyByte
    PROVE  /\ Index(b) = 4 * (b.msg - 1) + b.pos
           /\ Index(b) \in Nat /\ b.msg \in Nat \ {0} /\ b.pos \in 0 .. 3
BY Positive DEF AnyByte, Index

LEMMA ByteIsAnyByte == Byte \subseteq AnyByte
BY Positive DEF Byte, AnyByte, Message

LEMMA UnparsedType ==
    ASSUME NEW r \in Rings(N, Byte), NEW x \in AnyByte
    PROVE  LET u == Append(Contents(r, N), x)
           IN  /\ u \in Seq(AnyByte)
               /\ Len(u) = Pending(r, N) + 1 /\ Pending(r, N) \in 0 .. N - 1
               /\ u[Len(u)] = x
               /\ \A k \in 1 .. Pending(r, N) : u[k] = Contents(r, N)[k]
               /\ \A k \in 1 .. Len(u) : u[k] \in AnyByte
               /\ u[1] \in AnyByte
<1>1. /\ Contents(r, N) \in Seq(Byte) /\ Len(Contents(r, N)) = Pending(r, N)
      /\ Pending(r, N) \in 0 .. N - 1
  BY Positive, ContentsType
<1>2. Contents(r, N) \in Seq(AnyByte)
  BY <1>1, ByteIsAnyByte
<1> QED BY <1>1, <1>2, Positive

LEMMA DueType == Wire => Due \in AnyByte /\ LostBefore \in 0 .. lost
<1> SUFFICES ASSUME Wire PROVE Due \in AnyByte /\ LostBefore \in 0 .. lost
  OBVIOUS
<1>1. /\ Due \in AnyByte /\ Len(Unparsed) = Pending(rx, N) + 1
      /\ Pending(rx, N) \in 0 .. N - 1
  BY UnparsedType DEF Wire, Unparsed, Due
<1>2. Index(next) - Index(Due) >= Pending(rx, N)
  BY <1>1, Positive DEF Wire, InOrder, Due
<1>3. Index(next) \in Nat /\ Index(Due) \in Nat /\ lost \in Nat
  BY <1>1, IndexType, Positive DEF Wire
<1> QED BY <1>1, <1>2, <1>3, Positive DEF Wire, LostBefore

LEMMA SentNext ==
    next \in AnyByte /\ Sent =>
        next \in Byte /\ next' \in AnyByte /\ Index(next') = Index(next) + 1
<1> SUFFICES ASSUME next \in AnyByte, Sent
             PROVE  next \in Byte /\ next' \in AnyByte /\ Index(next') = Index(next) + 1
  OBVIOUS
<1>1. next.msg \in 1 .. MaxMessages /\ next.pos \in 0 .. 3
  BY Positive DEF AnyByte, Sent
<1>2. next \in Byte
  BY <1>1, Positive DEF AnyByte, Byte, Message
<1>3. CASE next.pos < Digits
  <2>1. next' = [msg |-> next.msg, pos |-> next.pos + 1]
    BY <1>3 DEF Sent, AnyByte
  <2> QED BY <1>1, <1>2, <1>3, <2>1, Positive DEF AnyByte, Index
<1>4. CASE ~(next.pos < Digits)
  <2>1. next' = [msg |-> next.msg + 1, pos |-> 0]
    BY <1>4 DEF Sent
  <2> QED BY <1>1, <1>2, <1>4, <2>1, Positive DEF AnyByte, Index
<1> QED BY <1>3, <1>4

LEMMA WireReceive ==
    Wire /\ Receive => Wire' /\ Due' = Due /\ LostBefore' = LostBefore
<1> SUFFICES ASSUME Wire, Receive
             PROVE  Wire' /\ Due' = Due /\ LostBefore' = LostBefore
  OBVIOUS
<1>1. /\ next \in Byte /\ next' \in AnyByte /\ Index(next') = Index(next) + 1
      /\ next \in AnyByte /\ rx \in Rings(N, Byte) /\ ~Full(rx, N)
  BY SentNext DEF Wire, Receive, N
<1> DEFINE s == Stored(rx, next)
<1>2. /\ s \in Rings(N, Byte) /\ s.head = rx.head /\ s.tail = rx.tail
      /\ s.buffer[s.head] = next /\ Contents(s, N) = Contents(rx, N)
  BY <1>1, Positive, StoredContents
<1>3. ~Full(s, N) /\ Pending(s, N) = Pending(rx, N)
  BY <1>1, <1>2 DEF Full, Pending
<1>4. /\ rx' \in Rings(N, Byte) /\ Pending(rx', N) = Pending(rx, N) + 1
      /\ Contents(rx', N) = Unparsed
  BY <1>2, <1>3, Positive, AdvancedContents DEF Receive, N, Unparsed
<1>5. Unparsed' = Append(Unparsed, next')
  BY <1>4 DEF Unparsed
<1>6. /\ Unparsed \in Seq(AnyByte) /\ Len(Unparsed) = Pending(rx, N) + 1
      /\ Pending(rx, N) \in Nat /\ Unparsed[Len(Unparsed)] = next
      /\ \A k \in 1 .. Len(Unparsed) : Unparsed[k] \in AnyByte
  BY <1>1, UnparsedType DEF Unparsed
<1>7. /\ Len(Unparsed') = Len(Unparsed) + 1 /\ Len(Unparsed) \in Nat
      /\ \A k \in 1 .. Len(Unparsed) : Unparsed'[k] = Unparsed[k]
      /\ Unparsed'[Len(Unparsed) + 1] = next'
  BY <1>1, <1>5, <1>6
<1>8. Due' = Due
  BY <1>6, <1>7 DEF Due
<1>9. LostBefore' = LostBefore
  <2>1. Index(next) \in Nat /\ Index(next') \in Nat /\ Index(Due) \in Nat /\ lost \in Nat
    BY <1>1, DueType, IndexType, Positive DEF Wire
  <2> QED BY <1>1, <1>4, <1>6, <1>8, <2>1 DEF LostBefore, Receive
<1>10. InOrder'
  <2>1. \A k \in 1 .. Len(Unparsed) : Index(Unparsed[k]) \in Nat
    BY <1>6, IndexType
  <2>2. Index(next) \in Nat /\ Index(next') \in Nat
    BY <1>1, IndexType
  <2>3. ASSUME NEW k \in 1 .. Len(Unparsed')
        PROVE  Index(next') - Index(Unparsed'[k]) >= Len(Unparsed') - k
    <3>1. CASE k = Len(Unparsed) + 1
      BY <1>7, <2>2, <3>1
    <3>2. CASE k \in 1 .. Len(Unparsed)
      <4>1. Index(next) - Index(Unparsed[k]) >= Len(Unparsed) - k
        BY <3>2 DEF Wire, InOrder
      <4> QED BY <1>1, <1>7, <2>1, <2>2, <3>2, <4>1
    <3> QED BY <1>7, <3>1, <3>2
  <2>4. ASSUME NEW k \in 1 .. Len(Unparsed') - 1
        PROVE  Index(Unparsed'[k]) < Index(Unparsed'[k + 1])
    <3>1. CASE k = Len(Unparsed)
      BY <1>1, <1>6, <1>7, <2>2, <3>1
    <3>2. CASE k \in 1 .. Len(Unparsed) - 1
      <4>1. Index(Unparsed[k]) < Index(Unparsed[k + 1])
        BY <3>2 DEF Wire, InOrder
      <4>2. k \in 1 .. Len(Unparsed) /\ k + 1 \in 1 .. Len(Unparsed)
        BY <1>7, <3>2
      <4> QED BY <1>7, <4>1, <4>2
    <3> QED BY <1>7, <3>1, <3>2
  <2> QED BY <2>3, <2>4 DEF InOrder
<1> QED BY <1>1, <1>4, <1>8, <1>9, <1>10 DEF Wire, Receive

\* A byte lost in front of an empty ring is the one the parser was to get next.
LEMMA WireLose ==
    Wire /\ Lose =>
        /\ Wire'
        /\ \/ Due' = Due /\ LostBefore' = LostBefore
           \/ Index(Due') = Index(Due) + 1 /\ LostBefore' = LostBefore + 1
<1> SUFFICES ASSUME Wire, Lose
             PROVE  /\ Wire'
                    /\ \/ Due' = Due /\ LostBefore' = LostBefore
                       \/ Index(Due') = Index(Due) + 1 /\ LostBefore' = LostBefore + 1
  OBVIOUS
<1>1. /\ next' \in AnyByte /\ Index(next') = Index(next) + 1
      /\ next \in AnyByte /\ rx \in Rings(N, Byte) /\ rx' = rx /\ lost' = lost + 1
      /\ lost \in Nat /\ lost' \in 0 .. MaxLost
  BY SentNext, Positive DEF Wire, Lose
<1> DEFINE C == Contents(rx, N)
           P == Pending(rx, N)
<1>2. Unparsed = Append(C, next) /\ Unparsed' = Append(C, next')
  BY <1>1 DEF Unparsed
<1>3. /\ Len(Unparsed) = P + 1 /\ Len(Unparsed') = P + 1 /\ P \in Nat
      /\ Unparsed[P + 1] = next /\ Unparsed'[P + 1] = next'
      /\ \A k \in 1 .. P : Unparsed[k] = C[k] /\ Unparsed'[k] = C[k]
      /\ \A k \in 1 .. P + 1 : Unparsed[k] \in AnyByte
  BY <1>1, <1>2, UnparsedType
<1>4. Index(next) \in Nat /\ Index(next') \in Nat
  BY <1>1, IndexType
<1>5. \A k \in 1 .. P : Index(Unparsed[k]) \in Nat
  BY <1>3, IndexType
<1>6. \/ Due' = Due /\ LostBefore' = LostBefore
      \/ Index(Due') = Index(Due) + 1 /\ LostBefore' = LostBefore + 1
  <2>1. CASE P = 0
    BY <1>1, <1>3, <1>4, <2>1 DEF Due, LostBefore
  <2>2. CASE P # 0
    <3>1. 1 \in 1 .. P
      BY <1>3, <2>2
    <3>2. Due' = Due /\ Index(Due) \in Nat
      BY <1>3, <1>5, <3>1 DEF Due
    <3> QED BY <1>1, <1>3, <1>4, <3>2 DEF LostBefore
  <2> QED BY <2>1, <2>2
<1>7. InOrder'
  <2>1. ASSUME NEW k \in 1 .. P + 1
        PROVE  Index(next') - Index(Unparsed'[k]) >= P + 1 - k
    <3>1. CASE k = P + 1
      BY <1>3, <1>4, <3>1
    <3>2. CASE k \in 1 .. P
      <4>1. Index(next) - Index(Unparsed[k]) >= P + 1 - k
        BY <1>3, <3>2 DEF Wire, InOrder
      <4> QED BY <1>1, <1>3, <1>4, <1>5, <3>2, <4>1
    <3> QED BY <1>3, <3>1, <3>2
  <2>2. ASSUME NEW k \in 1 .. P
        PROVE  Index(Unparsed'[k]) < Index(Unparsed'[k + 1])
    <3>1. Index(Unparsed[k]) < Index(Unparsed[k + 1])
      BY <1>3 DEF Wire, InOrder
    <3>2. CASE k = P
      BY <1>1, <1>3, <1>4, <1>5, <3>1, <3>2
    <3>3. CASE k + 1 \in 1 .. P
      BY <1>3, <3>1, <3>3
    <3> QED BY <1>3, <3>2, <3>3
  <2> QED BY <1>3, <2>1, <2>2 DEF InOrder
<1>8. LostBefore' >= 0
  <2>1. LostBefore \in Nat
    BY DueType, Positive, <1>1
  <2> QED BY <1>6, <2>1 DEF Wire
<1> QED BY <1>1, <1>6, <1>7, <1>8 DEF Wire

\* Between two bytes that are read those with an index in between were lost.
LEMMA WireRead ==
    ASSUME NEW c, Wire, Read(c)
    PROVE  /\ Wire' /\ c = Due /\ Due' \in AnyByte
           /\ Index(Due') > Index(Due)
           /\ LostBefore' = LostBefore + (Index(Due') - Index(Due) - 1)
<1>1. /\ next \in AnyByte /\ rx \in Rings(N, Byte)
      /\ next' = next /\ lost' = lost /\ lost \in Nat
      /\ rx' = Released(rx, N) /\ c = rx.buffer[rx.tail]
  BY Positive DEF Wire, Read, N, Oldest
<1>2. ~Empty(rx)
  BY <1>1, Positive DEF Read, Empty, serial_available, Rings, N
<1> DEFINE C == Contents(rx, N)
           P == Pending(rx, N)
<1>3. /\ rx' \in Rings(N, Byte) /\ Pending(rx', N) = P - 1
      /\ C # <<>> /\ Head(C) = c /\ Contents(rx', N) = Tail(C)
  BY <1>1, <1>2, Positive, ReleasedContents
<1>4. C \in Seq(Byte) /\ Len(C) = P /\ P \in Nat
  BY <1>1, Positive, ContentsType
<1>5. /\ Len(Unparsed) = P + 1 /\ P \in Nat \ {0}
      /\ \A k \in 1 .. P : Unparsed[k] = C[k]
      /\ \A k \in 1 .. P + 1 : Unparsed[k] \in AnyByte
      /\ Unparsed[P + 1] = next
  BY <1>1, <1>3, <1>4, UnparsedType DEF Unparsed
<1>6. Unparsed' = Append(Tail(C), next)
  BY <1>1, <1>3 DEF Unparsed
<1>7. Len(Unparsed') = P /\ \A k \in 1 .. P : Unparsed'[k] = Unparsed[k + 1]
  BY <1>1, <1>4, <1>5, <1>6
<1>8. c = Due /\ Due' = Unparsed[2]
  BY <1>3, <1>4, <1>5, <1>7 DEF Due
<1>9. /\ \A k \in 1 .. P + 1 : Index(Unparsed[k]) \in Nat
      /\ Index(next) \in Nat /\ Index(Due) \in Nat /\ Index(Due') \in Nat
      /\ Due' \in AnyByte
  <2>1. 1 \in 1 .. P + 1 /\ 2 \in 1 .. P + 1
    BY <1>5
  <2>2. Due \in AnyByte /\ Due' \in AnyByte
    BY <1>5, <1>8, <2>1 DEF Due
  <2> QED BY <1>1, <1>5, <2>2, IndexType
<1>10. Index(Due') > Index(Due)
  BY <1>5, <1>8, <1>9 DEF Wire, InOrder, Due
<1>11. LostBefore' = LostBefore + (Index(Due') - Index(Due) - 1)
  BY <1>1, <1>3, <1>5, <1>9 DEF LostBefore
<1>12. InOrder'
  <2>1. ASSUME NEW k \in 1 .. P
        PROVE  Index(next') - Index(Unparsed'[k]) >= P - k
    <3>1. k + 1 \in 1 .. P + 1
      BY <1>5
    <3>2. Index(next) - Index(Unparsed[k + 1]) >= (P + 1) - (k + 1)
      BY <1>5, <3>1 DEF Wire, InOrder
    <3> QED BY <1>1, <1>5, <1>7, <3>2
  <2>2. ASSUME NEW k \in 1 .. P - 1
        PROVE  Index(Unparsed'[k]) < Index(Unparsed'[k + 1])
    <3>1. k + 1 \in 1 .. P /\ k \in 1 .. P
      BY <1>5
    <3>2. Index(Unparsed[k + 1]) < Index(Unparsed[(k + 1) + 1])
      BY <1>5, <3>1 DEF Wire, InOrder
    <3> QED BY <1>7, <3>1, <3>2
  <2> QED BY <1>7, <2>1, <2>2 DEF InOrder
<1>13. LostBefore' >= 0
  <2>1. LostBefore \in Nat
    BY DueType, Positive, <1>1
  <2> QED BY <1>9, <1>10, <1>11, <2>1
<1> QED BY <1>1, <1>3, <1>8, <1>9, <1>10, <1>11, <1>12, <1>13 DEF Wire

-----------------------------------------------------------------------------
(* The parser *)

LEMMA LinkStarts == LinkInit => LinkIInv
<1> SUFFICES ASSUME LinkInit PROVE LinkIInv
  OBVIOUS
<1>1. First \in Byte /\ First \in AnyByte /\ First.msg = 1 /\ First.pos = 0
  BY Positive DEF First, Byte, AnyByte, Message
<1>2. rx \in Rings(N, Byte) /\ Empty(rx) /\ next = First /\ lost = 0
  BY <1>1, Positive DEF LinkInit, Rings, N, Empty
<1>3. Contents(rx, N) = <<>> /\ Pending(rx, N) = 0
  BY <1>2, Positive, EmptyContents, ContentsType
<1>4. Unparsed = <<First>> /\ Due = First
  BY <1>2, <1>3 DEF Unparsed, Due
<1>5. Index(First) = 0
  BY <1>1, Positive DEF Index
<1>6. LostBefore = 0
  BY <1>2, <1>3, <1>4, <1>5 DEF LostBefore
<1>7. InOrder
  BY <1>2, <1>4, <1>5 DEF InOrder
<1>8. Wire
  BY <1>1, <1>2, <1>6, <1>7, Positive DEF Wire
<1>9. LinkTypeOK
  BY <1>1, <1>2, Positive DEF LinkInit, LinkTypeOK, AnyByte, N
<1>10. Outside /\ ~in_msg /\ OneLossNeverMixes
  BY <1>1, <1>4, <1>6 DEF LinkInit, Outside, Settled, OneLossNeverMixes
<1> QED BY <1>8, <1>9, <1>10 DEF LinkIInv

-----------------------------------------------------------------------------
(* The account balances: g bytes are lost behind the one that is read      *)

LEMMA ReadOutside ==
    ASSUME NEW m \in Nat \ {0}, NEW r \in 0 .. 3, NEW mm \in Nat \ {0}, NEW rr \in 0 .. 3,
           NEW e \in Nat, NEW l \in Nat, NEW g \in Nat,
           Position(mm, rr) = Position(m, r) + 1 + g, Settled(m, r, e, l)
    PROVE  /\ r # 0 => Settled(mm, rr, e, l + g)
           /\ r = 0 => Pledged(mm, rr, m, 0, e, l + g) /\ Since(mm, rr, m, 0) = g
BY DEF Position, Settled, Pledged, Since

LEMMA ReadLetter ==
    ASSUME NEW m \in Nat \ {0}, NEW r \in 0 .. 3, NEW mm \in Nat \ {0}, NEW rr \in 0 .. 3,
           NEW e \in Nat, NEW l \in Nat, NEW g \in Nat, NEW d \in Nat \ {0}, NEW n \in 0 .. 2,
           Position(mm, rr) = Position(m, r) + 1 + g, Pledged(m, r, d, n, e, l), r = 0
    PROVE  Settled(mm, rr, e, l + g)
BY DEF Position, Settled, Pledged, Since

LEMMA ReadLastDigit ==
    ASSUME NEW m \in Nat \ {0}, NEW r \in 0 .. 3, NEW mm \in Nat \ {0}, NEW rr \in 0 .. 3,
           NEW e \in Nat, NEW l \in Nat, NEW g \in Nat, NEW d \in Nat \ {0}, NEW n \in 0 .. 2,
           Position(mm, rr) = Position(m, r) + 1 + g, Pledged(m, r, d, n, e, l), r # 0, n = 2
    PROVE  Settled(mm, rr, e + 1, l + g)
BY DEF Position, Settled, Pledged, Since

LEMMA ReadDigit ==
    ASSUME NEW m \in Nat \ {0}, NEW r \in 0 .. 3, NEW mm \in Nat \ {0}, NEW rr \in 0 .. 3,
           NEW e \in Nat, NEW l \in Nat, NEW g \in Nat, NEW d \in Nat \ {0}, NEW n \in 0 .. 2,
           Position(mm, rr) = Position(m, r) + 1 + g, Pledged(m, r, d, n, e, l)
    PROVE  Pledged(mm, rr, d, n + 1, e, l + g)
BY DEF Position, Pledged, Since

\* While nothing was lost since the letter, the digits are those that follow it.
LEMMA InStep ==
    ASSUME NEW m \in Nat \ {0}, NEW r \in 0 .. 3, NEW d \in Nat \ {0}, NEW n \in 0 .. 2,
           Since(m, r, d, n) = 0
    PROVE  m = d /\ r = n + 1
BY DEF Position, Since

\* A third digit that does not belong to the letter costs at least four bytes.
LEMMA OutOfStep ==
    ASSUME NEW m \in Nat \ {0}, NEW r \in 1 .. 3, NEW d \in Nat \ {0},
           Since(m, r, d, 2) \in 0 .. 1
    PROVE  Since(m, r, d, 2) = 0
BY DEF Position, Since

\* The parser is inside a message and the control board is about to begin one.
LEMMA LetterDue ==
    ASSUME NEW m \in Nat \ {0}, NEW e \in Nat, NEW l \in Nat, NEW d \in Nat \ {0},
           NEW n \in 0 .. 2, Pledged(m, 0, d, n, e, l)
    PROVE  (m - 1) - e <= l + l
BY DEF Position, Pledged, Since

LEMMA PositionType ==
    ASSUME NEW m \in Nat \ {0}, NEW r \in 0 .. 3
    PROVE  Position(m, r) \in Int /\ Position(m, 0) \in Int
BY DEF Position

\* The byte that is due is lost.
LEMMA LostDue ==
    ASSUME NEW m \in Nat \ {0}, NEW r \in 0 .. 3, NEW mm \in Nat \ {0}, NEW rr \in 0 .. 3,
           NEW e \in Nat, NEW l \in Nat, NEW d \in Nat \ {0}, NEW n \in 0 .. 2,
           Position(mm, rr) = Position(m, r) + 1
    PROVE  /\ Settled(m, r, e, l) => Settled(mm, rr, e, l + 1)
           /\ Pledged(m, r, d, n, e, l) =>
                 Pledged(mm, rr, d, n, e, l + 1) /\ Since(mm, rr, d, n) # 0
BY DEF Position, Settled, Pledged, Since

-----------------------------------------------------------------------------
(* Every step keeps the account *)

DueNumbers ==
    /\ Due \in AnyByte /\ Due.msg \in Nat \ {0} /\ Due.pos \in 0 .. 3
    /\ Index(Due) = Position(Due.msg, Due.pos)
    /\ LostBefore \in Nat /\ LostBefore <= lost

LEMMA DueNumbersHold == Wire => DueNumbers
<1> SUFFICES ASSUME Wire PROVE DueNumbers
  OBVIOUS
<1>1. Due \in AnyByte /\ LostBefore \in 0 .. lost /\ lost \in Nat
  BY DueType, Positive DEF Wire
<1> QED BY <1>1, IndexType DEF DueNumbers, Position

ParserNumbers ==
    /\ parsed_dp.msg \in Nat \ {0}
    /\ buff \in Seq(Byte) /\ Len(buff) \in 0 .. 2
    /\ Len(executed) \in Nat

LEMMA ParserNumbersHold == LinkTypeOK => ParserNumbers
<1> SUFFICES ASSUME LinkTypeOK PROVE ParserNumbers
  OBVIOUS
<1>1. parsed_dp \in AnyByte
  BY ByteIsAnyByte DEF LinkTypeOK
<1>2. buff \in Seq(Byte) /\ Len(buff) < 3 /\ executed \in Seq([dp : Byte, value : Seq(Byte)])
  BY Positive DEF LinkTypeOK
<1>3. Len(executed) \in Nat
  BY <1>2, LenProperties
<1>4. Len(buff) \in 0 .. 2
  <2>1. PICK n \in Nat : n = Len(buff)
    BY <1>2, LenProperties
  <2>2. n < 3
    BY <1>2, <2>1
  <2> QED BY <2>1, <2>2
<1> QED BY <1>1, <1>2, <1>3, <1>4, IndexType DEF ParserNumbers

\* How far the due byte moves when one is read, in numbers.
LEMMA ReadMoves ==
    ASSUME NEW c, LinkTypeOK, Wire, Read(c)
    PROVE  /\ Wire' /\ c = Due /\ lost' = lost
           /\ DueNumbers /\ DueNumbers' /\ ParserNumbers
           /\ \E g \in Nat :
                 /\ Position(Due'.msg, Due'.pos) = Position(Due.msg, Due.pos) + 1 + g
                 /\ LostBefore' = LostBefore + g
<1>1. /\ Wire' /\ c = Due /\ Index(Due') > Index(Due)
      /\ LostBefore' = LostBefore + (Index(Due') - Index(Due) - 1)
  BY WireRead
<1>2. Wire' => DueNumbers'
  BY DueNumbersHold, PTL
<1>3. DueNumbers /\ DueNumbers' /\ ParserNumbers
  BY <1>1, <1>2, DueNumbersHold, ParserNumbersHold
<1>4. /\ Index(Due) \in Nat /\ Index(Due') \in Nat
      /\ Index(Due) = Position(Due.msg, Due.pos)
      /\ Index(Due') = Position(Due'.msg, Due'.pos)
  <2>1. Due \in AnyByte /\ Due' \in AnyByte
    BY <1>3 DEF DueNumbers
  <2> QED BY <1>3, <2>1, IndexType DEF DueNumbers
<1> DEFINE g == Index(Due') - Index(Due) - 1
<1>5. /\ g \in Nat /\ LostBefore' = LostBefore + g
      /\ Position(Due'.msg, Due'.pos) = Position(Due.msg, Due.pos) + 1 + g
  BY <1>1, <1>4
<1>6. lost' = lost
  BY DEF Read
<1> QED BY <1>1, <1>3, <1>5, <1>6

\* A byte on the wire: arriving it changes nothing, lost it costs.
LEMMA WireAccounted ==
    ASSUME LinkIInv, Receive \/ Lose
    PROVE  Wire' /\ (IF in_msg' THEN Inside' ELSE Outside') /\ OneLossNeverMixes'
<1>1. /\ Wire'
      /\ \/ Due' = Due /\ LostBefore' = LostBefore
         \/ Index(Due') = Index(Due) + 1 /\ LostBefore' = LostBefore + 1
  BY WireReceive, WireLose DEF LinkIInv
<1>2. /\ in_msg' = in_msg /\ parsed_dp' = parsed_dp /\ buff' = buff
      /\ executed' = executed
  BY DEF Receive, Lose
<1>3. Wire' => DueNumbers'
  BY DueNumbersHold, PTL
<1>4. DueNumbers /\ DueNumbers' /\ ParserNumbers
  BY <1>1, <1>3, DueNumbersHold, ParserNumbersHold DEF LinkIInv
<1>5. OneLossNeverMixes'
  <2>1. lost \in Nat /\ (lost' = lost \/ lost' = lost + 1)
    BY Positive DEF LinkIInv, Wire, Receive, Lose
  <2> QED BY <1>2, <2>1 DEF LinkIInv, OneLossNeverMixes
<1>6. CASE Due' = Due /\ LostBefore' = LostBefore
  BY <1>1, <1>2, <1>5, <1>6 DEF LinkIInv, Inside, Outside
<1>7. CASE Index(Due') = Index(Due) + 1 /\ LostBefore' = LostBefore + 1
  <2>1. Position(Due'.msg, Due'.pos) = Position(Due.msg, Due.pos) + 1
    BY <1>4, <1>7 DEF DueNumbers
  <2>2. /\ Due.msg \in Nat \ {0} /\ Due.pos \in 0 .. 3
        /\ Due'.msg \in Nat \ {0} /\ Due'.pos \in 0 .. 3
        /\ LostBefore \in Nat /\ Len(executed) \in Nat
        /\ parsed_dp.msg \in Nat \ {0} /\ Len(buff) \in 0 .. 2
    BY <1>4 DEF DueNumbers, ParserNumbers
  <2>3. CASE in_msg
    <3>1. Pledged(Due.msg, Due.pos, parsed_dp.msg, Len(buff), Len(executed), LostBefore)
      BY <2>3 DEF LinkIInv, Inside
    <3>2. /\ Pledged(Due'.msg, Due'.pos, parsed_dp.msg, Len(buff), Len(executed), LostBefore + 1)
          /\ Since(Due'.msg, Due'.pos, parsed_dp.msg, Len(buff)) # 0
      BY <2>1, <2>2, <3>1, LostDue
    <3> QED BY <1>1, <1>2, <1>5, <1>7, <2>3, <3>2 DEF LinkIInv, Inside
  <2>4. CASE ~in_msg
    <3>1. Settled(Due.msg, Due.pos, Len(executed), LostBefore)
      BY <2>4 DEF LinkIInv, Outside
    <3>2. Settled(Due'.msg, Due'.pos, Len(executed), LostBefore + 1)
      BY <2>1, <2>2, <3>1, LostDue
    <3> QED BY <1>1, <1>2, <1>5, <1>7, <2>4, <3>2 DEF Outside
  <2> QED BY <2>3, <2>4
<1> QED BY <1>1, <1>6, <1>7

\* Outside a message a digit is skipped and a letter begins one.
LEMMA StartAccounted ==
    ASSUME NEW c, LinkIInv, StartMessage(c)
    PROVE  Wire' /\ (IF in_msg' THEN Inside' ELSE Outside') /\ OneLossNeverMixes'
<1>1. /\ Wire' /\ c = Due /\ lost' = lost
      /\ DueNumbers /\ DueNumbers' /\ ParserNumbers
      /\ \E g \in Nat :
            /\ Position(Due'.msg, Due'.pos) = Position(Due.msg, Due.pos) + 1 + g
            /\ LostBefore' = LostBefore + g
  BY ReadMoves DEF StartMessage, LinkIInv
<1>2. /\ ~in_msg /\ buff = <<>> /\ buff' = buff /\ executed' = executed
      /\ Settled(Due.msg, Due.pos, Len(executed), LostBefore)
  BY DEF StartMessage, LinkIInv, LinkTypeOK, Outside
<1>3. OneLossNeverMixes'
  BY <1>1, <1>2 DEF LinkIInv, OneLossNeverMixes
<1>4. PICK g \in Nat :
            /\ Position(Due'.msg, Due'.pos) = Position(Due.msg, Due.pos) + 1 + g
            /\ LostBefore' = LostBefore + g
  BY <1>1
<1>5. /\ Due.msg \in Nat \ {0} /\ Due.pos \in 0 .. 3
      /\ Due'.msg \in Nat \ {0} /\ Due'.pos \in 0 .. 3
      /\ LostBefore \in Nat /\ Len(executed) \in Nat
  BY <1>1 DEF DueNumbers, ParserNumbers
<1>6. /\ Due.pos # 0 => Settled(Due'.msg, Due'.pos, Len(executed), LostBefore + g)
      /\ Due.pos = 0 =>
            Pledged(Due'.msg, Due'.pos, Due.msg, 0, Len(executed), LostBefore + g)
  BY <1>2, <1>4, <1>5, ReadOutside
<1>7. CASE Due.pos # 0
  <2>1. ~in_msg'
    BY <1>1, <1>2, <1>7 DEF StartMessage, isDigit
  <2> QED BY <1>1, <1>2, <1>3, <1>4, <1>6, <1>7, <2>1 DEF Outside
<1>8. CASE Due.pos = 0
  <2>1. in_msg' /\ parsed_dp' = Due
    BY <1>1, <1>8 DEF StartMessage, isDigit
  <2>2. Len(buff') = 0
    BY <1>2
  <2>3. Inside'
    BY <1>2, <1>4, <1>6, <1>8, <2>1, <2>2 DEF Inside
  <2> QED BY <1>1, <1>3, <2>1, <2>3
<1> QED BY <1>7, <1>8

\* A letter inside a message ends it: at least one of its digits was lost.
LEMMA MalformedAccounted ==
    ASSUME NEW c, LinkIInv, Malformed(c)
    PROVE  Wire' /\ (IF in_msg' THEN Inside' ELSE Outside') /\ OneLossNeverMixes'
<1>1. /\ Wire' /\ c = Due /\ lost' = lost
      /\ DueNumbers /\ DueNumbers' /\ ParserNumbers
      /\ \E g \in Nat :
            /\ Position(Due'.msg, Due'.pos) = Position(Due.msg, Due.pos) + 1 + g
            /\ LostBefore' = LostBefore + g
  BY ReadMoves DEF Malformed, LinkIInv
<1>2. /\ in_msg /\ ~in_msg' /\ executed' = executed /\ Due.pos = 0
      /\ Pledged(Due.msg, Due.pos, parsed_dp.msg, Len(buff), Len(executed), LostBefore)
  BY <1>1 DEF Malformed, LinkIInv, Inside, isDigit
<1>3. OneLossNeverMixes'
  BY <1>1, <1>2 DEF LinkIInv, OneLossNeverMixes
<1>4. PICK g \in Nat :
            /\ Position(Due'.msg, Due'.pos) = Position(Due.msg, Due.pos) + 1 + g
            /\ LostBefore' = LostBefore + g
  BY <1>1
<1>5. /\ Due.msg \in Nat \ {0} /\ Due.pos \in 0 .. 3
      /\ Due'.msg \in Nat \ {0} /\ Due'.pos \in 0 .. 3
      /\ LostBefore \in Nat /\ Len(executed) \in Nat
      /\ parsed_dp.msg \in Nat \ {0} /\ Len(buff) \in 0 .. 2
  BY <1>1 DEF DueNumbers, ParserNumbers
<1>6. Settled(Due'.msg, Due'.pos, Len(executed), LostBefore + g)
  BY <1>2, <1>4, <1>5, ReadLetter
<1> QED BY <1>1, <1>2, <1>3, <1>4, <1>6 DEF Outside

\* A digit is collected; the third one completes the message.
LEMMA DigitAccounted ==
    ASSUME NEW c, LinkIInv, CollectDigit(c)
    PROVE  Wire' /\ (IF in_msg' THEN Inside' ELSE Outside') /\ OneLossNeverMixes'
<1> DEFINE digits == Append(buff, c)
<1>1. /\ Wire' /\ c = Due /\ lost' = lost
      /\ DueNumbers /\ DueNumbers' /\ ParserNumbers
      /\ \E g \in Nat :
            /\ Position(Due'.msg, Due'.pos) = Position(Due.msg, Due.pos) + 1 + g
            /\ LostBefore' = LostBefore + g
  BY ReadMoves DEF CollectDigit, LinkIInv
<1>2. PICK g \in Nat :
            /\ Position(Due'.msg, Due'.pos) = Position(Due.msg, Due.pos) + 1 + g
            /\ LostBefore' = LostBefore + g
  BY <1>1
<1>3. PICK n \in 0 .. 2 : n = Len(buff)
  BY <1>1 DEF ParserNumbers
<1>4. /\ in_msg /\ parsed_dp' = parsed_dp /\ Due.pos # 0 /\ parsed_dp.pos = 0
      /\ Pledged(Due.msg, Due.pos, parsed_dp.msg, n, Len(executed), LostBefore)
      /\ Since(Due.msg, Due.pos, parsed_dp.msg, n) = 0 =>
            \A k \in 1 .. n : buff[k] = [msg |-> parsed_dp.msg, pos |-> k]
  BY <1>1, <1>3 DEF CollectDigit, LinkIInv, Inside, isDigit
<1>5. PICK s \in 0 .. LostBefore : s = Since(Due.msg, Due.pos, parsed_dp.msg, n)
  BY <1>4 DEF Pledged
<1>6. /\ Due.msg \in Nat \ {0} /\ Due.pos \in 0 .. 3
      /\ Due'.msg \in Nat \ {0} /\ Due'.pos \in 0 .. 3
      /\ LostBefore \in Nat /\ Len(executed) \in Nat
      /\ parsed_dp.msg \in Nat \ {0}
  BY <1>1 DEF DueNumbers, ParserNumbers
<1>7. n = 2 => Settled(Due'.msg, Due'.pos, Len(executed) + 1, LostBefore + g)
  BY <1>2, <1>4, <1>6, ReadLastDigit
<1>8. Pledged(Due'.msg, Due'.pos, parsed_dp.msg, n + 1, Len(executed), LostBefore + g)
  BY <1>2, <1>4, <1>6, ReadDigit
<1>9. s = 0 => Due.msg = parsed_dp.msg /\ Due.pos = n + 1
  <2> SUFFICES ASSUME s = 0 PROVE Due.msg = parsed_dp.msg /\ Due.pos = n + 1
    OBVIOUS
  <2>1. Since(Due.msg, Due.pos, parsed_dp.msg, n) = 0
    BY <1>5
  <2> QED BY <1>6, <2>1, InStep
<1>10. n = 2 /\ s \in 0 .. 1 => s = 0
  <2> SUFFICES ASSUME n = 2, s \in 0 .. 1 PROVE s = 0
    OBVIOUS
  <2>1. Since(Due.msg, Due.pos, parsed_dp.msg, 2) = s /\ Due.pos \in 1 .. 3
    BY <1>4, <1>5, <1>6
  <2>2. Since(Due.msg, Due.pos, parsed_dp.msg, 2) \in 0 .. 1
    BY <2>1
  <2> QED BY <1>6, <2>1, <2>2, OutOfStep
<1>11. Since(Due'.msg, Due'.pos, parsed_dp.msg, n + 1) = s + g
  <2>1. /\ Position(Due.msg, Due.pos) \in Int /\ Position(Due'.msg, Due'.pos) \in Int
        /\ Position(parsed_dp.msg, 0) \in Int
    <3>1. 0 \in 0 .. 3
      OBVIOUS
    <3> QED BY <1>6, <3>1, PositionType
  <2>2. s = Position(Due.msg, Due.pos) - Position(parsed_dp.msg, 0) - 1 - n
    BY <1>5 DEF Since
  <2>3. Since(Due'.msg, Due'.pos, parsed_dp.msg, n + 1)
           = Position(Due'.msg, Due'.pos) - Position(parsed_dp.msg, 0) - 1 - (n + 1)
    BY DEF Since
  <2> QED BY <1>2, <2>1, <2>2, <2>3
<1>12. /\ Len(digits) = n + 1 /\ digits[n + 1] = Due
       /\ \A k \in 1 .. n : digits[k] = buff[k]
  BY <1>1, <1>3 DEF ParserNumbers
<1>13. s = 0 => \A k \in 1 .. n + 1 : digits[k] = [msg |-> parsed_dp.msg, pos |-> k]
  <2> SUFFICES ASSUME s = 0, NEW k \in 1 .. n + 1
               PROVE  digits[k] = [msg |-> parsed_dp.msg, pos |-> k]
    OBVIOUS
  <2>1. CASE k \in 1 .. n
    BY <1>4, <1>5, <1>12, <2>1
  <2>2. CASE ~(k \in 1 .. n)
    <3>0. k = n + 1
      BY <2>2
    <3>1. Due = [msg |-> Due.msg, pos |-> Due.pos]
      BY <1>1 DEF DueNumbers, AnyByte
    <3>2. Due.msg = parsed_dp.msg /\ Due.pos = k
      BY <1>9, <3>0
    <3>3. digits[k] = Due
      BY <1>12, <3>0
    <3> QED BY <3>1, <3>2, <3>3
  <2> QED BY <2>1, <2>2
<1>14. CASE n < 2
  <2>1. ~(Len(digits) >= BuffSize) /\ ~Complete(digits)
    BY <1>12, <1>14, Positive DEF Complete, BuffSize
  <2>2. in_msg' /\ buff' = digits /\ executed' = executed
    BY <2>1 DEF CollectDigit
  <2>3. Len(buff') = n + 1
    BY <1>12, <2>2
  <2>4. OneLossNeverMixes'
    BY <1>1, <2>2 DEF LinkIInv, OneLossNeverMixes
  <2>5. s + g = 0 => s = 0
    <3>1. s \in Nat
      BY <1>5, <1>6
    <3> QED BY <3>1
  <2>6. Inside'
    <3>1. \A k \in 1 .. n + 1 : s + g = 0 => buff'[k] = [msg |-> parsed_dp.msg, pos |-> k]
      BY <1>13, <2>2, <2>5
    <3> QED BY <1>2, <1>4, <1>8, <1>11, <2>2, <2>3, <3>1 DEF Inside
  <2> QED BY <1>1, <2>2, <2>4, <2>6
<1>15. CASE n = 2
  <2> DEFINE call == [dp |-> parsed_dp, value |-> digits]
  <2>1. Len(digits) < BuffSize /\ Complete(digits)
    BY <1>12, <1>15, Positive DEF Complete, BuffSize
  <2>2. ~in_msg' /\ executed' = Append(executed, call)
    BY <2>1 DEF CollectDigit
  <2>3. executed \in Seq([dp : Byte, value : Seq(Byte)])
    BY DEF LinkIInv, LinkTypeOK
  <2>4. /\ Len(executed') = Len(executed) + 1
        /\ executed'[Len(executed) + 1] = call
        /\ \A i \in 1 .. Len(executed) : executed'[i] = executed[i]
    BY <2>2, <2>3
  <2>5. Outside'
    BY <1>2, <1>7, <1>15, <2>4 DEF Outside
  <2>6. ASSUME lost <= 1 PROVE IsWhole(call)
    <3>1. s = 0
      <4>1. lost \in Nat /\ LostBefore \in Nat /\ LostBefore <= lost
        BY <1>1, Positive DEF LinkIInv, Wire, DueNumbers
      <4>2. s \in 0 .. 1
        <5>1. s \in Nat /\ s <= LostBefore
          BY <1>5, <4>1
        <5>2. LostBefore <= 1
          BY <2>6, <4>1
        <5> QED BY <4>1, <5>1, <5>2
      <4> QED BY <1>10, <1>15, <4>2
    <3>2. \A k \in 1 .. 3 : digits[k] = [msg |-> parsed_dp.msg, pos |-> k]
      <4>1. n + 1 = 3
        BY <1>15
      <4>2. \A k \in 1 .. n + 1 : digits[k] = [msg |-> parsed_dp.msg, pos |-> k]
        BY <1>13, <3>1
      <4> QED BY <4>1, <4>2
    <3>3. digits \in Seq(AnyByte) /\ Len(digits) = 3
      <4>1. buff \in Seq(AnyByte) /\ c \in AnyByte
        BY <1>1, ByteIsAnyByte DEF ParserNumbers, DueNumbers
      <4> QED BY <1>12, <1>15, <4>1
    <3>4. digits = [k \in 1 .. 3 |-> digits[k]]
      <4>1. digits \in [1 .. 3 -> AnyByte]
        BY <3>3, LenProperties
      <4> QED BY <4>1
    <3>5. digits = [k \in 1 .. 3 |-> [msg |-> parsed_dp.msg, pos |-> k]]
      BY <3>2, <3>4
    <3> QED BY <3>5, Positive DEF IsWhole
  <2>7. OneLossNeverMixes'
    <3> SUFFICES ASSUME lost <= 1, NEW i \in 1 .. Len(executed')
                 PROVE  IsWhole(executed'[i])
      BY <1>1 DEF OneLossNeverMixes
    <3>1. CASE i \in 1 .. Len(executed)
      BY <2>4, <3>1 DEF LinkIInv, OneLossNeverMixes
    <3>2. CASE i = Len(executed) + 1
      BY <2>4, <2>6, <3>2
    <3> QED BY <2>3, <2>4, <3>1, <3>2
  <2> QED BY <1>1, <2>2, <2>5, <2>7
<1> QED BY <1>14, <1>15

\* What uart_loop does between the bytes touches none of this.
LEMMA PassAccounted ==
    ASSUME LinkIInv, LoopEnd \/ NextPass \/ UNCHANGED linkVars
    PROVE  Wire' /\ (IF in_msg' THEN Inside' ELSE Outside') /\ OneLossNeverMixes'
<1>1. /\ next' = next /\ lost' = lost /\ rx' = rx /\ in_msg' = in_msg
      /\ parsed_dp' = parsed_dp /\ buff' = buff /\ executed' = executed
  BY DEF LoopEnd, NextPass, linkVars
<1>2. Unparsed' = Unparsed
  BY <1>1 DEF Unparsed
<1>3. Due' = Due /\ LostBefore' = LostBefore
  BY <1>1, <1>2 DEF Due, LostBefore
<1>4. Wire'
  BY <1>1, <1>2, <1>3 DEF LinkIInv, Wire, InOrder
<1>5. OneLossNeverMixes'
  BY <1>1 DEF LinkIInv, OneLossNeverMixes
<1> QED BY <1>1, <1>3, <1>4, <1>5 DEF LinkIInv, Inside, Outside

\* The account holds after every step.
LEMMA Accounted ==
    ASSUME LinkIInv, [LinkNext]_linkVars
    PROVE  Wire' /\ (IF in_msg' THEN Inside' ELSE Outside') /\ OneLossNeverMixes'
<1>1. CASE Receive \/ Lose
  BY <1>1, WireAccounted
<1>2. ASSUME NEW c \in Byte, StartMessage(c)
      PROVE  Wire' /\ (IF in_msg' THEN Inside' ELSE Outside') /\ OneLossNeverMixes'
  BY <1>2, StartAccounted
<1>3. ASSUME NEW c \in Byte, Malformed(c)
      PROVE  Wire' /\ (IF in_msg' THEN Inside' ELSE Outside') /\ OneLossNeverMixes'
  BY <1>3, MalformedAccounted
<1>4. ASSUME NEW c \in Byte, CollectDigit(c)
      PROVE  Wire' /\ (IF in_msg' THEN Inside' ELSE Outside') /\ OneLossNeverMixes'
  BY <1>4, DigitAccounted
<1>5. CASE LoopEnd \/ NextPass \/ UNCHANGED linkVars
  BY <1>5, PassAccounted
<1> QED BY <1>1, <1>2, <1>3, <1>4, <1>5 DEF LinkNext

ParserTypeOK ==
    /\ pc \in {"parse", "rest"}
    /\ in_msg \in BOOLEAN
    /\ parsed_dp \in Byte
    /\ buff \in Seq(Byte) /\ Len(buff) < 3 /\ (~in_msg => buff = <<>>)
    /\ executed \in Seq([dp : Byte, value : Seq(Byte)])

LEMMA ParserTypes ==
    ASSUME ParserTypeOK, [LinkNext]_linkVars
    PROVE  ParserTypeOK'
<1>1. CASE Receive \/ Lose
  BY <1>1 DEF Receive, Lose, ParserTypeOK
<1>2. ASSUME NEW c \in Byte, StartMessage(c) PROVE ParserTypeOK'
  BY <1>2 DEF StartMessage, Read, ParserTypeOK
<1>3. ASSUME NEW c \in Byte, Malformed(c) PROVE ParserTypeOK'
  <2>1. /\ in_msg' = FALSE /\ buff' = <<>> /\ pc' = pc
        /\ parsed_dp' = parsed_dp /\ executed' = executed
    BY <1>3 DEF Malformed, AfterMalformed, Read
  <2>2. buff' \in Seq(Byte) /\ Len(buff') = 0
    BY <2>1
  <2>3. Len(buff') < 3
    BY <2>2
  <2>4. in_msg' \in BOOLEAN /\ (~in_msg' => buff' = <<>>)
    BY <2>1
  <2>5. /\ pc' \in {"parse", "rest"} /\ parsed_dp' \in Byte
        /\ executed' \in Seq([dp : Byte, value : Seq(Byte)])
    BY <2>1 DEF ParserTypeOK
  <2> QED BY <2>2, <2>3, <2>4, <2>5 DEF ParserTypeOK
<1>4. ASSUME NEW c \in Byte, CollectDigit(c) PROVE ParserTypeOK'
  <2> DEFINE digits == Append(buff, c)
             ends   == Len(digits) >= BuffSize \/ Complete(digits)
  <2>1. digits \in Seq(Byte) /\ Len(digits) = Len(buff) + 1 /\ Len(buff) \in Nat
    BY <1>4 DEF ParserTypeOK
  <2>2. [dp |-> parsed_dp, value |-> digits] \in [dp : Byte, value : Seq(Byte)]
    BY <2>1 DEF ParserTypeOK
  <2>3. ~ends => Len(digits) < 3
    BY <2>1, Positive DEF ParserTypeOK, Complete
  <2> HIDE DEF digits, ends
  <2>4. /\ in_msg' = ~ends /\ buff' = IF ends THEN <<>> ELSE digits
        /\ pc' = pc /\ parsed_dp' = parsed_dp
        /\ executed' = executed
              \/ executed' = Append(executed, [dp |-> parsed_dp, value |-> digits])
    BY <1>4 DEF CollectDigit, Read, digits, ends
  <2>5. executed' \in Seq([dp : Byte, value : Seq(Byte)])
    <3> DEFINE Calls == [dp : Byte, value : Seq(Byte)]
    <3>1. executed \in Seq(Calls)
      BY DEF ParserTypeOK
    <3> HIDE DEF Calls
    <3>2. [dp |-> parsed_dp, value |-> digits] \in Calls
      BY <2>2 DEF Calls
    <3>3. executed' \in Seq(Calls)
      BY <2>4, <3>1, <3>2
    <3> QED BY <3>3 DEF Calls
  <2>6. ends \in BOOLEAN
    BY DEF ends
  <2>7. CASE ends
    BY <2>4, <2>5, <2>7 DEF ParserTypeOK
  <2>8. CASE ~ends
    BY <2>1, <2>3, <2>4, <2>5, <2>8 DEF ParserTypeOK
  <2> QED BY <2>7, <2>8
<1>5. CASE LoopEnd \/ NextPass \/ UNCHANGED linkVars
  BY <1>5 DEF LoopEnd, NextPass, linkVars, ParserTypeOK
<1> QED BY <1>1, <1>2, <1>3, <1>4, <1>5 DEF LinkNext

LEMMA LinkTypesAgree ==
    /\ LinkTypeOK => ParserTypeOK
    /\ Wire /\ ParserTypeOK => LinkTypeOK
BY Positive DEF LinkTypeOK, ParserTypeOK, Wire, AnyByte, N

LEMMA LinkSteps == LinkIInv /\ [LinkNext]_linkVars => LinkIInv'
<1> SUFFICES ASSUME LinkIInv, [LinkNext]_linkVars PROVE LinkIInv'
  OBVIOUS
<1>1. Wire' /\ (IF in_msg' THEN Inside' ELSE Outside') /\ OneLossNeverMixes'
  BY Accounted
<1>2. ParserTypeOK'
  BY LinkTypesAgree, ParserTypes DEF LinkIInv
<1>3. Wire' /\ ParserTypeOK' => LinkTypeOK'
  BY LinkTypesAgree, PTL
<1> QED BY <1>1, <1>2, <1>3 DEF LinkIInv

LEMMA LinkInvariant == LinkSpec => []LinkIInv
<1>1. LinkIInv /\ UNCHANGED linkVars => LinkIInv'
  BY LinkSteps
<1> QED BY LinkStarts, LinkSteps, PTL DEF LinkSpec

-----------------------------------------------------------------------------
(* The theorems *)

\* uart_loop never overruns its digit buffer, whatever the wire loses: at most
\* two digits wait for a third.
THEOREM LinkTypeCorrect == LinkSpec => []LinkTypeOK
<1>1. LinkIInv => LinkTypeOK
  BY DEF LinkIInv
<1> QED BY <1>1, LinkInvariant, PTL

\* One lost byte never makes up a command out of two messages, for every size
\* of the receive ring and however long the boards talk.
THEOREM OneLossNeverMixesHolds == LinkSpec => []OneLossNeverMixes
<1>1. LinkIInv => OneLossNeverMixes
  BY DEF LinkIInv
<1> QED BY <1>1, LinkInvariant, PTL

\* Every lost byte costs at most two messages, however many are lost.
THEOREM LossCostsTwoMessagesHolds == LinkSpec => []LossCostsTwoMessages
<1>1. LinkIInv => LossCostsTwoMessages
  <2> SUFFICES ASSUME LinkIInv, next.pos = 0, Empty(rx)
               PROVE  (next.msg - 1) - Len(executed) <= 2 * lost
    BY DEF LossCostsTwoMessages
  <2>1. rx \in Rings(N, Byte) /\ next \in AnyByte /\ lost \in Nat
    BY Positive DEF LinkIInv, Wire
  <2>2. Contents(rx, N) = <<>> /\ Pending(rx, N) = 0
    BY <2>1, Positive, EmptyContents, ContentsType
  <2>3. Due = next
    BY <2>1, <2>2 DEF Due, Unparsed
  <2>4. DueNumbers /\ ParserNumbers
    BY DueNumbersHold, ParserNumbersHold DEF LinkIInv
  <2>5. PICK l \in Nat : l = LostBefore /\ l <= lost
    BY <2>4 DEF DueNumbers
  <2>6. PICK e \in Nat : e = Len(executed)
    BY <2>4 DEF ParserNumbers
  <2>7. PICK m \in Nat \ {0} : m = next.msg
    BY <2>3, <2>4 DEF DueNumbers
  <2>8. (m - 1) - e <= l + l
    <3>1. CASE in_msg
      <4>1. PICK n \in 0 .. 2 : n = Len(buff)
        BY <2>4 DEF ParserNumbers
      <4>2. PICK d \in Nat \ {0} : d = parsed_dp.msg
        BY <2>4 DEF ParserNumbers
      <4>3. Pledged(m, 0, d, n, e, l)
        BY <2>3, <2>5, <2>6, <2>7, <3>1, <4>1, <4>2 DEF LinkIInv, Inside
      <4> QED BY <4>3, LetterDue
    <3>2. CASE ~in_msg
      BY <2>3, <2>5, <2>6, <2>7, <3>2 DEF LinkIInv, Outside, Settled
    <3> QED BY <3>1, <3>2
  <2>9. (m - 1) - e <= 2 * lost
    BY <2>1, <2>5, <2>8
  <2> QED BY <2>6, <2>7, <2>9
<1> QED BY <1>1, LinkInvariant, PTL

-----------------------------------------------------------------------------
(* What is executed, in which order                                        *)

\* The letter read last is in front of the due byte and behind those executed.
InSequence ==
    /\ \A i \in 1 .. Len(executed) : executed[i].dp.pos = 0
    /\ \A i \in 1 .. Len(executed) :
           Index(executed[i].dp) < IF in_msg THEN Index(parsed_dp) ELSE Index(Due)
    /\ in_msg => Index(parsed_dp) < Index(Due)
    /\ \A i, j \in 1 .. Len(executed) : i < j => executed[i].dp.msg < executed[j].dp.msg
    /\ lost = 0 => \A i \in 1 .. Len(executed) : executed[i].dp.msg = i

LEMMA ExecutedType ==
    ASSUME LinkIInv, NEW i \in 1 .. Len(executed)
    PROVE  executed[i].dp \in AnyByte /\ Index(executed[i].dp) \in Nat
<1>1. executed[i].dp \in AnyByte
  <2> DEFINE Calls == [dp : Byte, value : Seq(Byte)]
  <2>1. executed \in Seq(Calls)
    BY DEF LinkIInv, LinkTypeOK
  <2>2. executed[i] \in Calls
    <3> HIDE DEF Calls
    <3> QED BY <2>1, ElementOfSeq
  <2> QED BY <2>2, ByteIsAnyByte
<1> QED BY <1>1, IndexType

LEMMA SequenceTypes ==
    ASSUME LinkIInv
    PROVE  /\ Due \in AnyByte /\ Index(Due) \in Nat
           /\ parsed_dp \in AnyByte /\ Index(parsed_dp) \in Nat
           /\ Len(executed) \in Nat
<1>1. Due \in AnyByte /\ parsed_dp \in AnyByte
  BY DueType, ByteIsAnyByte DEF LinkIInv, LinkTypeOK
<1> QED BY <1>1, IndexType, ParserNumbersHold DEF LinkIInv, ParserNumbers

\* The due byte moves on and nothing is executed.
LEMMA SequenceMoves ==
    ASSUME LinkIInv, InSequence, executed' = executed,
           Index(Due') \in Nat, Index(Due') >= Index(Due),
           lost' \in Nat, lost' = 0 => lost = 0,
           \/ in_msg' = in_msg /\ parsed_dp' = parsed_dp
           \/ in_msg /\ ~in_msg'
    PROVE  InSequence'
<1>1. /\ Index(Due) \in Nat /\ Index(parsed_dp) \in Nat
      /\ \A i \in 1 .. Len(executed) : Index(executed[i].dp) \in Nat
  BY SequenceTypes, ExecutedType
<1>3. \A i \in 1 .. Len(executed) :
          Index(executed[i].dp) < IF in_msg' THEN Index(parsed_dp') ELSE Index(Due')
  <2> TAKE i \in 1 .. Len(executed)
  <2>1. CASE in_msg
    <3>1. Index(executed[i].dp) < Index(parsed_dp) /\ Index(parsed_dp) < Index(Due)
      BY <2>1 DEF InSequence
    <3>2. Index(executed[i].dp) < Index(Due')
      BY <1>1, <3>1
    <3> QED BY <2>1, <3>1, <3>2
  <2>2. CASE ~in_msg
    <3>1. Index(executed[i].dp) < Index(Due) /\ ~in_msg'
      BY <2>2 DEF InSequence
    <3>2. Index(executed[i].dp) < Index(Due')
      BY <1>1, <3>1
    <3> QED BY <3>1, <3>2
  <2> QED BY <2>1, <2>2
<1>4. in_msg' => Index(parsed_dp') < Index(Due')
  <2> SUFFICES ASSUME in_msg' PROVE Index(parsed_dp') < Index(Due')
    OBVIOUS
  <2>1. Index(parsed_dp) < Index(Due) /\ parsed_dp' = parsed_dp
    BY DEF InSequence
  <2> QED BY <1>1, <2>1
<1>5. lost' = 0 => \A i \in 1 .. Len(executed) : executed[i].dp.msg = i
  BY DEF InSequence
<1> QED BY <1>3, <1>4, <1>5 DEF InSequence

\* A letter is read outside a message.
LEMMA SequenceBegins ==
    ASSUME LinkIInv, InSequence, executed' = executed, lost' = lost, ~in_msg, in_msg',
           parsed_dp' = Due, Index(Due') \in Nat, Index(Due') > Index(Due)
    PROVE  InSequence'
<1>2. \A i \in 1 .. Len(executed) :
          Index(executed[i].dp) < IF in_msg' THEN Index(parsed_dp') ELSE Index(Due')
  BY DEF InSequence
<1>3. in_msg' => Index(parsed_dp') < Index(Due')
  BY SequenceTypes
<1> QED BY <1>2, <1>3 DEF InSequence

\* A message is complete.
LEMMA SequenceExtends ==
    ASSUME LinkIInv, InSequence, lost' = lost, in_msg, ~in_msg',
           NEW digits, executed' = Append(executed, [dp |-> parsed_dp, value |-> digits]),
           Index(Due') \in Nat, Index(Due') > Index(Due)
    PROVE  InSequence'
<1> DEFINE n == Len(executed)
<1>1. /\ Index(Due) \in Nat /\ parsed_dp \in AnyByte /\ Index(parsed_dp) \in Nat
      /\ n \in Nat
  BY SequenceTypes
<1>2. /\ Len(executed') = n + 1 /\ executed'[n + 1].dp = parsed_dp
      /\ \A i \in 1 .. n : executed'[i].dp = executed[i].dp
  <2> DEFINE Calls == [dp : Byte, value : Seq(Byte)]
  <2>1. executed \in Seq(Calls)
    BY DEF LinkIInv, LinkTypeOK
  <2> DEFINE call == [dp |-> parsed_dp, value |-> digits]
  <2> HIDE DEF Calls
  <2>2. executed' = Append(executed, call)
    OBVIOUS
  <2>3. call.dp = parsed_dp
    OBVIOUS
  <2> HIDE DEF call
  <2>4. /\ Len(executed') = n + 1 /\ executed'[n + 1] = call
        /\ \A i \in 1 .. n : executed'[i] = executed[i]
    BY <2>1, <2>2, AppendProperties
  <2> QED BY <2>3, <2>4
<1>3. parsed_dp.pos = 0 /\ Index(parsed_dp) < Index(Due)
  BY DEF LinkIInv, Inside, InSequence
<1>4. \A i \in 1 .. n :
          /\ executed[i].dp \in AnyByte /\ Index(executed[i].dp) \in Nat
          /\ executed[i].dp.pos = 0 /\ Index(executed[i].dp) < Index(parsed_dp)
  BY ExecutedType DEF InSequence
<1>5. \A i \in 1 .. n : executed[i].dp.msg < parsed_dp.msg
  <2> TAKE i \in 1 .. n
  <2> DEFINE b == executed[i].dp
  <2>1. b \in AnyByte /\ b.pos = 0 /\ Index(b) < Index(parsed_dp)
    BY <1>4
  <2> HIDE DEF b
  <2>2. /\ b.msg \in Nat \ {0} /\ Index(b) = 4 * (b.msg - 1)
        /\ parsed_dp.msg \in Nat \ {0} /\ Index(parsed_dp) = 4 * (parsed_dp.msg - 1)
    BY <1>1, <1>3, <2>1, IndexType
  <2>3. b.msg < parsed_dp.msg
    BY <2>1, <2>2
  <2> QED BY <2>3 DEF b
<1>6. \A i \in 1 .. n + 1 : i \in 1 .. n \/ i = n + 1
  BY <1>1
<1> HIDE DEF n
<1>7. \A i \in 1 .. n + 1 : executed'[i].dp.pos = 0
  BY <1>2, <1>3, <1>4, <1>6
<1>8. \A i \in 1 .. n + 1 : Index(executed'[i].dp) < Index(Due')
  BY <1>1, <1>2, <1>3, <1>4, <1>6
<1>9. \A i, j \in 1 .. n + 1 : i < j => executed'[i].dp.msg < executed'[j].dp.msg
  <2> SUFFICES ASSUME NEW i \in 1 .. n + 1, NEW j \in 1 .. n + 1, i < j
               PROVE  executed'[i].dp.msg < executed'[j].dp.msg
    OBVIOUS
  <2>1. i \in 1 .. n
    BY <1>1
  <2>2. CASE j \in 1 .. n
    BY <1>2, <2>1, <2>2 DEF InSequence, n
  <2>3. CASE j = n + 1
    BY <1>2, <1>5, <2>1, <2>3
  <2> QED BY <1>6, <2>2, <2>3
<1>10. lost' = 0 => \A i \in 1 .. n + 1 : executed'[i].dp.msg = i
  <2> SUFFICES ASSUME lost = 0 PROVE \A i \in 1 .. n + 1 : executed'[i].dp.msg = i
    OBVIOUS
  <2>1. \A i \in 1 .. n : executed[i].dp.msg = i
    BY DEF InSequence, n
  <2>2. parsed_dp.msg \in Nat \ {0}
    BY <1>1, IndexType
  <2>3. parsed_dp.msg >= n + 1
    <3>1. CASE n = 0
      BY <2>2, <3>1
    <3>2. CASE n # 0
      <4>1. n \in 1 .. n
        BY <1>1, <3>2
      <4> QED BY <1>1, <1>5, <2>1, <2>2, <4>1
    <3> QED BY <3>1, <3>2
  <2>4. parsed_dp.msg <= n + 1
    <3>1. LostBefore = 0
      BY DueType DEF LinkIInv, Wire
    <3>2. Pledged(Due.msg, Due.pos, parsed_dp.msg, Len(buff), n, 0)
      BY <3>1 DEF LinkIInv, Inside, n
    <3> DEFINE passed == Since(Due.msg, Due.pos, parsed_dp.msg, Len(buff))
    <3>3. passed \in 0 .. 0 /\ parsed_dp.msg - 1 - n <= (0 - passed) + (0 - passed)
      BY <3>2 DEF Pledged
    <3> HIDE DEF passed
    <3> QED BY <1>1, <2>2, <3>3
  <2>5. parsed_dp.msg = n + 1
    BY <1>1, <2>2, <2>3, <2>4
  <2> QED BY <1>2, <1>6, <2>1, <2>5
<1> QED BY <1>2, <1>7, <1>8, <1>9, <1>10 DEF InSequence

LEMMA SequenceSteps == LinkIInv /\ InSequence /\ [LinkNext]_linkVars => InSequence'
<1> SUFFICES ASSUME LinkIInv, InSequence, [LinkNext]_linkVars PROVE InSequence'
  OBVIOUS
<1>0. Index(Due) \in Nat /\ lost \in Nat
  BY SequenceTypes, Positive DEF LinkIInv, Wire
<1>1. CASE Receive \/ Lose
  <2>1. Index(Due') \in Nat /\ Index(Due') >= Index(Due)
    BY <1>0, <1>1, WireReceive, WireLose DEF LinkIInv
  <2>2. /\ in_msg' = in_msg /\ parsed_dp' = parsed_dp /\ executed' = executed
        /\ lost' \in Nat /\ (lost' = 0 => lost = 0)
    BY <1>0, <1>1 DEF Receive, Lose
  <2> QED BY <2>1, <2>2, SequenceMoves
<1>2. ASSUME NEW c \in Byte, StartMessage(c) \/ Malformed(c) \/ CollectDigit(c)
      PROVE  InSequence'
  <2>1. Read(c)
    BY <1>2 DEF StartMessage, Malformed, CollectDigit
  <2>2. c = Due /\ Due' \in AnyByte /\ Index(Due') > Index(Due) /\ lost' = lost
    BY <2>1, WireRead DEF LinkIInv, Read
  <2>3. Index(Due') \in Nat
    BY <2>2, IndexType
  <2>4. Index(Due') >= Index(Due)
    BY <1>0, <2>2, <2>3
  <2>5. CASE StartMessage(c)
    <3>1. CASE isDigit(c)
      <4>1. in_msg' = in_msg /\ parsed_dp' = parsed_dp /\ executed' = executed
        BY <2>5, <3>1 DEF StartMessage
      <4> QED BY <1>0, <2>2, <2>3, <2>4, <4>1, SequenceMoves
    <3>2. CASE ~isDigit(c)
      <4>1. ~in_msg /\ in_msg' /\ parsed_dp' = Due /\ executed' = executed
        BY <2>2, <2>5, <3>2 DEF StartMessage
      <4> QED BY <2>2, <2>3, <4>1, SequenceBegins
    <3> QED BY <3>1, <3>2
  <2>6. CASE Malformed(c)
    <3>1. in_msg /\ ~in_msg' /\ executed' = executed
      BY <2>6 DEF Malformed
    <3> QED BY <1>0, <2>2, <2>3, <2>4, <3>1, SequenceMoves
  <2>7. CASE CollectDigit(c)
    <3> DEFINE digits == Append(buff, c)
               ends   == Len(digits) >= BuffSize \/ Complete(digits)
               runs   == Len(digits) < BuffSize /\ Complete(digits)
    <3>1. /\ in_msg /\ in_msg' = ~ends /\ parsed_dp' = parsed_dp
          /\ executed' = IF runs THEN Append(executed, [dp |-> parsed_dp, value |-> digits])
                         ELSE executed
      BY <2>7 DEF CollectDigit
    <3> HIDE DEF digits, ends, runs
    <3>2. runs => ends
      BY DEF runs, ends
    <3>3. CASE runs
      BY <2>2, <2>3, <3>1, <3>2, <3>3, SequenceExtends
    <3>4. CASE ~runs
      <4>1. executed' = executed /\ (in_msg' = in_msg \/ ~in_msg')
        BY <3>1, <3>4 DEF ends
      <4> QED BY <1>0, <2>2, <2>3, <2>4, <3>1, <4>1, SequenceMoves
    <3> QED BY <3>3, <3>4
  <2> QED BY <1>2, <2>5, <2>6, <2>7
<1>3. CASE LoopEnd \/ NextPass \/ UNCHANGED linkVars
  <2>1. UNCHANGED <<next, lost, rx, in_msg, parsed_dp, executed>>
    BY <1>3 DEF LoopEnd, NextPass, linkVars
  <2>2. Due' = Due
    BY <2>1 DEF Due, Unparsed
  <2> QED BY <1>0, <2>1, <2>2, SequenceMoves
<1> QED BY <1>1, <1>2, <1>3 DEF LinkNext

LEMMA SequenceStarts == LinkInit => InSequence
<1> SUFFICES ASSUME LinkInit PROVE InSequence
  OBVIOUS
<1>1. Len(executed) = 0 /\ ~in_msg
  BY DEF LinkInit
<1> QED BY <1>1 DEF InSequence

\* The messages uart_loop executes are executed in the order in which they were
\* sent and each at most once, however many bytes are lost; and as long as none
\* is, they are the first ones sent, whole and none left out.
ExecutedInOrder ==
    /\ \A i, j \in 1 .. Len(executed) : i < j => executed[i].dp.msg < executed[j].dp.msg
    /\ lost = 0 => \A i \in 1 .. Len(executed) :
                      executed[i].dp = [msg |-> i, pos |-> 0] /\ IsWhole(executed[i])

THEOREM ExecutedInOrderHolds == LinkSpec => []ExecutedInOrder
<1>1. LinkSpec => []InSequence
  BY SequenceStarts, SequenceSteps, LinkInvariant, PTL DEF LinkSpec
<1>2. LinkIInv /\ InSequence => ExecutedInOrder
  <2> SUFFICES ASSUME LinkIInv, InSequence, lost = 0, NEW i \in 1 .. Len(executed)
               PROVE  executed[i].dp = [msg |-> i, pos |-> 0] /\ IsWhole(executed[i])
    BY DEF InSequence, ExecutedInOrder
  <2>1. IsWhole(executed[i])
    BY DEF LinkIInv, OneLossNeverMixes
  <2>2. executed[i].dp \in AnyByte /\ executed[i].dp.msg = i /\ executed[i].dp.pos = 0
    BY ExecutedType DEF InSequence
  <2> QED BY <2>1, <2>2 DEF AnyByte
<1> QED BY <1>1, <1>2, LinkInvariant, PTL

-----------------------------------------------------------------------------
(* What is left unread *)

\* serial_available is short by one exactly when the ring has wrapped.
LEMMA AvailableShort ==
    ASSUME NEW r \in Rings(N, Byte)
    PROVE  Pending(r, N) - serial_available(r, N) = IF r.head >= r.tail THEN 0 ELSE 1
<1>1. r.head \in Int /\ r.tail \in Int /\ N \in Int
  BY Positive DEF Rings
<1> QED BY <1>1 DEF Pending, serial_available

\* When uart_loop stops reading, at most the byte that came last is left, and
\* only when the ring has wrapped: what finding 2 leaves of the comment that
\* serial_available returns the number of bytes available (serial.c:136-143).
THEOREM OneByteLeftUnread ==
    LinkSpec => [][LoopEnd => \/ Empty(rx)
                              \/ (rx.head < rx.tail /\ Pending(rx, N) = 1)]_linkVars
<1>1. ASSUME LinkIInv, LoopEnd
      PROVE  Empty(rx) \/ (rx.head < rx.tail /\ Pending(rx, N) = 1)
  <2>1. rx \in Rings(N, Byte) /\ serial_available(rx, N) = 0
    BY <1>1 DEF LinkIInv, Wire, LoopEnd, N
  <2>2. Pending(rx, N) - 0 = IF rx.head >= rx.tail THEN 0 ELSE 1
    BY <2>1, AvailableShort
  <2>3. rx.head \in Int /\ rx.tail \in Int /\ N \in Int
    BY <2>1, Positive DEF Rings
  <2>4. CASE rx.head >= rx.tail
    <3>1. rx.head - rx.tail = 0
      BY <2>2, <2>3, <2>4 DEF Pending
    <3>2. rx.head = rx.tail
      BY <2>3, <3>1
    <3> QED BY <3>2 DEF Empty
  <2>5. CASE ~(rx.head >= rx.tail)
    <3>1. Pending(rx, N) = N - (rx.tail - rx.head) /\ Pending(rx, N) - 0 = 1
      BY <2>2, <2>5 DEF Pending
    <3> QED BY <2>3, <2>5, <3>1
  <2> QED BY <2>4, <2>5
<1> QED BY <1>1, LinkInvariant, PTL
=============================================================================
