----------------------------- MODULE RingProofs -----------------------------
(***************************************************************************)
(* What the operations of SerialRing.tla do to the contents of a ring, for *)
(* every number of slots and every set of items: writing the slot at head  *)
(* shows nothing, moving head appends, moving tail takes the oldest.       *)
(***************************************************************************)
EXTENDS SerialRing, SequenceTheorems, TLAPS

\* A slot's successor is a slot.
LEMMA SlotType ==
    ASSUME NEW n \in Nat \ {0, 1}, NEW i \in 0 .. n - 1
    PROVE  Slot(i, n) \in 0 .. n - 1
BY DEF Slot

\* The contents are a sequence of as many bytes as the indices say.
LEMMA ContentsType ==
    ASSUME NEW n \in Nat \ {0, 1}, NEW S, NEW r \in Rings(n, S)
    PROVE  /\ Pending(r, n) \in 0 .. n - 1
           /\ Contents(r, n) \in Seq(S)
           /\ Len(Contents(r, n)) = Pending(r, n)
           /\ Empty(r) <=> Pending(r, n) = 0
           /\ Full(r, n) <=> Pending(r, n) = n - 1
<1> DEFINE At(k) == r.buffer[Wrapped(r.tail + k - 1, n)]
<1>1. /\ r.head \in 0 .. n - 1 /\ r.tail \in 0 .. n - 1
      /\ r.buffer \in [0 .. n - 1 -> S]
  BY DEF Rings
<1>2. /\ Pending(r, n) \in 0 .. n - 1
      /\ Empty(r) <=> Pending(r, n) = 0
      /\ Full(r, n) <=> Pending(r, n) = n - 1
  BY <1>1 DEF Pending, Empty, Full, Slot
<1>3. \A k \in 1 .. Pending(r, n) : At(k) \in S
  BY <1>1, <1>2 DEF Wrapped
<1>4. Contents(r, n) \in [1 .. Pending(r, n) -> S]
  BY <1>3 DEF Contents
<1>5. Contents(r, n) \in Seq(S) /\ Len(Contents(r, n)) = Pending(r, n)
  <2>1. Contents(r, n) \in Seq(S)
    BY <1>2, <1>4, SeqDef
  <2>2. 1 .. Len(Contents(r, n)) = 1 .. Pending(r, n)
    BY <1>4, <2>1, LenProperties
  <2>3. Len(Contents(r, n)) \in Nat
    BY <2>1, LenProperties
  <2> QED
    BY <1>2, <2>1, <2>2, <2>3
<1> QED
  BY <1>2, <1>5

\* Byte k of the contents, counted from the oldest.
LEMMA ContentsAt ==
    ASSUME NEW n \in Nat \ {0, 1}, NEW S, NEW r \in Rings(n, S),
           NEW k \in 1 .. Pending(r, n)
    PROVE  Contents(r, n)[k] =
             r.buffer[Wrapped(r.tail + k - 1, n)]
BY DEF Contents

\* A ring whose indices are equal holds nothing.
LEMMA EmptyContents ==
    ASSUME NEW n \in Nat \ {0, 1}, NEW S, NEW r \in Rings(n, S), Empty(r)
    PROVE  Contents(r, n) = <<>>
BY ContentsType, EmptySeq

\* The slot at head is outside the contents: writing it changes nothing yet.
LEMMA StoredContents ==
    ASSUME NEW n \in Nat \ {0, 1}, NEW S, NEW r \in Rings(n, S), NEW b \in S
    PROVE  /\ Stored(r, b) \in Rings(n, S)
           /\ Stored(r, b).head = r.head /\ Stored(r, b).tail = r.tail
           /\ Stored(r, b).buffer[r.head] = b
           /\ Contents(Stored(r, b), n) = Contents(r, n)
<1> DEFINE s == Stored(r, b)
<1>1. /\ r.head \in 0 .. n - 1 /\ r.tail \in 0 .. n - 1
      /\ r.buffer \in [0 .. n - 1 -> S]
  BY DEF Rings
<1>2. /\ s \in Rings(n, S) /\ s.head = r.head /\ s.tail = r.tail
      /\ s.buffer = [r.buffer EXCEPT ![r.head] = b]
  BY <1>1 DEF Stored, Rings
<1>3. s.buffer[r.head] = b
  BY <1>1, <1>2
<1>4. Pending(s, n) = Pending(r, n)
  BY <1>2 DEF Pending
<1>5. ASSUME NEW k \in 1 .. Pending(r, n)
      PROVE  Contents(s, n)[k] = Contents(r, n)[k]
  <2>1. k \in 1 .. Pending(s, n)
    BY <1>4
  <2> DEFINE i == Wrapped(r.tail + k - 1, n)
  <2>2. i \in 0 .. n - 1 /\ i # r.head
    BY <1>1 DEF Pending, Wrapped
  <2>3. s.buffer[i] = r.buffer[i]
    BY <1>1, <1>2, <2>2
  <2>4. s \in Rings(n, S)
    BY <1>2
  <2>5. Contents(s, n)[k] = s.buffer[Wrapped(s.tail + k - 1, n)]
    BY <2>1, <2>4, ContentsAt
  <2>6. Contents(r, n)[k] = r.buffer[Wrapped(r.tail + k - 1, n)]
    BY ContentsAt
  <2> QED
    BY <1>2, <2>3, <2>5, <2>6
<1>6. Contents(s, n) = Contents(r, n)
  <2>1. /\ Contents(s, n) \in Seq(S) /\ Contents(r, n) \in Seq(S)
        /\ Len(Contents(s, n)) = Pending(r, n)
        /\ Len(Contents(r, n)) = Pending(r, n)
    BY <1>2, <1>4, ContentsType
  <2> QED
    BY <1>5, <2>1, SeqEqual
<1> QED
  BY <1>2, <1>3, <1>6

\* Moving head appends the byte that was stored there.
LEMMA AdvancedContents ==
    ASSUME NEW n \in Nat \ {0, 1}, NEW S, NEW r \in Rings(n, S), ~Full(r, n)
    PROVE  /\ Advanced(r, n) \in Rings(n, S)
           /\ Advanced(r, n).tail = r.tail /\ Advanced(r, n).buffer = r.buffer
           /\ Pending(Advanced(r, n), n) = Pending(r, n) + 1
           /\ Contents(Advanced(r, n), n)
                = Append(Contents(r, n), r.buffer[r.head])
<1> DEFINE s == Advanced(r, n)
<1>1. /\ r.head \in 0 .. n - 1 /\ r.tail \in 0 .. n - 1
      /\ r.buffer \in [0 .. n - 1 -> S]
  BY DEF Rings
<1>2. /\ s \in Rings(n, S) /\ s.head = Slot(r.head, n) /\ s.tail = r.tail
      /\ s.buffer = r.buffer
  BY <1>1, SlotType DEF Advanced, Rings
<1>3. Pending(s, n) = Pending(r, n) + 1
  BY <1>1, <1>2 DEF Pending, Slot, Full
<1>4. /\ Contents(s, n) \in Seq(S) /\ Len(Contents(s, n)) = Pending(r, n) + 1
      /\ Contents(r, n) \in Seq(S) /\ Len(Contents(r, n)) = Pending(r, n)
      /\ Pending(r, n) \in Nat
  BY <1>2, <1>3, ContentsType
<1> DEFINE t == Append(Contents(r, n), r.buffer[r.head])
<1>5. /\ t \in Seq(S) /\ Len(t) = Pending(r, n) + 1
      /\ \A k \in 1 .. Pending(r, n) : t[k] = Contents(r, n)[k]
      /\ t[Pending(r, n) + 1] = r.buffer[r.head]
  BY <1>1, <1>4
<1>6. ASSUME NEW k \in 1 .. Pending(r, n) + 1
      PROVE  Contents(s, n)[k] = t[k]
  <2> DEFINE i == Wrapped(r.tail + k - 1, n)
  <2>1. Contents(s, n)[k] = r.buffer[i]
    BY <1>2, <1>3, ContentsAt
  <2>2. CASE k <= Pending(r, n)
    <3>1. k \in 1 .. Pending(r, n)
      BY <1>4, <2>2
    <3> QED
      BY <1>5, <2>1, <3>1, ContentsAt
  <2>3. CASE k = Pending(r, n) + 1
    <3>1. i = r.head
      BY <1>1, <2>3 DEF Pending, Wrapped
    <3> QED
      BY <1>5, <2>1, <2>3, <3>1
  <2> QED
    BY <1>4, <2>2, <2>3
<1>7. Contents(s, n) = t
  BY <1>4, <1>5, <1>6, SeqEqual
<1> QED
  BY <1>2, <1>3, <1>7

\* Moving tail removes the oldest byte, the one in the slot it leaves.
LEMMA ReleasedContents ==
    ASSUME NEW n \in Nat \ {0, 1}, NEW S, NEW r \in Rings(n, S), ~Empty(r)
    PROVE  /\ Released(r, n) \in Rings(n, S)
           /\ Released(r, n).head = r.head /\ Released(r, n).buffer = r.buffer
           /\ Pending(Released(r, n), n) = Pending(r, n) - 1
           /\ Contents(r, n) # <<>>
           /\ Head(Contents(r, n)) = r.buffer[r.tail]
           /\ Contents(Released(r, n), n) = Tail(Contents(r, n))
<1> DEFINE s == Released(r, n)
<1>1. /\ r.head \in 0 .. n - 1 /\ r.tail \in 0 .. n - 1
      /\ r.buffer \in [0 .. n - 1 -> S]
  BY DEF Rings
<1>2. /\ s \in Rings(n, S) /\ s.tail = Slot(r.tail, n) /\ s.head = r.head
      /\ s.buffer = r.buffer
  BY <1>1, SlotType DEF Released, Rings
<1>3. Pending(s, n) = Pending(r, n) - 1 /\ Pending(r, n) >= 1
  BY <1>1, <1>2 DEF Pending, Slot, Empty
<1>4. /\ Contents(s, n) \in Seq(S) /\ Len(Contents(s, n)) = Pending(r, n) - 1
      /\ Contents(r, n) \in Seq(S) /\ Len(Contents(r, n)) = Pending(r, n)
      /\ Pending(r, n) \in Nat
  BY <1>2, <1>3, ContentsType
<1>5. Contents(r, n) # <<>>
  BY <1>3, <1>4
<1>6. Contents(r, n)[1] = r.buffer[r.tail]
  <2>1. 1 \in 1 .. Pending(r, n)
    BY <1>3, <1>4
  <2>2. Contents(r, n)[1] = r.buffer[Wrapped(r.tail + 1 - 1, n)]
    BY <2>1, ContentsAt
  <2>3. Wrapped(r.tail + 1 - 1, n) = r.tail
    BY <1>1 DEF Wrapped
  <2> QED
    BY <2>2, <2>3
<1> DEFINE t == Tail(Contents(r, n))
<1>7. /\ t \in Seq(S) /\ Len(t) = Pending(r, n) - 1
      /\ \A k \in 1 .. Pending(r, n) - 1 : t[k] = Contents(r, n)[k + 1]
  BY <1>3, <1>4, <1>5
<1>8. ASSUME NEW k \in 1 .. Pending(r, n) - 1
      PROVE  Contents(s, n)[k] = t[k]
  <2> DEFINE j == Wrapped(r.tail + (k + 1) - 1, n)
  <2>1. Contents(s, n)[k] = r.buffer[Wrapped(s.tail + k - 1, n)]
    BY <1>2, <1>3, ContentsAt
  <2>2. k + 1 \in 1 .. Pending(r, n)
    BY <1>4
  <2>3. Contents(r, n)[k + 1] = r.buffer[j]
    BY <2>2, ContentsAt
  <2>4. Wrapped(s.tail + k - 1, n) = j
    BY <1>1, <1>2, <1>4, ContentsType DEF Slot, Wrapped
  <2> QED
    BY <1>7, <2>1, <2>3, <2>4
<1>9. Contents(s, n) = t
  BY <1>4, <1>7, <1>8, SeqEqual
<1> QED
  BY <1>2, <1>3, <1>5, <1>6, <1>9

\* An item put into a full ring takes the place of the oldest one: taking that first
\* leads to the same ring.
LEMMA OvertakenContents ==
    ASSUME NEW n \in Nat \ {0, 1}, NEW S, NEW r \in Rings(n, S), Full(r, n)
    PROVE  LET s == [Advanced(r, n) EXCEPT !.tail = Slot(r.tail, n)]
           IN  /\ Contents(r, n) # <<>>
               /\ Contents(s, n) = Append(Tail(Contents(r, n)), r.buffer[r.head])
<1> DEFINE q == Released(r, n)
<1>1. /\ r.head \in 0 .. n - 1 /\ r.tail \in 0 .. n - 1
      /\ r = [buffer |-> r.buffer, head |-> r.head, tail |-> r.tail]
  BY DEF Rings
<1>2. ~Empty(r)
  BY <1>1 DEF Full, Empty, Slot
<1>3. /\ q \in Rings(n, S) /\ q.head = r.head /\ q.buffer = r.buffer
      /\ Contents(r, n) # <<>> /\ Contents(q, n) = Tail(Contents(r, n))
      /\ q.tail = Slot(r.tail, n)
  BY <1>1, <1>2, ReleasedContents DEF Released
<1>4. ~Full(q, n)
  BY <1>1, <1>3 DEF Full, Slot
<1>5. Contents(Advanced(q, n), n) = Append(Tail(Contents(r, n)), r.buffer[r.head])
  BY <1>3, <1>4, AdvancedContents
<1>6. Advanced(q, n) = [Advanced(r, n) EXCEPT !.tail = Slot(r.tail, n)]
  BY <1>1 DEF Advanced, Released
<1> QED BY <1>3, <1>5, <1>6

=============================================================================
