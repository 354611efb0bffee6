---------------------------- MODULE SerialProofs ----------------------------
(***************************************************************************)
(* The serial port's rings are queues, for every size of the rings and     *)
(* every set of bytes: the inductive invariant of Serial.tla, then the two *)
(* refinements of Fifo.tla.                                                *)
(***************************************************************************)
EXTENDS Serial, RingProofs

-----------------------------------------------------------------------------
(* The inductive invariant *)

\* What serial_read has seen stays true until it moves tail: only the receive
\* interrupt runs meanwhile, and it only appends.
Reading ==
    /\ pc \in {"fetch", "release"} => ~Empty(rx)
    /\ pc = "release" => data = rx.buffer[rx.tail]

\* The byte serial_putc stores, and the slot it stores it in.
Writing ==
    /\ pc \in {"store", "advance"} => data \in Bytes
    /\ pc = "advance" => ~Full(tx, TX_RING_BUFFER) /\ tx.buffer[tx.head] = data

\* The transmit interrupt is enabled only while there is something to send, and
\* before serial_putc enables it the ring cannot run empty: that would take two
\* bytes, and only one leaves the wire in that time, or none while the receive
\* interrupt holds the transmit interrupt off.
Arming ==
    /\ UDRIE => ~Empty(tx)
    /\ NoLostWakeup
    /\ pc = "arm" => ~Empty(tx)
    /\ pc = "arm" /\ UDRIE =>
         /\ ReceiveBlocked \/ wire = "full" \/ (wire = "shift" /\ shifted)
         /\ Pending(tx, TX_RING_BUFFER) >= 2 \/ (wire = "full" /\ shifted)

IInv == TypeOK /\ Reading /\ Writing /\ Arming

\* Everything starts empty.
LEMMA InitIInv == Init => IInv
<1> SUFFICES ASSUME Init PROVE IInv
  OBVIOUS
<1>1. /\ rx \in Rings(RX_RING_BUFFER, AnyByte)
      /\ tx \in Rings(TX_RING_BUFFER, AnyByte)
  BY SerialAssumption DEF Init, Rings, AnyByte
<1>2. udr \in Seq(Bytes) /\ Len(udr) <= UsartDepth
  BY EmptySeq DEF Init, UsartDepth
<1>3. TypeOK
  BY <1>1, <1>2 DEF Init, TypeOK, AnyByte
<1>4. Reading /\ Writing /\ Arming
  BY DEF Init, Reading, Writing, Arming, NoLostWakeup, Empty
<1> QED
  BY <1>3, <1>4 DEF IInv

\* Every step keeps the types (all of serial.c).
LEMMA NextType == TypeOK /\ Reading /\ Writing /\ Arming /\ [Next]_vars => TypeOK'
<1> SUFFICES ASSUME TypeOK, Reading, Writing, Arming, [Next]_vars PROVE TypeOK'
  OBVIOUS
<1> USE SerialAssumption
<1>0. rx \in Rings(RX_RING_BUFFER, AnyByte) /\ tx \in Rings(TX_RING_BUFFER, AnyByte)
  BY DEF TypeOK
<1>1. ASSUME NEW b \in Bytes, ByteArrives(b) PROVE TypeOK'
  BY <1>1 DEF TypeOK, ByteArrives, UsartDepth
<1>2. ASSUME USART_RXC, HasRoom(rx) PROVE TypeOK'
  <2>1. Head(udr) \in AnyByte /\ Tail(udr) \in Seq(Bytes) /\ Len(Tail(udr)) <= UsartDepth
    BY <1>2 DEF TypeOK, USART_RXC, AnyByte, UsartDepth
  <2> DEFINE s == Stored(rx, Head(udr))
  <2>2. s \in Rings(RX_RING_BUFFER, AnyByte) /\ ~Full(s, RX_RING_BUFFER)
    <3>1. s \in Rings(RX_RING_BUFFER, AnyByte) /\ s.head = rx.head /\ s.tail = rx.tail
      BY <1>0, <2>1, StoredContents
    <3>2. ~Full(rx, RX_RING_BUFFER)
      BY <1>2 DEF USART_RXC, HasRoom
    <3> QED
      BY <3>1, <3>2 DEF Full
  <2>3. rx' \in Rings(RX_RING_BUFFER, AnyByte)
    BY <1>2, <2>2, AdvancedContents DEF USART_RXC
  <2> QED
    BY <1>2, <2>1, <2>3 DEF TypeOK, USART_RXC
<1>3. CASE read_begin
  BY <1>3 DEF TypeOK, read_begin
<1>4. CASE read_fetch
  BY <1>0, <1>4 DEF TypeOK, read_fetch, Rings
<1>5. CASE read_release
  BY <1>0, <1>5, ReleasedContents DEF TypeOK, read_release, Reading
<1>6. ASSUME NEW b \in Bytes, putc_begin(b) PROVE TypeOK'
  BY <1>6 DEF TypeOK, putc_begin, AnyByte
<1>7. CASE putc_store
  BY <1>0, <1>7, StoredContents DEF TypeOK, putc_store
<1>8. CASE putc_advance
  BY <1>0, <1>8, AdvancedContents DEF TypeOK, putc_advance, Writing
<1>9. CASE putc_arm
  BY <1>9 DEF TypeOK, putc_arm
<1>10. CASE USART_UDRE
  <2>1. tx.buffer[tx.tail] \in AnyByte
    BY <1>0 DEF Rings
  <2>2. tx' \in Rings(TX_RING_BUFFER, AnyByte)
    BY <1>0, <1>10, ReleasedContents DEF USART_UDRE, TransmitPending, Arming
  <2> QED
    BY <1>10, <2>1, <2>2 DEF TypeOK, USART_UDRE, StaysEnabled, Empty
<1>11. CASE ByteSent
  BY <1>11 DEF TypeOK, ByteSent
<1>12. CASE UNCHANGED vars
  BY <1>12 DEF TypeOK, vars
<1>13. USART_RXC /\ ~HasRoom(rx) => UNCHANGED vars
  BY DEF USART_RXC, vars
<1> QED
  BY <1>1, <1>2, <1>3, <1>4, <1>5, <1>6, <1>7, <1>8, <1>9, <1>10, <1>11, <1>12,
     <1>13 DEF Next

\* The receive interrupt appends behind what serial_read is looking at.
LEMMA NextReading ==
    TypeOK /\ Reading /\ [Next]_vars => Reading'
<1> SUFFICES ASSUME TypeOK, Reading, [Next]_vars PROVE Reading'
  OBVIOUS
<1> USE SerialAssumption
<1>0. rx \in Rings(RX_RING_BUFFER, AnyByte)
  BY DEF TypeOK
<1>1. ASSUME USART_RXC, HasRoom(rx) PROVE Reading'
  <2>1. Head(udr) \in AnyByte
    BY <1>1 DEF TypeOK, USART_RXC, AnyByte
  <2> DEFINE s == Stored(rx, Head(udr))
  <2>2. /\ s \in Rings(RX_RING_BUFFER, AnyByte) /\ ~Full(s, RX_RING_BUFFER)
        /\ s.tail = rx.tail
    <3>1. s \in Rings(RX_RING_BUFFER, AnyByte) /\ s.head = rx.head /\ s.tail = rx.tail
      BY <1>0, <2>1, StoredContents
    <3>2. ~Full(rx, RX_RING_BUFFER)
      BY <1>1 DEF USART_RXC, HasRoom
    <3> QED
      BY <3>1, <3>2, StoredContents, <1>0, <2>1 DEF Full
  <2>3. ~Empty(rx) => s.buffer[rx.tail] = rx.buffer[rx.tail]
    BY <1>0 DEF Stored, Rings, Empty
  <2>4. /\ rx' \in Rings(RX_RING_BUFFER, AnyByte)
        /\ rx'.tail = rx.tail /\ rx'.buffer = s.buffer
        /\ Pending(rx', RX_RING_BUFFER) = Pending(s, RX_RING_BUFFER) + 1
    BY <1>1, <2>2, AdvancedContents DEF USART_RXC
  <2>5. ~Empty(rx')
    BY <2>2, <2>4, ContentsType
  <2> QED
    BY <1>1, <2>3, <2>4, <2>5 DEF Reading, USART_RXC
<1>2. CASE read_begin
  BY <1>2 DEF Reading, read_begin, serial_available, Empty, TypeOK, Rings
<1>3. CASE read_fetch
  BY <1>3 DEF Reading, read_fetch
<1>4. CASE read_release
  BY <1>4 DEF Reading, read_release
<1>5. ASSUME NEW b \in Bytes, ByteArrives(b) \/ putc_begin(b) PROVE Reading'
  BY <1>5 DEF Reading, ByteArrives, putc_begin
<1>6. CASE putc_store \/ putc_advance \/ putc_arm
  BY <1>6 DEF Reading, putc_store, putc_advance, putc_arm
<1>7. CASE USART_UDRE \/ ByteSent
  BY <1>7 DEF Reading, USART_UDRE, ByteSent
<1>8. CASE UNCHANGED vars
  BY <1>8 DEF Reading, vars
<1>9. USART_RXC /\ ~HasRoom(rx) => UNCHANGED vars
  BY DEF USART_RXC, vars
<1> QED
  BY <1>1, <1>2, <1>3, <1>4, <1>5, <1>6, <1>7, <1>8, <1>9 DEF Next

\* The transmit interrupt only frees slots: the one serial_putc has filled
\* stays its own, and a ring with room keeps it.
LEMMA NextWriting ==
    TypeOK /\ Writing /\ Arming /\ [Next]_vars => Writing'
<1> SUFFICES ASSUME TypeOK, Writing, Arming, [Next]_vars PROVE Writing'
  OBVIOUS
<1> USE SerialAssumption
<1>0. tx \in Rings(TX_RING_BUFFER, AnyByte)
  BY DEF TypeOK
<1>1. ASSUME NEW b \in Bytes, ByteArrives(b) \/ putc_begin(b) PROVE Writing'
  BY <1>1 DEF Writing, ByteArrives, putc_begin
<1>2. CASE USART_RXC \/ read_begin \/ read_fetch \/ read_release
  BY <1>2 DEF Writing, USART_RXC, read_begin, read_fetch, read_release
<1>3. CASE putc_store
  <2>1. data \in AnyByte
    BY DEF TypeOK
  <2>2. /\ tx'.head = tx.head /\ tx'.tail = tx.tail
        /\ tx'.buffer[tx.head] = data
    BY <1>0, <1>3, <2>1, StoredContents DEF putc_store
  <2> QED
    BY <1>3, <2>2 DEF Writing, putc_store, Full
<1>4. CASE putc_advance
  BY <1>4 DEF Writing, putc_advance
<1>5. CASE putc_arm
  BY <1>5 DEF Writing, putc_arm
<1>6. CASE USART_UDRE
  <2>1. ~Empty(tx)
    BY <1>6 DEF USART_UDRE, TransmitPending, Arming
  <2>2. /\ tx' \in Rings(TX_RING_BUFFER, AnyByte)
        /\ tx'.head = tx.head /\ tx'.buffer = tx.buffer
        /\ Pending(tx', TX_RING_BUFFER) = Pending(tx, TX_RING_BUFFER) - 1
    BY <1>0, <1>6, <2>1, ReleasedContents DEF USART_UDRE
  <2>3. ~Full(tx', TX_RING_BUFFER)
    BY <1>0, <2>2, ContentsType
  <2> QED
    BY <1>6, <2>2, <2>3 DEF Writing, USART_UDRE
<1>7. CASE ByteSent
  BY <1>7 DEF Writing, ByteSent
<1>8. CASE UNCHANGED vars
  BY <1>8 DEF Writing, vars
<1> QED
  BY <1>1, <1>2, <1>3, <1>4, <1>5, <1>6, <1>7, <1>8 DEF Next

\* What enables and what may empty the transmit ring (serial_putc,
\* USART_UDRE_vect, and the time a byte takes on the wire).
LEMMA NextArming ==
    TypeOK /\ Arming /\ Writing /\ [Next]_vars => Arming'
<1> SUFFICES ASSUME TypeOK, Arming, Writing, [Next]_vars PROVE Arming'
  OBVIOUS
<1> USE SerialAssumption
<1>0. tx \in Rings(TX_RING_BUFFER, AnyByte)
  BY DEF TypeOK
<1>1. ASSUME NEW b \in Bytes, ByteArrives(b) PROVE Arming'
  <2>1. udr \in Seq(Bytes)
    BY DEF TypeOK
  <2>2. udr' # <<>>
    BY <1>1, <2>1 DEF ByteArrives
  <2>3. ReceiveBlocked => ReceiveBlocked'
    BY <1>1, <2>2 DEF ByteArrives, ReceiveBlocked, HasRoom
  <2> QED
    BY <1>1, <2>3 DEF Arming, NoLostWakeup, ByteArrives
<1>2. ASSUME NEW b \in Bytes, putc_begin(b) PROVE Arming'
  BY <1>2 DEF Arming, NoLostWakeup, putc_begin
<1>9. CASE USART_RXC
  <2>1. ReceiveBlocked => ReceiveBlocked'
    BY <1>9 DEF USART_RXC, ReceiveBlocked
  <2> QED
    BY <1>9, <2>1 DEF Arming, NoLostWakeup, USART_RXC
<1>10. CASE read_begin \/ read_fetch \/ read_release
  BY <1>10 DEF Arming, NoLostWakeup, read_begin, read_fetch, read_release
<1>3. CASE putc_store
  <2>1. data \in AnyByte
    BY DEF TypeOK
  <2>2. tx'.head = tx.head /\ tx'.tail = tx.tail
    BY <1>0, <1>3, <2>1, StoredContents DEF putc_store
  <2> QED
    BY <1>3, <2>2 DEF Arming, NoLostWakeup, Empty, putc_store
<1>4. CASE putc_advance
  <2>1. /\ tx' \in Rings(TX_RING_BUFFER, AnyByte)
        /\ Pending(tx', TX_RING_BUFFER) = Pending(tx, TX_RING_BUFFER) + 1
    BY <1>0, <1>4, AdvancedContents DEF putc_advance, Writing
  <2>2. /\ Pending(tx, TX_RING_BUFFER) \in Nat
        /\ Empty(tx) <=> Pending(tx, TX_RING_BUFFER) = 0
    BY <1>0, ContentsType
  <2>3. ~Empty(tx')
    BY <2>1, <2>2, ContentsType
  <2>4. UDRIE => Pending(tx', TX_RING_BUFFER) >= 2
    BY <2>1, <2>2 DEF Arming
  <2>5. UDRIE => wire = "full" \/ ReceiveBlocked
    BY <1>4 DEF putc_advance, Runs, TransmitPending
  <2>6. ReceiveBlocked' = ReceiveBlocked
    BY <1>4 DEF putc_advance, ReceiveBlocked, HasRoom
  <2> QED
    BY <1>4, <2>3, <2>4, <2>5, <2>6 DEF Arming, NoLostWakeup, putc_advance
<1>5. CASE putc_arm
  BY <1>5 DEF Arming, NoLostWakeup, putc_arm
<1>6. CASE USART_UDRE
  <2>1. ~Empty(tx)
    BY <1>6 DEF USART_UDRE, TransmitPending, Arming
  <2>2. /\ tx' \in Rings(TX_RING_BUFFER, AnyByte)
        /\ Pending(tx', TX_RING_BUFFER) = Pending(tx, TX_RING_BUFFER) - 1
    BY <1>0, <1>6, <2>1, ReleasedContents DEF USART_UDRE
  <2>3. /\ Pending(tx, TX_RING_BUFFER) \in Nat
        /\ Empty(tx') <=> Pending(tx', TX_RING_BUFFER) = 0
    BY <1>0, <2>2, ContentsType
  <2>4. UDRIE' <=> ~Empty(tx')
    BY <1>6 DEF USART_UDRE, StaysEnabled, Empty
  <2>5. CASE pc = "arm"
    <3>1. /\ wire = "shift" /\ shifted
          /\ Pending(tx, TX_RING_BUFFER) >= 2
      BY <1>6, <2>5 DEF USART_UDRE, TransmitPending, ReceiveBlocked, Arming
    <3>2. ~Empty(tx')
      BY <2>2, <2>3, <3>1
    <3>3. wire' = "full" /\ shifted' /\ pc' = pc
      BY <1>6, <3>1 DEF USART_UDRE
    <3> QED
      BY <2>4, <2>5, <3>2, <3>3 DEF Arming, NoLostWakeup
  <2>6. CASE pc # "arm"
    BY <1>6, <2>4, <2>6 DEF Arming, NoLostWakeup, USART_UDRE
  <2> QED
    BY <2>5, <2>6
<1>7. CASE ByteSent
  <2>1. ReceiveBlocked' = ReceiveBlocked
    BY <1>7 DEF ByteSent, ReceiveBlocked, HasRoom
  <2> QED
    BY <1>7, <2>1 DEF Arming, NoLostWakeup, ByteSent
<1>8. CASE UNCHANGED vars
  BY <1>8 DEF Arming, NoLostWakeup, vars, ReceiveBlocked, HasRoom
<1> QED
  BY <1>1, <1>2, <1>3, <1>4, <1>5, <1>6, <1>7, <1>8, <1>9, <1>10 DEF Next

\* The invariant holds in every reachable state.
THEOREM Inductive == Spec => []IInv
<1>1. IInv /\ [Next]_vars => IInv'
  BY NextType, NextReading, NextWriting, NextArming DEF IInv
<1> QED
  BY InitIInv, <1>1, PTL DEF Spec

\* Indices, bytes and flags keep their types for every size of the rings: no
\* index leaves its ring (serial.c).
THEOREM TypeCorrect == Spec => []TypeOK
<1>1. IInv => TypeOK
  BY DEF IInv
<1> QED
  BY <1>1, Inductive, PTL

\* No byte in the transmit ring waits with its interrupt disabled for ever
\* (serial_putc, USART_UDRE_vect).
THEOREM WakeupsAreKept == Spec => []NoLostWakeup
<1>1. IInv => NoLostWakeup
  BY DEF IInv, Arming
<1> QED
  BY <1>1, Inductive, PTL

\* The one wait of serial_putc that does not end: once the receive ring is full
\* and serial_putc waits for a slot, nothing the program does frees one, and the
\* main loop is left to the watchdog (serial_putc, USART_RXC_vect).
THEOREM HangsForEver == Spec => [](Hangs => []Hangs)
<1>1. TypeOK /\ Hangs /\ [Next]_vars => Hangs'
  <2> SUFFICES ASSUME TypeOK, Hangs, [Next]_vars PROVE Hangs'
    OBVIOUS
  <2>1. ASSUME NEW b \in Bytes, ByteArrives(b) PROVE Hangs'
    <3>1. udr' # <<>>
      BY <2>1 DEF ByteArrives, TypeOK
    <3> QED
      BY <2>1, <3>1 DEF Hangs, ReceiveBlocked, HasRoom, ByteArrives
  <2>2. ASSUME NEW b \in Bytes, putc_begin(b) PROVE Hangs'
    BY <2>2 DEF Hangs, putc_begin
  <2>3. CASE USART_RXC
    BY <2>3 DEF Hangs, ReceiveBlocked, USART_RXC
  <2>4. CASE USART_UDRE
    BY <2>4 DEF Hangs, ReceiveBlocked, USART_UDRE
  <2>5. CASE putc_store \/ putc_advance \/ putc_arm
    BY <2>5 DEF Hangs, putc_store, putc_advance, putc_arm
  <2>6. CASE read_begin \/ read_fetch \/ read_release
    BY <2>6 DEF Hangs, read_begin, read_fetch, read_release
  <2>7. CASE ByteSent
    BY <2>7 DEF Hangs, ReceiveBlocked, HasRoom, ByteSent
  <2>8. CASE UNCHANGED vars
    BY <2>8 DEF Hangs, ReceiveBlocked, HasRoom, vars
  <2> QED
    BY <2>1, <2>2, <2>3, <2>4, <2>5, <2>6, <2>7, <2>8 DEF Next
<1> QED
  BY <1>1, TypeCorrect, PTL DEF Spec

-----------------------------------------------------------------------------
(* The two refinements *)

\* Every step is the receive queue's: the interrupt puts, serial_read takes.
LEMMA ReceiveStep ==
    IInv /\ [Next]_vars => [Received!Next]_(Received!vars)
<1> SUFFICES ASSUME IInv, [Next]_vars PROVE [Received!Next]_(Received!vars)
  OBVIOUS
<1> USE SerialAssumption
<1> DEFINE N == RX_RING_BUFFER
<1>0. rx \in Rings(N, AnyByte)
  BY DEF IInv, TypeOK
<1>1. ASSUME USART_RXC, HasRoom(rx)
      PROVE  [Received!Next]_(Received!vars)
  <2>1. Head(udr) \in Bytes
    BY <1>1 DEF IInv, TypeOK, USART_RXC
  <2>2. Head(udr) \in AnyByte
    BY <2>1 DEF AnyByte
  <2> DEFINE s == Stored(rx, Head(udr))
  <2>3. /\ s \in Rings(N, AnyByte) /\ s.head = rx.head
        /\ ~Full(s, N) /\ s.buffer[s.head] = Head(udr)
        /\ Contents(s, N) = Contents(rx, N)
    <3>1. s \in Rings(RX_RING_BUFFER, AnyByte) /\ s.head = rx.head /\ s.tail = rx.tail
      BY <1>0, <2>2, StoredContents
    <3>2. ~Full(rx, RX_RING_BUFFER)
      BY <1>1 DEF USART_RXC, HasRoom
    <3> QED
      BY <3>1, <3>2, StoredContents, <1>0, <2>2 DEF Full
  <2>4. Contents(rx', N) = Append(Contents(rx, N), Head(udr))
    BY <1>1, <2>3, AdvancedContents DEF USART_RXC
  <2>5. Len(Contents(rx, N)) < N - 1
    BY <1>0, <1>1, ContentsType DEF USART_RXC, HasRoom
  <2>6. received' = received
    BY <1>1 DEF USART_RXC
  <2>7. Received!Put(Head(udr))
    BY <2>4, <2>5, <2>6 DEF Received!Put
  <2> QED
    BY <2>1, <2>7 DEF Received!Next
<1>2. CASE read_release
  <2>1. ~Empty(rx) /\ data = rx.buffer[rx.tail]
    BY <1>2 DEF IInv, Reading, read_release
  <2>2. /\ Contents(rx, N) # <<>>
        /\ Head(Contents(rx, N)) = data
        /\ Contents(rx', N) = Tail(Contents(rx, N))
    BY <1>0, <1>2, <2>1, ReleasedContents DEF read_release
  <2>3. Received!Take
    BY <1>2, <2>2 DEF Received!Take, read_release
  <2> QED
    BY <2>3 DEF Received!Next
<1>3. CASE rx' = rx /\ received' = received
  BY <1>3 DEF Received!vars
<1>4. ASSUME NEW b \in Bytes, ByteArrives(b) \/ putc_begin(b)
      PROVE  rx' = rx /\ received' = received
  BY <1>4 DEF ByteArrives, putc_begin
<1>5. CASE read_begin \/ read_fetch
  BY <1>3, <1>5 DEF read_begin, read_fetch
<1>6. CASE putc_store \/ putc_advance \/ putc_arm
  BY <1>3, <1>6 DEF putc_store, putc_advance, putc_arm
<1>7. CASE USART_UDRE \/ ByteSent
  BY <1>3, <1>7 DEF USART_UDRE, ByteSent
<1>8. CASE UNCHANGED vars
  BY <1>3, <1>8 DEF vars
<1>9. USART_RXC /\ ~HasRoom(rx) => UNCHANGED vars
  BY DEF USART_RXC, vars
<1> QED
  BY <1>1, <1>2, <1>3, <1>4, <1>5, <1>6, <1>7, <1>8, <1>9 DEF Next

\* Every step is the transmit queue's: serial_putc puts when it moves head, the
\* interrupt takes.
LEMMA TransmitStep ==
    IInv /\ [Next]_vars => [Transmitted!Next]_(Transmitted!vars)
<1> SUFFICES ASSUME IInv, [Next]_vars
             PROVE  [Transmitted!Next]_(Transmitted!vars)
  OBVIOUS
<1> USE SerialAssumption
<1> DEFINE N == TX_RING_BUFFER
<1>0. tx \in Rings(N, AnyByte)
  BY DEF IInv, TypeOK
<1>1. CASE putc_store
  <2>1. Contents(tx', N) = Contents(tx, N)
    BY <1>0, <1>1, StoredContents DEF putc_store, IInv, TypeOK
  <2> QED
    BY <1>1, <2>1 DEF Transmitted!vars, putc_store
<1>2. CASE putc_advance
  <2>1. ~Full(tx, N) /\ tx.buffer[tx.head] = data /\ data \in Bytes
    BY <1>2 DEF IInv, Writing, putc_advance
  <2>2. Contents(tx', N) = Append(Contents(tx, N), data)
    BY <1>0, <1>2, <2>1, AdvancedContents DEF putc_advance
  <2>3. Len(Contents(tx, N)) < N - 1
    BY <1>0, <2>1, ContentsType
  <2>4. Transmitted!Put(data)
    BY <1>2, <2>2, <2>3 DEF Transmitted!Put, putc_advance
  <2> QED
    BY <2>1, <2>4 DEF Transmitted!Next
<1>3. CASE USART_UDRE
  <2>1. ~Empty(tx)
    BY <1>3 DEF IInv, Arming, USART_UDRE, TransmitPending
  <2>2. /\ Contents(tx, N) # <<>>
        /\ Head(Contents(tx, N)) = tx.buffer[tx.tail]
        /\ Contents(tx', N) = Tail(Contents(tx, N))
    BY <1>0, <1>3, <2>1, ReleasedContents DEF USART_UDRE
  <2>3. Transmitted!Take
    BY <1>3, <2>2 DEF Transmitted!Take, USART_UDRE
  <2> QED
    BY <2>3 DEF Transmitted!Next
<1>4. CASE tx' = tx /\ sent' = sent
  BY <1>4 DEF Transmitted!vars
<1>5. ASSUME NEW b \in Bytes, ByteArrives(b) \/ putc_begin(b)
      PROVE  tx' = tx /\ sent' = sent
  BY <1>5 DEF ByteArrives, putc_begin
<1>6. CASE USART_RXC \/ read_begin \/ read_fetch \/ read_release
  BY <1>4, <1>6 DEF USART_RXC, read_begin, read_fetch, read_release
<1>7. CASE putc_arm \/ ByteSent
  BY <1>4, <1>7 DEF putc_arm, ByteSent
<1>8. CASE UNCHANGED vars
  BY <1>4, <1>8 DEF vars
<1> QED
  BY <1>1, <1>2, <1>3, <1>4, <1>5, <1>6, <1>7, <1>8 DEF Next

\* The receive direction implements a queue (USART_RXC_vect, serial_read).
THEOREM ReceiveImplementsFifo == Spec => ReceiveIsFifo
<1>1. Init => Received!Init
  BY InitIInv, EmptyContents, SerialAssumption
  DEF Init, IInv, TypeOK, Empty, Received!Init
<1> QED
  BY <1>1, ReceiveStep, Inductive, PTL DEF Spec, ReceiveIsFifo, Received!Spec

\* The transmit direction implements a queue (serial_putc, USART_UDRE_vect).
THEOREM TransmitImplementsFifo == Spec => TransmitIsFifo
<1>1. Init => Transmitted!Init
  BY InitIInv, EmptyContents, SerialAssumption
  DEF Init, IInv, TypeOK, Empty, Transmitted!Init
<1> QED
  BY <1>1, TransmitStep, Inductive, PTL DEF Spec, TransmitIsFifo, Transmitted!Spec
=============================================================================
