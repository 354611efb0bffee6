------------------------------- MODULE Serial -------------------------------
(***************************************************************************)
(* lib/serial: two ring buffers between the main loop and the USART        *)
(* interrupts.  An interrupt handler is one step (interrupts are disabled  *)
(* in it); serial_putc and serial_read are cut at every access to an index *)
(* they share with a handler.                                              *)
(*                                                                         *)
(* The USART itself is external: it keeps two received bytes and, towards  *)
(* the wire, a shift register behind UDR.  A byte takes 1 ms on the wire,  *)
(* a statement of the main loop a few cycles: at most one byte is shifted  *)
(* out between the last two statements of serial_putc.  The receive        *)
(* interrupt comes before the transmit interrupt, and one instruction of   *)
(* the main loop runs between two handlers: the main loop waits for a      *)
(* pending transmit interrupt, but a receive handler that leaves its byte  *)
(* in UDR is called again and again, with the main loop creeping on and    *)
(* the transmit interrupt never served.                                    *)
(*                                                                         *)
(* Definitions named _fault... are no part of the model, see README.md.    *)
(***************************************************************************)
EXTENDS SerialRing

CONSTANTS
    RX_RING_BUFFER,  \* SERIAL_RX_BUFFER_SIZE + 1 (65)
    TX_RING_BUFFER,  \* SERIAL_TX_BUFFER_SIZE + 1 (129)
    Bytes,
    SERIAL_NO_DATA   \* before the first byte is read or sent

ASSUME SerialAssumption ==
    /\ RX_RING_BUFFER \in Nat \ {0, 1}
    /\ TX_RING_BUFFER \in Nat \ {0, 1}

VARIABLES
    pc,        \* where the main loop is: outside, in serial_read or serial_putc
    data,      \* serial_read's and serial_putc's local
    rx, tx,    \* the rings
    received,  \* byte returned by the last serial_read
    sent,      \* byte the last transmit interrupt wrote to UDR
    UDRIE,     \* transmit interrupt enabled
    udr,       \* received bytes in the USART
    wire,      \* transmitter: idle, a byte in the shift register, UDR full too
    shifted    \* a byte has left the wire since serial_putc moved head

vars == <<pc, data, rx, tx, received, sent, UDRIE, udr, wire, shifted>>

AnyByte == Bytes \cup {SERIAL_NO_DATA}
UsartDepth == 2

Init ==
    /\ pc = "idle"
    /\ data = SERIAL_NO_DATA
    /\ rx = [buffer |-> [i \in 0 .. RX_RING_BUFFER - 1 |-> SERIAL_NO_DATA],
             head |-> 0, tail |-> 0]
    /\ tx = [buffer |-> [i \in 0 .. TX_RING_BUFFER - 1 |-> SERIAL_NO_DATA],
             head |-> 0, tail |-> 0]
    /\ received = SERIAL_NO_DATA
    /\ sent = SERIAL_NO_DATA
    /\ UDRIE = FALSE
    /\ udr = <<>>
    /\ wire = "idle"
    /\ shifted = FALSE

-----------------------------------------------------------------------------
(* Receiving *)

\* A byte comes in; the USART drops it when it has no room.
ByteArrives(b) ==
    /\ Len(udr) < UsartDepth
    /\ udr' = Append(udr, b)
    /\ UNCHANGED <<pc, data, rx, tx, received, sent, UDRIE, wire, shifted>>

HasRoom_faultUnchecked(r) == TRUE
HasRoom(r) == ~Full(r, RX_RING_BUFFER)

\* When the ring is full UDR is not read and the interrupt stays pending.
USART_RXC ==
    /\ udr # <<>>
    /\ IF HasRoom(rx)
       THEN /\ rx' = Advanced(Stored(rx, Head(udr)), RX_RING_BUFFER)
            /\ udr' = Tail(udr)
       ELSE UNCHANGED <<rx, udr>>
    /\ UNCHANGED <<pc, data, tx, received, sent, UDRIE, wire, shifted>>

\* The receive interrupt is pending and its handler cannot change that.
ReceiveBlocked == udr # <<>> /\ ~HasRoom(rx)

\* The main loop runs on when no transmit interrupt is to be served first.
TransmitPending == UDRIE /\ wire # "full"
Runs == TransmitPending => ReceiveBlocked

\* uart_loop reads when serial_available says so.
read_begin ==
    /\ pc = "idle" /\ Runs
    /\ serial_available(rx, RX_RING_BUFFER) # 0
    /\ pc' = "fetch"
    /\ UNCHANGED <<data, rx, tx, received, sent, UDRIE, udr, wire, shifted>>

read_fetch ==
    /\ pc = "fetch" /\ Runs
    /\ data' = rx.buffer[rx.tail]
    /\ pc' = "release"
    /\ UNCHANGED <<rx, tx, received, sent, UDRIE, udr, wire, shifted>>

read_release ==
    /\ pc = "release" /\ Runs
    /\ rx' = Released(rx, RX_RING_BUFFER)
    /\ received' = data
    /\ pc' = "idle"
    /\ UNCHANGED <<data, tx, sent, UDRIE, udr, wire, shifted>>

-----------------------------------------------------------------------------
(* Transmitting *)

putc_begin(b) ==
    /\ pc = "idle" /\ Runs
    /\ data' = b
    /\ pc' = "store"
    /\ UNCHANGED <<rx, tx, received, sent, UDRIE, udr, wire, shifted>>

\* The loop that waits for a free slot has ended.
putc_store ==
    /\ pc = "store" /\ Runs
    /\ ~Full(tx, TX_RING_BUFFER)
    /\ tx' = Stored(tx, data)
    /\ pc' = "advance"
    /\ UNCHANGED <<data, rx, received, sent, UDRIE, udr, wire, shifted>>

putc_advance ==
    /\ pc = "advance" /\ Runs
    /\ tx' = Advanced(tx, TX_RING_BUFFER)
    /\ pc' = "arm"
    /\ shifted' = FALSE
    /\ UNCHANGED <<data, rx, received, sent, UDRIE, udr, wire>>

putc_arm_faultNotEnabled ==
    /\ pc = "arm" /\ Runs
    /\ pc' = "idle"
    /\ UNCHANGED <<data, rx, tx, received, sent, UDRIE, udr, wire, shifted>>

putc_arm ==
    /\ pc = "arm" /\ Runs
    /\ UDRIE' = TRUE
    /\ pc' = "idle"
    /\ UNCHANGED <<data, rx, tx, received, sent, udr, wire, shifted>>

\* Whether the transmit interrupt stays enabled with the ring r it leaves.
StaysEnabled_faultAlways(r) == TRUE
StaysEnabled(r) == ~Empty(r)

\* The interrupt with the higher priority is served first.
USART_UDRE ==
    /\ TransmitPending /\ udr = <<>>
    /\ sent' = tx.buffer[tx.tail]
    /\ tx' = Released(tx, TX_RING_BUFFER)
    /\ UDRIE' = StaysEnabled(tx')
    /\ wire' = IF wire = "idle" THEN "shift" ELSE "full"
    /\ UNCHANGED <<pc, data, rx, received, udr, shifted>>

ByteSent ==
    /\ wire # "idle"
    /\ ~(pc = "arm" /\ shifted)
    /\ wire' = IF wire = "full" THEN "shift" ELSE "idle"
    /\ shifted' = (pc = "arm")
    /\ UNCHANGED <<pc, data, rx, tx, received, sent, UDRIE, udr>>

Next ==
    \/ \E b \in Bytes : ByteArrives(b) \/ putc_begin(b)
    \/ USART_RXC \/ read_begin \/ read_fetch \/ read_release
    \/ putc_store \/ putc_advance \/ putc_arm
    \/ USART_UDRE \/ ByteSent

Spec == Init /\ [][Next]_vars

\* The main loop and the interrupts run, the transmitter shifts.
Fairness ==
    /\ WF_vars(read_fetch) /\ WF_vars(read_release)
    /\ WF_vars(putc_store) /\ WF_vars(putc_advance) /\ WF_vars(putc_arm)
    /\ WF_vars(USART_RXC) /\ WF_vars(USART_UDRE) /\ WF_vars(ByteSent)

FairSpec == Spec /\ Fairness
-----------------------------------------------------------------------------
(* Properties *)

TypeOK ==
    /\ pc \in {"idle", "fetch", "release", "store", "advance", "arm"}
    /\ data \in AnyByte
    /\ rx \in Rings(RX_RING_BUFFER, AnyByte)
    /\ tx \in Rings(TX_RING_BUFFER, AnyByte)
    /\ received \in AnyByte
    /\ sent \in AnyByte
    /\ UDRIE \in BOOLEAN
    /\ udr \in Seq(Bytes) /\ Len(udr) <= UsartDepth
    /\ wire \in {"idle", "shift", "full"}
    /\ shifted \in BOOLEAN

\* The receive ring is a queue: between the interrupt that fills it and the
\* loop that empties it no byte is lost, repeated, reordered or read before it
\* is written (USART_RXC_vect, serial_read).
Received == INSTANCE Fifo WITH
    Items <- Bytes, Capacity <- RX_RING_BUFFER - 1,
    queue <- Contents(rx, RX_RING_BUFFER), taken <- received
ReceiveIsFifo == Received!Spec

\* The transmit ring is a queue: the interrupt never sends a slot that
\* serial_putc has not filled, also when it empties the ring in the middle of
\* serial_putc (serial_putc, USART_UDRE_vect).
Transmitted == INSTANCE Fifo WITH
    Items <- Bytes, Capacity <- TX_RING_BUFFER - 1,
    queue <- Contents(tx, TX_RING_BUFFER), taken <- sent
TransmitIsFifo == Transmitted!Spec

\* No wakeup is lost: bytes left in the ring have the transmit interrupt
\* enabled, or serial_putc is about to enable it (serial_putc,
\* USART_UDRE_vect).
NoLostWakeup == ~Empty(tx) => UDRIE \/ pc = "arm"

\* serial_putc waits for a slot of the transmit ring while the receive
\* interrupt, with nobody to empty its ring, keeps the transmit interrupt from
\* freeing one: only the watchdog ends this.
Hangs == pc = "store" /\ Full(tx, TX_RING_BUFFER) /\ ReceiveBlocked

\* serial_putc, which blocks the main loop while the ring is full, returns: a
\* full ring has its interrupt enabled, and the only thing that holds the
\* interrupt off for good is a receive ring that filled up during the wait
\* (serial_putc, USART_UDRE_vect, USART_RXC_vect).
PutcReturns == pc = "store" ~> pc = "idle" \/ Hangs
=============================================================================
