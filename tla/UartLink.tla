------------------------------ MODULE UartLink ------------------------------
(***************************************************************************)
(* The control board's messages on their way into the power board: a wire  *)
(* that may lose bytes, the receive ring and the parser of uart_loop.  A   *)
(* message is the letter of a datapoint and three digits; a byte is known  *)
(* by the message it comes from and its position there, of which the       *)
(* parser sees only whether it is a letter (position 0) or a digit.        *)
(*                                                                         *)
(* The receive interrupt and serial_read are atomic here: Serial.tla shows *)
(* that together they are a queue.  Definitions named _fault... are no     *)
(* part of the model, see README.md.                                       *)
(***************************************************************************)
EXTENDS SerialRing

CONSTANTS
    RX_RING_BUFFER,  \* slots of the receive ring
    MaxMessages,     \* bound: messages the control board sends
    MaxLost          \* bound: bytes lost on the wire

ASSUME LinkAssumption ==
    /\ RX_RING_BUFFER \in Nat \ {0, 1}
    /\ MaxMessages \in Nat \ {0}
    /\ MaxLost \in Nat

Digits == 3          \* digits of a message
BuffSize == 8        \* sizeof buff
Message == 1 .. MaxMessages
Byte == [msg : Message, pos : 0 .. Digits]

VARIABLES
    next,      \* the byte the control board sends next
    lost,      \* how many bytes were lost so far
    rx,        \* the receive ring
    pc,        \* uart_loop's while loop, or the rest of loop()
    in_msg,
    parsed_dp, \* the datapoint whose letter was read: the letter itself
    buff,      \* the digits collected, buff_index is its length
    executed   \* history: what process_value was called with

linkVars == <<next, lost, rx, pc, in_msg, parsed_dp, buff, executed>>

First == [msg |-> 1, pos |-> 0]

LinkInit ==
    /\ next = First
    /\ lost = 0
    /\ rx = [buffer |-> [i \in 0 .. RX_RING_BUFFER - 1 |-> First],
             head |-> 0, tail |-> 0]
    /\ pc = "parse"
    /\ in_msg = FALSE
    /\ parsed_dp = First
    /\ buff = <<>>
    /\ executed = <<>>

-----------------------------------------------------------------------------
(* The wire *)

Sent ==
    /\ next.msg <= MaxMessages
    /\ next' = IF next.pos < Digits THEN [next EXCEPT !.pos = @ + 1]
               ELSE [msg |-> next.msg + 1, pos |-> 0]

Receive ==
    /\ Sent
    /\ ~Full(rx, RX_RING_BUFFER)
    /\ rx' = Advanced(Stored(rx, next), RX_RING_BUFFER)
    /\ UNCHANGED <<lost, pc, in_msg, parsed_dp, buff, executed>>

\* By interference, or because ring and USART are full.
Lose ==
    /\ Sent
    /\ lost < MaxLost
    /\ lost' = lost + 1
    /\ UNCHANGED <<rx, pc, in_msg, parsed_dp, buff, executed>>

-----------------------------------------------------------------------------
(* uart_loop *)

isDigit(c) == c.pos # 0
Oldest == rx.buffer[rx.tail]

\* The loop reads the next byte c.
Read(c) ==
    /\ pc = "parse"
    /\ serial_available(rx, RX_RING_BUFFER) # 0
    /\ c = Oldest
    /\ rx' = Released(rx, RX_RING_BUFFER)
    /\ UNCHANGED <<next, lost, pc>>

\* Outside a message only a datapoint's letter counts.
StartMessage(c) ==
    /\ Read(c)
    /\ ~in_msg
    /\ IF isDigit(c) THEN UNCHANGED <<in_msg, parsed_dp>>
       ELSE in_msg' = TRUE /\ parsed_dp' = c
    /\ UNCHANGED <<buff, executed>>

\* What a letter in the middle of a message leaves of the digits so far.
AfterMalformed_faultKept(digits) == digits
AfterMalformed(digits) == <<>>

\* The letter is not taken for the start of the next message.
Malformed(c) ==
    /\ Read(c)
    /\ in_msg /\ ~isDigit(c)
    /\ in_msg' = FALSE
    /\ buff' = AfterMalformed(buff)
    /\ UNCHANGED <<parsed_dp, executed>>

\* The number of digits with which a message is complete.
Complete_faultOneMore(digits) == Len(digits) = Digits + 1
Complete(digits) == Len(digits) = Digits

CollectDigit(c) ==
    LET digits == Append(buff, c)
        ends   == Len(digits) >= BuffSize \/ Complete(digits)
    IN  /\ Read(c)
        /\ in_msg /\ isDigit(c)
        /\ in_msg' = ~ends
        /\ buff' = IF ends THEN <<>> ELSE digits
        /\ executed' = IF Len(digits) < BuffSize /\ Complete(digits)
                       THEN Append(executed, [dp |-> parsed_dp, value |-> digits])
                       ELSE executed
        /\ UNCHANGED parsed_dp

\* serial_available() returned 0: the loop does the rest of its pass.
LoopEnd ==
    /\ pc = "parse"
    /\ serial_available(rx, RX_RING_BUFFER) = 0
    /\ pc' = "rest"
    /\ UNCHANGED <<next, lost, rx, in_msg, parsed_dp, buff, executed>>

NextPass ==
    /\ pc = "rest"
    /\ pc' = "parse"
    /\ UNCHANGED <<next, lost, rx, in_msg, parsed_dp, buff, executed>>

LinkNext ==
    \/ Receive \/ Lose
    \/ \E c \in Byte : StartMessage(c) \/ Malformed(c) \/ CollectDigit(c)
    \/ LoopEnd \/ NextPass

LinkSpec == LinkInit /\ [][LinkNext]_linkVars
-----------------------------------------------------------------------------
(* Properties *)

\* No message ever overruns the digit buffer, "this should never happen" of
\* uart_loop: whatever is lost, at most two digits are waiting for a third.
LinkTypeOK ==
    /\ next \in [msg : 1 .. MaxMessages + 1, pos : 0 .. Digits]
    /\ lost \in 0 .. MaxLost
    /\ rx \in Rings(RX_RING_BUFFER, Byte)
    /\ pc \in {"parse", "rest"}
    /\ in_msg \in BOOLEAN
    /\ parsed_dp \in Byte
    /\ buff \in Seq(Byte) /\ Len(buff) < Digits /\ (~in_msg => buff = <<>>)
    /\ executed \in Seq([dp : Byte, value : Seq(Byte)])

IsWhole(call) ==
    call.value = [k \in 1 .. Digits |-> [msg |-> call.dp.msg, pos |-> k]]

\* A single lost byte never makes up a command: what is executed is a message
\* the control board sent, digits of two messages are never put together
\* (uart_loop's parser).
OneLossNeverMixes ==
    lost <= 1 => \A i \in 1 .. Len(executed) : IsWhole(executed[i])

\* A lost byte costs at most two messages: the parser is in step again with
\* the second letter it reads (uart_loop's parser).
LossCostsTwoMessages ==
    next.pos = 0 /\ Empty(rx) =>
        (next.msg - 1) - Len(executed) <= 2 * lost

\* serial.c: serial_available returns the number of bytes available for read,
\* so when uart_loop stops reading nothing is left.
NothingLeftUnread == [][LoopEnd => Empty(rx)]_linkVars
=============================================================================
