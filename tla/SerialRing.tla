----------------------------- MODULE SerialRing -----------------------------
(***************************************************************************)
(* The ring buffers of lib/serial: r is a record of the buffer and of the  *)
(* uint8_t indices head (next slot to write) and tail (next slot to read), *)
(* n its number of slots, one more than its capacity.                      *)
(***************************************************************************)
EXTENDS Integers, Sequences

Rings(n, items) ==
    [buffer : [0 .. n - 1 -> items], head : 0 .. n - 1, tail : 0 .. n - 1]

\* The slot after slot i.  (A definition named _fault... is a plausible mistake
\* in the one that follows it, no part of the model.)
Slot_faultNoWrap(i, n) == i + 1
Slot(i, n) == IF i + 1 = n THEN 0 ELSE i + 1

Empty(r) == r.head = r.tail
Full(r, n) == Slot(r.head, n) = r.tail

\* How many bytes the ring holds and which, oldest first.
Pending(r, n) ==
    IF r.head >= r.tail THEN r.head - r.tail ELSE n - (r.tail - r.head)

Wrapped(i, n) == IF i < n THEN i ELSE i - n

Contents(r, n) ==
    [k \in 1 .. Pending(r, n) |-> r.buffer[Wrapped(r.tail + k - 1, n)]]

Stored(r, b) == [r EXCEPT !.buffer[r.head] = b]
Advanced(r, n) == [r EXCEPT !.head = Slot(r.head, n)]
Released(r, n) == [r EXCEPT !.tail = Slot(r.tail, n)]

\* serial_available: the wrapped case subtracts from the capacity, not from
\* the number of slots.
serial_available(r, n) ==
    IF r.head >= r.tail THEN r.head - r.tail ELSE n - 1 - (r.tail - r.head)
=============================================================================
