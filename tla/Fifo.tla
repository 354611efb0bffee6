-------------------------------- MODULE Fifo --------------------------------
(***************************************************************************)
(* What either direction of the serial port promises: a queue of at most   *)
(* Capacity bytes that come out in the order they went in, each once.      *)
(***************************************************************************)
EXTENDS Naturals, Sequences

CONSTANTS Items, Capacity

VARIABLES
    queue,  \* bytes that have been put and not taken yet
    taken   \* the byte taken last

vars == <<queue, taken>>

Init == queue = <<>>

Put(x) ==
    /\ Len(queue) < Capacity
    /\ queue' = Append(queue, x)
    /\ UNCHANGED taken

Take ==
    /\ queue # <<>>
    /\ taken' = Head(queue)
    /\ queue' = Tail(queue)

Next == (\E x \in Items : Put(x)) \/ Take

Spec == Init /\ [][Next]_vars
=============================================================================
