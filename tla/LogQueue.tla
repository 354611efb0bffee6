------------------------------ MODULE LogQueue ------------------------------
(***************************************************************************)
(* What the control board's log promises to who prints its new records: a  *)
(* queue of the newest Capacity of them, in the order they were added,     *)
(* that a reset keeps.  A reset in the middle of adding to a full queue    *)
(* empties it; so does a loss of power, which also erases the memory.      *)
(* A reset that comes between a loss of power and the end of setting up    *)
(* the new log may have memory taken for records.                          *)
(***************************************************************************)
EXTENDS Naturals, Sequences

CONSTANTS
    Records, Capacity,
    Leftovers  \* what memory holds that is no record

VARIABLES
    unread,  \* records added and not printed yet, oldest first
    board    \* blank: no log; starting: setting up a new one; up; reset

vars == <<unread, board>>

Init == unread = <<>> /\ board = "blank"

Put(r) ==
    /\ board = "up"
    /\ unread' = IF Len(unread) < Capacity THEN Append(unread, r)
                                           ELSE Append(Tail(unread), r)
    /\ UNCHANGED board

Take ==
    /\ board = "up"
    /\ unread # <<>>
    /\ unread' = Tail(unread)
    /\ UNCHANGED board

Reset ==
    /\ board = "up" /\ board' = "reset"
    /\ \/ UNCHANGED unread
       \/ Len(unread) = Capacity /\ unread' = <<>>

Return == board = "reset" /\ board' = "up" /\ UNCHANGED unread

PowerFails == board' = "blank" /\ unread' = <<>>

Start == board = "blank" /\ board' = "starting" /\ UNCHANGED unread

Started == board = "starting" /\ board' = "up" /\ UNCHANGED unread

CutShort ==
    /\ board \in {"blank", "starting"}
    /\ \/ board' = "blank" /\ unread' = <<>>
       \/ /\ board' = "reset"
          /\ unread' \in Seq(Records \cup Leftovers)
          /\ Len(unread') <= Capacity

Next ==
    \/ \E r \in Records : Put(r)
    \/ Take \/ Reset \/ Return \/ PowerFails \/ Start \/ Started \/ CutShort

Spec == Init /\ [][Next]_vars
=============================================================================
