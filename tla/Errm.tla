-------------------------------- MODULE Errm --------------------------------
(***************************************************************************)
(* The error manager of the power board (lib/errm): an array of the latest *)
(* errors, newest first, of which the first errm_count entries are valid.  *)
(* An error is its weight, all that errm_add tells errors apart by.  An    *)
(* entry that was never written has a null template: its weight is         *)
(* whatever the ATmega8 finds at that address.                             *)
(***************************************************************************)
EXTENDS Integers, SequencesExt

CONSTANTS
    ERRM_COUNT_MAX,  \* size of errm_errors (5)
    Weights,         \* the weights of error_templates.h
    NullWeights      \* what the weight of a null template may read as

Severe == 10     \* weight of an error that stops the board
Unwritten == -1

VARIABLES
    errm_errors,  \* entry i + 1 is errm_errors[i]
    errm_count,
    raised        \* history: a severe error was added since the last clear

vars == <<errm_errors, errm_count, raised>>

Init ==
    /\ errm_errors = [i \in 1 .. ERRM_COUNT_MAX |-> Unwritten]
    /\ errm_count = 0
    /\ raised = FALSE

\* The shift runs from the front, so it reads entries it has just written.
\* The last valid entry keeps an error of weight 10 or more; `stray' is the
\* weight read through a null template.
Shifted(errors, count, stray) ==
    LET Weight(w) == IF w = Unwritten THEN stray ELSE w
        Step(e, i) == IF i < count - 1 \/ Weight(e[i + 1]) < Severe
                      THEN [e EXCEPT ![i + 1] = e[i]] ELSE e
    IN  FoldLeft(Step, errors, [i \in 1 .. count - 1 |-> i])

errm_add(w) ==
    /\ errm_count' = IF errm_count < ERRM_COUNT_MAX THEN errm_count + 1
                     ELSE errm_count
    /\ \E stray \in NullWeights :
          errm_errors' = [Shifted(errm_errors, errm_count', stray) EXCEPT ![1] = w]
    /\ raised' = (raised \/ w >= Severe)

errm_clear ==
    /\ errm_count' = 0
    /\ raised' = FALSE
    /\ UNCHANGED errm_errors

Next == (\E w \in Weights : errm_add(w)) \/ errm_clear

Spec == Init /\ [][Next]_vars
-----------------------------------------------------------------------------
\* errm.h: of the errors of weight 10 or more at least one stays in the array
\* until the errors are cleared.
SevereErrorStays ==
    raised => \E i \in 1 .. errm_count : errm_errors[i] >= Severe
=============================================================================
