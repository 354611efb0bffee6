------------------------------ MODULE RpmMeter ------------------------------
(***************************************************************************)
(* RPM.cpp: the timer interrupt debounces the pulse of the turbine and     *)
(* measures the time between two falling edges; the main loop takes it     *)
(* over through RPM_new and averages.  The interrupt may come between the  *)
(* main loop's test of RPM_new and its atomic block.  Time is in timer     *)
(* overflows, one interrupt each.                                          *)
(*                                                                         *)
(* External: the pin may have either level at every interrupt; micros().   *)
(*                                                                         *)
(* Definitions named _fault... are no part of the model, see README.md.    *)
(***************************************************************************)
EXTENDS Integers, Sequences, SequencesExt

CONSTANTS
    integrator_max,  \* settings[kRPMfilter]; with 0 no edge is ever seen
    Wrap,            \* interrupts until micros() wraps
    Standstill,      \* the main loop's limit, 1 s
    Conversion,      \* 1000000 * settings[kRPMConversion]
    AverageOf        \* N of MovingAverage

ASSUME RpmAssumption ==
    /\ integrator_max \in Nat \ {0}
    /\ Wrap \in Nat /\ Wrap > 2 * integrator_max
    /\ Standstill \in 1 .. Wrap - 1
    /\ Conversion \in Nat
    /\ AverageOf \in Nat \ {0}

VARIABLES
    integrator,
    output,      \* of the debouncer; prev_output is the same between interrupts
    edge_age,    \* micros() - last_time; Wrap: it has wrapped and may be anything
    period,
    RPM_new,
    rpm_pc,      \* main loop: loop; take, after its test; compute
    t,           \* main loop's copy of period
    lt_age,      \* micros() - lt, up to Standstill
    avg,         \* samples in the moving average, newest last
    RPM,
    turn         \* history, see Turn

rpmVars == <<integrator, output, edge_age, period, RPM_new, rpm_pc, t, lt_age,
             avg, RPM, turn>>

Interval == 0 .. Wrap - 1
Later(age, limit) == IF age < limit THEN age + 1 ELSE limit

\* since: interrupts since the last falling edge; last: the time between the
\* two edges that raised RPM_new; Wrap stands for everything longer.
Turn == [since : 0 .. Wrap, last : 0 .. Wrap]

-----------------------------------------------------------------------------
(* ISR(TIMER2_OVF_vect) *)

Integrated(level) ==
    CASE level  -> IF integrator < integrator_max THEN integrator + 1 ELSE integrator
      [] ~level -> IF integrator > 0 THEN integrator - 1 ELSE 0

Output(sum) ==
    CASE sum = 0               -> FALSE
      [] sum >= integrator_max -> TRUE
      [] OTHER                 -> output

\* now - last_time at an edge.
SinceEdge(age) == IF age < Wrap THEN {age} ELSE Interval

\* last_time after an edge is the edge, even if the main loop has not taken the
\* last period yet and this one is lost.
AfterEdge_faultKeepsTime(age) == IF RPM_new THEN age ELSE 0
AfterEdge(age) == 0

TimerInterrupt(level) ==
    LET sum     == Integrated(level)
        falling == output /\ ~Output(sum)
        age     == Later(edge_age, Wrap)
        since   == Later(turn.since, Wrap)
    IN  /\ integrator' = sum
        /\ output' = Output(sum)
        /\ lt_age' = Later(lt_age, Standstill)
        /\ IF falling
             THEN /\ edge_age' = AfterEdge(age)
                  /\ RPM_new' = TRUE
                  /\ IF RPM_new THEN UNCHANGED period ELSE period' \in SinceEdge(age)
                  /\ turn' = [since |-> 0, last |-> IF RPM_new THEN turn.last ELSE since]
             ELSE /\ edge_age' = age
                  /\ turn' = [turn EXCEPT !.since = since]
                  /\ UNCHANGED <<period, RPM_new>>
        /\ UNCHANGED <<rpm_pc, t, avg, RPM>>

-----------------------------------------------------------------------------
(* RPM_loop *)

Test ==
    /\ rpm_pc = "loop"
    /\ RPM_new
    /\ rpm_pc' = "take"
    /\ UNCHANGED <<integrator, output, edge_age, period, RPM_new, t, lt_age, avg,
                   RPM, turn>>

\* ATOMIC_BLOCK
TakePeriod ==
    /\ rpm_pc = "take"
    /\ t' = period
    /\ lt_age' = IF edge_age < Standstill THEN edge_age ELSE Standstill
    /\ RPM_new' = FALSE
    /\ rpm_pc' = "compute"
    /\ UNCHANGED <<integrator, output, edge_age, period, avg, RPM, turn>>

\* MovingAverage::process
Averaged(sample) ==
    IF Len(avg) < AverageOf THEN Append(avg, sample) ELSE Append(Tail(avg), sample)

Mean(samples) == FoldSeq(LAMBDA s, acc : s + acc, 0, samples) \div Len(samples)

Compute ==
    /\ rpm_pc = "compute"
    /\ avg' = IF t = 0 THEN <<>> ELSE Averaged(Conversion \div t)
    /\ RPM' = IF t = 0 THEN 0 ELSE Mean(avg')
    /\ rpm_pc' = "loop"
    /\ UNCHANGED <<integrator, output, edge_age, period, RPM_new, t, lt_age, turn>>

TurbineStands ==
    /\ rpm_pc = "loop"
    /\ ~RPM_new
    /\ RPM # 0
    /\ lt_age >= Standstill
    /\ RPM' = 0
    /\ avg' = <<>>
    /\ UNCHANGED <<integrator, output, edge_age, period, RPM_new, rpm_pc, t, lt_age,
                   turn>>

-----------------------------------------------------------------------------
\* last_time is 0, the start of micros().
RpmInit ==
    /\ integrator = 0 /\ output = FALSE
    /\ edge_age = 0
    /\ period = 0 /\ RPM_new = FALSE
    /\ rpm_pc = "loop"
    /\ t = 0 /\ lt_age = 0
    /\ avg = <<>> /\ RPM = 0
    /\ turn = [since |-> 0, last |-> 0]

RpmNext ==
    \/ \E level \in BOOLEAN : TimerInterrupt(level)
    \/ Test \/ TakePeriod \/ Compute \/ TurbineStands

RpmSpec == RpmInit /\ [][RpmNext]_rpmVars

-----------------------------------------------------------------------------
(* Properties *)

RpmTypeOK ==
    /\ integrator \in 0 .. integrator_max
    /\ output \in BOOLEAN
    /\ edge_age \in 0 .. Wrap
    /\ period \in Interval
    /\ RPM_new \in BOOLEAN
    /\ rpm_pc \in {"loop", "take", "compute"}
    /\ t \in Interval
    /\ lt_age \in 0 .. Standstill
    /\ avg \in Seq(Nat) /\ Len(avg) <= AverageOf
    /\ RPM \in Nat
    /\ turn \in Turn

\* The main loop is handed the time of exactly one turn, whatever the pin does
\* and however long the main loop takes: never two turns, never one shorter than
\* the filter lets through (RPM.cpp:46-61, 82-90).
PeriodIsOneTurn ==
    RPM_new /\ turn.last < Wrap =>
        period = turn.last /\ period >= 2 * integrator_max
=============================================================================
