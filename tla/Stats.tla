------------------------------- MODULE Stats -------------------------------
(***************************************************************************)
(* The energy counter of the control board: stats_new_state is called with *)
(* every status of the power board and when the status is lost.            *)
(* Definitions named _fault... are no part of the model, see README.md.    *)
(***************************************************************************)
EXTENDS Naturals

CONSTANTS
    Powers,     \* W * 10, as multiplied out of voltage and current
    Intervals,  \* between two calls, in seconds
    MaxCovered  \* bound: seconds with a valid status

UInt16 == 65536
WattHour == 36000

ASSUME StatsAssumption ==
    /\ 0 \in Powers /\ Powers \subseteq 0 .. UInt16 - 1
    /\ Intervals \subseteq Nat \ {0}
    /\ MaxCovered \in Nat

VARIABLES
    energy, energy_Ws10,
    power,       \* of the last status that came without a gap before it
    prev_valid,
    covered,     \* history: seconds between two valid statuses
    peak         \* history: the largest power reported

statsVars == <<energy, energy_Ws10, power, prev_valid, covered, peak>>

StatsInit ==
    /\ energy = 0 /\ energy_Ws10 = 0
    /\ power = 0
    /\ prev_valid = FALSE
    /\ covered = 0 /\ peak = 0

\* energy_Ws10 has 16 bits: a power or an interval that is too large wraps it.
Accumulated(dt) == (energy_Ws10 + power * dt) % UInt16

\* Whether the time since the last call is counted.
Counts_faultCurrentOnly(valid) == valid
Counts(valid) == valid /\ prev_valid

\* p is what the status shows, 0 for a duty of 0; dt is now - last_ms.
stats_new_state(valid, p, dt) ==
    LET total == IF Counts(valid) THEN Accumulated(dt) ELSE energy_Ws10
    IN  /\ energy_Ws10' = total % WattHour
        /\ energy' = energy + total \div WattHour
        /\ power' = IF Counts(valid) THEN p ELSE power
        /\ prev_valid' = valid

Reported(p, dt) ==
    /\ covered + dt <= MaxCovered
    /\ stats_new_state(TRUE, p, dt)
    /\ covered' = IF prev_valid THEN covered + dt ELSE covered
    /\ peak' = IF p > peak THEN p ELSE peak

StatusLost(dt) ==
    /\ prev_valid
    /\ stats_new_state(FALSE, 0, dt)
    /\ UNCHANGED <<covered, peak>>

StatsReboot ==
    /\ energy' = 0 /\ energy_Ws10' = 0
    /\ power' = 0 /\ prev_valid' = FALSE
    /\ covered' = 0 /\ peak' = 0

StatsNext ==
    \/ \E dt \in Intervals : StatusLost(dt) \/ \E p \in Powers : Reported(p, dt)
    \/ StatsReboot

StatsSpec == StatsInit /\ [][StatsNext]_statsVars

-----------------------------------------------------------------------------
StatsTypeOK ==
    /\ energy \in Nat
    /\ energy_Ws10 \in 0 .. WattHour - 1
    /\ power \in 0 .. UInt16 - 1
    /\ prev_valid \in BOOLEAN
    /\ covered \in 0 .. MaxCovered
    /\ peak \in 0 .. UInt16 - 1

\* However often the status comes and goes, the energy counted is no more than
\* the largest power reported could make while there was a status: time without
\* one is not counted, also not with the interval after it (stats.cpp:11-36).
NoEnergyFromGaps == energy * WattHour + energy_Ws10 <= peak * covered
=============================================================================
