---------------------------- MODULE MCPowerBoard ----------------------------
(* Constants of the model-checking runs of PowerBoard: the order and the   *)
(* ratios of the code's constants at the size of a few units.              *)
EXTENDS PowerBoard

\* A pass takes no time that matters or one unit; the voltage is normal, in the
\* hysteresis band, tripping or disconnecting; a duty is cut by MinDuty, by
\* Hbridge_duty_max or by neither (0 is where the board starts).
MCPassTimes == {0, 1}
MCSteadyPassTimes == {1}
MCVoltages == {10, 60, 75, 90}
MCTrippingVoltages == {10, 75}
MCDuties == {2, 4}
MCFullDuty == {4}
=============================================================================
