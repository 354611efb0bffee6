-------------------------------- MODULE Fan --------------------------------
(***************************************************************************)
(* The power board's fan, as ADC_loop sets it every 800 ms from the two    *)
(* temperatures, two settings and the duty the control board asks for.     *)
(* Definitions named _fault... are no part of the model, see README.md.    *)
(***************************************************************************)
EXTENDS Naturals

CONSTANTS
    HeatsinkTemps,   \* in tenths of a degree
    RectifierTemps,
    FanTempOffs,     \* settings, in half degrees
    FanTempSpans,    \* kFanTempFull - kFanTempOff
    FanManuals

FAN_TEMPERATURE_RECTIFIER_THRESHOLD == 450
Word16 == 65536

\* What map_uint16 multiplies by 255 must fit in 16 bits; half a degree counts 5.
ASSUME FanAssumption ==
    /\ HeatsinkTemps \cup RectifierTemps \subseteq 0 .. Word16 - 1
    /\ FanTempOffs \subseteq 0 .. 204
    /\ FanTempSpans \subseteq 1 .. 51
    /\ FanManuals \subseteq 0 .. 255

VARIABLES
    temp_off, temp_full,
    temperature_heatsink, temperature_rectifier,
    fan_manual,
    fan,             \* the duty of its PWM
    asked            \* history: fan_manual when fan was set

fanVars == <<temp_off, temp_full, temperature_heatsink, temperature_rectifier,
             fan_manual, fan, asked>>

Larger(a, b) == IF a > b THEN a ELSE b

\* All of it is done in 16 bits.
map_uint16(x, in_min, in_max, out_min, out_max) ==
    ((((x - in_min) * (out_max - out_min)) % Word16) \div (in_max - in_min) + out_min) % Word16

FanHeatsink(heatsink) ==
    CASE heatsink < temp_off -> 0
      [] heatsink > temp_full -> 255
      [] OTHER -> map_uint16(heatsink, temp_off, temp_full, 0, 255)

\* The threshold the rectifier is compared with.
RectifierThreshold_faultReversed ==
    IF fan > 0 THEN FAN_TEMPERATURE_RECTIFIER_THRESHOLD + 5
               ELSE FAN_TEMPERATURE_RECTIFIER_THRESHOLD - 5
RectifierThreshold ==
    IF fan > 0 THEN FAN_TEMPERATURE_RECTIFIER_THRESHOLD - 5
               ELSE FAN_TEMPERATURE_RECTIFIER_THRESHOLD + 5

FanRectifier(rectifier) == IF rectifier > RectifierThreshold THEN 255 ELSE 0

\* The fan does not start below 45.
Startable(duty) == IF duty \in 1 .. 44 THEN 45 ELSE duty

FanUpdate(heatsink, rectifier) ==
    /\ temperature_heatsink' = heatsink
    /\ temperature_rectifier' = rectifier
    /\ fan' = Startable(Larger(fan_manual, Larger(FanHeatsink(heatsink),
                                                  FanRectifier(rectifier))))
    /\ asked' = fan_manual
    /\ UNCHANGED <<temp_off, temp_full, fan_manual>>

cmnd_fan(duty) ==
    /\ fan_manual' = duty
    /\ UNCHANGED <<temp_off, temp_full, temperature_heatsink, temperature_rectifier, fan,
                   asked>>

FanInit ==
    /\ \E off \in FanTempOffs, span \in FanTempSpans :
          temp_off = 5 * off /\ temp_full = 5 * (off + span)
    /\ temperature_heatsink = 0 /\ temperature_rectifier = 0
    /\ fan_manual = 0
    /\ fan = 0 /\ asked = 0

FanNext ==
    \/ \E heatsink \in HeatsinkTemps, rectifier \in RectifierTemps :
          FanUpdate(heatsink, rectifier)
    \/ \E duty \in FanManuals : cmnd_fan(duty)

FanSpec == FanInit /\ [][FanNext]_fanVars

-----------------------------------------------------------------------------
FanTypeOK ==
    /\ temp_off \in 0 .. 1275 /\ temp_full \in 0 .. 1275 /\ temp_off < temp_full
    /\ temperature_heatsink \in 0 .. Word16 - 1
    /\ temperature_rectifier \in 0 .. Word16 - 1
    /\ fan_manual \in 0 .. 255
    /\ fan \in {0} \cup 45 .. 255
    /\ asked \in 0 .. 255

\* While both temperatures rise the fan never slows down, unless the control
\* board asked for less: neither the 16-bit mapping nor the hysteresis, which
\* also looks at a fan that turns for the heatsink, takes air away
\* (adc.cpp:163-178).
HotterNeverSlower ==
    [][/\ temperature_heatsink' >= temperature_heatsink
       /\ temperature_rectifier' >= temperature_rectifier
       /\ asked' >= asked
       => fan' >= fan]_fanVars
=============================================================================
