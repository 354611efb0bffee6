--------------------------- MODULE ComponentProofs ---------------------------
(***************************************************************************)
(* Components that stand on their own, for every value of their            *)
(* constants: the energy counter, the two implementations of the lisp      *)
(* calls, the RPM measurement, the temperature and wind sensors, MQTT, fan.*)
(***************************************************************************)
EXTENDS Stats, HalSil, RpmMeter, TempSensors, WindSensor, Mqtt, Fan,
        SequenceTheorems, TLAPS

-----------------------------------------------------------------------------
(* Stats: the power that is counted next was reported, so the peak is no   *)
(* smaller.                                                                *)

Bounded ==
    /\ energy \in Nat /\ energy_Ws10 \in Nat /\ power \in Nat
    /\ prev_valid \in BOOLEAN
    /\ covered \in Nat /\ peak \in Nat
    /\ power <= peak
    /\ NoEnergyFromGaps

LEMMA Products ==
    ASSUME NEW a \in Nat, NEW b \in Nat, NEW c \in Nat, NEW d \in Nat, a <= b
    PROVE  /\ a * c \in Nat /\ a * c <= b * c
           /\ b * (c + d) = b * c + b * d
<1>1. a * c \in Nat /\ a * c <= b * c
  OBVIOUS
<1>2. b * (c + d) = b * c + b * d
  OBVIOUS
<1> QED BY <1>1, <1>2

\* What the counter splits is not lost, the sum only by its overflow.
LEMMA Split ==
    ASSUME NEW total \in Nat
    PROVE  /\ total \div WattHour \in Nat /\ total % WattHour \in Nat
           /\ (total \div WattHour) * WattHour + (total % WattHour) = total
           /\ total % UInt16 \in Nat /\ total % UInt16 <= total
<1>1. total \div WattHour \in Nat /\ total % WattHour \in Nat
  BY DEF WattHour
<1>2. (total \div WattHour) * WattHour + (total % WattHour) = total
  BY DEF WattHour
<1>3. total % UInt16 \in Nat /\ total % UInt16 <= total
  BY DEF UInt16
<1> QED BY <1>1, <1>2, <1>3

LEMMA NothingCounted ==
    ASSUME NEW e, NEW w, NEW p, NEW c, e = 0, w = 0, p = 0, c = 0
    PROVE  e * WattHour + w <= p * c
BY DEF WattHour

LEMMA ProductType == ASSUME NEW a \in Nat, NEW b \in Nat PROVE a * b \in Nat
OBVIOUS

LEMMA CountedPower ==
    ASSUME Bounded, NEW valid \in BOOLEAN, NEW p, NEW dt \in Nat,
           stats_new_state(valid, p, dt)
    PROVE  /\ energy' \in Nat /\ energy_Ws10' \in Nat
           /\ energy' * WattHour + energy_Ws10' <=
                 IF Counts(valid) THEN peak * (covered + dt) ELSE peak * covered
<1> DEFINE total == IF Counts(valid) THEN Accumulated(dt) ELSE energy_Ws10
<1>1. power * dt \in Nat /\ power * dt <= peak * dt
      /\ peak * (covered + dt) = peak * covered + peak * dt
      /\ peak * covered \in Nat /\ peak * dt \in Nat
  BY Products DEF Bounded
<1>2. /\ energy_Ws10 + power * dt \in Nat
      /\ Accumulated(dt) \in Nat /\ Accumulated(dt) <= energy_Ws10 + power * dt
  BY <1>1, Split DEF Bounded, Accumulated
<1>3. total \in Nat
  BY <1>2 DEF Bounded
<1> HIDE DEF total
<1>4. /\ energy_Ws10' = total % WattHour
      /\ energy' = energy + total \div WattHour
  BY DEF stats_new_state, total
<1>5. /\ energy' \in Nat /\ energy_Ws10' \in Nat
      /\ energy' * WattHour + energy_Ws10' = energy * WattHour + total
  BY <1>3, <1>4, Split DEF Bounded, WattHour
<1>6. energy \in Nat /\ energy_Ws10 \in Nat
      /\ energy * WattHour + energy_Ws10 <= peak * covered
  BY DEF Bounded, NoEnergyFromGaps
<1>7. CASE Counts(valid)
  BY <1>1, <1>2, <1>5, <1>6, <1>7 DEF total, WattHour
<1>8. CASE ~Counts(valid)
  <2>1. total = energy_Ws10
    BY <1>8 DEF total
  <2>2. energy' * WattHour + energy_Ws10' <= peak * covered
    BY <1>5, <1>6, <2>1
  <2> QED BY <1>5, <1>8, <2>2
<1> QED BY <1>5, <1>7, <1>8

LEMMA BoundedSteps == Bounded /\ [StatsNext]_statsVars => Bounded'
<1> SUFFICES ASSUME Bounded, [StatsNext]_statsVars PROVE Bounded'
  OBVIOUS
<1>1. ASSUME NEW dt \in Intervals, StatusLost(dt) PROVE Bounded'
  <2>1. dt \in Nat /\ stats_new_state(FALSE, 0, dt) /\ ~Counts(FALSE)
    BY <1>1, StatsAssumption DEF StatusLost, Counts
  <2>2. /\ energy' \in Nat /\ energy_Ws10' \in Nat
        /\ energy' * WattHour + energy_Ws10' <= peak * covered
    BY <2>1, CountedPower
  <2>3. power' = power /\ prev_valid' = FALSE /\ covered' = covered /\ peak' = peak
    BY <1>1, <2>1 DEF StatusLost, stats_new_state
  <2> QED BY <2>2, <2>3 DEF Bounded, NoEnergyFromGaps
<1>2. ASSUME NEW dt \in Intervals, NEW p \in Powers, Reported(p, dt) PROVE Bounded'
  <2>0. \A i \in 0 .. UInt16 - 1 : i \in Nat
    BY DEF UInt16
  <2>1. dt \in Nat /\ p \in Nat /\ stats_new_state(TRUE, p, dt)
    BY <1>2, <2>0, StatsAssumption DEF Reported
  <2>2. Counts(TRUE) <=> prev_valid
    BY DEF Counts
  <2>3. /\ energy' \in Nat /\ energy_Ws10' \in Nat
        /\ energy' * WattHour + energy_Ws10' <=
              IF Counts(TRUE) THEN peak * (covered + dt) ELSE peak * covered
    BY <2>1, CountedPower
  <2>4. /\ power' = (IF Counts(TRUE) THEN p ELSE power) /\ prev_valid' = TRUE
        /\ covered' = (IF prev_valid THEN covered + dt ELSE covered)
        /\ peak' = IF p > peak THEN p ELSE peak
    BY <1>2, <2>1 DEF Reported, stats_new_state
  <2>5. covered' \in Nat /\ peak' \in Nat /\ peak <= peak' /\ power' \in Nat /\ power' <= peak'
    <3>1. /\ power \in Nat /\ peak \in Nat /\ covered \in Nat /\ power <= peak
          /\ prev_valid \in BOOLEAN
      BY DEF Bounded
    <3>2. covered' \in Nat
      BY <2>1, <2>4, <3>1
    <3>3. peak' \in Nat /\ peak <= peak' /\ p <= peak'
      BY <2>1, <2>4, <3>1
    <3>4. power' = p \/ power' = power
      BY <2>4
    <3> QED BY <2>1, <3>1, <3>2, <3>3, <3>4
  <2>6. peak * covered' \in Nat /\ peak * covered' <= peak' * covered'
    BY <2>5, Products DEF Bounded
  <2>7. energy' * WattHour + energy_Ws10' <= peak * covered'
    <3>1. CASE prev_valid
      BY <2>2, <2>3, <2>4, <3>1
    <3>2. CASE ~prev_valid
      BY <2>2, <2>3, <2>4, <3>2
    <3> QED BY <3>1, <3>2
  <2>8. peak' * covered' \in Nat
    BY <2>5, ProductType
  <2>9. energy' * WattHour + energy_Ws10' <= peak' * covered'
    BY <2>3, <2>6, <2>7, <2>8 DEF WattHour
  <2> QED BY <2>3, <2>4, <2>5, <2>9 DEF Bounded, NoEnergyFromGaps
<1>3. CASE StatsReboot
  <2>1. /\ energy' = 0 /\ energy_Ws10' = 0 /\ power' = 0 /\ prev_valid' = FALSE
        /\ covered' = 0 /\ peak' = 0
    BY <1>3 DEF StatsReboot
  <2>2. NoEnergyFromGaps'
    BY <2>1, NothingCounted DEF NoEnergyFromGaps
  <2>3. /\ energy' \in Nat /\ energy_Ws10' \in Nat /\ power' \in Nat
        /\ covered' \in Nat /\ peak' \in Nat /\ power' <= peak'
    BY <2>1
  <2>4. prev_valid' \in BOOLEAN
    BY <2>1
  <2> QED BY <2>2, <2>3, <2>4 DEF Bounded
<1>4. CASE UNCHANGED statsVars
  BY <1>4 DEF statsVars, Bounded, NoEnergyFromGaps
<1> QED BY <1>1, <1>2, <1>3, <1>4 DEF StatsNext

\* The energy counter takes no energy from the time without a status, for any
\* power, any interval and any length of the record.
THEOREM NoEnergyFromGapsHolds == StatsSpec => []NoEnergyFromGaps
<1>1. StatsInit => Bounded
  <2> SUFFICES ASSUME StatsInit PROVE Bounded
    OBVIOUS
  <2>1. NoEnergyFromGaps
    BY NothingCounted DEF StatsInit, NoEnergyFromGaps
  <2>2. /\ energy \in Nat /\ energy_Ws10 \in Nat /\ power \in Nat
        /\ covered \in Nat /\ peak \in Nat /\ power <= peak
    BY DEF StatsInit
  <2>3. prev_valid \in BOOLEAN
    BY DEF StatsInit
  <2> QED BY <2>1, <2>2, <2>3 DEF Bounded
<1>2. Bounded /\ UNCHANGED statsVars => Bounded'
  BY BoundedSteps
<1>3. Bounded => NoEnergyFromGaps
  BY DEF Bounded
<1> QED BY <1>1, <1>2, <1>3, BoundedSteps, PTL DEF StatsSpec

-----------------------------------------------------------------------------
(* HalSil: while both run the script they hold the same values, each in    *)
(* its own representation, but for the byte two outputs share and a        *)
(* contactor that ran out on the board.                                    *)

FwType == [duty : 0 .. 255, mode : ModeRange, sw : BOOLEAN, rel : SUBSET (0 .. 3),
           strategy : Strategies, contactor : BOOLEAN, age : Nat,
           out : [DigitalOutputs -> BOOLEAN]]
SilType == [duty : 0 .. 255, mode : ModeRange, sw : BOOLEAN, rel : [0 .. 3 -> BOOLEAN],
            strategy : Strategies, contactor : BOOLEAN, out : [DigitalOutputs -> BOOLEAN]]

SameRelays == \A pin \in 1 .. 3 : sil.rel[pin] <=> Bit(pin) \in fw.rel
SameOutputs == \A o \in 1 .. 3 : sil.out[o] <=> fw.out[o]
FourthOn == Bit(POWER_REL_COUNT) \in fw.rel
SharedByte == \/ sil.out[LED_BLUE] <=> fw.out[LED_BLUE]
              \/ sil.out[LED_BLUE] <=> FourthOn
ContactorOnlyRanOut ==
    /\ fw.contactor => sil.contactor
    /\ sil.contactor /\ ~fw.contactor => fw.age >= ContactorDebounce

Alike ==
    /\ sil.strategy = "control_lisp"
    /\ ContactorOnlyRanOut /\ SameOutputs /\ SharedByte /\ SameRelays

HalTyped == fw \in FwType /\ sil \in SilType
HalIInv == HalTyped /\ (Compared => Alike) /\ SilAnswersAlike

LEMMA HalStarts == HalInit => HalIInv
<1> SUFFICES ASSUME HalInit PROVE HalIInv
  OBVIOUS
<1>1. /\ Off \in [DigitalOutputs -> BOOLEAN] /\ Off \in [0 .. 3 -> BOOLEAN]
      /\ [Off EXCEPT ![LED_BLUE] = TRUE] \in [DigitalOutputs -> BOOLEAN]
      /\ \A o \in 0 .. 3 : ~Off[o]
      /\ \A o \in 1 .. 3 : ~[Off EXCEPT ![LED_BLUE] = TRUE][o]
  <2> DEFINE lit == [Off EXCEPT ![0] = TRUE]
  <2>1. Off = [o \in 0 .. 3 |-> FALSE] /\ Off \in [0 .. 3 -> BOOLEAN]
    BY DEF Off, DigitalOutputs
  <2>2. lit \in [0 .. 3 -> BOOLEAN]
    BY <2>1
  <2>3. ASSUME NEW o \in 1 .. 3 PROVE ~lit[o]
    <3>1. o \in 0 .. 3 /\ o # 0
      OBVIOUS
    <3> QED BY <2>1, <3>1
  <2> QED BY <2>1, <2>2, <2>3 DEF DigitalOutputs, LED_BLUE
<1>2. HalTyped
  BY <1>1 DEF HalInit, FwBeginning, SilBeginning, HalTyped, FwType, SilType, ModeRange, Strategies
<1>3. Alike
  <2>1. /\ sil.strategy = "control_lisp" /\ ~fw.contactor /\ ~sil.contactor
        /\ sil.out = Off /\ sil.rel = Off /\ fw.rel = {}
        /\ fw.out = [Off EXCEPT ![LED_BLUE] = TRUE]
    BY DEF HalInit, FwBeginning, SilBeginning
  <2>2. ~sil.out[LED_BLUE] /\ ~FourthOn
    BY <1>1, <2>1 DEF LED_BLUE, FourthOn
  <2>3. SameOutputs
    BY <1>1, <2>1 DEF SameOutputs
  <2>4. SameRelays
    BY <1>1, <2>1 DEF SameRelays
  <2> QED BY <2>1, <2>2, <2>3, <2>4 DEF Alike, ContactorOnlyRanOut, SharedByte
<1>4. SilAnswersAlike
  BY DEF HalInit, NoAnswers, SilAnswersAlike
<1> QED BY <1>2, <1>3, <1>4 DEF HalIInv

\* A strategy set on the board leaves the relays and the blue LED alone.
LEMMA StrategySet ==
    ASSUME HalTyped, NEW s \in Strategies
    PROVE  /\ FwStrategy(s) \in FwType /\ FwStrategy(s).strategy = s
           /\ FwStrategy(s).rel = fw.rel /\ FwStrategy(s).age = fw.age
           /\ FwStrategy(s).out[LED_BLUE] = fw.out[LED_BLUE]
<1>1. fw \in FwType /\ fw.out \in [DigitalOutputs -> BOOLEAN]
  BY DEF HalTyped, FwType
<1>2. CASE s # "control_emergency"
  <2>1. FwStrategy(s) = [fw EXCEPT !.strategy = s]
    BY <1>2 DEF FwStrategy
  <2> QED BY <1>1, <2>1 DEF FwType
<1>3. CASE s = "control_emergency"
  <2> DEFINE out == [fw.out EXCEPT ![PUMP] = FALSE]
             e0 == [fw EXCEPT !.strategy = s]
             e1 == [e0 EXCEPT !.duty = 0, !.mode = 0]
             e2 == [e1 EXCEPT !.sw = FALSE, !.contactor = FALSE]
             e3 == [e2 EXCEPT !.out = out]
  <2>1. 0 \in 0 .. 255 /\ 0 \in ModeRange
    BY DEF ModeRange
  <2>2. e0 \in FwType /\ e0.strategy = s /\ e0.rel = fw.rel /\ e0.age = fw.age
    BY <1>1 DEF FwType
  <2>3. e1 \in FwType /\ e1.strategy = s /\ e1.rel = fw.rel /\ e1.age = fw.age
    BY <2>1, <2>2 DEF FwType
  <2>4. e2 \in FwType /\ e2.strategy = s /\ e2.rel = fw.rel /\ e2.age = fw.age
    BY <2>3 DEF FwType
  <2>5. out \in [DigitalOutputs -> BOOLEAN] /\ out[LED_BLUE] = fw.out[LED_BLUE]
    BY <1>1 DEF DigitalOutputs, LED_BLUE, PUMP
  <2>6. /\ e3 \in FwType /\ e3.strategy = s /\ e3.rel = fw.rel /\ e3.age = fw.age
        /\ e3.out = out
    BY <2>4, <2>5 DEF FwType
  <2>7. FwStrategy(s) = e3
    BY <1>1, <1>3 DEF FwStrategy, FwType
  <2> QED BY <2>5, <2>6, <2>7
<1> QED BY <1>2, <1>3

\* A call that is answered alike, or only asks, keeps what holds.
LEMMA CallKeeps ==
    ASSUME HalTyped', Alike', SilAnswersAlike'
    PROVE  HalIInv'
BY DEF HalIInv

LEMMA AskKeeps ==
    ASSUME HalIInv, Compared, UNCHANGED <<fw, sil>>, SilAnswersAlike'
    PROVE  HalIInv'
BY DEF HalIInv, HalTyped, Alike, ContactorOnlyRanOut, SameOutputs, SharedByte, SameRelays, FourthOn

LEMMA RaisesKeeps == HalIInv /\ Raises => HalIInv'
<1> SUFFICES ASSUME HalIInv, Raises PROVE HalIInv'
  OBVIOUS
<1>1. fw' = FwStrategy("control_emergency") /\ sil' = sil /\ answers'.fw = answers'.sil
      /\ answers'.sil = "error"
  BY DEF Raises, Returns
<1>2. "control_emergency" \in Strategies
  BY DEF Strategies
<1>3. HalTyped'
  BY <1>1, <1>2, StrategySet DEF HalIInv, HalTyped
<1> QED BY <1>1, <1>3 DEF HalIInv, Compared, SilAnswersAlike

LEMMA SilentAnswers == Silent => Compared /\ SilAnswersAlike'
BY DEF Silent, Returns, SilAnswersAlike

\* The relays: a bit on the board, an element in the simulation, and the
\* fourth the byte behind them.
LEMMA RelWritten ==
    ASSUME HalIInv, Compared, NEW pin \in 1 .. 4, NEW on \in BOOLEAN,
           fw' = FwRelWrite(pin, on), sil' = SilRelWrite(pin, on)
    PROVE  HalTyped' /\ Alike'
<1>1. /\ fw \in FwType /\ sil \in SilType /\ Bit(pin) \in 0 .. 3 /\ pin \in 0 .. 4
      /\ sil.rel \in [0 .. 3 -> BOOLEAN] /\ sil.out \in [DigitalOutputs -> BOOLEAN]
      /\ fw.rel \in SUBSET (0 .. 3)
  BY DEF HalIInv, HalTyped, Bit, FwType, SilType
<1>2. /\ fw' \in FwType
      /\ fw'.rel = IF on THEN fw.rel \cup {Bit(pin)} ELSE fw.rel \ {Bit(pin)}
      /\ fw'.contactor = fw.contactor /\ fw'.age = fw.age /\ fw'.out = fw.out
  BY <1>1 DEF FwRelWrite, FwType
<1>3. Alike
  BY DEF HalIInv
<1>4. \A p \in 1 .. 4 : Bit(p) = Bit(pin) <=> p = pin
  BY DEF Bit
<1>5. CASE pin = 4
  <2>1. /\ sil' \in SilType /\ sil'.rel = sil.rel /\ sil'.strategy = sil.strategy
        /\ sil'.contactor = sil.contactor /\ sil'.out = [sil.out EXCEPT ![0] = on]
    BY <1>1, <1>5 DEF SilRelWrite, SilType, POWER_REL_COUNT, DigitalOutputs, LED_BLUE
  <2>2. SameRelays'
    <3> SUFFICES ASSUME NEW p \in 1 .. 3 PROVE sil'.rel[p] <=> Bit(p) \in fw'.rel
      BY DEF SameRelays, Bit
    <3>1. Bit(p) # Bit(pin) /\ (sil.rel[p] <=> Bit(p) \in fw.rel)
      BY <1>3, <1>4, <1>5 DEF Alike, SameRelays
    <3> QED BY <1>2, <2>1, <3>1
  <2>3. SharedByte'
    <3>1. sil'.out[LED_BLUE] = on
      BY <1>1, <2>1 DEF DigitalOutputs, LED_BLUE
    <3>2. FourthOn' <=> on
      BY <1>2, <1>5 DEF FourthOn, POWER_REL_COUNT, Bit
    <3> QED BY <3>1, <3>2 DEF SharedByte
  <2>4. SameOutputs'
    <3> SUFFICES ASSUME NEW o \in 1 .. 3 PROVE sil'.out[o] <=> fw'.out[o]
      BY DEF SameOutputs
    <3>1. sil'.out[o] = sil.out[o]
      BY <1>1, <2>1 DEF DigitalOutputs
    <3> QED BY <1>2, <1>3, <3>1 DEF Alike, SameOutputs
  <2> QED BY <1>2, <1>3, <2>1, <2>2, <2>3, <2>4 DEF HalTyped, Alike, ContactorOnlyRanOut
<1>6. CASE pin # 4
  <2>1. /\ sil' \in SilType /\ sil'.rel = [sil.rel EXCEPT ![pin] = on]
        /\ sil'.strategy = sil.strategy
        /\ sil'.contactor = sil.contactor /\ sil'.out = sil.out
    BY <1>1, <1>6 DEF SilRelWrite, SilType, POWER_REL_COUNT
  <2>2. SameRelays'
    <3> SUFFICES ASSUME NEW p \in 1 .. 3 PROVE sil'.rel[p] <=> Bit(p) \in fw'.rel
      BY DEF SameRelays, Bit
    <3>1. (sil.rel[p] <=> Bit(p) \in fw.rel) /\ p \in 0 .. 3
      BY <1>3 DEF Alike, SameRelays
    <3>2. CASE p = pin
      BY <1>1, <1>2, <2>1, <3>1, <3>2
    <3>3. CASE p # pin
      <4>1. Bit(p) # Bit(pin)
        BY <1>4, <3>3
      <4> QED BY <1>1, <1>2, <2>1, <3>1, <3>3, <4>1
    <3> QED BY <3>2, <3>3
  <2>3. SharedByte'
    <3>1. Bit(4) # Bit(pin)
      BY <1>6 DEF Bit
    <3>2. FourthOn' <=> FourthOn
      BY <1>2, <3>1 DEF FourthOn, POWER_REL_COUNT, Bit
    <3> QED BY <1>2, <1>3, <2>1, <3>2 DEF Alike, SharedByte
  <2> QED BY <1>2, <1>3, <2>1, <2>2, <2>3 DEF HalTyped, Alike, ContactorOnlyRanOut, SameOutputs
<1> QED BY <1>5, <1>6

\* A field both hold alike and nothing else depends on.
LEMMA SettingWritten ==
    ASSUME HalIInv, Compared, fw' \in FwType, sil' \in SilType,
           fw'.rel = fw.rel, fw'.out = fw.out, fw'.contactor = fw.contactor, fw'.age = fw.age,
           sil'.rel = sil.rel, sil'.out = sil.out, sil'.contactor = sil.contactor,
           sil'.strategy = sil.strategy
    PROVE  HalTyped' /\ Alike'
BY DEF HalIInv, HalTyped, Alike, ContactorOnlyRanOut, SameOutputs, SharedByte, SameRelays,
       FourthOn

LEMMA OutWritten ==
    ASSUME HalIInv, Compared, NEW o \in DigitalOutputs, NEW on \in BOOLEAN,
           fw' = [fw EXCEPT !.out[o] = on], sil' = [sil EXCEPT !.out[o] = on]
    PROVE  HalTyped' /\ Alike'
<1>1. /\ fw \in FwType /\ sil \in SilType /\ Alike
      /\ fw.out \in [DigitalOutputs -> BOOLEAN] /\ sil.out \in [DigitalOutputs -> BOOLEAN]
  BY DEF HalIInv, HalTyped, FwType, SilType
<1>2. /\ fw' \in FwType /\ fw'.contactor = fw.contactor /\ fw'.age = fw.age
      /\ fw'.rel = fw.rel /\ fw'.out = [fw.out EXCEPT ![o] = on]
  BY <1>1 DEF FwType
<1>3. /\ sil' \in SilType /\ sil'.contactor = sil.contactor /\ sil'.strategy = sil.strategy
      /\ sil'.rel = sil.rel /\ sil'.out = [sil.out EXCEPT ![o] = on]
  BY <1>1 DEF SilType
<1>4. \A q \in DigitalOutputs : /\ fw'.out[q] = IF q = o THEN on ELSE fw.out[q]
                                /\ sil'.out[q] = IF q = o THEN on ELSE sil.out[q]
  BY <1>1, <1>2, <1>3
<1>5. SameOutputs'
  BY <1>1, <1>4 DEF SameOutputs, Alike, DigitalOutputs
<1>6. FourthOn' <=> FourthOn
  BY <1>2 DEF FourthOn, POWER_REL_COUNT, Bit
<1>7. SharedByte'
  BY <1>1, <1>4, <1>6 DEF SharedByte, Alike, DigitalOutputs, LED_BLUE
<1> QED BY <1>1, <1>2, <1>3, <1>5, <1>7 DEF HalTyped, Alike, ContactorOnlyRanOut, SameRelays

LEMMA HalSteps == HalIInv /\ [HalNext]_halVars => HalIInv'
<1> SUFFICES ASSUME HalIInv, [HalNext]_halVars PROVE HalIInv'
  OBVIOUS
<1>0. fw \in FwType /\ sil \in SilType /\ HalTyped /\ SilAnswersAlike /\ (Compared => Alike)
  BY DEF HalIInv, HalTyped
<1>1. ASSUME NEW d, PwrsDuty(d) PROVE HalIInv'
  <2>1. CASE d \in 0 .. 255 /\ Silent
               /\ fw' = [fw EXCEPT !.duty = d] /\ sil' = [sil EXCEPT !.duty = d]
    <3>1. HalTyped' /\ Alike'
      BY <1>0, <2>1, SilentAnswers, SettingWritten DEF FwType, SilType
    <3> QED BY <2>1, <3>1, SilentAnswers, CallKeeps
  <2> QED BY <1>1, <2>1, RaisesKeeps DEF PwrsDuty
<1>2. ASSUME NEW mode, PwrsMode(mode) PROVE HalIInv'
  <2>1. CASE mode \in ModeRange /\ Silent
               /\ fw' = [fw EXCEPT !.mode = mode] /\ sil' = [sil EXCEPT !.mode = mode]
    <3>1. HalTyped' /\ Alike'
      BY <1>0, <2>1, SilentAnswers, SettingWritten DEF FwType, SilType
    <3> QED BY <2>1, <3>1, SilentAnswers, CallKeeps
  <2> QED BY <1>2, <2>1, RaisesKeeps DEF PwrsMode
<1>3. ASSUME NEW on \in BOOLEAN, PwrsEnable(on) PROVE HalIInv'
  <2>1. Silent /\ fw' = [fw EXCEPT !.sw = on] /\ sil' = [sil EXCEPT !.sw = on]
    BY <1>3 DEF PwrsEnable
  <2>2. HalTyped' /\ Alike'
    BY <1>0, <2>1, SilentAnswers, SettingWritten DEF FwType, SilType
  <2> QED BY <2>1, <2>2, SilentAnswers, CallKeeps
<1>4. ASSUME NEW on \in BOOLEAN, CtrlsContactor(on) PROVE HalIInv'
  <2>1. Silent /\ Compared /\ SilAnswersAlike' /\ Alike
    BY <1>0, <1>4, SilentAnswers DEF CtrlsContactor
  <2>2. CASE ~on
    <3>1. /\ fw' = fw /\ sil' \in SilType /\ sil'.rel = sil.rel /\ sil'.out = sil.out
          /\ sil'.contactor = sil.contactor /\ sil'.strategy = sil.strategy
      BY <1>0, <1>4, <2>2 DEF CtrlsContactor, SilType
    <3>2. HalTyped' /\ Alike'
      BY <1>0, <2>1, <3>1, SettingWritten
    <3> QED BY <2>1, <3>2, CallKeeps
  <2>3. CASE on
    <3>1. /\ fw' \in FwType /\ fw'.rel = fw.rel /\ fw'.out = fw.out /\ fw'.contactor
          /\ sil' \in SilType /\ sil'.rel = sil.rel /\ sil'.out = sil.out
          /\ sil'.contactor /\ sil'.strategy = sil.strategy
      BY <1>0, <1>4, <2>3 DEF CtrlsContactor, FwType, SilType
    <3>2. HalTyped' /\ Alike'
      BY <2>1, <3>1 DEF HalTyped, Alike, ContactorOnlyRanOut, SameOutputs, SharedByte,
                        SameRelays, FourthOn
    <3> QED BY <2>1, <3>2, CallKeeps
  <2> QED BY <2>2, <2>3
<1>5. ASSUME NEW on \in BOOLEAN, NEW pin, PwrsRel(pin, on) PROVE HalIInv'
  <2>1. CASE pin \in 1 .. 4 /\ Silent /\ fw' = FwRelWrite(pin, on) /\ sil' = SilRelWrite(pin, on)
    <3>1. HalTyped' /\ Alike'
      BY <2>1, SilentAnswers, RelWritten
    <3> QED BY <2>1, <3>1, SilentAnswers, CallKeeps
  <2> QED BY <1>5, <2>1, RaisesKeeps DEF PwrsRel, POWER_REL_COUNT
<1>6. ASSUME NEW o, NEW on \in BOOLEAN, OutSet(o, on) PROVE HalIInv'
  <2>1. CASE ~Raises
    <3>1. /\ o \in DigitalOutputs /\ Compared /\ answers'.fw = answers'.sil
          /\ fw' = [fw EXCEPT !.out[o] = on] /\ sil' = [sil EXCEPT !.out[o] = on]
      BY <1>6, <2>1 DEF OutSet, Returns
    <3>2. HalTyped' /\ Alike' /\ SilAnswersAlike'
      BY <3>1, OutWritten DEF SilAnswersAlike
    <3> QED BY <3>2, CallKeeps
  <2> QED BY <2>1, RaisesKeeps
<1>7. ASSUME NEW pin, PwrgRel(pin) PROVE HalIInv'
  <2>1. CASE ~Raises
    <3>1. /\ pin \in 1 .. 4 /\ Compared /\ fw' = fw /\ sil' = sil
          /\ answers'.about = (IF pin = 4 THEN "fourth" ELSE "any")
          /\ answers'.fw = Truth(IsOn(fw.rel, pin)) /\ answers'.sil = Truth(SilRelRead(pin))
      BY <1>7, <2>1 DEF PwrgRel, Returns, POWER_REL_COUNT
    <3>2. Alike
      BY <1>0, <3>1
    <3>3. CASE pin # 4
      <4>1. pin \in 1 .. 3
        BY <3>1, <3>3
      <4>2. answers'.fw = answers'.sil
        BY <3>1, <3>2, <4>1 DEF Alike, SameRelays, IsOn, SilRelRead, POWER_REL_COUNT, Truth
      <4> QED BY <3>1, <4>2, AskKeeps DEF SilAnswersAlike
    <3>4. CASE pin = 4
      <4>1. answers'.about = "fourth" /\ answers'.fw = Truth(FourthOn)
            /\ answers'.sil = Truth(sil.out[LED_BLUE])
        BY <3>1, <3>4 DEF FourthOn, IsOn, SilRelRead, POWER_REL_COUNT
      <4>2. answers'.fw # answers'.sil => FourthOn # fw.out[LED_BLUE]
        BY <3>2, <4>1 DEF Alike, SharedByte, Truth
      <4>3. SilAnswersAlike'
        BY <3>1, <4>1, <4>2 DEF SilAnswersAlike, FourthOn
      <4> QED BY <3>1, <4>3, AskKeeps
    <3> QED BY <3>3, <3>4
  <2> QED BY <2>1, RaisesKeeps
<1>8. ASSUME NEW o, OutGet(o) PROVE HalIInv'
  <2>1. CASE ~Raises
    <3>1. /\ o \in DigitalOutputs /\ Compared /\ fw' = fw /\ sil' = sil
          /\ answers'.about = (IF o = LED_BLUE THEN "fourth" ELSE "any")
          /\ answers'.fw = Truth(fw.out[o]) /\ answers'.sil = Truth(sil.out[o])
      BY <1>8, <2>1 DEF OutGet, Returns
    <3>2. Alike
      BY <1>0, <3>1
    <3>3. CASE o # LED_BLUE
      <4>1. o \in 1 .. 3
        BY <3>1, <3>3 DEF DigitalOutputs, LED_BLUE
      <4>2. answers'.fw = answers'.sil
        BY <3>1, <3>2, <4>1 DEF Alike, SameOutputs, Truth
      <4> QED BY <3>1, <4>2, AskKeeps DEF SilAnswersAlike
    <3>4. CASE o = LED_BLUE
      <4>1. answers'.about = "fourth" /\ answers'.fw = Truth(fw.out[LED_BLUE])
            /\ answers'.sil = Truth(sil.out[LED_BLUE])
        BY <3>1, <3>4
      <4>2. answers'.fw # answers'.sil => FourthOn # fw.out[LED_BLUE]
        BY <3>2, <4>1 DEF Alike, SharedByte, Truth
      <4>3. SilAnswersAlike'
        BY <3>1, <4>1, <4>2 DEF SilAnswersAlike, FourthOn
      <4> QED BY <3>1, <4>3, AskKeeps
    <3> QED BY <3>3, <3>4
  <2> QED BY <2>1, RaisesKeeps
<1>9. ASSUME NEW name, CtrlsStrategy(name) PROVE HalIInv'
  <2>1. CASE ~Raises
    <3>1. /\ name \in Strategies /\ fw' = FwStrategy(name) /\ sil' = sil
          /\ answers'.about = "strategy" /\ answers'.sil = "error"
      BY <1>9, <2>1 DEF CtrlsStrategy, Returns
    <3>2. HalTyped'
      BY <1>0, <3>1, StrategySet DEF HalTyped
    <3> QED BY <3>1, <3>2 DEF HalIInv, Compared, SilAnswersAlike
  <2> QED BY <2>1, RaisesKeeps
<1>10. CASE CtrlgStrategy
  <2>1. Compared /\ fw' = fw /\ sil' = sil /\ answers'.fw = answers'.sil
    BY <1>0, <1>10 DEF CtrlgStrategy, Returns, Compared, Alike
  <2> QED BY <2>1, AskKeeps DEF SilAnswersAlike
<1>11. CASE CtrlgContactor
  <2>1. /\ Compared /\ fw' = fw /\ sil' = sil /\ answers'.about = "contactor"
        /\ answers'.fw = Truth(FwContactorGet) /\ answers'.sil = Truth(sil.contactor)
    BY <1>11 DEF CtrlgContactor, Returns
  <2>2. fw.contactor \in BOOLEAN /\ sil.contactor \in BOOLEAN /\ fw.age \in Nat
    BY <1>0 DEF FwType, SilType
  <2>3. fw.age = ContactorDebounce + 1 => fw.age >= ContactorDebounce
    BY <2>2, ContactorDebounceAssumption
  <2>4. answers'.fw # answers'.sil => fw.age >= ContactorDebounce
    <3>1. FwContactorGet => sil.contactor
      BY <1>0, <2>1 DEF FwContactorGet, Alike, ContactorOnlyRanOut
    <3>2. sil.contactor /\ ~FwContactorGet => fw.age >= ContactorDebounce
      BY <1>0, <2>1, <2>3 DEF FwContactorGet, Alike, ContactorOnlyRanOut
    <3> QED BY <2>1, <3>1, <3>2 DEF Truth
  <2>5. SilAnswersAlike'
    BY <2>1, <2>4 DEF SilAnswersAlike
  <2> QED BY <2>1, <2>5, AskKeeps
<1>12. CASE TimePassesOnBoard
  <2>1. fw.age \in Nat
    BY <1>0 DEF FwType
  <2>2. /\ fw' = [fw EXCEPT !.age = @ + 1] /\ sil' = sil /\ answers' = answers
    BY <1>12 DEF TimePassesOnBoard
  <2>3. fw.age + 1 \in Nat
        /\ (fw.age >= ContactorDebounce => fw.age + 1 >= ContactorDebounce)
    BY <2>1, ContactorDebounceAssumption
  <2> DEFINE grown == fw.age + 1
  <2>4. /\ fw' \in FwType /\ fw'.age = grown /\ fw'.rel = fw.rel /\ fw'.out = fw.out
        /\ fw'.contactor = fw.contactor /\ fw'.strategy = fw.strategy
    <3>1. fw' = [fw EXCEPT !.age = grown] /\ grown \in Nat
      BY <2>2, <2>3
    <3> HIDE DEF grown
    <3> QED BY <1>0, <3>1 DEF FwType
  <2>5. fw.age >= ContactorDebounce => fw'.age >= ContactorDebounce
    BY <2>3, <2>4
  <2>6. HalTyped'
    BY <1>0, <2>2, <2>4 DEF HalTyped
  <2>7. Compared' => Alike'
    BY <1>0, <2>2, <2>4, <2>5 DEF Compared, Alike, ContactorOnlyRanOut, SameOutputs,
       SharedByte, SameRelays, FourthOn
  <2>8. SilAnswersAlike'
    BY <1>0, <2>2, <2>4, <2>5 DEF SilAnswersAlike
  <2> QED BY <2>6, <2>7, <2>8 DEF HalIInv
<1>13. CASE ContactorTimesOut
  <2>1. /\ fw' \in FwType /\ fw'.age = fw.age /\ fw'.rel = fw.rel /\ fw'.out = fw.out
        /\ ~fw'.contactor /\ fw'.strategy = fw.strategy
        /\ fw.age >= ContactorDebounce /\ sil' = sil /\ answers' = answers
    BY <1>0, <1>13 DEF ContactorTimesOut, FwType
  <2>2. Compared' => Alike'
    BY <1>0, <2>1 DEF Compared, Alike, ContactorOnlyRanOut, SameOutputs,
       SharedByte, SameRelays, FourthOn
  <2> QED BY <1>0, <2>1, <2>2 DEF HalIInv, HalTyped, SilAnswersAlike
<1>14. ASSUME NEW s \in Strategies \ {"control_lisp"}, BoardLeaves(s) PROVE HalIInv'
  <2>1. fw' = FwStrategy(s) /\ sil' = sil /\ answers' = answers
    BY <1>14 DEF BoardLeaves
  <2>2. /\ fw' \in FwType /\ fw'.strategy # "control_lisp" /\ fw'.rel = fw.rel
        /\ fw'.age = fw.age /\ fw'.out[LED_BLUE] = fw.out[LED_BLUE]
    BY <1>0, <2>1, StrategySet
  <2> QED BY <1>0, <2>1, <2>2 DEF HalIInv, HalTyped, Compared, SilAnswersAlike
<1>15. CASE wt_sil_init
  <2>1. HalInit'
    BY <1>15 DEF wt_sil_init, HalInit
  <2>2. HalInit' => HalIInv'
    BY HalStarts, PTL
  <2> QED BY <2>1, <2>2
<1>16. CASE UNCHANGED halVars
  BY <1>16 DEF halVars, HalIInv, HalTyped, Compared, SilAnswersAlike, Alike,
     ContactorOnlyRanOut, SameOutputs, SharedByte, SameRelays, FourthOn
<1> QED BY <1>1, <1>2, <1>3, <1>4, <1>5, <1>6, <1>7, <1>8, <1>9, <1>10, <1>11,
           <1>12, <1>13, <1>14, <1>15, <1>16 DEF HalNext

\* What a controller is told by the simulation is what the board would tell it,
\* for every script and every debounce time, outside the three cases
\* SilAnswersAlike names.
THEOREM SilAnswersAlikeHolds == HalSpec => []SilAnswersAlike
<1>1. HalIInv /\ UNCHANGED halVars => HalIInv'
  BY HalSteps
<1>2. HalIInv => SilAnswersAlike
  BY DEF HalIInv
<1> QED BY <1>1, <1>2, HalStarts, HalSteps, PTL DEF HalSpec

-----------------------------------------------------------------------------
(* RpmMeter: the debouncer needs integrator_max interrupts up and as many  *)
(* down between two falling edges, and last_time is the last of them.      *)

Debounced ==
    /\ integrator \in 0 .. integrator_max
    /\ output \in BOOLEAN
    /\ RPM_new \in BOOLEAN
    /\ edge_age \in 0 .. Wrap
    /\ turn \in Turn
    /\ edge_age = turn.since
    /\ turn.since < Wrap =>
         /\ ~output => integrator <= turn.since
         /\ output => turn.since + integrator >= integrator_max + integrator_max
    /\ output => integrator > 0

RpmIInv ==
    /\ Debounced
    /\ RPM_new /\ turn.last < Wrap =>
         period = turn.last /\ period >= integrator_max + integrator_max

LEMMA LaterType ==
    ASSUME NEW age \in 0 .. Wrap
    PROVE  /\ Later(age, Wrap) \in 0 .. Wrap
           /\ Later(age, Wrap) < Wrap => age < Wrap /\ Later(age, Wrap) = age + 1
BY RpmAssumption DEF Later

LEMMA OutputFollows ==
    ASSUME NEW s \in 0 .. integrator_max, output \in BOOLEAN
    PROVE  /\ Output(s) \in BOOLEAN
           /\ s = 0 => ~Output(s)
           /\ s = integrator_max => Output(s)
           /\ s # 0 /\ s # integrator_max => (Output(s) <=> output)
<1>1. integrator_max \in Nat /\ integrator_max # 0
  BY RpmAssumption
<1>2. CASE s = 0
  <2>1. ~(s >= integrator_max) /\ s # integrator_max
    BY <1>1, <1>2
  <2>2. Output(s) = FALSE
    BY <1>2, <2>1 DEF Output
  <2> QED BY <1>2, <2>1, <2>2
<1>3. CASE s = integrator_max
  BY <1>1, <1>3 DEF Output
<1>4. CASE s # 0 /\ s # integrator_max
  <2>1. ~(s >= integrator_max)
    BY <1>1, <1>4
  <2> QED BY <1>4, <2>1 DEF Output
<1> QED BY <1>2, <1>3, <1>4

\* The timer interrupt, without the period it hands over.
LEMMA InterruptDebounces ==
    ASSUME Debounced, NEW level \in BOOLEAN, TimerInterrupt(level)
    PROVE  /\ Debounced'
           /\ output /\ ~output' /\ Later(turn.since, Wrap) < Wrap =>
                 Later(turn.since, Wrap) >= integrator_max + integrator_max
<1> DEFINE sum == Integrated(level)
           age == Later(edge_age, Wrap)
<1>1. /\ integrator' = sum /\ output' = Output(sum) /\ age = Later(turn.since, Wrap)
      /\ age \in 0 .. Wrap /\ (age < Wrap => turn.since < Wrap /\ age = turn.since + 1)
  BY LaterType DEF TimerInterrupt, Debounced
<1>2. /\ integrator_max \in Nat \ {0} /\ Wrap \in Nat
      /\ integrator \in Nat /\ integrator <= integrator_max
      /\ turn.since \in Nat /\ turn.last \in 0 .. Wrap
  BY RpmAssumption DEF Debounced, Turn
<1>3. /\ sum \in 0 .. integrator_max
      /\ sum <= integrator + 1 /\ sum >= integrator - 1
  BY <1>2 DEF Integrated
<1>4. /\ Output(sum) \in BOOLEAN
      /\ sum = 0 => ~Output(sum)
      /\ sum = integrator_max => Output(sum)
      /\ sum # 0 /\ sum # integrator_max => (Output(sum) <=> output)
  <2> HIDE DEF sum
  <2> QED BY <1>3, OutputFollows DEF Debounced
<1> HIDE DEF sum, age
<1>5. CASE output /\ ~output'
  <2>0. sum = 0
    BY <1>1, <1>4, <1>5
  <2>1. integrator \in {0, 1} /\ integrator > 0
    BY <1>2, <1>3, <1>5, <2>0 DEF Debounced
  <2>2. /\ edge_age' = 0 /\ RPM_new' = TRUE /\ turn'.since = 0 /\ turn' \in Turn
    <3>1. /\ edge_age' = AfterEdge(age) /\ RPM_new' = TRUE
          /\ turn' = [since |-> 0,
                      last |-> IF RPM_new THEN turn.last ELSE Later(turn.since, Wrap)]
      BY <1>1, <1>5 DEF TimerInterrupt, sum, age
    <3>2. 0 \in 0 .. Wrap
      BY <1>2
    <3> QED BY <1>1, <1>2, <3>1, <3>2 DEF AfterEdge, Turn
  <2>3. age < Wrap => age >= integrator_max + integrator_max
    BY <1>1, <1>2, <1>5, <2>1 DEF Debounced
  <2>4. Debounced'
    <3>1. integrator' = 0 /\ integrator' <= turn'.since
      BY <1>1, <2>0, <2>2
    <3>2. integrator' \in 0 .. integrator_max /\ edge_age' \in 0 .. Wrap
      BY <1>2, <2>2, <3>1
    <3>3. output' \in BOOLEAN /\ RPM_new' \in BOOLEAN
      BY <1>1, <1>4, <2>2
    <3> QED BY <1>5, <2>2, <3>1, <3>2, <3>3 DEF Debounced
  <2> QED BY <1>1, <2>3, <2>4
<1>6. CASE ~(output /\ ~output')
  <2>1. /\ edge_age' = age /\ RPM_new' = RPM_new
        /\ turn' = [turn EXCEPT !.since = age]
    BY <1>1, <1>6 DEF TimerInterrupt, sum, age
  <2>2. turn' \in Turn /\ turn'.since = age
    BY <1>1, <2>1 DEF Debounced, Turn
  <2>3. output' => sum > 0
    BY <1>1, <1>2, <1>3, <1>4
  <2>4. ASSUME age < Wrap
        PROVE  /\ ~output' => sum <= age
               /\ output' => age + sum >= integrator_max + integrator_max
    <3>1. age = turn.since + 1 /\ age \in Nat
      BY <1>1, <2>4
    <3>2. CASE output
      BY <1>1, <1>2, <1>3, <1>6, <2>4, <3>1, <3>2 DEF Debounced
    <3>3. CASE ~output /\ ~output'
      BY <1>1, <1>2, <1>3, <2>4, <3>1, <3>3 DEF Debounced
    <3>4. CASE ~output /\ output'
      <4>1. sum = integrator_max /\ integrator <= turn.since
        BY <1>1, <1>2, <1>3, <1>4, <2>4, <3>4 DEF Debounced
      <4> QED BY <1>2, <1>3, <3>1, <3>4, <4>1
    <3> QED BY <3>2, <3>3, <3>4
  <2>5. Debounced'
    BY <1>1, <1>3, <1>4, <2>1, <2>2, <2>3, <2>4 DEF Debounced
  <2> QED BY <1>6, <2>5
<1> QED BY <1>5, <1>6

LEMMA RpmSteps == RpmIInv /\ [RpmNext]_rpmVars => RpmIInv'
<1> SUFFICES ASSUME RpmIInv, [RpmNext]_rpmVars PROVE RpmIInv'
  OBVIOUS
<1>1. ASSUME NEW level \in BOOLEAN, TimerInterrupt(level) PROVE RpmIInv'
  <2>1. /\ Debounced'
        /\ output /\ ~output' /\ Later(turn.since, Wrap) < Wrap =>
              Later(turn.since, Wrap) >= integrator_max + integrator_max
    BY <1>1, InterruptDebounces DEF RpmIInv
  <2>2. CASE output /\ ~output' /\ ~RPM_new
    <3>1. /\ period' \in SinceEdge(Later(edge_age, Wrap))
          /\ turn'.last = Later(turn.since, Wrap)
          /\ edge_age = turn.since
      BY <1>1, <2>2 DEF TimerInterrupt, RpmIInv, Debounced
    <3>2. ASSUME turn'.last < Wrap
          PROVE  period' = turn'.last /\ period' >= integrator_max + integrator_max
      <4>1. period' = turn'.last
        BY <3>1, <3>2 DEF SinceEdge
      <4> QED BY <2>1, <2>2, <3>1, <3>2, <4>1
    <3> QED BY <2>1, <3>2 DEF RpmIInv
  <2>3. CASE output /\ ~output' /\ RPM_new
    BY <1>1, <2>1, <2>3 DEF TimerInterrupt, RpmIInv
  <2>4. CASE ~(output /\ ~output')
    <3>1. period' = period /\ RPM_new' = RPM_new /\ turn'.last = turn.last
      BY <1>1, <2>4 DEF TimerInterrupt, RpmIInv, Debounced, Turn
    <3> QED BY <2>1, <3>1 DEF RpmIInv
  <2> QED BY <2>2, <2>3, <2>4 DEF RpmIInv, Debounced
<1>2. CASE Test \/ Compute \/ TurbineStands \/ UNCHANGED rpmVars
  BY <1>2 DEF Test, Compute, TurbineStands, rpmVars, RpmIInv, Debounced
<1>3. CASE TakePeriod
  BY <1>3 DEF TakePeriod, RpmIInv, Debounced
<1> QED BY <1>1, <1>2, <1>3 DEF RpmNext

\* The main loop gets the time of exactly one turn, for every filter length and
\* however often the interrupt comes between its test and its atomic block.
THEOREM PeriodIsOneTurnHolds == RpmSpec => []PeriodIsOneTurn
<1>1. RpmInit => RpmIInv
  <2> SUFFICES ASSUME RpmInit PROVE RpmIInv
    OBVIOUS
  <2>1. integrator \in 0 .. integrator_max /\ edge_age \in 0 .. Wrap /\ turn \in Turn
    BY RpmAssumption DEF RpmInit, Turn
  <2>2. output \in BOOLEAN /\ RPM_new \in BOOLEAN /\ ~output /\ ~RPM_new
    BY DEF RpmInit
  <2>3. edge_age = turn.since /\ integrator <= turn.since
    BY DEF RpmInit
  <2> QED BY <2>1, <2>2, <2>3 DEF RpmIInv, Debounced
<1>2. RpmIInv /\ UNCHANGED rpmVars => RpmIInv'
  BY RpmSteps
<1>3. RpmIInv => PeriodIsOneTurn
  BY RpmAssumption DEF RpmIInv, PeriodIsOneTurn
<1> QED BY <1>1, <1>2, <1>3, RpmSteps, PTL DEF RpmSpec

-----------------------------------------------------------------------------
(* TempSensors: a sensor that is still missing has been read once in every *)
(* pass over the sensors of this round.                                    *)

Missing(id) == enabled[id] /\ readings_buff[id] = 0

\* Passes of the round in which the sensor's turn has come.
Passes(id) ==
    IF temp_state = "done" \/ (temp_state = "read" /\ id < sensor_id)
    THEN retry + 1 ELSE retry

Recorded(id) ==
    LET n == Len(results[id])
    IN  /\ ~enabled[id] => n = 0
        /\ n = 0 => readings_buff[id] = 0
        /\ n > 0 => readings_buff[id] = results[id][n]
        /\ \A k \in 1 .. n - 1 : results[id][k] = 0
        /\ temp_state # "idle" /\ Missing(id) => n = Passes(id)

TempIInv ==
    /\ TempTypeOK
    /\ \A id \in Ids : Recorded(id)
    /\ temp_state = "read" => \A id \in Ids : id < sensor_id /\ Missing(id) => error
    /\ temp_state = "done" => \A id \in Ids : Missing(id) => retry = SENSOR_DS18B20_RETRIES

LEMMA NothingRead ==
    ASSUME NEW r, r = [id \in Ids |-> <<>>]
    PROVE  r \in [Ids -> Seq(sensor_DS18B20_read)] /\ \A id \in Ids : Len(r[id]) = 0
OBVIOUS

LEMMA NoReadingsType ==
    NoReadings \in [Ids -> sensor_DS18B20_read] /\ \A id \in Ids : NoReadings[id] = 0
BY DEF NoReadings, sensor_DS18B20_read

LEMMA TempStarts == TempInit => TempIInv
<1> SUFFICES ASSUME TempInit PROVE TempIInv
  OBVIOUS
<1>1. /\ results \in [Ids -> Seq(sensor_DS18B20_read)]
      /\ \A id \in Ids : Len(results[id]) = 0
  BY NothingRead DEF TempInit
<1>2. /\ readings_buff \in [Ids -> sensor_DS18B20_read]
      /\ readings \in [Ids -> sensor_DS18B20_read]
      /\ \A id \in Ids : readings_buff[id] = 0
  BY NoReadingsType DEF TempInit
<1>3. 0 \in 0 .. SENSOR_DS18B20_COUNT /\ 0 \in 0 .. SENSOR_DS18B20_RETRIES
  BY TempAssumption
<1>4. TempTypeOK
  BY <1>1, <1>2, <1>3 DEF TempInit, TempTypeOK
<1>5. \A id \in Ids : Recorded(id)
  BY <1>1, <1>2 DEF TempInit, Recorded
<1> QED BY <1>4, <1>5 DEF TempInit, TempIInv

LEMMA TempReads ==
    ASSUME TempIInv, NEW reading \in sensor_DS18B20_read, temp_read(reading)
    PROVE  TempIInv'
<1>0. /\ sensor_id \in Ids /\ sensor_id \in Nat /\ retry \in Nat
      /\ sensor_id' = sensor_id + 1 /\ sensor_id' \in 0 .. SENSOR_DS18B20_COUNT
      /\ temp_state = "read" /\ temp_state' = "read" /\ enabled' = enabled
      /\ readings' = readings /\ retry' = retry /\ reading \in {0, 1}
      /\ \A id \in Ids : id \in Int
  BY TempAssumption DEF temp_read, TempIInv, TempTypeOK, Ids, sensor_DS18B20_read
<1>1. CASE Missing(sensor_id)
  <2>1. /\ readings_buff' = [readings_buff EXCEPT ![sensor_id] = reading]
        /\ error' = Failed(reading)
        /\ results' = [results EXCEPT ![sensor_id] = Append(@, reading)]
    BY <1>0, <1>1 DEF temp_read, Missing, sensor_DS18B20_enabled
  <2>2. /\ readings_buff \in [Ids -> sensor_DS18B20_read]
        /\ results \in [Ids -> Seq(sensor_DS18B20_read)] /\ error \in BOOLEAN
    BY DEF TempIInv, TempTypeOK
  <2>3. /\ readings_buff' \in [Ids -> sensor_DS18B20_read]
        /\ results' \in [Ids -> Seq(sensor_DS18B20_read)]
    <3>1. Append(results[sensor_id], reading) \in Seq(sensor_DS18B20_read)
      BY <1>0, <2>2
    <3> QED BY <2>1, <2>2, <3>1
  <2>4. TempTypeOK'
    <3>1. error' \in BOOLEAN
      BY <2>1 DEF Failed
    <3> QED BY <1>0, <2>3, <3>1 DEF TempIInv, TempTypeOK
  <2>5. ASSUME NEW id \in Ids, id # sensor_id
        PROVE  /\ results'[id] = results[id] /\ readings_buff'[id] = readings_buff[id]
               /\ id < sensor_id' <=> id < sensor_id
    BY <1>0, <2>1, <2>2, <2>5
  <2>6. ASSUME NEW id \in Ids PROVE Recorded(id)'
    <3>1. CASE id # sensor_id
      <4>1. Recorded(id) /\ results'[id] = results[id] /\ readings_buff'[id] = readings_buff[id]
        BY <2>5, <3>1 DEF TempIInv
      <4>2. Passes(id)' = Passes(id) /\ (Missing(id)' <=> Missing(id))
        BY <1>0, <2>5, <3>1 DEF Passes, Missing
      <4> QED BY <1>0, <4>1, <4>2 DEF Recorded
    <3>2. CASE id = sensor_id
      <4> DEFINE s == results[id]
      <4>1. /\ s \in Seq(sensor_DS18B20_read) /\ results'[id] = Append(s, reading)
            /\ readings_buff'[id] = reading /\ enabled[id]
        BY <1>1, <2>1, <2>2, <3>2 DEF Missing
      <4>2. /\ Len(s) = retry /\ (Len(s) > 0 => s[Len(s)] = 0)
            /\ \A k \in 1 .. Len(s) - 1 : s[k] = 0
        BY <1>0, <1>1, <3>2 DEF TempIInv, Recorded, Missing, Passes
      <4>3. \A k \in 1 .. Len(s) : s[k] = 0
        BY <1>0, <4>2
      <4> HIDE DEF s
      <4>4. /\ Len(results'[id]) = retry + 1 /\ results'[id][retry + 1] = reading
            /\ \A k \in 1 .. retry : results'[id][k] = 0
        BY <1>0, <4>1, <4>2, <4>3
      <4>5. Passes(id)' = retry + 1
        BY <1>0, <3>2 DEF Passes
      <4> QED BY <1>0, <4>1, <4>4, <4>5 DEF Recorded
    <3> QED BY <3>1, <3>2
  <2>7. ASSUME NEW id \in Ids, id < sensor_id', Missing(id)' PROVE error'
    <3>1. CASE id # sensor_id
      BY <1>0, <2>1, <2>5, <2>7, <3>1 DEF TempIInv, Missing, Failed
    <3>2. CASE id = sensor_id
      <4>1. reading = 0
        BY <2>1, <2>2, <2>7, <3>2 DEF Missing
      <4> QED BY <2>1, <4>1 DEF Failed
    <3> QED BY <3>1, <3>2
  <2> QED BY <1>0, <2>4, <2>6, <2>7 DEF TempIInv
<1>2. CASE ~Missing(sensor_id)
  <2>1. readings_buff' = readings_buff /\ error' = error /\ results' = results
    BY <1>0, <1>2 DEF temp_read, Missing, sensor_DS18B20_enabled
  <2>2. TempTypeOK'
    BY <1>0, <2>1 DEF TempIInv, TempTypeOK
  <2>3. ASSUME NEW id \in Ids, Missing(id)'
        PROVE  Missing(id) /\ (id < sensor_id' <=> id < sensor_id)
    BY <1>0, <1>2, <2>1, <2>3 DEF Missing
  <2>4. ASSUME NEW id \in Ids PROVE Recorded(id)'
    BY <1>0, <2>1, <2>3 DEF TempIInv, Recorded, Missing, Passes
  <2>5. ASSUME NEW id \in Ids, id < sensor_id', Missing(id)' PROVE error'
    BY <1>0, <2>1, <2>3, <2>5 DEF TempIInv
  <2> QED BY <1>0, <2>2, <2>4, <2>5 DEF TempIInv
<1> QED BY <1>1, <1>2

LEMMA TempSteps == TempIInv /\ [TempNext]_tempVars => TempIInv'
<1> SUFFICES ASSUME TempIInv, [TempNext]_tempVars PROVE TempIInv'
  OBVIOUS
<1>1. CASE temp_idle
  <2>1. /\ temp_state' = "request" /\ retry' = 0 /\ enabled' = enabled
        /\ sensor_id' = sensor_id /\ readings' = readings /\ error' = error
        /\ readings_buff' = NoReadings /\ results' = [id \in Ids |-> <<>>]
    BY <1>1 DEF temp_idle
  <2>2. /\ results' \in [Ids -> Seq(sensor_DS18B20_read)]
        /\ \A id \in Ids : Len(results'[id]) = 0
    BY <2>1, NothingRead
  <2>3. /\ readings_buff' \in [Ids -> sensor_DS18B20_read]
        /\ \A id \in Ids : readings_buff'[id] = 0
    BY <2>1, NoReadingsType
  <2>4. 0 \in 0 .. SENSOR_DS18B20_RETRIES
    BY TempAssumption
  <2>5. TempTypeOK'
    BY <2>1, <2>2, <2>3, <2>4 DEF TempIInv, TempTypeOK
  <2>6. \A id \in Ids : Recorded(id)'
    BY <2>1, <2>2, <2>3 DEF Recorded, Passes
  <2> QED BY <2>1, <2>5, <2>6 DEF TempIInv
<1>2. CASE temp_request
  BY <1>2 DEF temp_request, TempIInv, TempTypeOK, Recorded, Missing, Passes
<1>3. CASE temp_waiting_for_read
  <2>1. /\ temp_state = "waiting_for_read" /\ temp_state' = "read" /\ sensor_id' = 0
        /\ enabled' = enabled /\ readings_buff' = readings_buff /\ readings' = readings
        /\ error' = error /\ retry' = retry /\ results' = results
    BY <1>3 DEF temp_waiting_for_read
  <2>2. 0 \in 0 .. SENSOR_DS18B20_COUNT /\ \A id \in Ids : ~(id < 0)
    BY TempAssumption DEF Ids
  <2> QED BY <2>1, <2>2 DEF TempIInv, TempTypeOK, Recorded, Missing, Passes
<1>4. ASSUME NEW reading \in sensor_DS18B20_read, temp_read(reading) PROVE TempIInv'
  BY <1>4, TempReads
<1>5. CASE temp_all_read
  <2>1. /\ temp_state = "read" /\ sensor_id \notin Ids /\ sensor_id' = sensor_id
        /\ enabled' = enabled /\ readings_buff' = readings_buff /\ readings' = readings
        /\ error' = error /\ results' = results
    BY <1>5 DEF temp_all_read
  <2>2. /\ retry \in Nat /\ retry <= SENSOR_DS18B20_RETRIES
        /\ \A id \in Ids : id < sensor_id
    BY <2>1, TempAssumption DEF TempIInv, TempTypeOK, Ids
  <2>3. CASE error /\ retry < SENSOR_DS18B20_RETRIES
    <3>1. temp_state' = "request" /\ retry' = retry + 1
      BY <1>5, <2>3 DEF temp_all_read
    <3>2. retry + 1 \in 0 .. SENSOR_DS18B20_RETRIES
      BY <2>2, <2>3, TempAssumption
    <3>3. TempTypeOK'
      BY <2>1, <3>1, <3>2 DEF TempIInv, TempTypeOK
    <3>4. ASSUME NEW id \in Ids PROVE Recorded(id)'
      BY <2>1, <2>2, <3>1 DEF TempIInv, Recorded, Missing, Passes
    <3> QED BY <3>1, <3>3, <3>4 DEF TempIInv
  <2>4. CASE ~(error /\ retry < SENSOR_DS18B20_RETRIES)
    <3>1. temp_state' = "done" /\ retry' = retry
      BY <1>5, <2>4 DEF temp_all_read
    <3>2. TempTypeOK'
      BY <2>1, <3>1 DEF TempIInv, TempTypeOK
    <3>3. ASSUME NEW id \in Ids PROVE Recorded(id)'
      BY <2>1, <2>2, <3>1 DEF TempIInv, Recorded, Missing, Passes
    <3>4. ASSUME NEW id \in Ids, Missing(id)' PROVE retry' = SENSOR_DS18B20_RETRIES
      <4>1. error
        BY <2>1, <2>2, <3>4 DEF TempIInv, Missing
      <4> QED BY <2>2, <2>4, <3>1, <4>1, TempAssumption
    <3> QED BY <3>1, <3>2, <3>3, <3>4 DEF TempIInv
  <2> QED BY <2>3, <2>4
<1>6. CASE temp_done
  <2>1. /\ temp_state' = "idle" /\ readings' = readings_buff
        /\ enabled' = enabled /\ sensor_id' = sensor_id /\ error' = error
        /\ readings_buff' = readings_buff /\ retry' = retry /\ results' = results
    BY <1>6 DEF temp_done
  <2> QED BY <2>1 DEF TempIInv, TempTypeOK, Recorded, Missing
<1>7. CASE UNCHANGED tempVars
  BY <1>7 DEF tempVars, TempIInv, TempTypeOK, Recorded, Missing, Passes
<1> QED BY <1>1, <1>2, <1>3, <1>4, <1>5, <1>6, <1>7 DEF TempNext

\* A temperature is given as missing only after exactly as many reads as the
\* settings allow, for any number of sensors and any pattern of failures.
THEOREM MissingMeansRetriedHolds == TempSpec => []MissingMeansRetried
<1>1. TempIInv /\ UNCHANGED tempVars => TempIInv'
  BY TempSteps
<1>2. TempIInv => MissingMeansRetried
  <2> SUFFICES ASSUME TempIInv, temp_state = "done", NEW id \in Ids
               PROVE  LET n == Len(results[id])
                      IN  /\ ~enabled[id] => n = 0 /\ readings_buff[id] = 0
                          /\ enabled[id] =>
                                 /\ n > 0
                                 /\ readings_buff[id] = results[id][n]
                                 /\ \A k \in 1 .. n - 1 : results[id][k] = 0
                                 /\ results[id][n] = 0 => n = SENSOR_DS18B20_RETRIES + 1
    BY DEF MissingMeansRetried
  <2>1. results[id] \in Seq(sensor_DS18B20_read) /\ retry \in Nat
    BY TempAssumption DEF TempIInv, TempTypeOK
  <2>2. PICK n \in Nat : n = Len(results[id])
    BY <2>1, LenProperties
  <2>3. Recorded(id) /\ Passes(id) = retry + 1
    BY DEF TempIInv, Passes
  <2>4. Missing(id) => retry = SENSOR_DS18B20_RETRIES
    BY DEF TempIInv
  <2>5. ~enabled[id] => n = 0 /\ readings_buff[id] = 0
    BY <2>2, <2>3 DEF Recorded
  <2>6. enabled[id] => n > 0
    BY <2>1, <2>2, <2>3 DEF Recorded, Missing
  <2>7. n > 0 => /\ readings_buff[id] = results[id][n]
                 /\ \A k \in 1 .. n - 1 : results[id][k] = 0
    BY <2>2, <2>3 DEF Recorded
  <2>8. enabled[id] /\ results[id][n] = 0 => n = SENSOR_DS18B20_RETRIES + 1
    BY <2>2, <2>3, <2>4, <2>6, <2>7 DEF Recorded, Missing
  <2> QED BY <2>2, <2>5, <2>6, <2>7, <2>8
<1> QED BY <1>1, <1>2, TempStarts, TempSteps, PTL DEF TempSpec

-----------------------------------------------------------------------------
(* WindSensor: every state but idle bounds how long ago the last idle pass *)
(* was, which emptied the receive buffer.                                  *)

S == SamplingInterval
W == SENSOR_WIND_DE_WAIT
R == SENSOR_WIND_READ_TIMEOUT
Q == RequestLength
L == LongestPass

Elapsed ==
    CASE wind_state = "wait_DE_h" -> waited
      [] wind_state = "request"   -> W + L
      [] wind_state = "wait_DE_l" -> W + L + L + (Q - to_send) + IF to_send > 1 THEN 0 ELSE waited
      [] wind_state = "read"      -> W + W + L + L + L + L + Q + waited
      [] OTHER                    -> 0

\* How old a reading can be when it is taken over.
Answered == W + W + L + L + L + L + L + Q + R

WindNumbers ==
    /\ wind_state \in {"idle", "wait_DE_h", "request", "wait_DE_l", "read"}
    /\ waited \in Nat
    /\ to_send \in Nat /\ to_send <= Q
    /\ received \in Nat
    /\ received_age \in Nat
    /\ vwind_valid \in BOOLEAN
    /\ vwind_age \in Nat

Waits ==
    /\ wind_state = "idle" /\ vwind_valid => waited < S
    /\ wind_state = "wait_DE_h" => waited < W
    /\ wind_state = "request" => waited = 0
    /\ wind_state = "wait_DE_l" => waited <= W + L
    /\ wind_state = "read" => waited <= R

Ages ==
    /\ wind_state = "idle" /\ vwind_valid => vwind_age <= Answered + waited
    /\ wind_state # "idle" =>
         /\ received > 0 => received_age <= Elapsed
         /\ vwind_valid => vwind_age <= Answered + S + L + Elapsed

WindIInv == WindNumbers /\ Waits /\ Ages

LEMMA WindConstants ==
    /\ S \in Nat /\ W \in Nat /\ R \in Nat /\ Q \in Nat /\ L \in Nat
    /\ S >= 1 /\ W >= 1 /\ Q >= 1 /\ L >= 1
    /\ \A d \in WindPasses : d \in Nat /\ d >= 1 /\ d <= L
<1>1. L \in WindPasses /\ \A e \in WindPasses : e <= L
  BY WindAssumption DEF L, LongestPass
<1> QED BY <1>1, WindAssumption DEF S, W, R, Q

LEMMA OldBound ==
    /\ Old \in Nat /\ Cycle \in Nat
    /\ S <= Old /\ W <= Old /\ R <= Old
    /\ Cycle = S + W + W + Q + R + L + L + L + L + L + L
BY WindConstants DEF Old, Cycle, S, W, R, Q, L

\* The cap on ages is above everything they are compared with.
LEMMA AgedBound ==
    ASSUME NEW a \in Nat, NEW d \in Nat
    PROVE  /\ Aged(a, d) \in Nat /\ Aged(a, d) <= a + d
           /\ \A limit \in Nat : limit <= Old => (Aged(a, d) >= limit <=> a + d >= limit)
BY OldBound DEF Aged

\* During a pass of d everything that is kept grows older by at most d.
Older(d) ==
    /\ received' = received /\ received_age' <= received_age + d
    /\ vwind_valid' = vwind_valid /\ vwind_age' <= vwind_age + d

LEMMA Chain ==
    ASSUME NEW x \in Nat, NEW y \in Nat, NEW a \in Nat, NEW e \in Nat, NEW f \in Nat,
           NEW d \in Nat, x <= a + e, y <= x + d, e + d <= f
    PROVE  y <= a + f
OBVIOUS

LEMMA AgesGrow ==
    ASSUME WindIInv, WindNumbers', NEW d \in Nat, Older(d),
           wind_state # "idle", wind_state' # "idle",
           Elapsed \in Nat, Elapsed' \in Nat, Elapsed + d <= Elapsed'
    PROVE  Ages'
<1> DEFINE A == Answered + S + L
<1>1. A \in Nat
  BY WindConstants DEF Answered
<1> HIDE DEF A
<1>2. /\ received_age \in Nat /\ received_age' \in Nat
      /\ vwind_age \in Nat /\ vwind_age' \in Nat
  BY DEF WindIInv, WindNumbers
<1>3. /\ received > 0 => received_age <= Elapsed
      /\ vwind_valid => vwind_age <= A + Elapsed
  BY DEF WindIInv, Ages, A
<1>4. received' > 0 => received_age' <= Elapsed'
  BY <1>2, <1>3 DEF Older
<1>5. vwind_valid' => vwind_age' <= A + Elapsed'
  <2> SUFFICES ASSUME vwind_valid' PROVE vwind_age' <= A + Elapsed'
    OBVIOUS
  <2>1. vwind_valid /\ vwind_age' <= vwind_age + d
    BY DEF Older
  <2>2. vwind_age <= A + Elapsed
    BY <1>3, <2>1
  <2> QED BY <1>1, <1>2, <2>1, <2>2, Chain
<1> QED BY <1>4, <1>5 DEF Ages, A

LEMMA ElapsedType == WindNumbers => Elapsed \in Nat
BY WindConstants DEF WindNumbers, Elapsed

LEMMA PassNumbers ==
    ASSUME WindNumbers, NEW d \in Nat, Pass(d)
    PROVE  /\ to_send' \in Nat /\ to_send' <= Q /\ to_send' <= to_send
           /\ to_send' > 1 => to_send' = to_send - d
           /\ received_age' \in Nat /\ received_age' <= received_age + d
BY AgedBound, WindConstants DEF WindNumbers, Pass

LEMMA KeepNumbers ==
    ASSUME WindNumbers, NEW d \in Nat, KeepReading(d)
    PROVE  /\ vwind_valid' = vwind_valid
           /\ vwind_age' \in Nat /\ vwind_age' <= vwind_age + d
BY AgedBound DEF WindNumbers, KeepReading

\* Before the request: the sampling interval and the wait for the driver.
LEMMA WindBegins ==
    ASSUME WindIInv, NEW d \in WindPasses, wind_idle(d) \/ wind_wait_DE_h(d) \/ wind_request(d)
    PROVE  WindIInv'
<1>1. /\ d \in Nat /\ d <= L /\ waited \in Nat
      /\ S \in Nat /\ W \in Nat /\ R \in Nat /\ Q \in Nat /\ L \in Nat /\ W >= 1
  BY WindConstants DEF WindIInv, WindNumbers
<1>2. /\ Aged(waited, d) \in Nat /\ Aged(waited, d) <= waited + d
      /\ Aged(waited, d) >= S <=> waited + d >= S
      /\ Aged(waited, d) >= W <=> waited + d >= W
  BY <1>1, AgedBound, OldBound
<1>3. /\ vwind_valid' = vwind_valid /\ vwind_age' \in Nat /\ vwind_age' <= vwind_age + d
  BY <1>1, KeepNumbers DEF wind_idle, wind_wait_DE_h, wind_request, WindIInv
<1>4. /\ to_send' \in Nat /\ to_send' <= Q
      /\ received_age' \in Nat /\ received_age' <= received_age + d
      /\ received' \in Nat
  <2>1. CASE Pass(d)
    BY <1>1, <2>1, PassNumbers DEF wind_idle, wind_wait_DE_h, wind_request, WindIInv, WindNumbers
  <2>2. CASE wind_request(d)
    BY <1>1, <2>2, AgedBound DEF wind_request, WindIInv, WindNumbers, Q
  <2> QED BY <2>1, <2>2 DEF wind_idle, wind_wait_DE_h, WindIInv, WindNumbers
<1>5. CASE wind_idle(d)
  <2>1. wind_state = "idle" /\ received' = 0
    BY <1>5 DEF wind_idle
  <2>2. CASE Aged(waited, d) >= S
    <3>1. wind_state' = "wait_DE_h" /\ waited' = 0
      BY <1>5, <2>2 DEF wind_idle, S, Restarted
    <3>2. Elapsed' = 0
      BY <3>1 DEF Elapsed
    <3>3. WindNumbers'
      BY <1>3, <1>4, <3>1 DEF WindIInv, WindNumbers
    <3>4. Waits'
      BY <1>1, <3>1 DEF Waits
    <3>5. vwind_valid => vwind_age <= Answered + waited /\ waited < S
      BY <2>1 DEF WindIInv, Ages, Waits
    <3>6. vwind_valid' => vwind_age' <= Answered + S + L + Elapsed'
      BY <1>1, <1>3, <3>2, <3>5 DEF WindIInv, WindNumbers, Answered
    <3> QED BY <2>1, <3>1, <3>3, <3>4, <3>6 DEF WindIInv, Ages
  <2>3. CASE ~(Aged(waited, d) >= S)
    <3>1. wind_state' = "idle" /\ waited' = Aged(waited, d)
      BY <1>5, <2>1, <2>3 DEF wind_idle, S
    <3>2. WindNumbers'
      BY <1>2, <1>3, <1>4, <3>1 DEF WindIInv, WindNumbers
    <3>3. Waits'
      BY <1>1, <1>2, <2>3, <3>1 DEF Waits
    <3>4. waited' = waited + d
      BY <1>1, <1>2, <2>3, <3>1, OldBound DEF Aged
    <3>5. vwind_valid => vwind_age <= Answered + waited
      BY <2>1 DEF WindIInv, Ages
    <3>6. vwind_valid' => vwind_age' <= Answered + waited'
      BY <1>1, <1>3, <3>4, <3>5 DEF WindIInv, WindNumbers, Answered
    <3> QED BY <3>1, <3>2, <3>3, <3>6 DEF WindIInv, Ages
  <2> QED BY <2>2, <2>3
<1>6. CASE wind_wait_DE_h(d)
  <2>1. /\ wind_state = "wait_DE_h" /\ waited < W /\ Elapsed = waited /\ Older(d)
    BY <1>3, <1>4, <1>6, PassNumbers, <1>1 DEF wind_wait_DE_h, WindIInv, Waits, Elapsed, Older
  <2>2. CASE Aged(waited, d) >= W
    <3>1. wind_state' = "request" /\ waited' = 0
      BY <1>6, <2>2 DEF wind_wait_DE_h, W, Restarted
    <3>2. WindNumbers' /\ Waits'
      BY <1>1, <1>3, <1>4, <3>1 DEF WindIInv, WindNumbers, Waits
    <3>3. Elapsed' = W + L
      BY <3>1 DEF Elapsed
    <3>4. Elapsed + d <= Elapsed' /\ Elapsed \in Nat /\ Elapsed' \in Nat
      BY <1>1, <2>1, <3>3
    <3> QED BY <1>1, <2>1, <3>1, <3>2, <3>4, AgesGrow DEF WindIInv
  <2>3. CASE ~(Aged(waited, d) >= W)
    <3>1. wind_state' = "wait_DE_h" /\ waited' = Aged(waited, d)
      BY <1>6, <2>1, <2>3 DEF wind_wait_DE_h, W
    <3>2. WindNumbers' /\ Waits'
      BY <1>1, <1>2, <1>3, <1>4, <2>3, <3>1 DEF WindIInv, WindNumbers, Waits
    <3>3. Elapsed' = waited' /\ waited' = waited + d
      BY <1>1, <1>2, <2>3, <3>1, OldBound DEF Elapsed, Aged
    <3>4. Elapsed + d <= Elapsed' /\ Elapsed \in Nat /\ Elapsed' \in Nat
      BY <1>1, <2>1, <3>3
    <3> QED BY <1>1, <2>1, <3>1, <3>2, <3>4, AgesGrow DEF WindIInv
  <2> QED BY <2>2, <2>3
<1>7. CASE wind_request(d)
  <2>1. /\ wind_state = "request" /\ wind_state' = "wait_DE_l" /\ waited = 0
        /\ to_send' = Q /\ waited' = Aged(waited, d) /\ Elapsed = W + L
        /\ Older(d)
    BY <1>3, <1>4, <1>7 DEF wind_request, WindIInv, Waits, Elapsed, Older, Q
  <2>2. WindNumbers' /\ Waits'
    BY <1>1, <1>2, <1>3, <1>4, <2>1 DEF WindIInv, WindNumbers, Waits
  <2>3. Elapsed' = W + L + L + (Q - to_send') + IF to_send' > 1 THEN 0 ELSE waited'
    BY <2>1 DEF Elapsed
  <2>4. Elapsed + d <= Elapsed' /\ Elapsed \in Nat /\ Elapsed' \in Nat
    BY <1>1, <1>2, <2>1, <2>3
  <2> QED BY <1>1, <2>1, <2>2, <2>4, AgesGrow DEF WindIInv
<1> QED BY <1>5, <1>6, <1>7

LEMMA Leaving ==
    ASSUME NEW k \in Nat, NEW q \in Nat, NEW x \in Nat, NEW y \in Nat, NEW d \in Nat,
           NEW w \in Nat, x <= q, y <= x
    PROVE  /\ y = x - d => k + (q - x) + d <= k + (q - y)
           /\ k + (q - y) \in Nat
           /\ k + (q - x) + d <= k + (q - y) + (w + d)
           /\ k + (q - x) + w + d <= k + (q - y) + (w + d)
           /\ k + (q - y) + (w + d) \in Nat
OBVIOUS

LEMMA SentBound ==
    ASSUME NEW w \in Nat, NEW l \in Nat, NEW q \in Nat, NEW x \in Nat, NEW p \in Nat,
           x <= q, p <= w + l
    PROVE  w + l + l + (q - x) + (IF x > 1 THEN 0 ELSE p) <= w + l + l + q + (w + l)
<1>1. w + l + l + (q - x) + 0 <= w + l + l + q + (w + l)
  OBVIOUS
<1>2. w + l + l + (q - x) + p <= w + l + l + q + (w + l)
  OBVIOUS
<1> QED BY <1>1, <1>2

\* wait_DE_l: its timer restarts until no character is waiting in the buffer.
LEMMA SinceSentIs ==
    ASSUME NEW d \in Nat, to_send' \in Nat
    PROVE  SinceSent(d, SERIAL_TX_waiting') = IF to_send' > 1 THEN 0 ELSE Aged(waited, d)
<1>1. CASE to_send' > 1
  <2>1. SERIAL_TX_waiting' = to_send' - 1 /\ SERIAL_TX_waiting' > 0
    <3>1. SERIAL_TX_waiting' = to_send' - 1
      BY <1>1 DEF SERIAL_TX_waiting
    <3>2. \A x \in Nat : x > 1 => x - 1 > 0
      OBVIOUS
    <3>3. to_send' - 1 > 0
      BY <1>1, <3>2
    <3> QED BY <3>1, <3>3
  <2> QED BY <1>1, <2>1 DEF SinceSent, Restarted
<1>2. CASE ~(to_send' > 1)
  <2>1. SERIAL_TX_waiting' = 0
    BY <1>2 DEF SERIAL_TX_waiting
  <2> QED BY <1>2, <2>1 DEF SinceSent
<1> QED BY <1>1, <1>2

\* The request leaves, the driver is switched off.
LEMMA WindSends ==
    ASSUME WindIInv, NEW d \in WindPasses, wind_wait_DE_l(d)
    PROVE  WindIInv'
<1>1. /\ d \in Nat /\ d <= L /\ waited \in Nat /\ waited <= W + L
      /\ to_send \in Nat /\ to_send <= Q /\ wind_state = "wait_DE_l"
      /\ S \in Nat /\ W \in Nat /\ R \in Nat /\ Q \in Nat /\ L \in Nat /\ W >= 1
  BY WindConstants DEF WindIInv, WindNumbers, Waits, wind_wait_DE_l
<1>2. /\ Aged(waited, d) \in Nat /\ Aged(waited, d) <= waited + d
      /\ Aged(waited, d) >= W <=> waited + d >= W
  BY <1>1, AgedBound, OldBound
<1>3. /\ to_send' \in Nat /\ to_send' <= Q /\ to_send' <= to_send /\ (to_send' > 1 => to_send' = to_send - d)
      /\ received_age' \in Nat /\ received_age' <= received_age + d
  BY <1>1, PassNumbers DEF wind_wait_DE_l, WindIInv
<1>4. /\ vwind_valid' = vwind_valid /\ vwind_age' \in Nat /\ vwind_age' <= vwind_age + d
      /\ received' = received
      /\ Older(d)
  BY <1>1, <1>3, KeepNumbers DEF wind_wait_DE_l, WindIInv, Older
<1> DEFINE since == SinceSent(d, SERIAL_TX_waiting')
<1>5. since = IF to_send' > 1 THEN 0 ELSE Aged(waited, d)
  BY <1>1, <1>3, SinceSentIs
<1>6. Elapsed = W + L + L + (Q - to_send) + IF to_send > 1 THEN 0 ELSE waited
  BY <1>1 DEF Elapsed
<1>7. Elapsed \in Nat
  BY ElapsedType DEF WindIInv
<1> HIDE DEF since
<1>8. CASE since >= W
  <2>1. wind_state' = "read" /\ waited' = 0 /\ ~(to_send' > 1)
    <3>1. wind_state' = "read" /\ waited' = 0
      BY <1>8 DEF wind_wait_DE_l, Restarted, since, W
    <3>2. ~(to_send' > 1)
      BY <1>1, <1>5, <1>8
    <3> QED BY <3>1, <3>2
  <2>2. WindNumbers' /\ Waits'
    BY <1>1, <1>3, <1>4, <2>1 DEF WindIInv, WindNumbers, Waits
  <2>3. Elapsed' = W + W + L + L + L + L + Q + waited'
    BY <2>1 DEF Elapsed
  <2>4. Elapsed + d <= Elapsed' /\ Elapsed' \in Nat
    <3>1. Elapsed <= W + L + L + Q + (W + L)
      BY <1>1, <1>6, SentBound
    <3> QED BY <1>1, <1>7, <2>1, <2>3, <3>1
  <2> QED BY <1>1, <1>4, <1>7, <2>1, <2>2, <2>4, AgesGrow DEF WindIInv
<1>9. CASE ~(since >= W)
  <2>1. wind_state' = "wait_DE_l" /\ waited' = since
    BY <1>1, <1>9 DEF wind_wait_DE_l, since, W
  <2>2. since \in Nat /\ since <= W + L
    <3>1. CASE to_send' > 1
      BY <1>1, <1>5, <3>1
    <3>2. CASE ~(to_send' > 1)
      <4>1. since = Aged(waited, d) /\ ~(waited + d >= W)
        BY <1>2, <1>5, <1>9, <3>2
      <4> QED BY <1>1, <1>2, <4>1
    <3> QED BY <3>1, <3>2
  <2>3. WindNumbers' /\ Waits'
    BY <1>1, <1>3, <1>4, <2>1, <2>2 DEF WindIInv, WindNumbers, Waits
  <2>4. Elapsed' = W + L + L + (Q - to_send') + IF to_send' > 1 THEN 0 ELSE waited'
    BY <2>1 DEF Elapsed
  <2>5. ~(to_send' > 1) => waited' = waited + d
    BY <1>1, <1>2, <1>5, <1>9, <2>1, OldBound DEF Aged
  <2>6. waited' \in Nat
    BY <2>1, <2>2
  <2>7. Elapsed + d <= Elapsed' /\ Elapsed' \in Nat
    <3>1. CASE to_send' > 1
      <4>1. /\ Elapsed = W + L + L + (Q - to_send)
            /\ Elapsed' = W + L + L + (Q - to_send')
        <5>1. to_send > 1
          BY <1>1, <1>3, <3>1
        <5>2. Elapsed = W + L + L + (Q - to_send)
          BY <1>1, <1>6, <5>1
        <5>3. Elapsed' = W + L + L + (Q - to_send') + 0
          BY <2>4, <3>1
        <5>4. Elapsed' = W + L + L + (Q - to_send')
          BY <1>1, <1>3, <5>3
        <5> QED BY <5>2, <5>4
      <4>2. W + L + L \in Nat
        BY <1>1
      <4>3. to_send' = to_send - d
        BY <1>3, <3>1
      <4> QED BY <1>1, <1>3, <4>1, <4>2, <4>3, Leaving
    <3>2. CASE ~(to_send' > 1)
      <4>1. Elapsed' = W + L + L + (Q - to_send') + waited' /\ waited' = waited + d
        BY <2>4, <2>5, <3>2
      <4>2. CASE to_send > 1
        <5>1. Elapsed = W + L + L + (Q - to_send)
          BY <1>1, <1>6, <4>2
        <5>2. W + L + L \in Nat
          BY <1>1
        <5> QED BY <1>1, <1>3, <2>6, <4>1, <5>1, <5>2, Leaving
      <4>3. CASE ~(to_send > 1)
        <5>1. Elapsed = W + L + L + (Q - to_send) + waited
          BY <1>1, <1>6, <4>3
        <5>2. W + L + L \in Nat
          BY <1>1
        <5> QED BY <1>1, <1>3, <4>1, <5>1, <5>2, Leaving
      <4> QED BY <4>2, <4>3
    <3> QED BY <3>1, <3>2
  <2> QED BY <1>1, <1>4, <1>7, <2>1, <2>3, <2>7, AgesGrow DEF WindIInv
<1> QED BY <1>8, <1>9


\* The answer is there: whatever it is made of came after the last idle pass.
LEMMA WindEnds ==
    ASSUME WindIInv, NEW d \in WindPasses, NEW good \in BOOLEAN, wind_answer(d, good)
    PROVE  WindIInv'
<1>1. /\ d \in Nat /\ d <= L /\ waited \in Nat /\ waited <= R
      /\ received \in Nat /\ received >= AnswerLength
      /\ wind_state = "read" /\ wind_state' = "idle"
      /\ S \in Nat /\ W \in Nat /\ R \in Nat /\ Q \in Nat /\ L \in Nat /\ S >= 1
  BY WindConstants DEF WindIInv, WindNumbers, Waits, wind_answer
<1>2. /\ Aged(waited, d) \in Nat
      /\ to_send' \in Nat /\ to_send' <= Q
      /\ received_age \in Nat
      /\ received_age' \in Nat
  BY <1>1, AgedBound, PassNumbers DEF wind_answer, WindIInv, WindNumbers
<1>3. waited' \in Nat
  BY <1>2 DEF wind_answer, Restarted
<1>4. received' \in Nat
  BY <1>1 DEF wind_answer, AnswerLength
<1>5. CASE good /\ received = AnswerLength
  <2>1. /\ waited' = 0 /\ vwind_valid' = TRUE /\ vwind_age' = Aged(received_age, d)
    BY <1>5 DEF wind_answer, Restarted
  <2>2. received_age <= Elapsed /\ Elapsed = W + W + L + L + L + L + Q + waited
    <3>1. received > 0
      BY <1>1 DEF AnswerLength
    <3> QED BY <1>1, <3>1 DEF WindIInv, Ages, Elapsed
  <2>3. vwind_age' \in Nat /\ vwind_age' <= received_age + d
    BY <1>1, <1>2, <2>1, AgedBound
  <2>4. vwind_age' <= Answered
    BY <1>1, <1>2, <2>2, <2>3 DEF Answered
  <2>5. WindNumbers'
    BY <1>1, <1>2, <1>3, <1>4, <2>1, <2>3 DEF WindNumbers
  <2>6. Waits'
    BY <1>1, <2>1 DEF Waits
  <2>7. vwind_age' <= Answered + waited'
    <3>1. Answered \in Nat
      BY <1>1 DEF Answered
    <3> QED BY <2>1, <2>4, <3>1
  <2> QED BY <1>1, <2>5, <2>6, <2>7 DEF WindIInv, Ages
<1>6. CASE ~(good /\ received = AnswerLength)
  <2>1. vwind_valid' = FALSE /\ vwind_age' = vwind_age
    BY <1>6 DEF wind_answer, NoReading
  <2>2. WindNumbers'
    BY <1>1, <1>2, <1>3, <1>4, <2>1 DEF WindIInv, WindNumbers
  <2> QED BY <1>1, <2>1, <2>2 DEF WindIInv, Waits, Ages
<1> QED BY <1>5, <1>6

\* No answer yet: the timer runs on, or it has run out and there is no reading.
LEMMA WindWaits ==
    ASSUME WindIInv, NEW d \in WindPasses, wind_wait_answer(d)
    PROVE  WindIInv'
<1>1. /\ d \in Nat /\ d <= L /\ waited \in Nat /\ waited <= R
      /\ wind_state = "read" /\ waited' = Aged(waited, d) /\ received' = received
      /\ S \in Nat /\ W \in Nat /\ R \in Nat /\ Q \in Nat /\ L \in Nat
  BY WindConstants DEF WindIInv, WindNumbers, Waits, wind_wait_answer
<1>2. /\ waited' \in Nat
      /\ to_send' \in Nat /\ to_send' <= Q
      /\ received_age' \in Nat /\ received_age' <= received_age + d
  BY <1>1, AgedBound, PassNumbers DEF wind_wait_answer, WindIInv
<1>3. CASE Aged(waited, d) >= R
  <2>1. wind_state' = "idle" /\ vwind_valid' = FALSE /\ vwind_age' = vwind_age
    BY <1>3 DEF wind_wait_answer, GivenUp, NoReading, R
  <2>2. WindNumbers'
    BY <1>1, <1>2, <2>1 DEF WindIInv, WindNumbers
  <2> QED BY <2>1, <2>2 DEF WindIInv, Waits, Ages
<1>4. CASE ~(Aged(waited, d) >= R)
  <2>1. wind_state' = "read" /\ KeepReading(d)
    BY <1>1, <1>4 DEF wind_wait_answer, R
  <2>2. vwind_valid' = vwind_valid /\ vwind_age' \in Nat /\ vwind_age' <= vwind_age + d
    BY <1>1, <2>1, KeepNumbers DEF WindIInv
  <2>3. Older(d)
    BY <1>1, <1>2, <2>2 DEF Older
  <2>4. waited' = waited + d /\ waited' <= R
    <3>1. ~(waited + d >= R)
      BY <1>1, <1>4, AgedBound, OldBound
    <3> QED BY <1>1, <3>1, OldBound DEF Aged
  <2>5. WindNumbers'
    BY <1>1, <1>2, <2>1, <2>2 DEF WindIInv, WindNumbers
  <2>6. Waits'
    BY <2>1, <2>4 DEF Waits
  <2>7. /\ Elapsed = W + W + L + L + L + L + Q + waited
        /\ Elapsed' = W + W + L + L + L + L + Q + waited'
    BY <1>1, <2>1 DEF Elapsed
  <2>8. Elapsed \in Nat /\ Elapsed' \in Nat /\ Elapsed + d <= Elapsed'
    BY <1>1, <1>2, <2>4, <2>7
  <2> QED BY <1>1, <2>1, <2>3, <2>5, <2>6, <2>8, AgesGrow DEF WindIInv
<1> QED BY <1>3, <1>4

LEMMA WindBytes ==
    ASSUME WindIInv, NEW n \in {1, AnswerLength}, BytesArrive(n)
    PROVE  WindIInv'
<1>1. /\ received \in Nat /\ received_age \in Nat
      /\ received' = received + n /\ n \in Nat
      /\ received_age' = IF received = 0 THEN 0 ELSE received_age
  BY DEF WindIInv, WindNumbers, BytesArrive, AnswerLength
<1>2. /\ wind_state' = wind_state /\ waited' = waited /\ to_send' = to_send
      /\ vwind_valid' = vwind_valid /\ vwind_age' = vwind_age
  BY DEF BytesArrive
<1>3. Elapsed' = Elapsed /\ Elapsed \in Nat
  BY <1>2, ElapsedType DEF WindIInv, Elapsed
<1>4. received' \in Nat /\ received_age' \in Nat
  BY <1>1
<1>5. WindNumbers'
  BY <1>2, <1>4 DEF WindIInv, WindNumbers
<1>6. Waits'
  BY <1>2 DEF WindIInv, Waits
<1>7. (received > 0 => received_age <= Elapsed) => received_age' <= Elapsed'
  BY <1>1, <1>3
<1>8. Ages'
  BY <1>2, <1>3, <1>7 DEF WindIInv, Ages
<1> QED BY <1>5, <1>6, <1>8 DEF WindIInv

LEMMA WindStarts == WindInit => WindIInv
<1> SUFFICES ASSUME WindInit PROVE WindIInv
  OBVIOUS
<1>1. /\ waited = 0 /\ to_send = 0 /\ received = 0 /\ received_age = 0 /\ vwind_age = 0
      /\ wind_state = "idle" /\ vwind_valid = FALSE
  BY DEF WindInit
<1>2. 0 \in Nat /\ 0 <= Q
  BY WindConstants
<1>3. WindNumbers
  BY <1>1, <1>2 DEF WindNumbers
<1> QED BY <1>1, <1>3 DEF WindInit, WindIInv, Waits, Ages

LEMMA WindStep == WindIInv /\ [WindNext]_windVars => WindIInv'
<1> SUFFICES ASSUME WindIInv, [WindNext]_windVars PROVE WindIInv'
  OBVIOUS
<1>1. ASSUME NEW d \in WindPasses, wind_idle(d) \/ wind_wait_DE_h(d) \/ wind_request(d)
      PROVE  WindIInv'
  BY <1>1, WindBegins
<1>2. ASSUME NEW d \in WindPasses, wind_wait_DE_l(d)
      PROVE  WindIInv'
  BY <1>2, WindSends
<1>3. ASSUME NEW d \in WindPasses, wind_wait_answer(d)
      PROVE  WindIInv'
  BY <1>3, WindWaits
<1>4. ASSUME NEW d \in WindPasses, NEW good \in BOOLEAN, wind_answer(d, good)
      PROVE  WindIInv'
  BY <1>4, WindEnds
<1>5. ASSUME NEW n \in {1, AnswerLength}, BytesArrive(n)
      PROVE  WindIInv'
  BY <1>5, WindBytes
<1>6. CASE UNCHANGED windVars
  BY <1>6 DEF windVars, WindIInv, WindNumbers, Waits, Ages, Elapsed
<1> QED BY <1>1, <1>2, <1>3, <1>4, <1>5, <1>6 DEF WindNext

LEMMA WindFresh == WindIInv => WindIsFresh
<1> SUFFICES ASSUME WindIInv, vwind_valid PROVE vwind_age <= 2 * Cycle
  BY DEF WindIsFresh
<1>1. /\ waited \in Nat /\ to_send \in Nat /\ to_send <= Q /\ vwind_age \in Nat
      /\ S \in Nat /\ W \in Nat /\ R \in Nat /\ Q \in Nat /\ L \in Nat
      /\ Cycle = S + W + W + Q + R + L + L + L + L + L + L
      /\ 2 * Cycle = Cycle + Cycle
  BY WindConstants, OldBound DEF WindIInv, WindNumbers
<1>2. CASE wind_state = "idle"
  <2>1. waited < S /\ vwind_age <= Answered + waited
    BY <1>2 DEF WindIInv, Waits, Ages
  <2> QED BY <1>1, <2>1 DEF Answered
<1>3. CASE wind_state # "idle"
  <2>1. Elapsed \in Nat /\ vwind_age <= Answered + S + L + Elapsed
    BY <1>3, ElapsedType DEF WindIInv, Ages
  <2>2. Elapsed <= W + W + L + L + L + L + Q + R
    <3>1. CASE wind_state = "wait_DE_h"
      BY <1>1, <3>1 DEF WindIInv, Waits, Elapsed
    <3>2. CASE wind_state = "request"
      BY <1>1, <3>2 DEF Elapsed
    <3>3. CASE wind_state = "wait_DE_l"
      <4>1. waited <= W + L
        BY <3>3 DEF WindIInv, Waits
      <4>2. Elapsed = W + L + L + (Q - to_send) + IF to_send > 1 THEN 0 ELSE waited
        BY <3>3 DEF Elapsed
      <4>3. Elapsed <= W + L + L + Q + (W + L)
        BY <1>1, <4>1, <4>2, SentBound
      <4> QED BY <1>1, <2>1, <4>3
    <3>4. CASE wind_state = "read"
      <4>1. waited <= R
        BY <3>4 DEF WindIInv, Waits
      <4> QED BY <1>1, <3>4, <4>1 DEF Elapsed
    <3> QED BY <1>3, <3>1, <3>2, <3>3, <3>4 DEF WindIInv, WindNumbers
  <2>3. /\ Answered \in Nat
        /\ Answered = W + W + L + L + L + L + L + Q + R
    BY <1>1 DEF Answered
  <2> QED BY <1>1, <2>1, <2>2, <2>3
<1> QED BY <1>2, <1>3

\* A reading of the wind is never older than two cycles, whatever the passes,
\* the waits and the timeout are: a sensor that stops answering is not
\* reported with its last wind for ever (sensor_wind.cpp:79-123).
THEOREM WindIsFreshHolds == WindSpec => []WindIsFresh
<1>1. WindInit => WindIInv
  BY WindStarts
<1>2. WindIInv /\ [WindNext]_windVars => WindIInv'
  BY WindStep
<1>3. WindIInv => WindIsFresh
  BY WindFresh
<1> QED BY <1>1, <1>2, <1>3, PTL DEF WindSpec

\* The driver is on while the request is sent but for its last character, and
\* as long as every pass is shorter than its wait and than the request, for all
\* of it.
Driven ==
    /\ wind_state \in {"wait_DE_h", "request", "wait_DE_l"} => DE
    /\ to_send > 1 => wind_state = "wait_DE_l"

DrivenToTheEnd ==
    /\ to_send > 0 => wind_state = "wait_DE_l"
    /\ wind_state = "wait_DE_l" /\ to_send > 1 => waited = 0 \/ to_send = Q

LEMMA DriverStates ==
    ASSUME WindIInv, Driven, [WindNext]_windVars
    PROVE  wind_state' \in {"wait_DE_h", "request", "wait_DE_l"} => DE'
<1>1. ASSUME NEW d \in WindPasses,
             \/ wind_idle(d) \/ wind_wait_DE_h(d) \/ wind_request(d) \/ wind_wait_DE_l(d)
             \/ wind_wait_answer(d) \/ \E good \in BOOLEAN : wind_answer(d, good)
      PROVE  wind_state' \in {"wait_DE_h", "request", "wait_DE_l"} => DE'
  BY <1>1, Zenon
  DEF Driven, wind_idle, wind_wait_DE_h, wind_request, wind_wait_DE_l, wind_wait_answer, wind_answer
<1>2. CASE (\E n \in {1, AnswerLength} : BytesArrive(n)) \/ UNCHANGED windVars
  BY <1>2, Zenon DEF Driven, BytesArrive, windVars
<1> QED BY <1>1, <1>2 DEF WindNext

\* What the request in the line does in a step.
LEMMA RequestSteps ==
    ASSUME WindIInv, [WindNext]_windVars
    PROVE  \/ wind_state = "request" /\ wind_state' = "wait_DE_l" /\ to_send' = Q
           \/ \E d \in WindPasses : wind_wait_DE_l(d)
           \/ /\ to_send' <= to_send
              /\ wind_state # "wait_DE_l" /\ wind_state' # "wait_DE_l"
           \/ to_send' = to_send /\ wind_state' = wind_state /\ waited' = waited
<1>1. ASSUME NEW d \in WindPasses, wind_request(d)
      PROVE  wind_state = "request" /\ wind_state' = "wait_DE_l" /\ to_send' = Q
  BY <1>1 DEF wind_request, Q
<1>2. ASSUME NEW d \in WindPasses,
             \/ wind_idle(d) \/ wind_wait_DE_h(d) \/ wind_wait_answer(d)
             \/ \E good \in BOOLEAN : wind_answer(d, good)
      PROVE  /\ to_send' <= to_send
             /\ wind_state # "wait_DE_l" /\ wind_state' # "wait_DE_l"
  <2>1. Pass(d) /\ d \in Nat
    BY <1>2, WindConstants DEF wind_idle, wind_wait_DE_h, wind_wait_answer, wind_answer
  <2>2. to_send' <= to_send
    BY <2>1, PassNumbers DEF WindIInv
  <2>3. wind_state # "wait_DE_l" /\ wind_state' # "wait_DE_l"
    BY <1>2 DEF wind_idle, wind_wait_DE_h, wind_wait_answer, wind_answer
  <2> QED BY <2>2, <2>3
<1>3. CASE (\E n \in {1, AnswerLength} : BytesArrive(n)) \/ UNCHANGED windVars
  BY <1>3 DEF BytesArrive, windVars
<1> QED BY <1>1, <1>2, <1>3 DEF WindNext

\* One pass in which the rest of the request leaves.
LEMMA RequestLeaves ==
    ASSUME WindIInv, NEW d \in WindPasses, wind_wait_DE_l(d)
    PROVE  /\ wind_state = "wait_DE_l" /\ to_send \in Nat /\ to_send' \in Nat
           /\ to_send' > 0 => to_send > 1 /\ to_send <= to_send' + L
           /\ to_send' > 1 => wind_state' = "wait_DE_l" /\ waited' = 0
           /\ to_send' <= to_send
           /\ waited + L < W => wind_state' = "wait_DE_l"
<1>1. /\ d \in Nat /\ d >= 1 /\ d <= L /\ waited \in Nat /\ to_send \in Nat
      /\ W \in Nat /\ L \in Nat /\ W >= 1 /\ wind_state = "wait_DE_l"
  BY WindConstants DEF WindIInv, WindNumbers, wind_wait_DE_l
<1>2. to_send' = IF to_send > d THEN to_send - d ELSE 0
  BY DEF wind_wait_DE_l, Pass
<1>3. /\ to_send' \in Nat /\ to_send' <= to_send
      /\ to_send' > 0 => to_send > 1 /\ to_send <= to_send' + L
  BY <1>1, <1>2
<1> DEFINE since == SinceSent(d, SERIAL_TX_waiting')
<1>4. since = IF to_send' > 1 THEN 0 ELSE Aged(waited, d)
  BY <1>1, <1>3, SinceSentIs
<1>5. Aged(waited, d) \in Nat /\ Aged(waited, d) <= waited + d
  BY <1>1, AgedBound
<1>6. ~(since >= W) => wind_state' = "wait_DE_l" /\ waited' = since
  BY <1>1 DEF wind_wait_DE_l, W
<1> HIDE DEF since
<1>7. to_send' > 1 => wind_state' = "wait_DE_l" /\ waited' = 0
  <2>1. to_send' > 1 => since = 0 /\ ~(since >= W)
    BY <1>1, <1>4
  <2> QED BY <1>6, <2>1
<1>8. waited + L < W => wind_state' = "wait_DE_l"
  <2>1. waited + L < W => ~(since >= W)
    BY <1>1, <1>3, <1>4, <1>5
  <2> QED BY <1>6, <2>1
<1> QED BY <1>1, <1>3, <1>7, <1>8

LEMMA DrivenSteps == WindIInv /\ Driven /\ [WindNext]_windVars => Driven'
<1> SUFFICES ASSUME WindIInv, Driven, [WindNext]_windVars PROVE Driven'
  OBVIOUS
<1>1. to_send' > 1 => wind_state' = "wait_DE_l"
  <2>1. to_send > 1 => wind_state = "wait_DE_l"
    BY DEF Driven
  <2>2. to_send \in Nat /\ to_send' \in Nat
    BY WindStep DEF WindIInv, WindNumbers
  <2>3. ASSUME NEW d \in WindPasses, wind_wait_DE_l(d)
        PROVE  to_send' > 1 => wind_state' = "wait_DE_l"
    BY <2>3, RequestLeaves
  <2> QED BY <2>1, <2>2, <2>3, RequestSteps
<1> QED BY <1>1, DriverStates DEF Driven

LEMMA DrivenToTheEndSteps ==
    ASSUME L < W, L + 1 < Q
    PROVE  WindIInv /\ DrivenToTheEnd /\ [WindNext]_windVars => DrivenToTheEnd'
<1> SUFFICES ASSUME WindIInv, DrivenToTheEnd, [WindNext]_windVars PROVE DrivenToTheEnd'
  OBVIOUS
<1>1. /\ to_send > 0 => wind_state = "wait_DE_l"
      /\ wind_state = "wait_DE_l" /\ to_send > 1 => waited = 0 \/ to_send = Q
      /\ to_send \in Nat /\ to_send' \in Nat /\ waited \in Nat
      /\ L \in Nat /\ W \in Nat /\ Q \in Nat
  BY WindStep, WindConstants DEF DrivenToTheEnd, WindIInv, WindNumbers
<1>2. ASSUME NEW d \in WindPasses, wind_wait_DE_l(d)
      PROVE  /\ to_send' > 0 => wind_state' = "wait_DE_l"
             /\ wind_state' = "wait_DE_l" /\ to_send' > 1 => waited' = 0
  <2>1. /\ wind_state = "wait_DE_l"
        /\ to_send' > 0 => to_send > 1 /\ to_send <= to_send' + L
        /\ to_send' > 1 => wind_state' = "wait_DE_l" /\ waited' = 0
        /\ waited + L < W => wind_state' = "wait_DE_l"
    BY <1>2, RequestLeaves
  <2>2. to_send' > 0 => to_send' > 1 \/ waited + L < W
    <3>1. to_send' > 0 => waited = 0 \/ to_send = Q
      BY <1>1, <2>1
    <3>2. to_send' > 0 /\ to_send = Q => to_send' > 1
      <4>1. to_send' > 0 => to_send <= to_send' + L
        BY <2>1
      <4>2. \A l, q, x \in Nat : l + 1 < q /\ q <= x + l => x > 1
        OBVIOUS
      <4> QED BY <1>1, <4>1, <4>2
    <3>3. waited = 0 => waited + L < W
      BY <1>1
    <3> QED BY <3>1, <3>2, <3>3
  <2> QED BY <2>1, <2>2
<1>3. CASE wind_state = "request" /\ wind_state' = "wait_DE_l" /\ to_send' = Q
  BY <1>3 DEF DrivenToTheEnd
<1>4. CASE /\ to_send' <= to_send
           /\ wind_state # "wait_DE_l" /\ wind_state' # "wait_DE_l"
  BY <1>1, <1>4 DEF DrivenToTheEnd
<1>5. CASE to_send' = to_send /\ wind_state' = wind_state /\ waited' = waited
  BY <1>1, <1>5 DEF DrivenToTheEnd
<1> QED BY <1>2, <1>3, <1>4, <1>5, RequestSteps DEF DrivenToTheEnd

LEMMA DriverStarts == WindInit => Driven /\ DrivenToTheEnd
BY DEF WindInit, Driven, DrivenToTheEnd

\* Whatever the passes of the main loop take, the driver cuts off at most the
\* last character of the request (sensor_wind.cpp:41-75).
THEOREM OnlyLastCharacterCut == WindSpec => [](to_send > 1 => DE)
<1>1. WindSpec => [](WindIInv /\ Driven)
  BY DriverStarts, DrivenSteps, WindStarts, WindStep, PTL DEF WindSpec
<1>2. Driven => (to_send > 1 => DE)
  BY Zenon DEF Driven
<1> QED BY <1>1, <1>2, PTL

\* What the comment of sensor_wind.h:5-11 asks of SENSOR_WIND_DE_WAIT: if every pass
\* of the main loop is shorter than it, and than the request, no request is cut.
THEOREM RequestNotCutIfPassesShort ==
    ASSUME LongestPass < SENSOR_WIND_DE_WAIT, LongestPass + 1 < RequestLength
    PROVE  WindSpec => []RequestNotCut
<1>1. L < W /\ L + 1 < Q
  BY DEF L, W, Q
<1>2. WindIInv /\ DrivenToTheEnd /\ [WindNext]_windVars => DrivenToTheEnd'
  BY <1>1, DrivenToTheEndSteps
<1>3. WindSpec => [](Driven /\ DrivenToTheEnd)
  BY <1>2, DriverStarts, DrivenSteps, WindStarts, WindStep, PTL DEF WindSpec
<1>4. Driven /\ DrivenToTheEnd => RequestNotCut
  BY Zenon DEF Driven, DrivenToTheEnd, RequestNotCut
<1> QED BY <1>3, <1>4, PTL

-----------------------------------------------------------------------------
(* MQTT: what the broker lacks is still to be reported, or the connection  *)
(* does not stand.                                                         *)

EthShape ==
    [eth_skip : BOOLEAN, ip : BOOLEAN, sock : {"closed", "open", "half"},
     MQTT_reconnect_count : Int, init_age : Int, full_age : Int,
     connect_age : Int, stuck_age : Int]

MqttShape ==
    /\ eth \in EthShape
    /\ report_raw \in BOOLEAN /\ reported \in BOOLEAN /\ passed_over \in BOOLEAN
    /\ raw \in [value : Readings, changed : BOOLEAN]
    /\ status \in Readings /\ prev \in Readings
    /\ broker \in [raw : Readings \cup {NoMessage}, status : Readings]

\* Between a pass that reports and the next report of the power board nothing is
\* left to be reported.
RawTold ==
    eth.sock = "open" /\ report_raw /\ ~reported /\ ~passed_over =>
        broker.raw = raw.value

MqttIInv == MqttShape /\ RawTold /\ BrokerCatchesUp

LEMMA MqttStarts == MqttInit => MqttIInv
<1> SUFFICES ASSUME MqttInit PROVE MqttIInv
  OBVIOUS
<1>1. eth \in EthShape /\ eth.sock = "closed"
  <2>1. PICK got \in BOOLEAN :
            eth = [eth_skip |-> ~got, ip |-> got, sock |-> "closed",
                   MQTT_reconnect_count |-> 0, init_age |-> 0, full_age |-> 0,
                   connect_age |-> 0, stuck_age |-> 0]
    BY DEF MqttInit, Dhcp
  <2>2. CASE got
    BY <2>1, <2>2 DEF EthShape
  <2>3. CASE ~got
    BY <2>1, <2>3 DEF EthShape
  <2> QED BY <2>2, <2>3
<1>2. raw \in [value : Readings, changed : BOOLEAN]
  BY DEF MqttInit
<1> QED BY <1>1, <1>2 DEF MqttInit, MqttIInv, MqttShape, RawTold, BrokerCatchesUp

\* A reset of the chip closes the connection.
LEMMA ReinitShape ==
    ASSUME NEW e \in EthShape, NEW got \in BOOLEAN
    PROVE  MQTT_reinit(e, got) \in EthShape /\ MQTT_reinit(e, got).sock = "closed"
<1> DEFINE cleared == [e EXCEPT !.MQTT_reconnect_count = 0]
           closed == [cleared EXCEPT !.sock = "closed"]
           skip == ~got
           made == [closed EXCEPT !.eth_skip = skip, !.ip = got]
<1>1. closed \in EthShape /\ closed.sock = "closed"
  <2>1. cleared \in EthShape
    BY DEF EthShape
  <2> HIDE DEF cleared
  <2> QED BY <2>1 DEF EthShape
<1>2. skip \in BOOLEAN
  OBVIOUS
<1> HIDE DEF closed, skip
<1>3. made \in EthShape /\ made.sock = "closed"
  BY <1>1, <1>2 DEF EthShape
<1>4. MQTT_reinit(e, got) = [made EXCEPT !.init_age = 0]
  BY DEF MQTT_reinit, MQTT_init, cleared, closed, skip
<1> HIDE DEF made
<1> QED BY <1>3, <1>4 DEF EthShape

LEMMA DhcpAnswers == Dhcp \subseteq BOOLEAN
BY DEF Dhcp

\* A chip that was reset while stuck has no connection either.
LEMMA StuckShape ==
    ASSUME eth \in EthShape, NEW e \in AfterStuck(eth)
    PROVE  /\ e \in EthShape
           /\ e.sock = "closed" \/ e = eth
<1>1. CASE e = eth
  BY <1>1
<1>2. ASSUME NEW got \in Dhcp, e = [MQTT_reinit(eth, got) EXCEPT !.stuck_age = 0]
      PROVE  e \in EthShape /\ e.sock = "closed"
  <2>1. MQTT_reinit(eth, got) \in EthShape /\ MQTT_reinit(eth, got).sock = "closed"
    BY DhcpAnswers, ReinitShape
  <2> QED BY <1>2, <2>1 DEF EthShape
<1>3. e = eth \/ \E got \in Dhcp : e = [MQTT_reinit(eth, got) EXCEPT !.stuck_age = 0]
  BY DEF AfterStuck
<1> QED BY <1>1, <1>2, <1>3

\* Steps that close the connection, or leave it and the reports alone.
LEMMA NothingReported ==
    ASSUME MqttIInv, eth' \in EthShape,
           \/ eth'.sock # "open" /\ reported' \in BOOLEAN
           \/ eth'.sock = eth.sock /\ reported' = reported,
           UNCHANGED reports
    PROVE  MqttIInv'
BY DEF MqttIInv, MqttShape, RawTold, BrokerCatchesUp, EthShape, reports

\* A pass that reports has the connection it began with, or forces a report
\* because it has just connected.
LEMMA FullLoopKeeps ==
    ASSUME MqttIInv, NEW e \in EthShape, NEW now \in BOOLEAN, NEW noticed \in BOOLEAN,
           e.sock = "open" => now \/ eth.sock = "open",
           FullLoop(e, now, noticed)
    PROVE  MqttIInv'
<1> USE DEF ForceReport
<1>1. eth' \in EthShape
  <2> DEFINE count == IF e.connect_age >= 5 * MQTTReconnectRate THEN 0
                      ELSE e.MQTT_reconnect_count
             sock == IF noticed THEN "closed" ELSE e.sock
             fewer == [e EXCEPT !.MQTT_reconnect_count = count]
             counted == [fewer EXCEPT !.full_age = 0]
  <2>1. eth' = [counted EXCEPT !.sock = sock]
    BY DEF FullLoop, EthShape
  <2>2. count \in Int /\ sock \in {"closed", "open", "half"}
    BY DEF EthShape
  <2> HIDE DEF count, sock
  <2>3. counted \in EthShape
    <3>1. fewer \in EthShape
      BY <2>2 DEF EthShape
    <3> HIDE DEF fewer
    <3> QED BY <3>1 DEF EthShape
  <2> HIDE DEF counted
  <2> QED BY <2>1, <2>2, <2>3 DEF EthShape
<1>2. /\ raw' \in [value : Readings, changed : BOOLEAN] /\ raw'.value = raw.value
      /\ report_raw' = report_raw /\ reported' = FALSE
      /\ passed_over' = (passed_over /\ ~now)
  BY DEF FullLoop, ReportRaw, MqttIInv, MqttShape
<1>3. prev' \in Readings /\ status' = status /\ status \in Readings
      /\ prev' = IF status # prev \/ now THEN status ELSE prev
  BY DEF FullLoop, ReportStatus, MqttIInv, MqttShape
<1>4. /\ broker'.status =
            IF (status # prev \/ now) /\ e.sock = "open" THEN status ELSE broker.status
      /\ broker' \in [raw : Readings \cup {NoMessage}, status : Readings]
  BY DEF FullLoop, ReportRaw, MqttIInv, MqttShape
<1>5. /\ report_raw /\ e.sock = "open" /\ (raw.changed \/ now) => broker'.raw = raw.value
      /\ ~report_raw /\ e.sock = "open" /\ now => broker'.raw = NoMessage
      /\ ~(raw.changed \/ now) => broker'.raw = broker.raw
      /\ ~report_raw /\ ~now => broker'.raw = broker.raw
  BY DEF FullLoop, ReportRaw, MqttIInv, MqttShape
<1>6. eth'.sock = "open" => e.sock = "open"
  BY DEF FullLoop, EthShape
<1>7. ASSUME eth'.sock = "open" PROVE broker'.status = prev'
  BY <1>3, <1>4, <1>6, <1>7 DEF MqttIInv, BrokerCatchesUp
<1>8. ASSUME eth'.sock = "open", report_raw
      PROVE  broker'.raw = raw'.value \/ passed_over'
  BY <1>2, <1>5, <1>6, <1>8 DEF MqttIInv, BrokerCatchesUp
<1>9. ASSUME eth'.sock = "open", ~report_raw PROVE broker'.raw = NoMessage
  BY <1>5, <1>6, <1>9 DEF MqttIInv, BrokerCatchesUp
<1> QED
  BY <1>1, <1>2, <1>3, <1>4, <1>7, <1>8, <1>9
  DEF MqttIInv, MqttShape, RawTold, BrokerCatchesUp

LEMMA MqttLoopKeeps == MqttIInv /\ MQTT_loop => MqttIInv'
<1> SUFFICES ASSUME MqttIInv, MQTT_loop PROVE MqttIInv'
  OBVIOUS
<1> PICK e \in AfterStuck(eth) :
          \/ EthReset(e)
          \/ ConnectFails(e) \/ NotConnected(e)
          \/ ConnectDue(e) /\ Connects(e) /\ FullLoop(Attempted(e), TRUE, FALSE)
          \/ \E noticed \in BOOLEAN : FullLoop(e, FALSE, noticed)
  BY DEF MQTT_loop
<1>1. e \in EthShape /\ (e.sock = "closed" \/ e = eth)
  BY StuckShape DEF MqttIInv, MqttShape
<1>2. CASE EthReset(e)
  <2>1. PICK got \in Dhcp : eth' = MQTT_reinit([e EXCEPT !.full_age = 0], got)
    BY <1>2 DEF EthReset
  <2>2. [e EXCEPT !.full_age = 0] \in EthShape
    BY <1>1 DEF EthShape
  <2>3. eth' \in EthShape /\ eth'.sock = "closed"
    BY <2>1, <2>2, DhcpAnswers, ReinitShape
  <2> QED BY <1>2, <2>3, NothingReported DEF EthReset
<1>3. Attempted(e) \in EthShape
  <2>1. Counted(e.MQTT_reconnect_count) \in Int
    BY <1>1 DEF Counted, EthShape
  <2> DEFINE sock == IF Connects(e) THEN "open" ELSE "closed"
             count == Counted(e.MQTT_reconnect_count)
             ended == [e EXCEPT !.sock = sock]
             tried == [ended EXCEPT !.connect_age = 0]
  <2>2. Attempted(e) = [tried EXCEPT !.MQTT_reconnect_count = count]
    BY <1>1 DEF Attempted, EthShape
  <2>3. sock \in {"closed", "open", "half"} /\ count \in Int
    BY <2>1
  <2> HIDE DEF sock, count
  <2>4. tried \in EthShape
    <3>1. ended \in EthShape
      BY <1>1, <2>3 DEF EthShape
    <3> HIDE DEF ended
    <3> QED BY <3>1 DEF EthShape
  <2> HIDE DEF tried
  <2> QED BY <2>2, <2>3, <2>4 DEF EthShape
<1>4. CASE ConnectFails(e)
  <2>1. eth'.sock = "closed"
    BY <1>1, <1>4 DEF ConnectFails, Attempted, EthShape
  <2> QED BY <1>3, <1>4, <2>1, NothingReported DEF ConnectFails
<1>5. CASE NotConnected(e)
  BY <1>1, <1>5, NothingReported DEF NotConnected
<1>6. CASE ConnectDue(e) /\ Connects(e) /\ FullLoop(Attempted(e), TRUE, FALSE)
  BY <1>3, <1>6, FullLoopKeeps
<1>7. ASSUME NEW noticed \in BOOLEAN, FullLoop(e, FALSE, noticed)
      PROVE  MqttIInv'
  <2>1. e.sock = "open" => eth.sock = "open"
    BY <1>1
  <2> QED BY <1>1, <1>7, <2>1, FullLoopKeeps
<1> QED BY <1>2, <1>4, <1>5, <1>6, <1>7

LEMMA MqttStep == MqttIInv /\ [MqttNext]_mqttVars => MqttIInv'
<1> SUFFICES ASSUME MqttIInv, [MqttNext]_mqttVars PROVE MqttIInv'
  OBVIOUS
<1>0. eth \in EthShape /\ reported \in BOOLEAN
  BY DEF MqttIInv, MqttShape
<1>1. CASE EthRetry
  <2>1. PICK got \in Dhcp : eth' = [MQTT_reinit(eth, got) EXCEPT !.full_age = 0]
    BY <1>1 DEF EthRetry
  <2>2. MQTT_reinit(eth, got) \in EthShape /\ MQTT_reinit(eth, got).sock = "closed"
    BY <1>0, DhcpAnswers, ReinitShape
  <2>3. eth' \in EthShape /\ eth'.sock = "closed"
    BY <2>1, <2>2 DEF EthShape
  <2> QED BY <1>1, <2>3, NothingReported DEF EthRetry
<1>2. CASE MQTT_loop
  BY <1>2, MqttLoopKeeps
<1>3. CASE Notice
  <2>1. eth' \in EthShape /\ eth'.sock = "closed"
    BY <1>0, <1>3 DEF Notice, EthShape
  <2> QED BY <1>0, <1>3, <2>1, NothingReported DEF Notice
<1>4. CASE cmnd_ifconfig_reset
  <2>1. eth' \in EthShape /\ eth'.sock = "closed"
    BY <1>0, <1>4, DhcpAnswers, ReinitShape DEF cmnd_ifconfig_reset
  <2> QED BY <1>0, <1>4, <2>1, NothingReported DEF cmnd_ifconfig_reset
<1>5. CASE cmnd_mqtt_reset
  <2>1. eth' \in EthShape /\ eth'.sock = eth.sock
    BY <1>0, <1>5 DEF cmnd_mqtt_reset, EthShape
  <2> QED BY <1>5, <2>1, NothingReported DEF cmnd_mqtt_reset
<1>6. ASSUME NEW v \in Readings, uart_power_report(v)
      PROVE  MqttIInv'
  <2>1. /\ raw' \in [value : Readings, changed : BOOLEAN]
        /\ raw'.value = v /\ raw'.changed = (raw.value # v)
    BY <1>6 DEF uart_power_report, RawReported
  <2> QED
    BY <1>6, <2>1
    DEF uart_power_report, MqttIInv, MqttShape, RawTold, BrokerCatchesUp
<1>7. ASSUME NEW v \in Readings, StatusChanges(v)
      PROVE  MqttIInv'
  BY <1>7 DEF StatusChanges, MqttIInv, MqttShape, RawTold, BrokerCatchesUp
<1>13. CASE PassedOver
  BY <1>13 DEF PassedOver, MqttIInv, MqttShape, RawTold, BrokerCatchesUp
<1>8. CASE NetworkFails
  <2>1. eth' \in EthShape /\ eth'.sock # "open"
    BY <1>0, <1>8 DEF NetworkFails, EthShape
  <2> QED BY <1>0, <1>8, <2>1, NothingReported DEF NetworkFails
<1>9. CASE NetworkReturns
  BY <1>0, <1>9, NothingReported DEF NetworkReturns
<1>10. CASE ChipLosesAddress
  <2>1. eth' \in EthShape /\ eth'.sock = eth.sock
    BY <1>0, <1>10 DEF ChipLosesAddress, EthShape
  <2> QED BY <1>10, <2>1, NothingReported DEF ChipLosesAddress
<1>11. CASE MqttTick
  <2>1. ASSUME NEW a \in Int, NEW b \in Int PROVE Up(a, b) \in Int
    BY DEF Up
  <2>2. eth' \in EthShape /\ eth'.sock = eth.sock
    <3>1. /\ MQTTWaitBeforeEthernetReset \in Int /\ 5 * MQTTReconnectRate \in Int
          /\ StuckRate \in Int
      BY MqttAssumption
    <3> QED BY <1>0, <1>11, <2>1, <3>1 DEF MqttTick, EthShape
  <2> QED BY <1>11, <2>2, NothingReported DEF MqttTick
<1>12. CASE UNCHANGED mqttVars
  BY <1>0, <1>12, NothingReported DEF mqttVars
<1> QED
  BY <1>1, <1>2, <1>3, <1>4, <1>5, <1>6, <1>7, <1>8, <1>9, <1>10, <1>11, <1>12,
     <1>13 DEF MqttNext

\* While the connection stands the broker has every value that is not still to
\* be reported, for any rates and any values: what a broken connection swallowed
\* is sent again after the next connect.  A raw value is the exception, when a
\* pass has returned early since that connect (mqtt.cpp:112-455,
\* uart_power.cpp:97).
THEOREM BrokerCatchesUpHolds == MqttSpec => []BrokerCatchesUp
<1>1. MqttInit => MqttIInv
  BY MqttStarts
<1>2. MqttIInv /\ [MqttNext]_mqttVars => MqttIInv'
  BY MqttStep
<1>3. MqttIInv => BrokerCatchesUp
  BY DEF MqttIInv
<1> QED BY <1>1, <1>2, <1>3, PTL DEF MqttSpec

-----------------------------------------------------------------------------
(* The fan: its mapping neither overflows nor falls, and the rectifier's    *)
(* threshold is only lower for a fan that turns.                           *)

LEMMA Quotients ==
    ASSUME NEW a \in Nat, NEW b \in Nat, NEW c \in Nat, c > 0, a <= b, b <= c * 255
    PROVE  a \div c \in Nat /\ a \div c <= b \div c /\ b \div c <= 255
<1> DEFINE q == a \div c
           p == b \div c
<1>1. q \in Nat /\ c * q <= a /\ a < c * q + c
  OBVIOUS
<1>2. p \in Nat /\ c * p <= b /\ b < c * p + c
  OBVIOUS
<1> HIDE DEF q, p
<1>3. ASSUME p < q PROVE FALSE
  <2>1. c * (p + 1) <= c * q /\ c * (p + 1) = c * p + c
    BY <1>1, <1>2, <1>3
  <2> QED BY <1>1, <1>2, <2>1
<1>4. ASSUME 255 < p PROVE FALSE
  <2>1. c * 256 <= c * p /\ c * 256 = c * 255 + c
    BY <1>2, <1>4
  <2> QED BY <1>2, <2>1
<1>5. q <= p /\ p <= 255
  BY <1>1, <1>2, <1>3, <1>4
<1> QED BY <1>1, <1>5 DEF q, p

FanNumbers ==
    /\ temp_off \in Nat /\ temp_full \in Nat
    /\ temp_off < temp_full /\ temp_full <= temp_off + 255
    /\ temperature_heatsink \in Nat /\ temperature_rectifier \in Nat
    /\ fan_manual \in Nat /\ asked \in Nat /\ fan \in Nat

\* What the fan was last set from; the rectifier asks for 0 or 255.
FanFrom(rectifier) ==
    Startable(Larger(asked, Larger(FanHeatsink(temperature_heatsink), rectifier)))

FanIInv ==
    /\ FanNumbers
    /\ fan = FanFrom(0) \/ (fan = FanFrom(255) /\ temperature_rectifier > 445)

LEMMA SmallWord == ASSUME NEW n \in Nat, n <= 65025 PROVE n % Word16 = n
BY DEF Word16

LEMMA Mapping ==
    ASSUME FanNumbers, NEW h \in Nat, temp_off <= h, h <= temp_full
    PROVE  /\ FanHeatsink(h) = ((h - temp_off) * 255) \div (temp_full - temp_off)
           /\ FanHeatsink(h) \in 0 .. 255
<1> DEFINE a == (h - temp_off) * 255
           c == temp_full - temp_off
<1>1. /\ a \in Nat /\ c \in Nat /\ c > 0 /\ c * 255 \in Nat
      /\ a <= c * 255 /\ a <= 65025
      /\ h - temp_off \in Nat
  BY DEF FanNumbers
<1>2. FanHeatsink(h) = map_uint16(h, temp_off, temp_full, 0, 255)
  BY DEF FanHeatsink, FanNumbers
<1>3. (h - temp_off) * (255 - 0) = a
  OBVIOUS
<1>4. map_uint16(h, temp_off, temp_full, 0, 255) = ((a % Word16) \div c + 0) % Word16
  BY <1>3 DEF map_uint16
<1> HIDE DEF a, c
<1>5. a \div c \in Nat /\ a \div c <= 255
  BY <1>1, Quotients
<1>6. map_uint16(h, temp_off, temp_full, 0, 255) = a \div c
  <2>1. a % Word16 = a
    BY <1>1, SmallWord
  <2>2. (a \div c) + 0 = a \div c /\ (a \div c) % Word16 = a \div c
    BY <1>5, SmallWord
  <2> QED BY <1>4, <2>1, <2>2
<1>7. FanHeatsink(h) = a \div c /\ FanHeatsink(h) \in 0 .. 255
  BY <1>2, <1>5, <1>6
<1> QED BY <1>7 DEF a, c

LEMMA HeatsinkEnds ==
    ASSUME FanNumbers, NEW x \in Nat
    PROVE  /\ x < temp_off => FanHeatsink(x) = 0
           /\ x > temp_full => FanHeatsink(x) = 255
           /\ FanHeatsink(x) \in 0 .. 255
<1>1. CASE x < temp_off
  BY <1>1 DEF FanHeatsink, FanNumbers
<1>2. CASE x > temp_full
  BY <1>2 DEF FanHeatsink, FanNumbers
<1>3. CASE temp_off <= x /\ x <= temp_full
  BY <1>3, Mapping DEF FanNumbers
<1> QED BY <1>1, <1>2, <1>3 DEF FanNumbers

\* A hotter heatsink asks for no less.
LEMMA HeatsinkRises ==
    ASSUME FanNumbers, NEW h \in Nat, NEW k \in Nat, h <= k
    PROVE  /\ FanHeatsink(h) \in 0 .. 255 /\ FanHeatsink(k) \in 0 .. 255
           /\ FanHeatsink(h) <= FanHeatsink(k)
<1>2. CASE h < temp_off \/ k > temp_full
  BY <1>2, HeatsinkEnds DEF FanNumbers
<1>3. CASE temp_off <= h /\ k <= temp_full
  <2> DEFINE a == (h - temp_off) * 255
             b == (k - temp_off) * 255
             c == temp_full - temp_off
  <2>1. FanHeatsink(h) = a \div c /\ FanHeatsink(k) = b \div c
    BY <1>3, Mapping DEF FanNumbers
  <2>2. a \in Nat /\ b \in Nat /\ c \in Nat /\ c > 0 /\ a <= b /\ b <= c * 255
    BY <1>3 DEF FanNumbers
  <2> HIDE DEF a, b, c
  <2>3. a \div c <= b \div c
    BY <2>2, Quotients
  <2>4. FanHeatsink(h) \in 0 .. 255 /\ FanHeatsink(k) \in 0 .. 255
    BY HeatsinkEnds
  <2> QED BY <2>1, <2>3, <2>4
<1> QED BY <1>2, <1>3, HeatsinkEnds DEF FanNumbers

\* Nor does the fan, for a higher duty asked for.
LEMMA StartableRises ==
    ASSUME NEW a \in Nat, NEW b \in Nat, a <= b
    PROVE  Startable(a) <= Startable(b) /\ Startable(a) \in Nat
BY DEF Startable

LEMMA LargerRises ==
    ASSUME NEW a \in Nat, NEW b \in Nat, NEW c \in Nat, NEW d \in Nat, a <= b, c <= d
    PROVE  Larger(a, c) <= Larger(b, d) /\ Larger(a, c) \in Nat /\ Larger(b, d) \in Nat
BY DEF Larger

LEMMA FanDomains ==
    /\ HeatsinkTemps \subseteq Nat /\ RectifierTemps \subseteq Nat
    /\ FanManuals \subseteq Nat
<1>1. 0 .. Word16 - 1 \subseteq Nat /\ 0 .. 255 \subseteq Nat
  BY DEF Word16
<1> QED BY <1>1, FanAssumption

LEMMA FanStarts == FanInit => FanIInv
<1> SUFFICES ASSUME FanInit PROVE FanIInv
  OBVIOUS
<1>1. FanNumbers
  BY FanAssumption DEF FanInit, FanNumbers
<1>2. FanHeatsink(0) = 0
  <2>1. CASE 0 < temp_off
    BY <1>1, <2>1, HeatsinkEnds
  <2>2. CASE temp_off = 0
    <3>1. (0 - temp_off) * 255 = 0 /\ temp_full - temp_off \in Nat \ {0}
      BY <1>1, <2>2 DEF FanNumbers
    <3>2. 0 \div (temp_full - temp_off) = 0
      BY <3>1
    <3>3. FanHeatsink(0) = ((0 - temp_off) * 255) \div (temp_full - temp_off)
      BY <1>1, <2>2, Mapping DEF FanNumbers
    <3> QED BY <3>1, <3>2, <3>3
  <2> QED BY <1>1, <2>1, <2>2 DEF FanNumbers
<1>3. fan = FanFrom(0)
  <2>1. temperature_heatsink = 0 /\ asked = 0 /\ fan = 0
    BY DEF FanInit
  <2>2. Larger(0, 0) = 0 /\ Startable(0) = 0
    BY DEF Larger, Startable
  <2>3. FanFrom(0) = Startable(Larger(0, Larger(FanHeatsink(0), 0)))
    BY <2>1 DEF FanFrom
  <2> QED BY <1>2, <2>1, <2>2, <2>3
<1> QED BY <1>1, <1>3 DEF FanIInv

LEMMA FanUpdateKeeps ==
    ASSUME FanIInv, NEW h \in HeatsinkTemps, NEW r \in RectifierTemps, FanUpdate(h, r)
    PROVE  FanIInv'
<1>1. FanNumbers /\ h \in Nat /\ r \in Nat /\ FanRectifier(r) \in {0, 255}
  BY FanDomains DEF FanIInv, FanRectifier
<1>2. FanHeatsink(h) \in Nat /\ FanHeatsink(h)' = FanHeatsink(h)
  <2>1. FanHeatsink(h) \in 0 .. 255
    BY <1>1, HeatsinkRises DEF FanNumbers
  <2> QED BY <2>1 DEF FanUpdate, FanHeatsink, map_uint16
<1>3. FanNumbers'
  <2>1. /\ Larger(FanHeatsink(h), FanRectifier(r)) \in Nat
        /\ Larger(fan_manual, Larger(FanHeatsink(h), FanRectifier(r))) \in Nat
    BY <1>1, <1>2 DEF Larger, FanNumbers
  <2>2. fan' \in Nat
    BY <2>1, StartableRises DEF FanUpdate
  <2> QED BY <1>1, <2>2 DEF FanUpdate, FanNumbers
<1>4. FanRectifier(r) = 255 => r > 445
  BY <1>1 DEF FanRectifier, RectifierThreshold, FAN_TEMPERATURE_RECTIFIER_THRESHOLD
<1>5. ASSUME NEW x \in {0, 255}
      PROVE  FanFrom(x)' = Startable(Larger(fan_manual, Larger(FanHeatsink(h), x)))
  <2>1. FanHeatsink(temperature_heatsink)' = FanHeatsink(h)
    BY DEF FanUpdate, FanHeatsink, map_uint16
  <2> QED BY <2>1 DEF FanUpdate, FanFrom
<1>6. fan' = FanFrom(0)' \/ (fan' = FanFrom(255)' /\ temperature_rectifier' > 445)
  <2>1. CASE FanRectifier(r) = 0
    BY <1>5, <2>1 DEF FanUpdate
  <2>2. CASE FanRectifier(r) = 255
    BY <1>4, <1>5, <2>2 DEF FanUpdate
  <2> QED BY <1>1, <2>1, <2>2
<1> QED BY <1>3, <1>6 DEF FanIInv

LEMMA FanManualKeeps ==
    ASSUME FanIInv, NEW duty \in FanManuals, cmnd_fan(duty)
    PROVE  FanIInv'
<1>1. FanNumbers'
  BY FanDomains DEF cmnd_fan, FanIInv, FanNumbers
<1>2. ASSUME NEW x \in {0, 255} PROVE FanFrom(x)' = FanFrom(x)
  BY DEF cmnd_fan, FanFrom, FanHeatsink, map_uint16
<1>3. fan' = FanFrom(0)' \/ (fan' = FanFrom(255)' /\ temperature_rectifier' > 445)
  BY <1>2 DEF cmnd_fan, FanIInv
<1> QED BY <1>1, <1>3 DEF FanIInv

LEMMA FanStep == FanIInv /\ [FanNext]_fanVars => FanIInv'
<1> SUFFICES ASSUME FanIInv, [FanNext]_fanVars PROVE FanIInv'
  OBVIOUS
<1>1. CASE UNCHANGED fanVars
  <2>1. FanNumbers'
    BY <1>1 DEF fanVars, FanIInv, FanNumbers
  <2>2. ASSUME NEW x \in {0, 255} PROVE FanFrom(x)' = FanFrom(x)
    BY <1>1 DEF fanVars, FanFrom, FanHeatsink, map_uint16
  <2>3. fan' = FanFrom(0)' \/ (fan' = FanFrom(255)' /\ temperature_rectifier' > 445)
    BY <1>1, <2>2 DEF fanVars, FanIInv
  <2> QED BY <2>1, <2>3 DEF FanIInv
<1> QED BY <1>1, FanUpdateKeeps, FanManualKeeps DEF FanNext

\* What the rectifier asked for before, a rectifier no colder still asks for,
\* as the fan turns.
LEMMA RectifierStays ==
    ASSUME FanIInv, NEW r \in RectifierTemps, r >= temperature_rectifier,
           temperature_rectifier > 445, fan > 0
    PROVE  FanRectifier(r) = 255
BY FanDomains
DEF FanIInv, FanNumbers, FanRectifier, RectifierThreshold,
    FAN_TEMPERATURE_RECTIFIER_THRESHOLD

LEMMA HotterIsFaster ==
    ASSUME FanIInv, NEW h \in HeatsinkTemps, NEW r \in RectifierTemps, FanUpdate(h, r),
           h >= temperature_heatsink, r >= temperature_rectifier, fan_manual >= asked
    PROVE  fan' >= fan
<1>1. FanNumbers /\ h \in Nat /\ r \in Nat /\ FanRectifier(r) \in {0, 255}
  BY FanDomains DEF FanIInv, FanRectifier
<1>2. /\ FanHeatsink(h) \in Nat /\ FanHeatsink(temperature_heatsink) \in Nat
      /\ FanHeatsink(temperature_heatsink) <= FanHeatsink(h)
  <2>1. temperature_heatsink \in Nat /\ temperature_heatsink <= h
    BY <1>1 DEF FanNumbers
  <2>2. /\ FanHeatsink(temperature_heatsink) \in 0 .. 255 /\ FanHeatsink(h) \in 0 .. 255
        /\ FanHeatsink(temperature_heatsink) <= FanHeatsink(h)
    BY <1>1, <2>1, HeatsinkRises
  <2> QED BY <2>2
<1>3. ASSUME NEW x \in Nat, x <= FanRectifier(r)
      PROVE  FanFrom(x) <= fan'
  <2> DEFINE below == Larger(FanHeatsink(temperature_heatsink), x)
             above == Larger(FanHeatsink(h), FanRectifier(r))
  <2>1. below \in Nat /\ above \in Nat /\ below <= above
    <3>1. FanRectifier(r) \in Nat
      BY <1>1
    <3> QED BY <1>2, <1>3, <3>1, LargerRises
  <2>2. /\ Larger(asked, below) \in Nat /\ Larger(fan_manual, above) \in Nat
        /\ Larger(asked, below) <= Larger(fan_manual, above)
    BY <1>1, <2>1, LargerRises DEF FanNumbers
  <2>3. Startable(Larger(asked, below)) <= Startable(Larger(fan_manual, above))
    BY <2>2, StartableRises
  <2> QED BY <2>3 DEF FanFrom, FanUpdate
<1>4. CASE fan = FanFrom(0)
  <2>1. FanFrom(0) <= fan'
    BY <1>1, <1>3
  <2> QED BY <1>4, <2>1
<1>5. CASE fan = FanFrom(255) /\ temperature_rectifier > 445
  <2>1. fan > 0
    <3>1. Larger(FanHeatsink(temperature_heatsink), 255) >= 255
      BY <1>2 DEF Larger
    <3>2. Larger(asked, Larger(FanHeatsink(temperature_heatsink), 255)) >= 255
      BY <1>1, <1>2, <3>1 DEF Larger, FanNumbers
    <3>3. FanFrom(255) = Larger(asked, Larger(FanHeatsink(temperature_heatsink), 255))
      BY <3>2 DEF FanFrom, Startable
    <3> QED BY <1>1, <1>2, <1>5, <3>2, <3>3 DEF Larger, FanNumbers
  <2>2. FanRectifier(r) = 255
    BY <1>5, <2>1, RectifierStays
  <2>3. FanFrom(255) <= fan'
    BY <1>3, <2>2
  <2> QED BY <1>5, <2>3
<1>6. fan \in Nat /\ fan' \in Nat
  BY <1>1, FanUpdateKeeps DEF FanIInv, FanNumbers
<1> QED BY <1>4, <1>5, <1>6 DEF FanIInv

\* While both temperatures rise the fan never slows down unless less is asked
\* for, for every pair of settings whose mapping fits in 16 bits and every
\* temperature (adc.cpp:163-178).
THEOREM HotterNeverSlowerHolds == FanSpec => HotterNeverSlower
<1>1. FanInit => FanIInv
  BY FanStarts
<1>2. FanIInv /\ [FanNext]_fanVars => FanIInv'
  BY FanStep
<1>3. FanIInv /\ [FanNext]_fanVars
      => [/\ temperature_heatsink' >= temperature_heatsink
          /\ temperature_rectifier' >= temperature_rectifier
          /\ asked' >= asked
          => fan' >= fan]_fanVars
  <2> SUFFICES ASSUME FanIInv, FanNext,
                      temperature_heatsink' >= temperature_heatsink,
                      temperature_rectifier' >= temperature_rectifier,
                      asked' >= asked
               PROVE  fan' >= fan
    OBVIOUS
  <2>1. ASSUME NEW h \in HeatsinkTemps, NEW r \in RectifierTemps, FanUpdate(h, r)
        PROVE  fan' >= fan
    <3>1. h >= temperature_heatsink /\ r >= temperature_rectifier /\ fan_manual >= asked
      BY <2>1 DEF FanUpdate
    <3> QED BY <2>1, <3>1, HotterIsFaster
  <2>2. ASSUME NEW duty \in FanManuals, cmnd_fan(duty)
        PROVE  fan' >= fan
    BY <2>2 DEF cmnd_fan, FanIInv, FanNumbers
  <2> QED BY <2>1, <2>2 DEF FanNext
<1> QED BY <1>1, <1>2, <1>3, PTL DEF FanSpec, HotterNeverSlower
=============================================================================
