------------------------------- MODULE HalSil -------------------------------
(***************************************************************************)
(* The calls a lisp controller may make in its function ctrl (wt_lisp.c)   *)
(* and the two implementations of the functions behind them (wt_hal_t):    *)
(* the control board's and the simulation's, which tests controllers       *)
(* before they go to the turbine.  Both run the same script here, one call *)
(* at a time, from the state wt_sil_init makes, until the board stops      *)
(* running it or the simulation ends with an error.                        *)
(*                                                                         *)
(* Time passes on the board; the simulation has none.  Users and buttons   *)
(* may end control_lisp, they are taken not to write relays and outputs    *)
(* behind the controller's back.  What pwrg copies out of the status is    *)
(* left out: on the board it lags the setpoints by a report, in the        *)
(* simulation it does not.  Of what ctrlg contactor returns only the sign  *)
(* is kept.  Definitions named _fault... are no part of the model, see     *)
(* README.md.                                                              *)
(***************************************************************************)
EXTENDS Integers

CONSTANTS
    Duties,  \* what scripts give for a duty, beside -1
    PwrModes,\* ... for a mode
    Pins,    \* ... for a REL output, cut to eight bits
    Outs,    \* ... for a digital output, a name that is none is -1
    ContactorDebounce \* settings.contactor_debounce_min, in steps of time

ASSUME ContactorDebounceAssumption == ContactorDebounce \in Nat

Strategies == {"control_emergency", "control_manual", "control_MQTT", "control_lisp"}
ModeRange == 0 .. 3                 \* emergency, stopping, const_duty, start
DigitalOutputs == 0 .. 3            \* LED_BLUE, LED_RED, PUMP, REL2
LED_BLUE == 0
PUMP == 2
POWER_REL_COUNT == 4

VARIABLES
    fw,       \* the board: datapoints to send, pins, age since the contactor
              \* was last asked for, cut one step past the last that is told apart
    sil,      \* wt_sil_state_t
    answers   \* the last call: what it was about, what it returned on each,
              \* "error" if it raised one

halVars == <<fw, sil, answers>>

Off == [o \in DigitalOutputs |-> FALSE]

\* setup leaves the pin of the blue LED high.
FwBeginning ==
    [duty |-> 0, mode |-> 2, sw |-> TRUE, rel |-> {}, strategy |-> "control_lisp",
     contactor |-> FALSE, age |-> 0, out |-> [Off EXCEPT ![LED_BLUE] = TRUE]]
SilBeginning ==
    [duty |-> 0, mode |-> 2, sw |-> TRUE, rel |-> Off, strategy |-> "control_lisp",
     contactor |-> FALSE, out |-> Off]
NoAnswers == [about |-> "any", fw |-> "nil", sil |-> "nil"]

HalInit ==
    /\ fw = FwBeginning
    /\ sil = SilBeginning
    /\ answers = NoAnswers

Truth(b) == IF b THEN "t" ELSE "nil"

-----------------------------------------------------------------------------
(* The two implementations: each maps a state to the next and an answer    *)

\* REL_status keeps relay pin in bit pin - 1; rel is the set of its bits.
Bit(pin) == pin - 1

IsOn_faultOneUp(rel, pin) == pin \in rel

IsOn(rel, pin) == Bit(pin) \in rel

FwRelWrite(pin, on) ==
    [fw EXCEPT !.rel = IF on THEN @ \cup {Bit(pin)} ELSE @ \ {Bit(pin)}]

\* pwr_REL has four elements and is indexed from 1: element 4 is the byte
\* behind it, outputs[LED_BLUE].
SilRelWrite(pin, on) ==
    IF pin = POWER_REL_COUNT THEN [sil EXCEPT !.out[LED_BLUE] = on]
    ELSE [sil EXCEPT !.rel[pin] = on]

SilRelRead(pin) == IF pin = POWER_REL_COUNT THEN sil.out[LED_BLUE] ELSE sil.rel[pin]

FwStrategy(s) ==
    IF s # "control_emergency" THEN [fw EXCEPT !.strategy = s]
    ELSE [fw EXCEPT !.strategy = s, !.duty = 0, !.mode = 0, !.sw = FALSE,
                    !.contactor = FALSE, !.out[PUMP] = FALSE]

\* The time left, an unsigned number that wraps when there is none left; a
\* step past the end it is the -1 that stands for off.
FwContactorGet == fw.contactor /\ fw.age # ContactorDebounce + 1

-----------------------------------------------------------------------------
(* The calls *)

\* The board calls ctrl only under control_lisp; an error ends the simulation.
Compared == fw.strategy = "control_lisp" /\ answers.sil # "error"

Returns(about, f, s) == Compared /\ answers' = [about |-> about, fw |-> f, sil |-> s]
Silent == Returns("any", "nil", "nil")

\* An error ends ctrl, and control_new_state answers it with the emergency.
Raises ==
    /\ Returns("any", "error", "error")
    /\ fw' = FwStrategy("control_emergency")
    /\ UNCHANGED sil

PwrsDuty(d) ==
    \/ d \notin 0 .. 255 /\ Raises
    \/ /\ d \in 0 .. 255
       /\ fw' = [fw EXCEPT !.duty = d]
       /\ sil' = [sil EXCEPT !.duty = d]
       /\ Silent

PwrsMode(mode) ==
    \/ mode \notin ModeRange /\ Raises
    \/ /\ mode \in ModeRange
       /\ fw' = [fw EXCEPT !.mode = mode]
       /\ sil' = [sil EXCEPT !.mode = mode]
       /\ Silent

PwrsEnable(on) ==
    /\ fw' = [fw EXCEPT !.sw = on]
    /\ sil' = [sil EXCEPT !.sw = on]
    /\ Silent

PwrsRel(pin, on) ==
    \/ pin \notin 1 .. POWER_REL_COUNT /\ Raises
    \/ /\ pin \in 1 .. POWER_REL_COUNT
       /\ fw' = FwRelWrite(pin, on)
       /\ sil' = SilRelWrite(pin, on)
       /\ Silent

PwrgRel(pin) ==
    \/ pin \notin 1 .. POWER_REL_COUNT /\ Raises
    \/ /\ pin \in 1 .. POWER_REL_COUNT
       /\ Returns(IF pin = POWER_REL_COUNT THEN "fourth" ELSE "any",
                  Truth(IsOn(fw.rel, pin)), Truth(SilRelRead(pin)))
       /\ UNCHANGED <<fw, sil>>

\* The board takes a strategy by its name, the simulation refuses every name.
CtrlsStrategy(name) ==
    \/ name \notin Strategies /\ Raises
    \/ /\ name \in Strategies
       /\ fw' = FwStrategy(name)
       /\ Returns("strategy", "nil", "error")
       /\ UNCHANGED sil

CtrlgStrategy ==
    /\ Returns("any", fw.strategy, sil.strategy)
    /\ UNCHANGED <<fw, sil>>

\* A nil state is accepted and does nothing.
CtrlsContactor(on) ==
    /\ fw' = IF on THEN [fw EXCEPT !.contactor = TRUE, !.age = 0] ELSE fw
    /\ sil' = [sil EXCEPT !.contactor = @ \/ on]
    /\ Silent

CtrlgContactor ==
    /\ Returns("contactor", Truth(FwContactorGet), Truth(sil.contactor))
    /\ UNCHANGED <<fw, sil>>

OutSet(o, on) ==
    \/ o \notin DigitalOutputs /\ Raises
    \/ /\ o \in DigitalOutputs
       /\ fw' = [fw EXCEPT !.out[o] = on]
       /\ sil' = [sil EXCEPT !.out[o] = on]
       /\ Returns("any", Truth(on), Truth(on))

OutGet(o) ==
    \/ o \notin DigitalOutputs /\ Raises
    \/ /\ o \in DigitalOutputs
       /\ Returns(IF o = LED_BLUE THEN "fourth" ELSE "any",
                  Truth(fw.out[o]), Truth(sil.out[o]))
       /\ UNCHANGED <<fw, sil>>

-----------------------------------------------------------------------------
(* What else happens on the board *)

TimePassesOnBoard ==
    /\ fw.age < ContactorDebounce + 2
    /\ fw' = [fw EXCEPT !.age = @ + 1]
    /\ UNCHANGED <<sil, answers>>

\* control_loop drops a contactor nobody asked for again, the simulation does not.
ContactorTimesOut ==
    /\ fw.contactor /\ fw.age >= ContactorDebounce
    /\ fw' = [fw EXCEPT !.contactor = FALSE]
    /\ UNCHANGED <<sil, answers>>

\* The e-stop, a lost status, a user: the board leaves control_lisp by itself.
BoardLeaves(s) ==
    /\ fw.strategy = "control_lisp"
    /\ fw' = FwStrategy(s)
    /\ UNCHANGED <<sil, answers>>

\* Another comparison, or another test, begins.
wt_sil_init ==
    /\ ~Compared
    /\ fw' = FwBeginning
    /\ sil' = SilBeginning
    /\ answers' = NoAnswers

HalNext ==
    \/ \E d \in Duties \cup {-1} : PwrsDuty(d)
    \/ \E mode \in PwrModes \cup {-1} : PwrsMode(mode)
    \/ \E on \in BOOLEAN :
          PwrsEnable(on) \/ CtrlsContactor(on)
          \/ (\E pin \in Pins : PwrsRel(pin, on))
          \/ (\E o \in Outs \cup {-1} : OutSet(o, on))
    \/ \E pin \in Pins : PwrgRel(pin)
    \/ \E o \in Outs \cup {-1} : OutGet(o)
    \/ \E name \in Strategies \cup {"other"} : CtrlsStrategy(name)
    \/ CtrlgStrategy \/ CtrlgContactor
    \/ TimePassesOnBoard \/ ContactorTimesOut \/ wt_sil_init
    \/ \E s \in Strategies \ {"control_lisp"} : BoardLeaves(s)

HalSpec == HalInit /\ [][HalNext]_halVars

-----------------------------------------------------------------------------
(* What a controller is told in the simulation is what the board would     *)
(* tell it, call after call, although one keeps the relays as bits it      *)
(* sends and the other as an array indexed from 1.  It is told something   *)
(* else in three cases and in no other: it chooses a strategy; it asks     *)
(* whether the contactor is on after it let the debounce time pass without *)
(* asking for it; it reads the fourth relay or the blue LED while the      *)
(* board has one of them on and the other off, as it has from setup on.    *)
SilAnswersAlike ==
    answers.fw # answers.sil =>
        \/ answers.about = "strategy"
        \/ answers.about = "contactor" /\ fw.age >= ContactorDebounce
        \/ /\ answers.about = "fourth"
           /\ (Bit(POWER_REL_COUNT) \in fw.rel) # fw.out[LED_BLUE]

=============================================================================
