# vetrnik: formal models of the wind turbine's firmware

vetrnik is the electronics of a wind turbine that heats water: a *power board*
(ATmega8, `src/firmware/vetrnik-power`) loads the generator through an H-bridge
and a three-phase contactor, a *control board* (STM32F4,
`src/firmware/vetrnik-control`) decides what the turbine should do. They talk
over a serial line. The turbine is dangerous when nobody brakes it, so the
questions here are about modes, timeouts, resets and lost messages.

This directory holds TLA+ models of that firmware, the TLC runs that check
them, and proofs of the safety properties for all values of the constants.

    tlc -workers 2 -config PowerBoard.cfg MCPowerBoard     # one run
    tlapm PowerBoardProofs.tla                             # one proof module

`PROJECT.json` lists the runs, the code lines every definition stands for, the
hazards, the findings and the theorems.

## 1. Inventory of the system

### Power board

One cooperative loop, `ADC_loop -> uart_loop -> rest of loop()`, and four
interrupts (ADC, the timer that polls the RPM sensor, USART receive and transmit). A
watchdog resets a loop that takes longer than a second.

| component | state | operations | what makes it correct |
|---|---|---|---|
| modes (`main.cpp`, `globals.cpp`) | `mode`, `emergency`, `duty`, `stopping_duty`, ages of the stop and of the ramp, contactor and driver pins | `set_mode`, `set_duty`, `emergency_stop`, error callback, enable logic, stopping ramp | outputs and duty agree with the mode on every path; nothing but `start` reconnects; a stop brakes fully and only then uses the contactor |
| H-bridge (`Hbridge.cpp`) | requested duty, OCP limit, compare registers | `Hbridge_set_duty`, `Hbridge_OCP` | the registers are never behind request and limit; no wraparound |
| ADC, OVP, temperatures, fan (`adc.cpp`) | `OVP_stop`, `OVP_mode`, averages | `ADC_loop`, `OVP`, sampling interrupt | every over-voltage is answered; what OVP restores fits what happened meanwhile |
| commands and reports (`uart.cpp`) | parser, refresh time | `process_value`, `cmnd_*`, timeout, report | no command out of the bytes of two; silence disconnects |
| serial port (`lib/serial`) | two rings, interrupt enable | `serial_putc/read/available`, both handlers | both rings are queues under every interleaving, no lost wakeup; `serial_putc` returns |
| errors (`lib/errm`) | array of five, count | `errm_add`, `errm_clear` | a severe error stays visible |
| settings (`settings.cpp`) | EEPROM cells between two magic words | init, write, reset | a power cut between any two bytes never leaves a value nobody chose |
| RPM (`RPM.cpp`) | debouncing filter, period, time stamps, flag, average | timer handler, `RPM_loop` | a period is one whole turn, handed over whole; a standing turbine reads 0 |
| resets (`main.cpp`) | EEPROM marker | boot, watchdog test, reset command | an unexpected reset is reported |

### Control board

One cooperative loop: `buttons -> refresh -> status -> sensors -> control_loop
-> CLI -> MQTT -> OTA -> display`. Buttons, lisp scripts, CLI and MQTT are users
of one table of functions, the HAL.

| component | state | operations | what makes it correct |
|---|---|---|---|
| strategies, contactor, e-stop (`control.cpp`) | strategy, contactor request and its age, e-stop timer | `control_set_strategy`, `control_new_state`, `control_loop`, `control_contactor_set` | `control_emergency` means a released contactor and a power board told to stop; stale status, mute MQTT and an open contactor end the strategy |
| link (`power_datapoints.cpp`, `uart_power.cpp`, `power_board.cpp`) | transmitted values, received datapoints, status | refresh, parser, `power_board_status_read` | what is called valid has been reported, and is older than its timeout by no more than what held the loop up |
| MQTT, Ethernet (`mqtt.cpp`) | chip, connection, counters, times, what was reported | init, reinit, loop, callback | a connection makes up for what broken ones lost, as far as the flags of changed values tell; 30 s without a command ends the strategy |
| log (`log.cpp`, `reset_cause.cpp`) | ring in RAM that survives a reset | init, add, print | no record invented by a reset or a loss of power, none lost but the oldest, except where a reset cuts the start of a new log |
| settings file (`settings.cpp`, `flash_tools.cpp`) | file on flash, append only | init, write, binary search | a reset leaves the old or the new settings, never a mixture |
| sensors (`sensor_wind.cpp`, `sensor_DS18B20.cpp`) | polling machines | loops | a dead sensor's last reading does not stand; every sensor gets its retries |
| statistics (`stats.cpp`) | energy in two parts | `stats_new_state` | no energy counted from gaps of the status |
| editor (`CLIeditor.cpp`), CLI | two buffer sections, end sequence | `process`, `backspace` | the file gets what the terminal shows |
| lisp calls (`wt_lisp.c`), HAL, simulation (`vetrnik-sil`) | table of functions, two implementations | `pwrs`, `pwrg`, `ctrls`, `ctrlg`, `out` | a controller tested in the simulation finds the same answers on the board, except in cases one can name |
| display, OTA | buffers | | |

### How they interact

* control to power: messages of a letter and three digits. Duty and relays are
  repeated every second, *mode, enable and error commands are sent once*.
* power to control: a report line about once a second, and text lines
  (`>E...`) on errors, both in the same stream.
* shared lines: the contactor is closed only if both boards drive theirs; the
  enable input comes from a thermostat; an auxiliary contact tells the control
  board whether the contactor has closed.

### Behaviours that are hard

Commands, over-voltage, enable edges and errors change the same mode
(interleaving); timers that are restarted in some paths only; uint8_t ramps;
handlers that preempt ring operations; bytes lost on the line and commands sent
once; a status that ages while the loop blocks; resets between writing a marker
and consuming it. `PROJECT.json` has them line by line under `hazards`.

## 2. Modules

| module | models | composed from |
|---|---|---|
| `PowerModes` | abstract: what a mode command does to the power board, and what the board may do by itself | |
| `PowerBoard` | main loop, modes, H-bridge, OVP, commands, timeout, boot and resets | implements `PowerModes` |
| `Fifo` | abstract: a bounded queue | |
| `SerialRing` | the ring operations of `lib/serial` (the log's ring uses them too) | |
| `Serial` | both rings with their interrupts and the USART | `SerialRing`, implements `Fifo` twice |
| `UartLink` | sender, lossy wire, receive ring, parser of `uart_loop` | `SerialRing` |
| `Errm` | the error array | |
| `PowerEeprom` | settings of the power board, resets at any byte | |
| `Fan` | fan duty from temperatures, settings and command | |
| `RpmMeter` | debouncing, edges, hand-over to the main loop, average | |
| `Control` | supervision on the control board | |
| `ControlSystem` | both boards over a line that loses and damages messages | `Control`, `PowerModes` |
| `LogQueue` | abstract: the log as a queue of the newest records | |
| `LogRing` | the log's ring across resets and losses of power | `SerialRing`, implements `LogQueue` |
| `SettingsFile` | settings file on flash, its search, saves cut by resets | |
| `WindSensor` | Modbus polling of the wind sensor, its line driver | |
| `TempSensors` | rounds and retries of the DS18B20 sensors | |
| `Mqtt` | address, connection, rate limits, what is reported when | |
| `Stats` | energy counter | |
| `CliEditor` | the terminal's editor | |
| `HalSil` | the lisp calls on the board and in the simulation, side by side | |

`MCPowerBoard` and `MCComponents` put values and components together for TLC.
`PowerBoardProofs`, `SerialProofs`, `RingProofs` (the ring lemmas both serial
port and log use), `UartLinkProofs`, `StorageProofs` (EEPROM, settings file,
editor), `LogProofs`, `ControlProofs` (with `ControlSystem`) and
`ComponentProofs` hold the proofs.

Definitions with `_fault` in their name are not part of a model. Each is a
plausible mistake in the definition that follows it (a timer not restarted, a
comparison off by one); replacing the definition by it makes the named property
fail, which shows that the property watches that code.

### PowerBoard

`board` is one record with the C globals, module statics and output registers.
A C function that changes them is an operator from record to record
(`SetMode`, `SetDuty`, `EmergencyStop`, `HbridgeOCP`, `OVP`, ...), so that a
handler is the composition of its calls in source order: `ADC_sample` is
`Overheat(HbridgeOCP(OVP(...)))`. `pc` says which of the three parts of `loop()`
runs next, or which endless loop waits for the watchdog. `uart_loop` executes
any number of commands (`cmnd_*`) before its timeout check (`uart_loop_end`).
Timers are ages, `now - prev`, capped at the one value the code compares them
with; the code's arithmetic on `millis()` is modular, so the age is what it
computes. An error is its weight: 10 or more calls `emergency_stop`.
Not in it: relays, fan, settings commands, the text of the report.

### Serial, SerialRing, UartLink

`Serial` cuts `serial_putc` and `serial_read` at each access to a shared index,
and runs an interrupt handler as one step between any two. Three
facts of the hardware are in it. The receive interrupt comes before the transmit
interrupt. A pending interrupt is served before the main program goes on; but a
receive handler that finds its ring full returns without reading `UDR`, stays
pending and is called again after every instruction, so that the main program creeps
on and the transmit interrupt is never served (`ReceiveBlocked`, `Runs`).
And between the last two statements of `serial_putc` (a few
cycles) at most one byte (about 1 ms) can leave the shift register. Without this
the interrupt could empty the ring and `serial_putc` would then enable
it on an empty ring. `UartLink` uses the rings as atomic queues, which
`Serial` justifies, and looks at the parser: a byte is the message it comes from
and its position, so a mixed command is visible.

### Errm

`errm_add` with its shift loop as written (front to back), and a
nondeterministic value for what it reads through a null template.

### Control, ControlSystem

`ctl` holds the statics of `control.cpp`, the output pin and the mode commands
sent in the current step. A pass is `buttons -> uart -> (lisp) -> control -> CLI
-> MQTT`; any user may call the HAL at `buttons`, `lisp` (a script's `(ctrl)`),
`CLI` and `MQTT`, the last being the callbacks and what follows them. Time passes
where the loop is held up: in the scripts of the buttons and of a new status, and
between `CLI` and `MQTT`, where the network library blocks. `uart` is one of: a
report line, the end of a text line, a timed-out status, nothing. `watch` is
history, for properties only; `watch.unchecked` is the time since the loop last
looked whether the status has expired (`main.cpp:137`), which the scripts of the
buttons and whatever follows a blocking call run without. A report's mode may be any code, also one that is no mode, since the line
has no checksum.

`ControlSystem` puts the power board's side of `PowerModes` at the other end of a
line that loses commands and damages reports. Only mode commands and the reported mode travel on
it. That `PowerBoard` implements `PowerModes` (checked and proved) is what makes
the composition speak of the real board.

### PowerEeprom, LogRing: state that outlives a reset

Both cut the operations that write at every place a reset can fall on:
`PowerEeprom` at each byte of `settings_reset` (which writes the start word,
the defaults and the end word in this order), `LogRing` at each assignment of
`log_add_record` and of the part of `log_init` that sets up a new log: the two
indices, the magic, each record. The assignments are taken in the order of the
source. `log_init` trusts what
it finds in RAM only if the chip's flags, `log_magic` and both indices say so,
and a loss of power may leave anything there, the right magic included; the
flags tell. They tell once, since `log_init` clears them: if the RAM happens to
hold the right magic and a second reset (by pin, as the watchdog does not run
yet) falls before both indices are 0, or turns a brownout into a pin reset before
the flags are read, the next `log_init` keeps a log that never was. `LogQueue` has
this as `CutShort`, a step that needs a board without a log; `cut_short` is the
history that `OnlyRecordsUnread` excepts it by. `LogIsQueue` says that through all
of that the ring is the queue of `LogQueue`: a reset between the two indices'
updates makes a full log look empty, which the abstract specification also grants,
and nothing else is lost or invented.

### SettingsFile

A cell of the model's file is half a line, so that a reset can cut a line.
`settings_init` finds the end of the zeros by bisection (`flash_find_byte`),
then reads and parses; `settings_write` zeroes the old text and prints the new
one, one cell a step; programming a cell twice gives garbage. Both loops are
recursive functions, a pass being a function on the loop's state (`Probe`,
`ReadLine`), so that they can be proved about. `versions` is history: the
configurations the file may hold, the last one saved completely and those begun
since. An option whose line was cut may
have its default or a value cut short.

### Sensors, RPM

`WindSensor` counts time in characters of the line and follows the five states
of `sensor_wind_loop`; answers may be late, doubled or noise, and `vwind_age`
(history) is how old the reported number really is. `TempSensors` follows the
rounds; what a read gives is arbitrary. `RpmMeter` runs the timer interrupt at
any moment, also between the main loop's test of `RPM_new` and its atomic block;
`turn` (history) is when edges really happened.

### Mqtt

`eth` is the state of `mqtt.cpp` with the chip's: address, socket, ages and the
counter of connects. A pass of `MQTT_loop` is one action per way through it, in
the order of its early returns; `broker` is what has reached the other end. A
connection that broke and has not been noticed (`sock = "half"`) swallows reports.
Raw values have a flag that every report of the power board sets to whether the value
differs from the one before, and so clears when it is the same
(`uart_power_report`); `passed_over` is the history of a pass since the connect that
returned before it looked at the flags. `report_raw` is the setting: without it raw
values are not published, and a connect clears what the broker retains of them.

### CliEditor, Stats, Fan, HalSil

`CliEditor` keeps the two sections of the buffer, which of them was written
last, and how much of the end sequence has been seen; `shown` is the text on the
terminal. `Stats` has the energy in two parts with the overflow of the
`uint16_t`. `Fan` computes the two mappings in 16 bits, as the AVR does, with
the start and stop hysteresis. `HalSil` runs every call of `wt_lisp.c` on both
implementations, from the state `wt_sil_init` makes, for as long as the board runs
the script and the simulation has not ended with an error. On the board time passes,
the contactor's request expires and the strategy may end by itself, none of which
the simulation has; `answers` holds what the last call was about and what it
returned on each side.

## 3. Runs

| run | question | bounds |
|---|---|---|
| `power_safety` | do outputs, duty and registers agree with the mode, does over-voltage hold, does only `start` reconnect, does the board implement `PowerModes`, under every order of commands, readings, edges, slow passes and resets? | duties 0..4, stop of 3 units |
| `power_liveness` | does a stop reach full brake, does silence disconnect? | as above, passes of one unit |
| `power_reset_marker` | *violated*: is every watchdog reset that was not commanded reported? | as above |
| `serial_rings` | are both rings queues, does a blocked `serial_putc` return, and if not, why? | rings of 3 slots, 2 byte values |
| `uart_available` | *violated*: does `uart_loop` leave a complete message unread? | 4 messages, nothing lost |
| `errm_severe` | *violated*: does a severe error stay in the array? | the code's 5 entries and three weights |
| `control_board` | is the contactor released in `control_emergency`, do stale status, mute MQTT and an open contactor end the strategy? | limits of 2 to 4 units, each part of a pass that can be held up 0 to 2 |
| `status_valid` | *violated*: is the status valid only after a report? | as above |
| `control_system` | does `control_emergency` stop the power board over a bad line? | 3 commands and 1 report on the line, limits of 1 unit |
| `components` | fourteen properties of the twelve components that stand on their own, see below | see below |
| `settings_boot` | *violated*: does the board start however full its settings file is? | file of 11 half lines |
| `wind_driver` | *violated*: does the line driver stay on until the request is out? | request of 3 characters, passes of 1 or 2 |

`components` runs twelve models that share no state as one: the variable `part`,
chosen at the start, says which of them moves, and the others rest in an initial
state. The states of the parts add up, they do not multiply, and a property is
violated exactly if it is on its own. What it checks, part by part:

| part | property | question |
|---|---|---|
| link | `LinkTypeOK`, `OneLossNeverMixes`, `LossCostsTwoMessages` | what can lost bytes make the power board execute? |
| fan | `HotterNeverSlower` | does more heat ever slow the fan down? |
| eeprom | `NoUnchosenValue` | can a reset leave a setting nobody chose? |
| rpm | `PeriodIsOneTurn` | is a period ever two turns, or a bounce? |
| log | `LogIsQueue` | is the ring a queue through resets between any two assignments? |
| file | `StartsWithOneVersion` | does the board ever start with a mixture of two configurations, and is a completed save read back whole? |
| wind | `WindIsFresh` | how long does a dead sensor's wind stand? |
| temp | `MissingMeansRetried` | is a sensor given up before its retries, or read too often? |
| mqtt | `BrokerCatchesUp` | which values may a broker that is connected not know? |
| stats | `NoEnergyFromGaps` | does time without a status count as energy? |
| editor | `FileGetsWhatIsShown` | is the file what the terminal showed? |
| hal | `SilAnswersAlike` | when does the simulation answer a controller other than the board does? |

Why the bounds are enough. The power board compares ages and duties with
constants; what matters is their order, and that several ramp steps, passes and
samples fit into the timeouts. `Top = 4` with a step of 3 makes the ramp wrap,
the OCP limit halve down to 0 and saturate, and `MinDuty` and
`HbridgeDutyMax` cut on both sides. `StoppingTime = 3` keeps more units than the
ramp needs, which is also true of the code: 13 steps of 150 ms, each delayed by
at most a pass that the watchdog keeps below 1 s, end before 20 s
(`ContactorIsLastResort` would fail otherwise). In a ring of 3 slots every slot
is the one where an index wraps, with room for two bytes. `UartLink` (5 messages,
2 losses, a ring of 4 slots) sends more messages than two losses can affect. On the control board users ask for `start` only, the one
mode that works against the emergency; the others do what `control_emergency`
wants or nothing. In `ControlSystem` a full line blocks users
but not the loop, two commands being what one pass can send.

In `components`: a log of three slots is full with two records, so it wraps and
overtakes; an EEPROM of two settings and two-byte magic words has a cut inside
and between all parts; a settings file of eleven half lines takes two saves of
two options and is then full, so both the boundary of a text cut at any place
and the end of the file occur; three sensors with two retries have every pattern
of failures; waits of the wind sensor are a few characters with passes that are
shorter and longer than each; the RPM filter needs two equal samples and times
wrap at eight; editor sections of two characters make six typed characters go
around both sections and the end sequence straddle them; the fan's temperatures
are those around its thresholds, with the smallest and largest range that does
not wrap; the energy counter sees intervals of one to three units of powers that
overflow its 16 bits; two connects are enough for `MQTT_loop` to lose patience.
The proofs make these bounds irrelevant.

### Fairness

* `PowerBoard`: weak fairness of the three parts of the loop and of the
  watchdog's reset. The loop has no blocking call but `serial_putc`, which
  returns or hangs with the receive ring full (`PutcReturns`), and a hung loop is reset. Nothing is assumed of commands,
  readings or supply: `SilenceDisconnects` holds because of the timeout.
* `Serial`: weak fairness of the statements of the main loop, both
  interrupts and the shift register: it is a processor that runs. The transmit
  interrupt is enabled only while no byte waits in `UDR`, so its fairness promises
  nothing while the receive interrupt is pending. What `PutcReturns` excepts is
  exactly that wait, `Hangs`, and `HangsForEver` proves that it does not end.
* `ControlSystem`: weak fairness of both loops; strong fairness of reading an
  undamaged report and of each kind of command arriving: the line may spoil
  any message, but not every one of a kind for ever. On a line that does,
  nothing can stop the board but its own timeout, which is `SilenceDisconnects`.

The other models state no fairness and promise no progress.

## 4. Proofs

All theorems are about every value of the constants that satisfies the
assumptions next to their declarations. They are types and orders the code's own
constants satisfy: `PowerBoardAssumption` (steps are positive;
`OVPStart < OVPStop`), `SerialAssumption` and `LinkAssumption` (rings of at least two slots),
`ControlAssumption` (the two delays are positive), `LogAssumption`,
`EepromAssumption`, `WindAssumption` (there is a longest pass), and so on.

**PowerBoardProofs.** None of the invariants is inductive alone: `OVP` restores a
mode stored earlier, so what it leaves depends on the relation of `OVP_stop`,
`OVP_mode` and `mode`, and the duty of a running bridge depends on the limit.
The strengthening `IInv` says that the record is *sound* (types, outputs, duty
and registers agree, the latch is respected), that over-voltage is answered
outside the sample, and what holds at each `pc`. Each C function has a lemma
that it takes sound records to sound records and what it leaves alone; a
handler's proof composes the lemmas of its calls. From `Inductive` follow the type
invariant, the seven safety invariants and, with lemmas on what steps do to
modes and duties, `RestartFromZero`, `BrakeNeverReleased`, `OvpHoldsStop` and the
refinement `ImplementsModes`. `ContactorComesLast` adds the time: it assumes `RampFits`,
that `n` steps of the ramp reach full braking duty within the time a stop is
given, whatever the length of a pass, and its lemmas count how much of the ramp is done
at each age of the stop. The code's values satisfy it, as do the bounds of the run.
`UnexpectedResetsReported` is what holds instead of finding 1: the marker stands only
from the reset command to its reset (`MarkedForReset`) unless the power is cut there.

**SerialProofs.** Lemmas say how storing, advancing and releasing change the
sequence a ring holds, across the wrap. The invariant says what slots and
indices a half-done `serial_read` or `serial_putc` counts on (`Reading`,
`Writing`) and that bytes in the ring have the interrupt enabled or about to be
(`Arming`). Both refinements of `Fifo` and the absence of lost wakeups follow,
for rings of any size. `HangsForEver` says that no step leaves `Hangs`.

**ControlProofs.** Same layout: `Sound` records (no driven contactor in
`control_emergency`, none without a request), `Keeps` for what any call of the
HAL leaves alone, and `Timed`, which ties the history of the open contactor to
the e-stop timer and makes `OpenContactorTrips` inductive.
The theorems are `TypeOK`, the five invariants and `LossStops`. `ControlSystem`
drives `Control`'s actions with what its line delivers, which need not be what
`Control` allows of its surroundings. So `LineTyped` shows that it is (no message on
the line carries anything but modes), `ControlInSystem` that every step of
the system is one of `Control` or a stutter, and `BoardInSystem` the same for
`PowerModes` at the other end. Hence `SystemSafety`: all of the above in the
system, over any line, and whatever `PowerModes` promises, which `ImplementsModes`
says of the real board.

**RingProofs.** The lemmas on storing, advancing and releasing across the wrap, with no
state machine in them, which `SerialProofs`, `LogProofs` and `UartLinkProofs` cite.

**UartLinkProofs.** What the parser holds depends on how many bytes were lost and
where, so `LinkIInv` keeps an account: the bytes in the ring are in the order they were
sent in, and the gaps between them are bytes lost; outside a message the parser
has missed at most two messages for each byte lost before the one due (`Settled`);
inside one the same held at its letter, and what was lost since is still to be
spent (`Pledged`). From it follow `LinkTypeOK`, `OneLossNeverMixes` and
`LossCostsTwoMessages`, for any ring and any number of messages and losses.
`ExecutedInOrder` is stated with these proofs only: what is executed is in the order
of what was sent, none twice, and without loss it is the first messages sent, whole.
Its invariant `InSequence` puts what was executed in front of the message being
read and that one in front of the byte due. `OneByteLeftUnread` bounds finding 2.

**StorageProofs, the EEPROM.** The settings `settings_reset` has passed hold their
default (`DefaultsWritten`), and behind a whole second word there is nothing nobody
chose (`WordCoversStored`), since that word is written last. `SettingsAreKept`: where
a board runs both words are whole (`WordsWritten`) and remain so, hence it never
resets its settings again and only the set command changes them.

**StorageProofs, the settings file.** What a loop computes needs an induction over its
passes. The one used is that a nonempty set of naturals has a least element
(`Least`, from the library's `NatLessThanWellFounded` and `WFMin`); from it follow
that the recursive function of a loop exists (`PassesExist`) and that what holds
at its start and is kept by each pass holds at its end (`LoopInvariant`, whose
invariant is a function from the number of passes to a set, not an operator).
The invariant `FileIInv` says that the file is always zeros up to some `z`, then
cells of the text of one version up to some `e`, then erased (`Layout`); that a fill
works from `z` to `e`; and that a print is at `e` and, as long as it has met no end
of the file, or in its second pass over a new file, has all its cells so far behind
`z` in order (`Printing`). Each binary search has an invariant on its range and
what it has found (`ProbeLast`, `ProbeFirst`), from which it finds `z - 1` and
`e` in such a file (`SearchesFind`). A pass of `settings_init` reads only cells
of that version (`ReadLineKeeps`), hence the first part of `StartsWithOneVersion`;
on a whole text it reads one more option (`LineRead`), hence the second. Without the
part on the second print the invariant would not be inductive: a print that ran out
of space has lost cells, and only that `FileSize >= 2 * ConfItems` keeps it from
happening twice. `HangsOnlyNearFileEnd` bounds finding 5: no other file hangs.

**StorageProofs, the editor.** `EdIInv` says what the two sections, the section
written last, the characters of the end sequence matched so far and the file
together hold of the text typed. Lemmas on what a backspace drops and a store
appends (`BackDrops`, `StoreAppends`) carry it through `process`; at the end
the part still in the sections is written (`FinishWritesShown`).

**LogProofs.** The flags tell a loss of power from the resets that keep the RAM, unless
the reset pin follows a brownout before they are read (`FlagsTell`, `BrownoutHidden`).
Where there is a log (`HasLog`: `log_init` would keep what is there, or has set up a new
one) the magic is right and both indices are in range (`RamKept`); in the middle of
`log_add_record` or of a new log they are what the assignments so far have left
(`Adding`, `Clearing`); and what can be printed are records, except after a reset that
came while there was no log (`UnreadTyped`). The last part is where a second reset
matters: without `cut_short` it would not be inductive, nor true.
`LogImplementsQueue` maps every step to one of `LogQueue` or a stutter.

**ComponentProofs.** Seven small ones. `Stats`: the power kept from the last status never
exceeds the peak. `HalSil`: while the board runs the script and the
simulation has not ended (`Compared`), both hold the same relays in two
representations, the byte the simulation's fourth relay shares with its blue LED agrees
with one of the board's two at least, and a contactor on in the simulation and off on the
board was not asked for in the debounce time (`Alike`). `RpmMeter`: age of the
last edge and `last_time` agree, an edge is at least twice the filter behind
the one before. `TempSensors`: which sensors have been read how often at
each `sensor_id` and `retry`. `WindSensor`: every state but idle bounds how long
ago the receive buffer was emptied (`Elapsed`), so an answer is no older than
that, and the age of a reading grows through the states; the line driver is on but for
the last character (`Driven`), and for that one too if no pass is as long as
its wait or one shorter than the request, 5 ms and 8 characters in the code
(`DrivenToTheEnd`). `Mqtt`: what the broker lacks is still to be reported, or hidden by a pass that returned early, or the connection does not stand. `Fan`: the duty is
the one of the temperatures last seen, with the rectifier's share only above the
lower threshold (`FanFrom`); the 16-bit mapping neither wraps nor falls.

**Only model-checked.** Liveness (`StopReachesFullBrake`, `SilenceDisconnects`,
`PutcReturns`, `EmergencyStopsBoard`), as fairness and ENABLED are outside the
prover's reach.

**Of the findings.** A property that a run finds violated has no theorem, but what
holds instead has, and says what the fault is limited to: `UnexpectedResetsReported`
(finding 1, only after a power cut between command and reset), `OneByteLeftUnread`
(2, one byte, when the ring has wrapped), `HangsOnlyNearFileEnd` (5, only near the
end of the file), `OnlyLastCharacterCut` and `RequestNotCutIfPassesShort` (6, one
character, after a slow pass). The bounds are sharp: TLC finds a cut request
when a pass is as long as the wait, or one shorter than the request.

## 5. Findings

1. `main.cpp:142` of the power board: the EEPROM marker of a commanded reset
   outlives a power cut and lets a later, unexpected watchdog reset pass
   unreported (`power_reset_marker`).
2. `serial.c:142`: `serial_available` is one short when the ring has wrapped, so
   `uart_loop` may leave the last byte of a message until another arrives
   (`uart_available`).
3. `errm.cpp:35`: the guarantee of `errm.h` that a severe error stays in the
   array does not hold for an array that is not full (`errm_severe`).
4. `uart_power.cpp:101` of the control board: a text message makes the status
   valid before any report (`status_valid`), against `wt_hal.h:39`.
5. `settings.cpp:242` of the control board: the loop that pads the last buffer
   never counts, so a configuration that ends near the end of the file hangs the
   start-up (`settings_boot`).
6. `sensor_wind.cpp:58`: the timer of the line driver is not restarted with the
   request, so a slow pass switches the driver off while the last byte is still
   being sent (`wind_driver`), against `sensor_wind.h`.

Met while modelling, without a run: the e-stop trips on the previous pass's flag,
so after a pass of over 500 ms a contactor that has just closed still trips
(`control.cpp:98`); a lost status sends no stop command when strategy and last
reported mode are emergency already; `MQTT_last_command_ms` is called the time of
the last *valid* command (`mqtt.cpp:28`) but set by any message of
`power_board/` (`mqtt.cpp:527`); `control_contactor_get` underflows between the
expiry and the next `control_loop`; the scripts of the buttons run before the
status is looked at, and whatever follows a blocking network call runs after, so both
may find valid a status that is older than two seconds by what held the loop up
(`StatusFresh` says by no more; `main.cpp:99-137`); `serial_putc` does not return, and the
watchdog resets the power board, if the receive ring fills up while it waits for a
slot (`serial.c:45, 128`); the energy counter
adds the power remembered from before a gap for the first interval after it
(`stats.cpp:18-21`), and an interval long enough overflows its `uint16_t`; the
fan's mapping wraps for a range above 51 half degrees (`adc.cpp:85`); in the
simulation relay 4 is the byte behind its array, the blue LED, which it starts with off
where `setup` leaves the pin high; every strategy given
by name is refused and a contactor request never runs out (`hal.c:48, 65`); a reset
while a new log is being cleared leaves records that were never cleared
(`log_print_all` shows them, `log_print_new` does not); a pin reset between the
stores that zero the indices, after a loss of power that left the right magic, makes
`log_print_new` print what was left in RAM (`log.cpp:100-102`); after six connects
`MQTT_loop` returns for a minute although the last one succeeded
(`mqtt.cpp:154`), and a raw value that changes meanwhile and is then reported again
unchanged is not published until it changes once more or the client reconnects
(`uart_power.cpp:97`); in the editor a character of the end sequence counts even after it
was erased, and what is typed behind the end in the same pass goes to the shell;
an RPM filter of length 0 never sees an edge, and a turn longer than `micros()`
counts is taken for a short one.

## 6. What is left

Everything of the plan of this development is done, and what is not modelled is
listed below. Worth adding:

1. Theorems on what holds instead of findings 3 and 4: which errors a full array
   drops, and what a status without a report is taken for.
2. The blocking calls of the network library in `Control`'s passes, against
   `PowerBoard`'s timeout of 5.1 s: both sides are modelled, the composition in
   `ControlSystem` abstracts from durations.
3. A composition of `UartLink` with `ControlSystem`, whose line loses whole messages.

### Not modelled

* Hardware and conversions: pin macros (`gpio.h`), the ADC's sampling interrupt and
  filters, conversions to volts and degrees, PWM timers. They are registers and
  floating point; nothing is decided in them.
* Text: the report's and the log's formatting, the CLI's commands that only parse and
  print around calls that other modules model, topics and JSON of MQTT, the
  display. `log_print_all` is a loop over the ring.
* Third-party and vendored code: the lisp interpreter (`fe`), libopencm3, the
  network, MQTT, flash and one-wire libraries, the boot loader. Where the code
  depends on what they do, a definition marked external says what is assumed.
* User programs: lisp controllers. Any sequence of their calls is a user of
  `Control`, and `HalSil` runs any sequence.
* OTA (`ota.cpp`): a call of the updater library.
* The rest of the repository: schematics, boards, scripts, Home Assistant's and
  Grafana's configuration.
