---------------------------- MODULE PowerEeprom ----------------------------
(***************************************************************************)
(* settings.cpp of the power board: the settings lie in the EEPROM between *)
(* two copies of a magic word, and settings_reset, which writes defaults   *)
(* and both copies byte by byte, may be cut by a reset between two bytes.  *)
(* settings_init only reads, so it is one step.                            *)
(*                                                                         *)
(* The bytes of a magic word are TRUE (right) or FALSE; a value is a member*)
(* of Values, and Default stands for every setting's own default.          *)
(*                                                                         *)
(* Definitions named _fault... are no part of the model, see README.md.    *)
(***************************************************************************)
EXTENDS Integers

CONSTANTS EEPROM_magic_length, kSettingsEnd, Values, Default

ASSUME EepromAssumption ==
    /\ EEPROM_magic_length \in Nat \ {0}
    /\ kSettingsEnd \in Nat \ {0}
    /\ {0, Default} \subseteq Values

Settings == 0 .. kSettingsEnd - 1
MagicBytes == 0 .. EEPROM_magic_length - 1

VARIABLES
    magic,          \* [start, end]: which bytes of the two words are right
    stored,         \* the values between them
    value,          \* settings[].value
    setting_index,
    eeprom_pc,      \* boot; reset, in settings_reset; running
    reset_i,        \* how many bytes settings_reset has written
    chosen          \* history: what each setting was last set to

eepromVars == <<magic, stored, value, setting_index, eeprom_pc, reset_i, chosen>>

magic_verify(word) == \A k \in MagicBytes : word[k]

-----------------------------------------------------------------------------
(* Start-up *)

eeprom_init ==
    /\ eeprom_pc = "boot"
    /\ value' = IF magic_verify(magic.start) THEN stored ELSE value
    /\ eeprom_pc' = IF magic_verify(magic.start) /\ magic_verify(magic.end)
                    THEN "running" ELSE "reset"
    /\ UNCHANGED <<magic, stored, setting_index, reset_i, chosen>>

\* settings_reset writes the EEPROM from its first address to its last one.
ResetLength == 2 * EEPROM_magic_length + kSettingsEnd

Address_faultEndFirst(i) ==
    (i + EEPROM_magic_length + kSettingsEnd) % ResetLength
Address(i) == i

ResetByte ==
    LET address == Address(reset_i)
        i       == address - EEPROM_magic_length
    IN  /\ eeprom_pc = "reset"
        /\ reset_i < ResetLength
        /\ reset_i' = reset_i + 1
        /\ \/ /\ i < 0
              /\ magic' = [magic EXCEPT !.start[address] = TRUE]
              /\ UNCHANGED <<stored, value>>
           \/ /\ i \in Settings
              /\ value' = [value EXCEPT ![i] = Default]
              /\ stored' = [stored EXCEPT ![i] = Default]
              /\ UNCHANGED magic
           \/ /\ i >= kSettingsEnd
              /\ magic' = [magic EXCEPT !.end[i - kSettingsEnd] = TRUE]
              /\ UNCHANGED <<stored, value>>
        /\ UNCHANGED <<setting_index, eeprom_pc, chosen>>

ResetDone ==
    /\ eeprom_pc = "reset"
    /\ reset_i = ResetLength
    /\ eeprom_pc' = "running"
    /\ UNCHANGED <<magic, stored, value, setting_index, reset_i, chosen>>

-----------------------------------------------------------------------------
(* Commands of the control board *)

\* An index that is too large is an error and changes nothing.
cmnd_setting_choose(index) ==
    /\ eeprom_pc = "running"
    /\ index \in Settings
    /\ setting_index' = index
    /\ UNCHANGED <<magic, stored, value, eeprom_pc, reset_i, chosen>>

\* settings_write leaves the value in RAM alone until the next start.
cmnd_setting_set(v) ==
    /\ eeprom_pc = "running"
    /\ stored' = [stored EXCEPT ![setting_index] = v]
    /\ chosen' = [chosen EXCEPT ![setting_index] = v]
    /\ UNCHANGED <<magic, value, setting_index, eeprom_pc, reset_i>>

Unloaded == [i \in Settings |-> 0]

\* By the watchdog, the programmer or a loss of power.
BoardReset ==
    /\ eeprom_pc # "boot"
    /\ eeprom_pc' = "boot"
    /\ setting_index' = 0
    /\ reset_i' = 0
    /\ value' = Unloaded
    /\ UNCHANGED <<magic, stored, chosen>>

-----------------------------------------------------------------------------
Word == [MagicBytes -> BOOLEAN]

\* The EEPROM holds anything; what lies in front of a whole second word counts
\* as chosen.
EepromInit ==
    /\ magic \in [start : Word, end : Word]
    /\ stored \in [Settings -> Values]
    /\ value = Unloaded
    /\ chosen = IF magic_verify(magic.end) THEN stored ELSE [i \in Settings |-> Default]
    /\ setting_index = 0
    /\ eeprom_pc = "boot"
    /\ reset_i = 0

EepromNext ==
    \/ eeprom_init \/ ResetByte \/ ResetDone
    \/ \E index \in Settings : cmnd_setting_choose(index)
    \/ \E v \in Values : cmnd_setting_set(v)
    \/ BoardReset

EepromSpec == EepromInit /\ [][EepromNext]_eepromVars

-----------------------------------------------------------------------------
(* Properties *)

EepromTypeOK ==
    /\ magic \in [start : Word, end : Word]
    /\ stored \in [Settings -> Values]
    /\ value \in [Settings -> Values]
    /\ setting_index \in Settings
    /\ eeprom_pc \in {"boot", "reset", "running"}
    /\ reset_i \in 0 .. ResetLength
    /\ chosen \in [Settings -> Values]

DefaultOrChosen(i, v) == v = Default \/ v = chosen[i]

\* Whatever the EEPROM held and wherever resets cut settings_reset, the board
\* never starts with a setting nobody chose: each is its default or what it was
\* last set to (settings.cpp:38-72).
NoUnchosenValue ==
    [][eeprom_pc # "running" /\ eeprom_pc' = "running" =>
           \A i \in Settings : DefaultOrChosen(i, value'[i])]_eepromVars
=============================================================================
