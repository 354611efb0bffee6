---------------------------- MODULE SettingsFile ----------------------------
(***************************************************************************)
(* settings.cpp of the control board: the settings file in flash memory,   *)
(* which can be programmed byte by byte but only erased as a whole.  Zeros *)
(* at its beginning are skipped, then comes the text, then erased bytes; a *)
(* save fills the old text with zeros and writes the new one behind it.    *)
(*                                                                         *)
(* A cell of the file stands for half a line, so a reset can cut a line;   *)
(* the newline belongs to the second half.                                 *)
(*                                                                         *)
(* External: SerialFlash.  Programming can only clear bits, a transfer     *)
(* stops at the end of the file, and the chip completes an erase it has    *)
(* begun even if the processor is reset.                                   *)
(*                                                                         *)
(* Definitions named _fault... are no part of the model, see README.md.    *)
(***************************************************************************)
EXTENDS Integers, Sequences, FiniteSets, FiniteSetsExt

CONSTANTS
    FileSize,     \* cells of the file
    BufSize,      \* cells settings_init reads at once
    ConfItems,    \* the options, numbered in the order they are printed
    ConfValues,
    MaxVersions   \* bound: configurations saved since a save was completed

ASSUME FileAssumption ==
    /\ ConfItems \in Nat \ {0}
    /\ FileSize \in Nat /\ FileSize >= 2 * ConfItems
    /\ BufSize \in Nat /\ BufSize > 2
    /\ 0 \in ConfValues /\ ConfValues \subseteq Nat

Items == 1 .. ConfItems
CutShort == -1    \* what half of a value is read as
Config == [Items -> ConfValues \cup {CutShort}]
settings_default == [i \in Items |-> 0]

Zero    == [part |-> "zero",   item |-> 0, value |-> 0]
Erased  == [part |-> "erased", item |-> 0, value |-> 0]
Mangled == [part |-> "mangled", item |-> 0, value |-> 0]
Half(part, i, s) == [part |-> part, item |-> i, value |-> s[i]]

Offsets == 0 .. FileSize - 1
ErasedFile == [a \in Offsets |-> Erased]

VARIABLES
    file,
    file_pc,    \* boot, hung, running; fill and print in settings_write
    settings,
    s,          \* cmnd_conf's copy
    pos, limit, \* of the fill and of the print
    out_of_space,
    again,      \* this is the second print of settings_write
    versions    \* history: what the file may hold, the last save that was
                \* completed and those begun since

fileVars == <<file, file_pc, settings, s, pos, limit, out_of_space, again,
              versions>>

-----------------------------------------------------------------------------
(* flash_tools.cpp *)

\* n passes of a loop from start on, step being a function on its states.
Iterate(step, start, n) ==
    LET after[k \in 0 .. n] == IF k = 0 THEN start ELSE step[after[k - 1]]
    IN  after[n]

SearchState ==
    [left : 0 .. FileSize, right : -1 .. FileSize - 1, found : -1 .. FileSize - 1]

\* A pass of the binary search; it ends for mid = 0 with right = -1.
Probe(v, last) ==
    [p \in SearchState |->
        LET mid == (p.left + p.right) \div 2
            hit == file[mid] = v
        IN  IF p.left > p.right THEN p
            ELSE [left  |-> IF hit = last THEN mid + 1 ELSE p.left,
                  right |-> IF hit = last THEN p.right ELSE mid - 1,
                  found |-> IF hit /\ (last \/ p.found = -1 \/ mid < p.found)
                              THEN mid ELSE p.found]]

\* The first or the last cell equal to v, -1 if there is none; each pass takes
\* at least one cell out of the range.
flash_find_byte(v, last) ==
    Iterate(Probe(v, last), [left |-> 0, right |-> FileSize - 1, found |-> -1],
            FileSize).found

\* Programming a cell.
Programmed(old, new) ==
    CASE new = Zero -> Zero
      [] new # Zero /\ old = Erased -> new
      [] OTHER -> IF old = new THEN old ELSE Mangled

-----------------------------------------------------------------------------
(* settings_init *)

\* settings_parse of what ended before a newline or an erased cell: a line, half
\* of one, or something it rejects.
settings_parse(line, conf) ==
    IF /\ line # <<>>
       /\ line[1].part = "name"
       /\ Len(line) = 1 \/ (Len(line) = 2 /\ line[2] = [line[1] EXCEPT !.part = "rest"])
    THEN [conf EXCEPT ![line[1].item] = IF Len(line) = 2 THEN line[1].value ELSE CutShort]
    ELSE conf

LineEnd(c) == c.part = "rest" \/ c = Erased

ReadState ==
    [offset : 0 .. FileSize, conf : Config, at : {"line", "end", "hung"}]

\* A pass of the loop: it ends at an erased cell, and never in the loop that
\* pads the buffer at the end of the file.
ReadLine ==
    [r \in ReadState |->
        IF r.at # "line" THEN r
        ELSE IF FileSize - r.offset < BufSize THEN [r EXCEPT !.at = "hung"]
        ELSE IF file[r.offset] = Erased THEN [r EXCEPT !.at = "end"]
        ELSE LET ends == {a \in r.offset .. r.offset + BufSize - 1 : LineEnd(file[a])}
                 end  == IF ends = {} THEN r.offset + BufSize - 1 ELSE Min(ends)
                 last == IF file[end] = Erased THEN end - 1 ELSE end
                 text == [k \in 1 .. last - r.offset + 1 |-> file[r.offset + k - 1]]
             IN  [r EXCEPT !.offset = end + 1, !.conf = settings_parse(text, @)]]

\* What is read from an offset on, a line at least one cell long.
Reading(from) ==
    Iterate(ReadLine, [offset |-> from, conf |-> settings_default, at |-> "line"],
            FileSize + 1)

\* The zeros in front are skipped.
ReadFile == Reading(flash_find_byte(Zero, TRUE) + 1)

settings_init ==
    /\ file_pc = "boot"
    /\ file_pc' = IF ReadFile.at = "hung" THEN "hung" ELSE "running"
    /\ settings' = ReadFile.conf
    /\ s' = ReadFile.conf
    /\ UNCHANGED <<file, pos, limit, out_of_space, again, versions>>

\* The file can be neither opened nor created.
settings_init_no_file ==
    /\ file_pc = "boot"
    /\ file_pc' = "running"
    /\ settings' = settings_default
    /\ s' = settings_default
    /\ UNCHANGED <<file, pos, limit, out_of_space, again, versions>>

-----------------------------------------------------------------------------
(* cmnd_conf *)

conf_item(i, v) ==
    /\ file_pc = "running"
    /\ s' = [s EXCEPT ![i] = v]
    /\ UNCHANGED <<file, file_pc, settings, pos, limit, out_of_space, again, versions>>

conf_defaults ==
    /\ file_pc = "running"
    /\ s' = settings_default
    /\ UNCHANGED <<file, file_pc, settings, pos, limit, out_of_space, again, versions>>

-----------------------------------------------------------------------------
(* settings_write *)

StartPrint == file_pc' = "print" /\ limit' = 2 * ConfItems /\ out_of_space' = FALSE

\* The cells settings_write fills with zeros.
FillRange_faultNothing(fill_start, fill_end) == [from |-> fill_end, to |-> fill_end - 1]
FillRange(fill_start, fill_end) == [from |-> fill_start, to |-> fill_end - 1]

settings_write ==
    LET fill_start == flash_find_byte(Zero, TRUE) + 1
        fill_end   == flash_find_byte(Erased, FALSE)
        range      == FillRange(fill_start, fill_end)
    IN  /\ file_pc = "running"
        /\ Cardinality(versions \cup {s}) <= MaxVersions
        /\ versions' = versions \cup {s}
        /\ again' = FALSE
        /\ \/ /\ file[0] = Erased
              /\ pos' = 0
              /\ StartPrint
              /\ UNCHANGED file
           \/ /\ file[0] # Erased /\ fill_end = -1
              /\ file' = ErasedFile
              /\ pos' = 0
              /\ StartPrint
           \/ /\ file[0] # Erased /\ fill_end # -1
              /\ file_pc' = "fill"
              /\ pos' = range.from
              /\ limit' = range.to
              /\ UNCHANGED <<file, out_of_space>>
        /\ UNCHANGED <<settings, s>>

\* flash_fill_file
FillCell ==
    /\ file_pc = "fill"
    /\ pos <= limit
    /\ file' = [file EXCEPT ![pos] = Programmed(@, Zero)]
    /\ pos' = pos + 1
    /\ UNCHANGED <<file_pc, settings, s, limit, out_of_space, again, versions>>

Filled ==
    /\ file_pc = "fill"
    /\ pos > limit
    /\ StartPrint
    /\ UNCHANGED <<file, settings, s, pos, again, versions>>

\* settings_print and save_line; limit counts the cells still to be printed.
Printed ==
    LET k == 2 * ConfItems - limit
    IN  Half(IF k % 2 = 0 THEN "name" ELSE "rest", k \div 2 + 1, s)

PrintCell ==
    /\ file_pc = "print"
    /\ limit > 0
    /\ limit' = limit - 1
    /\ IF pos < FileSize
         THEN /\ file' = [file EXCEPT ![pos] = Programmed(@, Printed)]
              /\ pos' = pos + 1
              /\ UNCHANGED out_of_space
         ELSE out_of_space' = TRUE /\ UNCHANGED <<file, pos>>
    /\ UNCHANGED <<file_pc, settings, s, again, versions>>

PrintAgain ==
    /\ file_pc = "print"
    /\ limit = 0
    /\ out_of_space /\ ~again
    /\ file' = ErasedFile
    /\ pos' = 0
    /\ limit' = 2 * ConfItems
    /\ again' = TRUE
    /\ UNCHANGED <<file_pc, settings, s, out_of_space, versions>>

WriteDone ==
    /\ file_pc = "print"
    /\ limit = 0
    /\ ~out_of_space \/ again
    /\ file_pc' = "running"
    /\ versions' = {s}
    /\ pos' = 0 /\ out_of_space' = FALSE /\ again' = FALSE
    /\ UNCHANGED <<file, settings, s, limit>>

FileReset ==
    /\ file_pc # "boot"
    /\ file_pc' = "boot"
    /\ settings' = settings_default /\ s' = settings_default
    /\ pos' = 0 /\ limit' = 0
    /\ out_of_space' = FALSE /\ again' = FALSE
    /\ UNCHANGED <<file, versions>>

-----------------------------------------------------------------------------
FileInit ==
    /\ file = ErasedFile
    /\ file_pc = "boot"
    /\ settings = settings_default /\ s = settings_default
    /\ pos = 0 /\ limit = 0
    /\ out_of_space = FALSE /\ again = FALSE
    /\ versions = {settings_default}

FileNext ==
    \/ settings_init \/ settings_init_no_file
    \/ \E i \in Items, v \in ConfValues : conf_item(i, v)
    \/ conf_defaults
    \/ settings_write \/ FillCell \/ Filled
    \/ PrintCell \/ PrintAgain \/ WriteDone
    \/ FileReset

FileSpec == FileInit /\ [][FileNext]_fileVars

-----------------------------------------------------------------------------
(* Properties *)

FileTypeOK ==
    /\ DOMAIN file = Offsets
    /\ file_pc \in {"boot", "hung", "running", "fill", "print"}
    /\ settings \in Config /\ s \in Config
    /\ pos \in 0 .. FileSize
    /\ versions \subseteq Config

SavedIsRead == ReadFile.at # "hung" => ReadFile.conf = s

\* Wherever resets cut a save, the board starts with one configuration that was
\* saved: options that were lost have their default and one that was cut its
\* half, but old and new ones are never mixed.  A save that is completed leaves a
\* file from which all of it is read, if it can be read at all
\* (settings.cpp:216-329).
StartsWithOneVersion ==
    /\ [][file_pc = "boot" /\ file_pc' = "running" =>
             \E version \in versions : \A i \in Items :
                 settings'[i] \in {version[i], settings_default[i], CutShort}]_fileVars
    /\ [][file_pc = "print" /\ file_pc' = "running" =>
             SavedIsRead']_fileVars

\* "read, fill rest with 0xFF if at the end of file" (settings.cpp:240): the
\* board gets over its settings however full the file is.
StartsAtFileEnd == file_pc # "hung"
=============================================================================
