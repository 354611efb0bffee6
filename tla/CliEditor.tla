----------------------------- MODULE CliEditor -----------------------------
(***************************************************************************)
(* CLIeditor.cpp and its use by cli.cpp: text typed at the terminal goes   *)
(* through a buffer of two sections into a file, a section is written when *)
(* the other one is full too, so that the last characters can be erased;   *)
(* a line with a dot alone ends it.                                        *)
(*                                                                         *)
(* External: the file appends what is written to it.  The two backspace    *)
(* codes are one key, as are carriage return and newline; '\0' is ignored. *)
(*                                                                         *)
(* Definitions named _fault... are no part of the model, see README.md.    *)
(***************************************************************************)
EXTENDS Integers, Sequences, SequencesExt

CONSTANTS
    WRITE_BUF_SIZE,
    Letter,        \* any other character
    MaxShown       \* bound: characters on the terminal

ASSUME EditorAssumption ==
    /\ WRITE_BUF_SIZE \in Nat /\ WRITE_BUF_SIZE >= 2
    /\ MaxShown \in Nat

end_sequence == <<"newline", "dot", "newline">>
Char == {"newline", "dot", Letter}

VARIABLES
    ed_mode,
    ed_pass,         \* CLI_loop is in its loop over the characters that came
    section, index, last_write,
    buf,             \* two sections
    end_sequence_i,
    written,         \* the file from where the editor began
    shown,           \* history: what the terminal shows
    undisturbed      \* history: nothing erased since end_sequence_i was 0

edVars == <<ed_mode, ed_pass, section, index, last_write, buf, end_sequence_i,
            written, shown, undisturbed>>

Other(sec) == 1 - sec
BufferedUpTo(sec, n) == SubSeq(buf[sec], 1, n)

-----------------------------------------------------------------------------
(* CLIeditor *)

\* backspace() as a function of the position: where it goes, or nowhere.
PastSection_faultUnchecked(sec) == TRUE
PastSection(sec) == sec = last_write

Back(at) ==
    CASE at.index > 0 -> [at EXCEPT !.index = @ - 1]
      [] at.index = 0 /\ PastSection(at.section) ->
            [section |-> Other(at.section), index |-> WRITE_BUF_SIZE - 1]
      [] OTHER -> at

Position == [section |-> section, index |-> index]

MoveTo(at) == section' = at.section /\ index' = at.index

\* The key of the terminal that moves it one character back.
Backspace ==
    /\ ed_pass
    /\ MoveTo(Back(Position))
    /\ shown' = IF Back(Position) = Position \/ shown = <<>> THEN shown ELSE Front(shown)
    /\ undisturbed' = (undisturbed /\ end_sequence_i = 0)
    /\ UNCHANGED <<ed_mode, ed_pass, last_write, buf, end_sequence_i, written>>

\* end_sequence_i after the character c.
Matched(c) ==
    CASE c = end_sequence[end_sequence_i + 1] -> end_sequence_i + 1
      [] OTHER -> IF c = end_sequence[1] THEN 1 ELSE 0

\* The first two characters of the end sequence are dropped, the third one was
\* not stored.
Finish(c) ==
    LET at == Back(Back(Position))
        ended == at.section = last_write
    IN  /\ ed_pass
        /\ Matched(c) = Len(end_sequence)
        /\ MoveTo(at)
        /\ written' = written \o (IF ended THEN buf[Other(at.section)] ELSE <<>>)
                              \o BufferedUpTo(at.section, at.index)
        /\ last_write' = IF ended THEN at.section ELSE last_write
        /\ end_sequence_i' = 0
        /\ ed_mode' = FALSE
        /\ shown' = Append(shown, c)
        /\ UNCHANGED <<ed_pass, buf, undisturbed>>

\* Whether a section that filled up makes the other one be written.
WritesOther_faultAlways(sec) == TRUE
WritesOther(sec) == Other(sec) # last_write

StoreChar(c) ==
    LET stored == [buf EXCEPT ![section][index + 1] = c]
    IN  /\ ed_pass
        /\ Len(shown) < MaxShown
        /\ Matched(c) < Len(end_sequence)
        /\ end_sequence_i' = Matched(c)
        /\ shown' = Append(shown, c)
        /\ undisturbed' = (undisturbed \/ Matched(c) < 2)
        /\ buf' = stored
        /\ IF index + 1 < WRITE_BUF_SIZE
             THEN index' = index + 1 /\ UNCHANGED <<section, last_write, written>>
             ELSE /\ MoveTo([section |-> Other(section), index |-> 0])
                  /\ IF WritesOther(section)
                       THEN /\ written' = written \o stored[Other(section)]
                            /\ last_write' = Other(section)
                       ELSE UNCHANGED <<written, last_write>>
        /\ UNCHANGED <<ed_mode, ed_pass>>

-----------------------------------------------------------------------------
(* cli.cpp *)

cmnd_ed ==
    /\ ~ed_mode /\ ~ed_pass
    /\ ed_mode' = TRUE
    /\ section' = 0 /\ index' = 0 /\ last_write' = 1
    /\ buf' = [sec \in 0 .. 1 |-> [k \in 1 .. WRITE_BUF_SIZE |-> Letter]]
    /\ end_sequence_i' = 0
    /\ written' = <<>>
    /\ shown' = <<>> /\ undisturbed' = TRUE
    /\ UNCHANGED ed_pass

\* The loop does not end with the editor: characters that came with the end
\* sequence still go to it.
CLI_loop ==
    /\ ed_pass \/ ed_mode
    /\ ed_pass' = ~ed_pass
    /\ UNCHANGED <<ed_mode, section, index, last_write, buf, end_sequence_i, written,
                   shown, undisturbed>>

EdInit ==
    /\ ed_mode = FALSE /\ ed_pass = FALSE
    /\ section = 0 /\ index = 0 /\ last_write = 1
    /\ buf = [sec \in 0 .. 1 |-> [k \in 1 .. WRITE_BUF_SIZE |-> Letter]]
    /\ end_sequence_i = 0
    /\ written = <<>>
    /\ shown = <<>> /\ undisturbed = TRUE

EdNext ==
    \/ cmnd_ed \/ CLI_loop
    \/ Backspace
    \/ \E c \in Char : StoreChar(c) \/ Finish(c)

EdSpec == EdInit /\ [][EdNext]_edVars

-----------------------------------------------------------------------------
(* Properties *)

\* What has been typed and not written yet.
Unwritten ==
    (IF section = last_write THEN buf[Other(section)] ELSE <<>>) \o BufferedUpTo(section, index)

EdTypeOK ==
    /\ ed_mode \in BOOLEAN /\ ed_pass \in BOOLEAN
    /\ section \in 0 .. 1 /\ last_write \in 0 .. 1
    /\ index \in 0 .. WRITE_BUF_SIZE - 1
    /\ buf \in [0 .. 1 -> [1 .. WRITE_BUF_SIZE -> Char]]
    /\ end_sequence_i \in 0 .. 2
    /\ written \in Seq(Char)
    /\ shown \in Seq(Char)
    /\ undisturbed \in BOOLEAN

\* However the text wraps around the two sections and is erased again, the file
\* gets what the terminal shows, without the three characters that end it.
\* Erasing one of them does not keep it from counting, the end of the text is
\* then a matter of luck (CLIeditor.cpp:6-113).
FileGetsWhatIsShown ==
    /\ [](ed_mode => written \o Unwritten = shown)
    /\ [][ed_mode /\ ~ed_mode' =>
             IF undisturbed THEN written' \o end_sequence = shown'
                            ELSE IsPrefix(written', shown')]_edVars
=============================================================================
