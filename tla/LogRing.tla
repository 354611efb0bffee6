------------------------------ MODULE LogRing ------------------------------
(***************************************************************************)
(* log.cpp: a ring of records in RAM that the start-up code does not clear,*)
(* set up by setup() according to what the chip says caused the reset.     *)
(* Adding a record and setting up a new log are cut at every assignment,   *)
(* in the order of the source, because a reset may come between any two.   *)
(* Reading and clearing the chip's flags and log_init's decision are one   *)
(* step: a reset in the middle of it does what one before or after does.   *)
(*                                                                         *)
(* External: what a reset does to RAM and to the flags of the clock        *)
(* controller.  A loss of power leaves anything in RAM, the right magic    *)
(* included, and says so in the flags.                                     *)
(*                                                                         *)
(* Definitions named _fault... are no part of the model, see README.md.    *)
(***************************************************************************)
EXTENDS SerialRing

CONSTANTS
    LOG_RECORD_COUNT,
    Events,           \* records the running program adds
    kReboot, kLogReinit,
    kInvalid,         \* type of a cleared record
    Garbage           \* a record as a loss of power leaves it

ASSUME LogAssumption ==
    /\ LOG_RECORD_COUNT \in Nat \ {0, 1}
    /\ {kInvalid, Garbage} \cap (Events \cup {kReboot, kLogReinit}) = {}

VARIABLES
    log_records, write_index, read_index,
    log_magic,    \* log_magic == log_magic_correct
    reset_flags,  \* the clock controller's, set by resets until they are cleared
    log_pc,       \* reset; write, read, magic and clear while log_init makes a
                  \* new log; idle; stored and advanced in log_add_record
    clear_i,      \* log_init's i
    to_add,       \* records the calls in progress will add, first the next one
    cut_short     \* history: a reset came while there was no log yet, and no
                  \* new one has been set up since

logVars == <<log_records, write_index, read_index, log_magic, reset_flags,
             log_pc, clear_i, to_add, cut_short>>

LogRecords == Events \cup {kReboot, kLogReinit}
Cells == LogRecords \cup {kInvalid, Garbage}
Slots == 0 .. LOG_RECORD_COUNT - 1

\* What a loss of power may leave in an index; LOG_RECORD_COUNT stands for
\* every value that is too large.
AnyIndex == 0 .. LOG_RECORD_COUNT

-----------------------------------------------------------------------------
(* reset_cause.cpp *)

Flags == {"LPWR", "WWDG", "IWDG", "SFT", "POR", "PIN", "BOR"}

reset_cause_get(flags) ==
    CASE "LPWR" \in flags -> "low_power"
      [] "LPWR" \notin flags /\ "WWDG" \in flags -> "window_watchdog"
      [] flags \cap {"LPWR", "WWDG"} = {} /\ "IWDG" \in flags -> "watchdog"
      [] flags \cap {"LPWR", "WWDG", "IWDG"} = {} /\ "SFT" \in flags -> "software"
      [] flags \subseteq {"POR", "PIN", "BOR"} /\ "POR" \in flags -> "power_on"
      [] flags \subseteq {"PIN", "BOR"} /\ "PIN" \in flags -> "pin"
      [] flags = {"BOR"} -> "brownout"
      [] OTHER -> "unknown"

\* setup()'s argument of log_init.
FirstReset == reset_cause_get(reset_flags) \in {"brownout", "power_on"}

-----------------------------------------------------------------------------
(* Setting the log up *)

IndicesInRange == write_index < LOG_RECORD_COUNT /\ read_index < LOG_RECORD_COUNT

KeepsLog_faultTrustsMagic == log_magic /\ IndicesInRange
KeepsLog == log_magic /\ ~FirstReset /\ IndicesInRange

log_init ==
    /\ log_pc = "reset"
    /\ reset_flags' = {}
    /\ \/ KeepsLog /\ log_pc' = "idle" /\ to_add' = <<kReboot>>
       \/ ~KeepsLog /\ log_pc' = "write" /\ UNCHANGED to_add
    /\ UNCHANGED <<log_records, write_index, read_index, log_magic, clear_i, cut_short>>

ZeroWriteIndex ==
    /\ log_pc = "write" /\ log_pc' = "read"
    /\ write_index' = 0
    /\ UNCHANGED <<log_records, read_index, log_magic, reset_flags, clear_i, to_add,
                   cut_short>>

ZeroReadIndex ==
    /\ log_pc = "read" /\ log_pc' = "magic"
    /\ read_index' = 0
    /\ UNCHANGED <<log_records, write_index, log_magic, reset_flags, clear_i, to_add,
                   cut_short>>

SetMagic ==
    /\ log_pc = "magic" /\ log_pc' = "clear"
    /\ log_magic' = TRUE
    /\ clear_i' = 0
    /\ cut_short' = FALSE
    /\ UNCHANGED <<log_records, write_index, read_index, reset_flags, to_add>>

ClearRecord ==
    /\ log_pc = "clear"
    /\ clear_i < LOG_RECORD_COUNT
    /\ log_records' = [log_records EXCEPT ![clear_i] = kInvalid]
    /\ clear_i' = clear_i + 1
    /\ UNCHANGED <<write_index, read_index, log_magic, reset_flags, log_pc, to_add,
                   cut_short>>

Cleared ==
    /\ log_pc = "clear"
    /\ clear_i = LOG_RECORD_COUNT
    /\ log_pc' = "idle"
    /\ to_add' = <<kLogReinit, kReboot>>
    /\ UNCHANGED <<log_records, write_index, read_index, log_magic, reset_flags,
                   clear_i, cut_short>>

-----------------------------------------------------------------------------
(* Adding and printing *)

advance_index(i) == (i + 1) % LOG_RECORD_COUNT

log_add_event(event) ==
    /\ log_pc = "idle"
    /\ to_add = <<>>
    /\ to_add' = <<event>>
    /\ UNCHANGED <<log_records, write_index, read_index, log_magic, reset_flags,
                   log_pc, clear_i, cut_short>>

StoreRecord ==
    /\ log_pc = "idle"
    /\ to_add # <<>>
    /\ log_records' = [log_records EXCEPT ![write_index] = Head(to_add)]
    /\ log_pc' = "stored"
    /\ UNCHANGED <<write_index, read_index, log_magic, reset_flags, clear_i, to_add,
                   cut_short>>

AdvanceWrite ==
    /\ log_pc = "stored"
    /\ write_index' = advance_index(write_index)
    /\ log_pc' = "advanced"
    /\ UNCHANGED <<log_records, read_index, log_magic, reset_flags, clear_i, to_add,
                   cut_short>>

Overtaken_faultNever == read_index
Overtaken == IF write_index = read_index THEN advance_index(read_index) ELSE read_index

DropOldest ==
    /\ log_pc = "advanced"
    /\ read_index' = Overtaken
    /\ to_add' = Tail(to_add)
    /\ log_pc' = "idle"
    /\ UNCHANGED <<log_records, write_index, log_magic, reset_flags, clear_i, cut_short>>

\* One pass of log_print_new's loop; the loop ends after 100 of them.
log_print_new ==
    /\ log_pc = "idle"
    /\ to_add = <<>>
    /\ read_index # write_index
    /\ read_index' = advance_index(read_index)
    /\ UNCHANGED <<log_records, write_index, log_magic, reset_flags, log_pc,
                   clear_i, to_add, cut_short>>

-----------------------------------------------------------------------------
(* Resets *)

\* The log as the next log_init will find it, or as it is.
HasLog ==
    IF log_pc = "reset" THEN log_magic /\ ~FirstReset /\ IndicesInRange
                        ELSE log_pc \notin {"write", "read", "magic"}

\* The watchdog runs, and the program resets itself, only after setup().
ChipReset(flags) ==
    /\ log_pc \in {"reset", "write", "read", "magic", "clear"} => flags = {"PIN"}
    /\ reset_flags' = reset_flags \cup flags
    /\ log_pc' = "reset"
    /\ to_add' = <<>>
    /\ cut_short' = (cut_short \/ ~HasLog)
    /\ UNCHANGED <<log_records, write_index, read_index, log_magic, clear_i>>

PowerLoss(flags) ==
    /\ reset_flags' = flags
    /\ log_records' = [i \in Slots |-> Garbage]
    /\ write_index' \in AnyIndex
    /\ read_index' \in AnyIndex
    /\ log_magic' \in BOOLEAN
    /\ log_pc' = "reset"
    /\ to_add' = <<>>
    /\ cut_short' = FALSE
    /\ UNCHANGED clear_i

ChipResets == {{"PIN"}, {"IWDG", "PIN"}, {"SFT", "PIN"}}
PowerLosses == {{"POR", "PIN", "BOR"}, {"BOR"}}

LogInit ==
    /\ log_records = [i \in Slots |-> Garbage]
    /\ write_index \in AnyIndex
    /\ read_index \in AnyIndex
    /\ log_magic \in BOOLEAN
    /\ reset_flags \in PowerLosses
    /\ log_pc = "reset"
    /\ clear_i = 0
    /\ to_add = <<>>
    /\ cut_short = FALSE

LogNext ==
    \/ log_init \/ ZeroWriteIndex \/ ZeroReadIndex \/ SetMagic
    \/ ClearRecord \/ Cleared
    \/ \E event \in Events : log_add_event(event)
    \/ StoreRecord \/ AdvanceWrite \/ DropOldest
    \/ log_print_new
    \/ \E flags \in ChipResets : ChipReset(flags)
    \/ \E flags \in PowerLosses : PowerLoss(flags)

LogSpec == LogInit /\ [][LogNext]_logVars

-----------------------------------------------------------------------------
(* Properties *)

LogTypeOK ==
    /\ log_records \in [Slots -> Cells]
    /\ write_index \in AnyIndex
    /\ read_index \in AnyIndex
    /\ log_magic \in BOOLEAN
    /\ reset_flags \subseteq Flags
    /\ log_pc \in {"reset", "write", "read", "magic", "clear",
                  "idle", "stored", "advanced"}
    /\ clear_i \in AnyIndex
    /\ to_add \in Seq(LogRecords)
    /\ cut_short \in BOOLEAN

Ring == [buffer |-> log_records, head |-> write_index, tail |-> read_index]

AfterDrop == IF write_index = read_index THEN advance_index(read_index) ELSE read_index

\* The log as log_print_new would print it after the call that adds, or as the
\* next log_init will find it.
Unread ==
    CASE ~HasLog -> <<>>
      [] log_pc = "advanced" -> Contents([Ring EXCEPT !.tail = AfterDrop],
                                         LOG_RECORD_COUNT)
      [] OTHER -> Contents(Ring, LOG_RECORD_COUNT)

\* Whatever was in RAM when the chip started, what is printed as a new record
\* has been added (log.cpp:87-109, 369-379): never memory that a loss of power
\* left behind, never a cleared record.  The exception is a reset that came
\* after a loss of power and before the new log was set up.
OnlyRecordsUnread ==
    ~cut_short => \A k \in 1 .. Len(Unread) : Unread[k] \in LogRecords

Board ==
    IF log_pc = "reset" THEN IF HasLog THEN "reset" ELSE "blank"
                        ELSE IF HasLog THEN "up" ELSE "starting"

\* Through wraparound, overtaking and resets between any two assignments, those
\* that set up a new log included, the log is the queue of LogQueue.tla.
Queue == INSTANCE LogQueue WITH
    Records   <- LogRecords,
    Leftovers <- {kInvalid, Garbage},
    Capacity  <- LOG_RECORD_COUNT - 1,
    unread    <- Unread,
    board     <- Board

LogIsQueue == Queue!Spec
=============================================================================
