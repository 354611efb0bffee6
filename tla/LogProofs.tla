------------------------------ MODULE LogProofs ------------------------------
(***************************************************************************)
(* The control board's log is the queue of LogQueue.tla, for every number  *)
(* of records and every set of events, whatever the RAM holds at a loss of *)
(* power.                                                                  *)
(***************************************************************************)
EXTENDS LogRing, RingProofs

N == LOG_RECORD_COUNT

-----------------------------------------------------------------------------
(* Indices and flags *)

LEMMA AdvanceIsSlot ==
    ASSUME NEW i \in Slots
    PROVE  advance_index(i) = Slot(i, N) /\ advance_index(i) \in Slots
<1>1. N \in Nat \ {0, 1} /\ i \in Nat /\ i < N
  BY LogAssumption DEF Slots, N
<1>2. CASE i + 1 = N
  <2>1. N % N = 0
    BY <1>1
  <2> QED BY <1>1, <1>2, <2>1 DEF advance_index, Slot, Slots, N
<1>3. CASE i + 1 < N
  <2>1. (i + 1) % N = i + 1
    BY <1>1, <1>3
  <2> QED BY <1>1, <1>3, <2>1 DEF advance_index, Slot, Slots, N
<1> QED BY <1>1, <1>2, <1>3

\* The flags of a brownout that the reset pin followed before they were read.
BrownoutHidden == {"BOR", "PIN"}

\* setup() takes a start for the first one after a loss of power exactly if it
\* is, unless the reset pin hides it.
LEMMA CauseOfReset ==
    /\ \A flags \in PowerLosses : reset_cause_get(flags) \in {"brownout", "power_on"}
    /\ \A flags \in ChipResets \cup {BrownoutHidden} :
          reset_cause_get(flags) \notin {"brownout", "power_on"}
<1>1. reset_cause_get({"POR", "PIN", "BOR"}) = "power_on"
  BY DEF reset_cause_get
<1>2. reset_cause_get({"BOR"}) = "brownout"
  BY DEF reset_cause_get
<1>3. reset_cause_get({"PIN"}) = "pin"
  BY DEF reset_cause_get
<1>4. reset_cause_get({"IWDG", "PIN"}) = "watchdog"
  BY DEF reset_cause_get
<1>5. reset_cause_get({"SFT", "PIN"}) = "software"
  BY DEF reset_cause_get
<1>6. reset_cause_get({"BOR", "PIN"}) = "pin"
  BY DEF reset_cause_get
<1> QED BY <1>1, <1>2, <1>3, <1>4, <1>5, <1>6 DEF PowerLosses, ChipResets, BrownoutHidden

-----------------------------------------------------------------------------
(* The inductive invariant *)

\* The flags tell a loss of power from the other resets, and only in between
\* two starts.
FlagsTell ==
    IF log_pc = "reset" THEN reset_flags \in PowerLosses \cup ChipResets \cup {BrownoutHidden}
                        ELSE reset_flags = {}

\* Once there is a log the magic is right and the indices are in range.
RamKept == HasLog => log_magic /\ write_index \in Slots /\ read_index \in Slots

\* The record that is being added, and the slot it went to.
Adding ==
    /\ log_pc \in {"stored", "advanced"} => to_add # <<>>
    /\ log_pc = "stored" => log_records[write_index] = Head(to_add)

Clearing ==
    /\ log_pc \in {"read", "magic", "clear"} => write_index = 0
    /\ log_pc \in {"magic", "clear"} => read_index = 0

\* Memory is taken for records only after a reset that came too early.
UnreadTyped == Unread \in Seq(Cells) /\ (~cut_short => Unread \in Seq(LogRecords))

LogIInv ==
    /\ LogTypeOK
    /\ FlagsTell
    /\ RamKept
    /\ Adding
    /\ Clearing
    /\ UnreadTyped

LEMMA RingType ==
    ASSUME LogTypeOK, write_index \in Slots, read_index \in Slots
    PROVE  Ring \in Rings(N, Cells) /\ N \in Nat \ {0, 1}
BY LogAssumption DEF LogTypeOK, Rings, Ring, Slots, N

-----------------------------------------------------------------------------
(* The contents *)

UnreadByPc ==
    /\ ~HasLog => Unread = <<>>
    /\ log_pc = "advanced" => Unread = Contents([Ring EXCEPT !.tail = AfterDrop], N)
    /\ HasLog /\ log_pc # "advanced" => Unread = Contents(Ring, N)

LEMMA UnreadAtPc == UnreadByPc
BY DEF UnreadByPc, Unread, HasLog, N

LEMMA EmptyTyped == <<>> \in Seq(Cells) /\ <<>> \in Seq(LogRecords)
OBVIOUS

LEMMA RecordsAreCells == \A s : s \in Seq(LogRecords) => s \in Seq(Cells)
BY DEF Cells

-----------------------------------------------------------------------------
(* Every step keeps the invariant and is a step of the queue *)

LEMMA LogStarts == LogInit => LogIInv /\ Unread = <<>> /\ Board = "blank"
<1> SUFFICES ASSUME LogInit
             PROVE  LogIInv /\ Unread = <<>> /\ Board = "blank"
  OBVIOUS
<1>1. FirstReset
  BY CauseOfReset DEF LogInit, FirstReset
<1>2. ~HasLog /\ log_pc = "reset"
  BY <1>1 DEF LogInit, HasLog
<1>3. Unread = <<>>
  BY <1>2, UnreadAtPc DEF UnreadByPc
<1>4. LogTypeOK
  <2>1. reset_flags \subseteq Flags
    BY DEF LogInit, PowerLosses, Flags
  <2>2. log_records \in [Slots -> Cells] /\ clear_i \in AnyIndex
    BY LogAssumption DEF LogInit, Cells, AnyIndex
  <2> QED BY <2>1, <2>2, EmptyTyped DEF LogInit, LogTypeOK
<1> QED BY <1>2, <1>3, <1>4, EmptyTyped
        DEF LogInit, LogIInv, FlagsTell, RamKept, Adding, Clearing, UnreadTyped, Board

LEMMA SettingUp ==
    LogIInv /\ log_init => LogIInv' /\ (Queue!Return \/ Queue!Start)
<1> SUFFICES ASSUME LogIInv, log_init
             PROVE  LogIInv' /\ (Queue!Return \/ Queue!Start)
  OBVIOUS
<1>0. UnreadByPc'
  BY UnreadAtPc, PTL
<1>1. /\ log_pc = "reset" /\ reset_flags' = {}
      /\ UNCHANGED <<log_records, write_index, read_index, log_magic, clear_i, cut_short>>
      /\ Ring' = Ring /\ (KeepsLog <=> HasLog)
  BY DEF log_init, Ring, KeepsLog, HasLog
<1>2. CASE ~KeepsLog
  <2>1. log_pc' = "write" /\ to_add' = to_add
    BY <1>2 DEF log_init
  <2>2. ~HasLog /\ ~HasLog'
    BY <1>1, <1>2, <2>1 DEF HasLog
  <2>3. Unread = <<>> /\ Unread' = <<>>
    BY <1>0, <2>2, UnreadAtPc DEF UnreadByPc
  <2>4. LogTypeOK'
    BY <1>1, <2>1 DEF LogIInv, LogTypeOK, Flags
  <2>5. Queue!Start
    BY <1>1, <2>1, <2>2, <2>3 DEF Queue!Start, Board
  <2> QED BY <1>1, <2>1, <2>2, <2>3, <2>4, <2>5, EmptyTyped
          DEF LogIInv, FlagsTell, RamKept, Adding, Clearing, UnreadTyped
<1>3. CASE KeepsLog
  <2>1. log_pc' = "idle" /\ to_add' = <<kReboot>>
    BY <1>3 DEF log_init
  <2>2. HasLog /\ HasLog'
    BY <1>1, <1>3, <2>1 DEF HasLog
  <2>3. Unread' = Unread
    BY <1>0, <1>1, <2>1, <2>2, UnreadAtPc DEF UnreadByPc
  <2>4. LogTypeOK'
    BY <1>1, <2>1 DEF LogIInv, LogTypeOK, LogRecords, Flags
  <2>5. Queue!Return
    BY <1>1, <2>1, <2>2, <2>3 DEF Queue!Return, Board
  <2> QED BY <1>1, <2>1, <2>2, <2>3, <2>4, <2>5
          DEF LogIInv, FlagsTell, RamKept, Adding, Clearing, UnreadTyped
<1> QED BY <1>2, <1>3

\* Until the new log is there, nothing is taken for a record.
LEMMA ZeroingKeeps ==
    LogIInv /\ (ZeroWriteIndex \/ ZeroReadIndex)
      => LogIInv' /\ Unread' = Unread /\ Board' = Board
<1> SUFFICES ASSUME LogIInv, ZeroWriteIndex \/ ZeroReadIndex
             PROVE  LogIInv' /\ Unread' = Unread /\ Board' = Board
  OBVIOUS
<1>0. UnreadByPc'
  BY UnreadAtPc, PTL
<1>1. /\ log_pc \in {"write", "read"} /\ log_pc' \in {"read", "magic"} /\ write_index' = 0
      /\ log_pc' = "magic" => read_index' = 0
      /\ read_index' \in {0, read_index}
      /\ UNCHANGED <<log_records, log_magic, reset_flags, clear_i, to_add, cut_short>>
  BY DEF ZeroWriteIndex, ZeroReadIndex, LogIInv, Clearing
<1>2. ~HasLog /\ ~HasLog'
  BY <1>1 DEF HasLog
<1>3. Unread = <<>> /\ Unread' = <<>>
  BY <1>0, <1>2, UnreadAtPc DEF UnreadByPc
<1>4. LogTypeOK'
  <2>1. 0 \in AnyIndex
    BY LogAssumption DEF AnyIndex
  <2> QED BY <1>1, <2>1 DEF LogIInv, LogTypeOK
<1>5. Board' = Board
  BY <1>1, <1>2 DEF Board
<1> QED BY <1>1, <1>2, <1>3, <1>4, <1>5, EmptyTyped
        DEF LogIInv, FlagsTell, RamKept, Adding, Clearing, UnreadTyped

LEMMA MagicKeeps == LogIInv /\ SetMagic => LogIInv' /\ Queue!Started
<1> SUFFICES ASSUME LogIInv, SetMagic PROVE LogIInv' /\ Queue!Started
  OBVIOUS
<1>0. UnreadByPc'
  BY UnreadAtPc, PTL
<1>1. /\ log_pc = "magic" /\ log_pc' = "clear" /\ log_magic' /\ clear_i' = 0
      /\ write_index = 0 /\ read_index = 0 /\ write_index' = 0 /\ read_index' = 0
      /\ UNCHANGED <<log_records, reset_flags, to_add>> /\ cut_short' = FALSE
  BY DEF SetMagic, LogIInv, Clearing
<1>2. ~HasLog /\ HasLog'
  BY <1>1 DEF HasLog
<1>3. LogTypeOK' /\ 0 \in Slots
  BY <1>1, LogAssumption DEF SetMagic, LogIInv, LogTypeOK, AnyIndex, Slots
<1>4. Ring' \in Rings(N, Cells) /\ N \in Nat \ {0, 1} /\ Empty(Ring')
  BY <1>1, <1>3, LogAssumption DEF LogTypeOK, Rings, Ring, Slots, N, Empty
<1>5. Unread = <<>> /\ Unread' = <<>>
  BY <1>0, <1>1, <1>2, <1>4, EmptyContents, UnreadAtPc DEF UnreadByPc
<1>6. Queue!Started
  BY <1>1, <1>2, <1>5 DEF Queue!Started, Board
<1> QED BY <1>1, <1>3, <1>5, <1>6, EmptyTyped
        DEF LogIInv, FlagsTell, RamKept, Adding, Clearing, UnreadTyped

LEMMA ClearingKeeps ==
    LogIInv /\ (ClearRecord \/ Cleared) => LogIInv' /\ Unread' = Unread /\ Board' = Board
<1> SUFFICES ASSUME LogIInv, ClearRecord \/ Cleared
             PROVE  LogIInv' /\ Unread' = Unread /\ Board' = Board
  OBVIOUS
<1>0. UnreadByPc'
  BY UnreadAtPc, PTL
<1>1. /\ log_pc = "clear" /\ log_pc' \in {"clear", "idle"}
      /\ write_index = 0 /\ read_index = 0
      /\ UNCHANGED <<write_index, read_index, log_magic, reset_flags, cut_short>>
  BY DEF LogIInv, Clearing, ClearRecord, Cleared
<1>2. LogTypeOK'
  <2>1. CASE ClearRecord
    BY <2>1, LogAssumption
    DEF ClearRecord, LogIInv, LogTypeOK, AnyIndex, Cells, Slots
  <2>2. CASE Cleared
    BY <2>2 DEF Cleared, LogIInv, LogTypeOK, LogRecords
  <2> QED BY <2>1, <2>2
<1>3. /\ Ring \in Rings(N, Cells) /\ Ring' \in Rings(N, Cells) /\ N \in Nat \ {0, 1}
      /\ Empty(Ring) /\ Empty(Ring')
  BY <1>1, <1>2, LogAssumption DEF LogIInv, LogTypeOK, Rings, Ring, Slots, N, Empty
<1>4. HasLog /\ HasLog'
  BY <1>1 DEF HasLog
<1>5. Unread = <<>> /\ Unread' = <<>>
  BY <1>0, <1>1, <1>3, <1>4, EmptyContents, UnreadAtPc DEF UnreadByPc
<1>6. Board' = Board
  BY <1>1, <1>4 DEF Board
<1> QED BY <1>1, <1>2, <1>4, <1>5, <1>6, EmptyTyped
        DEF LogIInv, FlagsTell, RamKept, Adding, Clearing, UnreadTyped

LEMMA EventKeeps ==
    ASSUME NEW event \in Events, LogIInv, log_add_event(event)
    PROVE  LogIInv' /\ Unread' = Unread /\ Board' = Board
<1>0. UnreadByPc'
  BY UnreadAtPc, PTL
<1>1. LogTypeOK'
  BY DEF log_add_event, LogIInv, LogTypeOK, LogRecords
<1>2. HasLog /\ HasLog'
  BY DEF log_add_event, HasLog
<1>3. Unread' = Unread
  BY <1>0, <1>2, UnreadAtPc DEF UnreadByPc, log_add_event, Ring
<1>4. Board' = Board
  BY <1>2 DEF log_add_event, Board
<1> QED BY <1>1, <1>2, <1>3, <1>4
        DEF log_add_event, LogIInv, FlagsTell, RamKept, Adding, Clearing, UnreadTyped

LEMMA StoreKeeps ==
    LogIInv /\ StoreRecord => LogIInv' /\ Unread' = Unread /\ Board' = Board
<1> SUFFICES ASSUME LogIInv, StoreRecord
             PROVE  LogIInv' /\ Unread' = Unread /\ Board' = Board
  OBVIOUS
<1>0. UnreadByPc'
  BY UnreadAtPc, PTL
<1>1. /\ Ring \in Rings(N, Cells) /\ N \in Nat \ {0, 1}
      /\ log_pc = "idle" /\ log_pc' = "stored" /\ HasLog /\ HasLog'
  BY RingType DEF StoreRecord, LogIInv, RamKept, HasLog
<1>2. Head(to_add) \in LogRecords /\ Head(to_add) \in Cells
  BY DEF StoreRecord, LogIInv, LogTypeOK, Cells
<1>3. Ring' = Stored(Ring, Head(to_add)) /\ log_records'[write_index] = Head(to_add)
  <2>1. /\ log_records' = [log_records EXCEPT ![write_index] = Head(to_add)]
        /\ UNCHANGED <<write_index, read_index>>
    BY DEF StoreRecord
  <2>2. log_records \in [Slots -> Cells] /\ write_index \in Slots
    BY <1>1 DEF LogIInv, LogTypeOK, RamKept
  <2>3. log_records'[write_index] = Head(to_add)
    BY <2>1, <2>2
  <2>4. Ring' = Stored(Ring, Head(to_add))
    BY <2>1 DEF Ring, Stored
  <2> QED BY <2>3, <2>4
<1>4. Contents(Ring', N) = Contents(Ring, N)
  <2>1. Contents(Stored(Ring, Head(to_add)), N) = Contents(Ring, N)
    BY <1>1, <1>2, StoredContents
  <2> QED BY <1>3, <2>1
<1>5. Unread' = Unread
  BY <1>0, <1>1, <1>4, UnreadAtPc DEF UnreadByPc
<1>6. LogTypeOK'
  BY <1>1, <1>2 DEF StoreRecord, LogIInv, LogTypeOK
<1>7. Board' = Board
  BY <1>1 DEF Board
<1> QED BY <1>1, <1>3, <1>5, <1>6, <1>7
        DEF StoreRecord, LogIInv, FlagsTell, RamKept, Adding, Clearing, UnreadTyped

\* This is where the record joins the queue, the oldest one leaving a full one.
LEMMA AdvanceKeeps ==
    LogIInv /\ AdvanceWrite => LogIInv' /\ \E r \in LogRecords : Queue!Put(r)
<1> SUFFICES ASSUME LogIInv, AdvanceWrite
             PROVE  LogIInv' /\ \E r \in LogRecords : Queue!Put(r)
  OBVIOUS
<1> DEFINE r == Head(to_add)
<1>0. UnreadByPc'
  BY UnreadAtPc, PTL
<1>1. /\ Ring \in Rings(N, Cells) /\ N \in Nat \ {0, 1}
      /\ log_pc = "stored" /\ log_pc' = "advanced"
      /\ write_index \in Slots /\ read_index \in Slots
      /\ Ring.head = write_index /\ Ring.tail = read_index
      /\ HasLog /\ HasLog'
      /\ UNCHANGED <<log_records, read_index, log_magic, reset_flags, clear_i, to_add,
                     cut_short>>
  BY RingType DEF AdvanceWrite, LogIInv, RamKept, Ring, HasLog
<1>2. r \in LogRecords /\ Ring.buffer[Ring.head] = r
  BY <1>1 DEF LogIInv, LogTypeOK, Adding, Ring
<1>3. write_index' = Slot(write_index, N) /\ write_index' \in Slots
  BY <1>1, AdvanceIsSlot DEF AdvanceWrite
<1>4. Ring' = Advanced(Ring, N)
  BY <1>1, <1>3 DEF Ring, Advanced
<1>5. /\ Unread = Contents(Ring, N)
      /\ Unread' = Contents([Ring' EXCEPT !.tail = AfterDrop'], N)
      /\ Len(Unread) = Pending(Ring, N) /\ Unread \in Seq(Cells)
      /\ ~cut_short => Unread \in Seq(LogRecords)
      /\ Pending(Ring, N) \in 0 .. N - 1
  BY <1>0, <1>1, UnreadAtPc, ContentsType DEF UnreadByPc, LogIInv, UnreadTyped
<1>6. ASSUME Full(Ring, N) PROVE Queue!Put(r)
  <2>1. AfterDrop' = Slot(read_index, N)
    BY <1>1, <1>3, <1>6, AdvanceIsSlot DEF AfterDrop, Full
  <2>2. Unread # <<>> /\ Unread' = Append(Tail(Unread), r)
    BY <1>1, <1>2, <1>4, <1>5, <1>6, <2>1, OvertakenContents
  <2>3. Len(Unread) = N - 1
    BY <1>1, <1>5, <1>6, ContentsType
  <2> QED BY <1>1, <1>2, <1>5, <2>2, <2>3 DEF N, Queue!Put, Board
<1>7. ASSUME ~Full(Ring, N) PROVE Queue!Put(r)
  <2>1. write_index' # read_index
    BY <1>1, <1>3, <1>7 DEF Full
  <2>2. AfterDrop' = read_index
    BY <1>1, <2>1 DEF AfterDrop
  <2>3. [Ring' EXCEPT !.tail = AfterDrop'] = Ring'
    BY <1>1, <2>2 DEF Ring
  <2>4. Unread' = Append(Unread, r)
    BY <1>1, <1>2, <1>4, <1>5, <1>7, <2>3, AdvancedContents
  <2>5. Len(Unread) < N - 1
    BY <1>1, <1>5, <1>7, ContentsType
  <2> QED BY <1>1, <1>2, <1>5, <2>4, <2>5 DEF N, Queue!Put, Board
<1>8. Queue!Put(r) /\ UnreadTyped'
  <2>1. Queue!Put(r)
    BY <1>6, <1>7
  <2>2. \/ Unread' = Append(Unread, r)
        \/ Unread # <<>> /\ Unread' = Append(Tail(Unread), r)
    <3>1. N - 1 > 0
      BY <1>1
    <3> QED BY <1>5, <2>1, <3>1 DEF Queue!Put, N
  <2>3. Unread' \in Seq(Cells)
    <3>1. r \in Cells
      BY <1>2 DEF Cells
    <3> HIDE DEF r
    <3> QED BY <1>5, <2>2, <3>1
  <2>4. ~cut_short => Unread' \in Seq(LogRecords)
    BY <1>2, <1>5, <2>2
  <2> QED BY <1>1, <2>1, <2>3, <2>4 DEF UnreadTyped
<1>9. LogTypeOK'
  BY <1>1, <1>3, LogAssumption DEF LogIInv, LogTypeOK, AnyIndex, Slots
<1> QED BY <1>1, <1>2, <1>3, <1>8, <1>9
        DEF LogIInv, FlagsTell, RamKept, Adding, Clearing

LEMMA DropKeeps ==
    LogIInv /\ DropOldest => LogIInv' /\ Unread' = Unread /\ Board' = Board
<1> SUFFICES ASSUME LogIInv, DropOldest
             PROVE  LogIInv' /\ Unread' = Unread /\ Board' = Board
  OBVIOUS
<1>0. UnreadByPc'
  BY UnreadAtPc, PTL
<1>1. /\ log_pc = "advanced" /\ log_pc' = "idle" /\ read_index' = AfterDrop
      /\ write_index \in Slots /\ read_index \in Slots /\ to_add # <<>>
      /\ to_add' = Tail(to_add) /\ HasLog /\ HasLog'
      /\ UNCHANGED <<log_records, write_index, log_magic, reset_flags, clear_i, cut_short>>
  BY DEF DropOldest, Overtaken, AfterDrop, LogIInv, RamKept, Adding, HasLog
<1>2. AfterDrop \in Slots
  BY <1>1, AdvanceIsSlot DEF AfterDrop
<1>3. Ring' = [Ring EXCEPT !.tail = AfterDrop]
  BY <1>1 DEF Ring
<1>4. Unread' = Unread
  BY <1>0, <1>1, <1>3, UnreadAtPc DEF UnreadByPc
<1>5. LogTypeOK'
  BY <1>1, <1>2, LogAssumption DEF LogIInv, LogTypeOK, AnyIndex, Slots
<1>6. Board' = Board
  BY <1>1 DEF Board
<1> QED BY <1>1, <1>2, <1>4, <1>5, <1>6
        DEF LogIInv, FlagsTell, RamKept, Adding, Clearing, UnreadTyped

LEMMA PrintKeeps == LogIInv /\ log_print_new => LogIInv' /\ Queue!Take
<1> SUFFICES ASSUME LogIInv, log_print_new PROVE LogIInv' /\ Queue!Take
  OBVIOUS
<1>0. UnreadByPc'
  BY UnreadAtPc, PTL
<1>1. /\ Ring \in Rings(N, Cells) /\ N \in Nat \ {0, 1}
      /\ log_pc = "idle" /\ log_pc' = "idle"
      /\ write_index \in Slots /\ read_index \in Slots /\ read_index # write_index
      /\ HasLog /\ HasLog'
      /\ UNCHANGED <<log_records, write_index, log_magic, reset_flags, clear_i, to_add,
                     cut_short>>
  BY RingType DEF log_print_new, LogIInv, RamKept, HasLog
<1>2. read_index' = Slot(read_index, N) /\ read_index' \in Slots
  BY <1>1, AdvanceIsSlot DEF log_print_new
<1>3. Ring' = Released(Ring, N) /\ ~Empty(Ring)
  BY <1>1, <1>2 DEF Ring, Released, Empty
<1>4. Unread # <<>> /\ Unread' = Tail(Unread)
  BY <1>0, <1>1, <1>3, UnreadAtPc, ReleasedContents DEF UnreadByPc
<1>5. LogTypeOK'
  BY <1>1, <1>2, LogAssumption DEF LogIInv, LogTypeOK, AnyIndex, Slots
<1>6. UnreadTyped'
  BY <1>1, <1>4 DEF LogIInv, UnreadTyped
<1>7. Queue!Take
  BY <1>1, <1>4 DEF Queue!Take, Board
<1> QED BY <1>1, <1>2, <1>5, <1>6, <1>7
        DEF LogIInv, FlagsTell, RamKept, Adding, Clearing

\* In the middle of adding to a full queue the two indices are equal, and the
\* next start takes the ring for an empty one.
LEMMA RunningReset ==
    ASSUME NEW flags \in ChipResets, LogIInv, ChipReset(flags), log_pc # "reset", HasLog
    PROVE  HasLog' /\ UnreadTyped' /\ Queue!Reset
<1>0. UnreadByPc'
  BY UnreadAtPc, PTL
<1>1. /\ Ring \in Rings(N, Cells) /\ N \in Nat \ {0, 1}
      /\ log_pc' = "reset" /\ reset_flags' = flags
      /\ write_index \in Slots /\ read_index \in Slots /\ log_magic
      /\ UNCHANGED <<log_records, write_index, read_index, log_magic, clear_i, cut_short>>
  BY RingType DEF ChipReset, LogIInv, RamKept, FlagsTell, LogTypeOK
<1>2. ~FirstReset' /\ Ring' = Ring
  BY <1>1, CauseOfReset DEF FirstReset, Ring
<1>3. HasLog'
  BY <1>1, <1>2, LogAssumption DEF HasLog, IndicesInRange, Slots
<1>4. Unread' = Contents(Ring, N)
  BY <1>0, <1>1, <1>2, <1>3 DEF UnreadByPc
<1>5. \/ Unread' = Unread
      \/ Len(Unread) = N - 1 /\ Unread' = <<>>
  <2>1. CASE log_pc = "advanced" /\ write_index = read_index
    <3> DEFINE r == [Ring EXCEPT !.tail = AfterDrop]
    <3>1. AfterDrop = Slot(read_index, N) /\ AfterDrop \in Slots
      BY <1>1, <2>1, AdvanceIsSlot DEF AfterDrop
    <3>2. r \in Rings(N, Cells) /\ r.head = read_index /\ r.tail = Slot(read_index, N)
      BY <1>1, <2>1, <3>1 DEF Rings, Ring, Slots, N
    <3>3. Pending(r, N) = N - 1
      BY <1>1, <3>2 DEF Pending, Slot, Slots, N
    <3>4. Len(Unread) = N - 1
      BY <1>1, <2>1, <3>2, <3>3, ContentsType, UnreadAtPc DEF UnreadByPc
    <3>5. Unread' = <<>>
      BY <1>1, <1>4, <2>1, EmptyContents DEF Ring, Empty
    <3> QED BY <3>4, <3>5
  <2>2. CASE log_pc = "advanced" /\ write_index # read_index
    <3>1. [Ring EXCEPT !.tail = AfterDrop] = Ring
      BY <2>2 DEF AfterDrop, Ring
    <3> QED BY <1>4, <2>2, <3>1, UnreadAtPc DEF UnreadByPc
  <2>3. CASE log_pc # "advanced"
    BY <1>1, <1>4, <2>3, UnreadAtPc DEF UnreadByPc
  <2> QED BY <2>1, <2>2, <2>3
<1>6. UnreadTyped'
  BY <1>1, <1>5, EmptyTyped DEF LogIInv, UnreadTyped
<1>7. Queue!Reset
  BY <1>1, <1>3, <1>5 DEF Queue!Reset, Board, N
<1> QED BY <1>3, <1>6, <1>7

\* Before the start after a reset has looked at the flags, another changes nothing.
LEMMA SecondReset ==
    ASSUME NEW flags \in ChipResets, LogIInv, ChipReset(flags), log_pc = "reset", HasLog
    PROVE  HasLog' /\ UnreadTyped' /\ Unread' = Unread /\ Board' = Board
<1>0. UnreadByPc'
  BY UnreadAtPc, PTL
<1>1. /\ log_pc' = "reset" /\ reset_flags' = reset_flags \cup {"PIN"}
      /\ UNCHANGED <<log_records, write_index, read_index, log_magic, clear_i, cut_short>>
  BY DEF ChipReset, LogIInv, LogTypeOK
<1>2. reset_flags \in ChipResets \cup {BrownoutHidden}
  <2>1. reset_flags \notin PowerLosses
    BY CauseOfReset DEF HasLog, FirstReset
  <2> QED BY <2>1 DEF LogIInv, FlagsTell
<1>3. reset_flags' = reset_flags
  BY <1>1, <1>2 DEF ChipResets, BrownoutHidden
<1>4. HasLog' /\ Ring' = Ring
  BY <1>1, <1>3 DEF HasLog, FirstReset, IndicesInRange, Ring
<1>5. Unread' = Unread
  BY <1>0, <1>1, <1>4, UnreadAtPc DEF UnreadByPc
<1> QED BY <1>1, <1>4, <1>5 DEF LogIInv, UnreadTyped, Board

\* While there is no log yet, the reset pin may make one of what is in memory.
LEMMA EarlyReset ==
    ASSUME NEW flags \in ChipResets, LogIInv, ChipReset(flags), ~HasLog
    PROVE  UnreadTyped' /\ Queue!CutShort
<1>0. UnreadByPc'
  BY UnreadAtPc, PTL
<1>1. log_pc' = "reset" /\ cut_short' /\ Board \in {"blank", "starting"}
  BY DEF ChipReset, LogIInv, LogTypeOK, Board
<1>2. LogTypeOK /\ UNCHANGED <<log_records, write_index, read_index, log_magic>>
  BY DEF ChipReset, LogIInv
<1>3. CASE ~HasLog'
  <2>1. Unread' = <<>> /\ Board' = "blank"
    BY <1>0, <1>1, <1>3 DEF UnreadByPc, Board
  <2> QED BY <1>1, <2>1, EmptyTyped DEF UnreadTyped, Queue!CutShort
<1>4. CASE HasLog'
  <2>1. write_index \in Slots /\ read_index \in Slots /\ Ring' = Ring
    BY <1>1, <1>2, <1>4, LogAssumption DEF HasLog, IndicesInRange, LogTypeOK, AnyIndex, Slots, Ring
  <2>2. Ring \in Rings(N, Cells) /\ N \in Nat \ {0, 1}
    BY <1>2, <2>1, RingType
  <2>3. Unread' = Contents(Ring, N) /\ Board' = "reset"
    BY <1>0, <1>1, <1>4, <2>1 DEF UnreadByPc, Board
  <2>4. /\ Unread' \in Seq(Cells) /\ Len(Unread') = Pending(Ring, N)
        /\ Pending(Ring, N) \in 0 .. N - 1
    BY <2>2, <2>3, ContentsType
  <2>5. Len(Unread') <= LOG_RECORD_COUNT - 1
    BY <2>2, <2>4 DEF N
  <2>6. LogRecords \cup {kInvalid, Garbage} = Cells
    BY DEF Cells
  <2> QED BY <1>1, <2>3, <2>4, <2>5, <2>6 DEF UnreadTyped, Queue!CutShort
<1> QED BY <1>3, <1>4

LEMMA ResetKeeps ==
    ASSUME NEW flags \in ChipResets, LogIInv, ChipReset(flags)
    PROVE  LogIInv' /\ [Queue!Next]_(Queue!vars)
<1>1. /\ log_pc' = "reset" /\ to_add' = <<>> /\ reset_flags' = reset_flags \cup flags
      /\ UNCHANGED <<log_records, write_index, read_index, log_magic, clear_i>>
  BY DEF ChipReset
<1>2. LogTypeOK'
  <2>1. cut_short' \in BOOLEAN
    BY DEF ChipReset, LogIInv, LogTypeOK, HasLog
  <2>2. to_add' \in Seq(LogRecords) /\ reset_flags' \subseteq Flags
    BY <1>1 DEF LogIInv, LogTypeOK, ChipResets, Flags
  <2> QED BY <1>1, <2>1, <2>2 DEF LogIInv, LogTypeOK
<1>3. FlagsTell'
  <2>1. CASE log_pc # "reset"
    BY <1>1, <2>1 DEF LogIInv, FlagsTell
  <2>2. CASE log_pc = "reset"
    <3>1. flags = {"PIN"}
      BY <2>2 DEF ChipReset
    <3>2. reset_flags \in PowerLosses \cup ChipResets \cup {BrownoutHidden}
      BY <2>2 DEF LogIInv, FlagsTell
    <3> QED BY <1>1, <3>1, <3>2 DEF FlagsTell, PowerLosses, ChipResets, BrownoutHidden
  <2> QED BY <2>1, <2>2
<1>4. RamKept'
  BY <1>1, <1>2, LogAssumption
  DEF RamKept, HasLog, IndicesInRange, LogTypeOK, AnyIndex, Slots
<1>5. UnreadTyped' /\ [Queue!Next]_(Queue!vars)
  <2>1. CASE HasLog /\ log_pc # "reset"
    BY <2>1, RunningReset DEF Queue!Next
  <2>2. CASE HasLog /\ log_pc = "reset"
    BY <2>2, SecondReset DEF Queue!vars
  <2>3. CASE ~HasLog
    BY <2>3, EarlyReset DEF Queue!Next
  <2> QED BY <2>1, <2>2, <2>3
<1> QED BY <1>1, <1>2, <1>3, <1>4, <1>5 DEF LogIInv, Adding, Clearing

LEMMA PowerLossKeeps ==
    ASSUME NEW flags \in PowerLosses, LogIInv, PowerLoss(flags)
    PROVE  LogIInv' /\ Queue!PowerFails
<1>0. UnreadByPc'
  BY UnreadAtPc, PTL
<1>1. log_pc' = "reset" /\ reset_flags' = flags /\ to_add' = <<>>
  BY DEF PowerLoss
<1>2. ~HasLog'
  BY <1>1, CauseOfReset DEF FirstReset, HasLog
<1>3. Unread' = <<>> /\ Board' = "blank"
  BY <1>0, <1>1, <1>2 DEF UnreadByPc, Board
<1>4. LogTypeOK'
  <2>1. reset_flags' \subseteq Flags
    BY DEF PowerLoss, PowerLosses, Flags
  <2>2. log_records' \in [Slots -> Cells]
    BY DEF PowerLoss, Cells
  <2> QED BY <1>1, <2>1, <2>2, EmptyTyped DEF PowerLoss, LogIInv, LogTypeOK
<1>5. Queue!PowerFails
  BY <1>3 DEF Queue!PowerFails
<1> QED BY <1>1, <1>2, <1>3, <1>4, <1>5, EmptyTyped
        DEF LogIInv, FlagsTell, RamKept, Adding, Clearing, UnreadTyped

LEMMA LogStep ==
    LogIInv /\ [LogNext]_logVars => LogIInv' /\ [Queue!Next]_(Queue!vars)
<1> SUFFICES ASSUME LogIInv, [LogNext]_logVars
             PROVE  LogIInv' /\ [Queue!Next]_(Queue!vars)
  OBVIOUS
<1>1. CASE log_init
  BY <1>1, SettingUp DEF Queue!Next
<1>11. CASE ZeroWriteIndex \/ ZeroReadIndex
  BY <1>11, ZeroingKeeps DEF Queue!vars
<1>12. CASE SetMagic
  BY <1>12, MagicKeeps DEF Queue!Next
<1>2. CASE ClearRecord \/ Cleared
  BY <1>2, ClearingKeeps DEF Queue!vars
<1>3. ASSUME NEW event \in Events, log_add_event(event)
      PROVE  LogIInv' /\ [Queue!Next]_(Queue!vars)
  BY <1>3, EventKeeps DEF Queue!vars
<1>4. CASE StoreRecord
  BY <1>4, StoreKeeps DEF Queue!vars
<1>5. CASE AdvanceWrite
  BY <1>5, AdvanceKeeps DEF Queue!Next
<1>6. CASE DropOldest
  BY <1>6, DropKeeps DEF Queue!vars
<1>7. CASE log_print_new
  BY <1>7, PrintKeeps DEF Queue!Next
<1>8. ASSUME NEW flags \in ChipResets, ChipReset(flags)
      PROVE  LogIInv' /\ [Queue!Next]_(Queue!vars)
  BY <1>8, ResetKeeps
<1>9. ASSUME NEW flags \in PowerLosses, PowerLoss(flags)
      PROVE  LogIInv' /\ [Queue!Next]_(Queue!vars)
  BY <1>9, PowerLossKeeps DEF Queue!Next
<1>10. CASE UNCHANGED logVars
  <2>0. UnreadByPc'
    BY UnreadAtPc, PTL
  <2>1. Unread' = Unread /\ Board' = Board
    BY <1>10, <2>0, UnreadAtPc
    DEF UnreadByPc, logVars, Ring, AfterDrop, FirstReset, HasLog, IndicesInRange, Board
  <2>2. LogTypeOK'
    BY <1>10 DEF LogIInv, LogTypeOK, logVars
  <2> QED BY <1>10, <2>1, <2>2
          DEF LogIInv, FlagsTell, RamKept, Adding, Clearing, UnreadTyped, logVars,
              FirstReset, HasLog, IndicesInRange, Queue!vars
<1> QED BY <1>1, <1>2, <1>3, <1>4, <1>5, <1>6, <1>7, <1>8, <1>9, <1>10,
           <1>11, <1>12 DEF LogNext

-----------------------------------------------------------------------------
(* The theorems *)

\* The inductive invariant holds in every reachable state.
THEOREM LogInvariant == LogSpec => []LogIInv
BY LogStarts, LogStep, PTL DEF LogSpec

\* Nothing is printed as a new record that was not added, neither what a loss of
\* power left in RAM nor a cleared record, unless a reset came after a loss of
\* power and before the new log was set up (log.cpp:87-109, 369-379).
THEOREM OnlyRecordsUnreadHolds == LogSpec => []OnlyRecordsUnread
<1>1. LogIInv => OnlyRecordsUnread
  BY DEF LogIInv, UnreadTyped, OnlyRecordsUnread
<1> QED BY <1>1, LogInvariant, PTL

\* Through wraparound, overtaking, losses of power and resets between any two
\* assignments, those that set up a new log included, the log is a queue of the
\* newest records, as LogQueue.tla states it (log.cpp:87-127, 369-379).
THEOREM LogImplementsQueue == LogSpec => LogIsQueue
<1>1. LogInit => Queue!Init
  BY LogStarts DEF Queue!Init
<1> QED BY <1>1, LogStep, LogInvariant, PTL DEF LogSpec, LogIsQueue, Queue!Spec
=============================================================================
