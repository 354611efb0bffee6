--------------------------- MODULE StorageProofs ---------------------------
(***************************************************************************)
(* What the boards store: the settings in the power board's EEPROM, the    *)
(* settings file of the control board and the files its editor writes, for *)
(* every length of the magic word, every file size, buffer size and number *)
(* of options, every size of the editor's sections and any length of text. *)
(*                                                                         *)
(* Loops are recursive functions in the models.  What such a function      *)
(* computes is proved from two facts: it exists (PassesExist), and what    *)
(* holds before the first pass and is kept by every one holds after the    *)
(* last (LoopInvariant).  Both go back to Least, which is all the          *)
(* induction that is needed.                                               *)
(***************************************************************************)
EXTENDS PowerEeprom, SettingsFile, CliEditor, WellFoundedInduction, SequenceTheorems,
        TLAPS

-----------------------------------------------------------------------------
(* The EEPROM.                                                             *)

(* What settings_reset has got to: it passed setting i after the first     *)
(* word and the i settings in front.                                       *)
DefaultsWritten ==
    eeprom_pc = "reset" =>
        \A i \in Settings : reset_i > i + EEPROM_magic_length =>
            stored[i] = Default /\ value[i] = Default

(* Behind a whole second word nothing lies that nobody chose: the word is  *)
(* written after every setting.                                            *)
WordCoversStored ==
    magic_verify(magic.end) => \A i \in Settings : DefaultOrChosen(i, stored[i])

BootBegins == eeprom_pc = "boot" => reset_i = 0

EepromInv == EepromTypeOK /\ DefaultsWritten /\ WordCoversStored /\ BootBegins

LEMMA LengthType == ResetLength \in Nat
BY EepromAssumption DEF ResetLength

(* Any EEPROM a board may come with is covered by the invariant.           *)
LEMMA EepromStarts == EepromInit => EepromInv
<1> SUFFICES ASSUME EepromInit PROVE EepromInv
  OBVIOUS
<1> USE EepromAssumption
<1>1. 0 \in Settings /\ Default \in Values /\ 0 \in Values
  BY DEF Settings
<1>2. reset_i \in 0 .. ResetLength
  BY LengthType DEF EepromInit
<1>3. EepromTypeOK
  BY <1>1, <1>2 DEF EepromInit, EepromTypeOK, Unloaded
<1>4. DefaultsWritten /\ BootBegins
  BY DEF EepromInit, DefaultsWritten, BootBegins
<1>5. WordCoversStored
  BY DEF EepromInit, WordCoversStored, DefaultOrChosen
<1> QED BY <1>3, <1>4, <1>5 DEF EepromInv

(* One byte of settings_reset.                                             *)
LEMMA ResetByteKeeps == EepromInv /\ ResetByte => EepromInv'
<1> SUFFICES ASSUME EepromInv, ResetByte PROVE EepromInv'
  OBVIOUS
<1> USE EepromAssumption
<1> DEFINE i == reset_i - EEPROM_magic_length
<1>1. /\ EEPROM_magic_length \in Nat /\ kSettingsEnd \in Nat
      /\ reset_i \in Nat /\ reset_i < ResetLength /\ reset_i' = reset_i + 1
      /\ eeprom_pc = "reset" /\ eeprom_pc' = "reset"
      /\ setting_index' = setting_index /\ chosen' = chosen
      /\ EepromTypeOK
  BY LengthType DEF EepromInv, EepromTypeOK, ResetByte
<1>2. reset_i' \in 0 .. ResetLength
  BY <1>1, LengthType
<1>3. BootBegins'
  BY <1>1 DEF BootBegins
<1>4. CASE i < 0 /\ magic' = [magic EXCEPT !.start[reset_i] = TRUE]
           /\ UNCHANGED <<stored, value>>
  <2>1. magic' \in [start : Word, end : Word] /\ magic'.end = magic.end
    BY <1>1, <1>4 DEF EepromTypeOK, Word
  <2>2. EepromTypeOK'
    BY <1>1, <1>2, <1>4, <2>1 DEF EepromTypeOK
  <2>3. DefaultsWritten'
    <3> SUFFICES ASSUME NEW j \in Settings, reset_i' > j + EEPROM_magic_length PROVE FALSE
      BY DEF DefaultsWritten
    <3> QED BY <1>1, <1>4 DEF Settings
  <2>4. WordCoversStored'
    BY <1>1, <1>4, <2>1 DEF EepromInv, WordCoversStored, magic_verify, DefaultOrChosen
  <2> QED BY <1>3, <2>2, <2>3, <2>4 DEF EepromInv
<1>5. CASE i \in Settings /\ value' = [value EXCEPT ![i] = Default]
           /\ stored' = [stored EXCEPT ![i] = Default] /\ UNCHANGED magic
  <2>1. EepromTypeOK'
    BY <1>1, <1>2, <1>5 DEF EepromTypeOK
  <2>2. DefaultsWritten'
    <3> SUFFICES ASSUME NEW j \in Settings, reset_i' > j + EEPROM_magic_length
                 PROVE stored'[j] = Default /\ value'[j] = Default
      BY DEF DefaultsWritten
    <3>1. CASE j = i
      BY <1>1, <1>5, <3>1 DEF EepromTypeOK
    <3>2. CASE j # i
      <4>1. reset_i > j + EEPROM_magic_length
        BY <1>1, <3>2 DEF Settings
      <4>2. stored[j] = Default /\ value[j] = Default
        BY <1>1, <4>1 DEF EepromInv, DefaultsWritten
      <4> QED BY <1>1, <1>5, <3>2, <4>2 DEF EepromTypeOK
    <3> QED BY <3>1, <3>2
  <2>3. WordCoversStored'
    BY <1>1, <1>5 DEF EepromInv, WordCoversStored, magic_verify, DefaultOrChosen,
                     EepromTypeOK
  <2> QED BY <1>3, <2>1, <2>2, <2>3 DEF EepromInv
<1>6. CASE i >= kSettingsEnd
           /\ magic' = [magic EXCEPT !.end[i - kSettingsEnd] = TRUE]
           /\ UNCHANGED <<stored, value>>
  <2>1. magic' \in [start : Word, end : Word]
    BY <1>1, <1>6 DEF EepromTypeOK, Word
  <2>2. EepromTypeOK'
    BY <1>1, <1>2, <1>6, <2>1 DEF EepromTypeOK
  <2>3. \A j \in Settings : stored[j] = Default /\ value[j] = Default
    <3> SUFFICES ASSUME NEW j \in Settings PROVE reset_i > j + EEPROM_magic_length
      BY <1>1 DEF EepromInv, DefaultsWritten
    <3> QED BY <1>1, <1>6 DEF Settings
  <2> QED BY <1>3, <1>6, <2>2, <2>3
          DEF EepromInv, DefaultsWritten, WordCoversStored, DefaultOrChosen
<1> QED BY <1>1, <1>4, <1>5, <1>6 DEF ResetByte, Address

(* A command of the control board.                                         *)
LEMMA CommandKeeps ==
    ASSUME EepromInv,
           \/ \E wanted \in Settings : cmnd_setting_choose(wanted)
           \/ \E v \in Values : cmnd_setting_set(v)
    PROVE  EepromInv'
<1>1. ASSUME NEW wanted \in Settings, cmnd_setting_choose(wanted) PROVE EepromInv'
  BY <1>1 DEF EepromInv, cmnd_setting_choose, EepromTypeOK, DefaultsWritten,
              WordCoversStored, BootBegins, magic_verify, DefaultOrChosen
<1>2. ASSUME NEW v \in Values, cmnd_setting_set(v) PROVE EepromInv'
  <2>1. EepromTypeOK'
    BY <1>2 DEF EepromInv, cmnd_setting_set, EepromTypeOK
  <2>2. DefaultsWritten' /\ BootBegins'
    BY <1>2 DEF cmnd_setting_set, DefaultsWritten, BootBegins
  <2>3. WordCoversStored'
    BY <1>2 DEF EepromInv, cmnd_setting_set, EepromTypeOK, WordCoversStored,
                magic_verify, DefaultOrChosen
  <2> QED BY <2>1, <2>2, <2>3 DEF EepromInv
<1> QED BY <1>1, <1>2

LEMMA EepromSteps == EepromInv /\ [EepromNext]_eepromVars => EepromInv'
<1> SUFFICES ASSUME EepromInv, [EepromNext]_eepromVars PROVE EepromInv'
  OBVIOUS
<1> USE EepromAssumption
<1>1. CASE eeprom_init
  <2>1. EepromTypeOK'
    BY <1>1 DEF EepromInv, eeprom_init, EepromTypeOK
  <2>2. DefaultsWritten'
    BY <1>1 DEF EepromInv, eeprom_init, DefaultsWritten, BootBegins, Settings
  <2>3. WordCoversStored' /\ BootBegins'
    BY <1>1 DEF EepromInv, eeprom_init, WordCoversStored, BootBegins, magic_verify,
                DefaultOrChosen
  <2> QED BY <2>1, <2>2, <2>3 DEF EepromInv
<1>2. CASE ResetByte
  BY <1>2, ResetByteKeeps
<1>3. CASE ResetDone
  BY <1>3 DEF EepromInv, ResetDone, EepromTypeOK, DefaultsWritten,
              WordCoversStored, BootBegins, magic_verify, DefaultOrChosen
<1>4. CASE (\E wanted \in Settings : cmnd_setting_choose(wanted))
           \/ (\E v \in Values : cmnd_setting_set(v))
  BY <1>4, CommandKeeps
<1>5. CASE BoardReset
  <2>1. EepromTypeOK'
    BY <1>5, LengthType DEF EepromInv, BoardReset, EepromTypeOK, Unloaded, Settings
  <2> QED BY <1>5, <2>1 DEF EepromInv, BoardReset, DefaultsWritten, BootBegins,
                            WordCoversStored, magic_verify, DefaultOrChosen
<1>6. CASE UNCHANGED eepromVars
  BY <1>6 DEF EepromInv, eepromVars, EepromTypeOK, DefaultsWritten,
              WordCoversStored, BootBegins, magic_verify, DefaultOrChosen
<1> QED BY <1>1, <1>2, <1>3, <1>4, <1>5, <1>6 DEF EepromNext

(* Every variable keeps its type and settings_reset never leaves a whole   *)
(* second word behind anything nobody chose.                               *)
THEOREM EepromInvariant == EepromSpec => []EepromInv
BY EepromStarts, EepromSteps, PTL DEF EepromSpec

(* Wherever resets cut settings_reset (settings.cpp:38-52), the board      *)
(* starts with each setting at its default or at what it was last set to.  *)
THEOREM NoUnchosenValueHolds == EepromSpec => NoUnchosenValue
<1>1. ASSUME EepromInv, [EepromNext]_eepromVars
      PROVE  [eeprom_pc # "running" /\ eeprom_pc' = "running" =>
                 \A i \in Settings : DefaultOrChosen(i, value'[i])]_eepromVars
  <2> SUFFICES ASSUME EepromNext, eeprom_pc # "running", eeprom_pc' = "running",
                      NEW i \in Settings
               PROVE  DefaultOrChosen(i, value'[i])
    BY <1>1
  <2>1. CASE eeprom_init
    BY <1>1, <2>1 DEF EepromInv, eeprom_init, WordCoversStored
  <2>2. CASE ResetDone
    <3>1. reset_i > i + EEPROM_magic_length
      BY <2>2, EepromAssumption DEF ResetDone, ResetLength, Settings
    <3> QED BY <1>1, <2>2, <3>1 DEF EepromInv, ResetDone, DefaultsWritten, DefaultOrChosen
  <2> QED BY <2>1, <2>2 DEF EepromNext, ResetByte, cmnd_setting_choose, cmnd_setting_set,
                           BoardReset
<1> QED BY <1>1, EepromInvariant, PTL DEF EepromSpec, NoUnchosenValue

(* settings_reset writes every byte of the two words, so a board that runs  *)
(* has both.                                                               *)
WordsComplete == magic_verify(magic.start) /\ magic_verify(magic.end)

WordsWritten ==
    /\ eeprom_pc = "reset" =>
           \A k \in MagicBytes :
               /\ reset_i > k => magic.start[k]
               /\ reset_i > k + EEPROM_magic_length + kSettingsEnd => magic.end[k]
    /\ eeprom_pc = "running" => WordsComplete

LEMMA WordsSteps ==
    EepromInv /\ WordsWritten /\ [EepromNext]_eepromVars => WordsWritten'
<1> SUFFICES ASSUME EepromInv, WordsWritten, [EepromNext]_eepromVars PROVE WordsWritten'
  OBVIOUS
<1> USE EepromAssumption
<1>1. CASE eeprom_init
  BY <1>1 DEF EepromInv, BootBegins, eeprom_init, WordsWritten, WordsComplete,
              magic_verify, MagicBytes
<1>2. CASE ResetByte
  <2> DEFINE i == reset_i - EEPROM_magic_length
  <2>1. /\ reset_i \in Nat /\ reset_i' = reset_i + 1 /\ eeprom_pc = "reset"
        /\ eeprom_pc' = "reset" /\ magic \in [start : Word, end : Word]
    BY <1>2, LengthType DEF EepromInv, EepromTypeOK, ResetByte
  <2>2. \A k \in MagicBytes :
            /\ reset_i > k => magic.start[k]
            /\ reset_i > k + EEPROM_magic_length + kSettingsEnd => magic.end[k]
    BY <2>1 DEF WordsWritten
  <2>3. CASE i < 0 /\ magic' = [magic EXCEPT !.start[reset_i] = TRUE]
    <3>1. /\ magic'.end = magic.end
          /\ \A k \in MagicBytes : magic'.start[k] = IF k = reset_i THEN TRUE ELSE magic.start[k]
      BY <2>1, <2>3 DEF Word
    <3>2. ASSUME NEW k \in MagicBytes, reset_i + 1 > k PROVE magic'.start[k]
      <4>1. k = reset_i \/ reset_i > k
        BY <2>1, <3>2 DEF MagicBytes
      <4> QED BY <2>2, <3>1, <4>1
    <3>3. ASSUME NEW k \in MagicBytes PROVE ~(reset_i + 1 > k + EEPROM_magic_length + kSettingsEnd)
      BY <2>1, <2>3 DEF MagicBytes
    <3> QED BY <2>1, <3>2, <3>3 DEF WordsWritten
  <2>4. CASE i \in Settings /\ magic' = magic
    <3>1. ASSUME NEW k \in MagicBytes PROVE reset_i > k
      BY <2>1, <2>4 DEF MagicBytes, Settings
    <3>2. ASSUME NEW k \in MagicBytes PROVE ~(reset_i + 1 > k + EEPROM_magic_length + kSettingsEnd)
      BY <2>1, <2>4 DEF MagicBytes, Settings
    <3> QED BY <2>1, <2>2, <2>4, <3>1, <3>2 DEF WordsWritten
  <2>5. CASE i >= kSettingsEnd /\ magic' = [magic EXCEPT !.end[i - kSettingsEnd] = TRUE]
    <3>1. /\ magic'.start = magic.start
          /\ \A k \in MagicBytes :
                 magic'.end[k] = IF k = i - kSettingsEnd THEN TRUE ELSE magic.end[k]
      BY <2>1, <2>5 DEF Word
    <3>2. ASSUME NEW k \in MagicBytes PROVE reset_i > k
      BY <2>1, <2>5 DEF MagicBytes
    <3>3. ASSUME NEW k \in MagicBytes, reset_i + 1 > k + EEPROM_magic_length + kSettingsEnd
          PROVE  magic'.end[k]
      <4>1. k = i - kSettingsEnd \/ reset_i > k + EEPROM_magic_length + kSettingsEnd
        BY <2>1, <3>3 DEF MagicBytes
      <4> QED BY <2>2, <3>1, <4>1
    <3> QED BY <2>1, <2>2, <3>1, <3>2, <3>3 DEF WordsWritten
  <2> QED BY <1>2, <2>3, <2>4, <2>5 DEF ResetByte, Address
<1>3. CASE ResetDone
  <2>1. \A k \in MagicBytes :
            reset_i > k /\ reset_i > k + EEPROM_magic_length + kSettingsEnd
    BY <1>3 DEF ResetDone, ResetLength, MagicBytes
  <2>2. eeprom_pc = "reset" /\ magic' = magic /\ eeprom_pc' = "running"
    BY <1>3 DEF ResetDone
  <2> QED BY <2>1, <2>2 DEF WordsWritten, WordsComplete, magic_verify
<1>4. CASE \/ \E wanted \in Settings : cmnd_setting_choose(wanted)
           \/ \E v \in Values : cmnd_setting_set(v)
           \/ BoardReset \/ UNCHANGED eepromVars
  BY <1>4 DEF cmnd_setting_choose, cmnd_setting_set, BoardReset, eepromVars,
              WordsWritten, WordsComplete, magic_verify
<1> QED BY <1>1, <1>2, <1>3, <1>4 DEF EepromNext

(* A board that has once run never resets its settings by itself again,    *)
(* wherever it is reset: each later start runs with what is stored, and    *)
(* only the set command changes that (settings.cpp:53-79).                 *)
THEOREM SettingsAreKept ==
    EepromSpec =>
        [](eeprom_pc = "running" =>
               /\ [](eeprom_pc # "reset")
               /\ [][/\ stored' # stored => \E v \in Values : cmnd_setting_set(v)
                     /\ eeprom_pc # "running" /\ eeprom_pc' = "running" =>
                            value' = stored]_eepromVars)
<1> DEFINE Kept == WordsComplete /\ eeprom_pc # "reset"
           OnlySet == /\ stored' # stored => \E v \in Values : cmnd_setting_set(v)
                      /\ eeprom_pc # "running" /\ eeprom_pc' = "running" => value' = stored
<1>1. EepromInit => WordsWritten
  BY DEF EepromInit, WordsWritten
<1>2. EepromSpec => []WordsWritten
  BY <1>1, EepromInvariant, WordsSteps, PTL DEF EepromSpec
<1>3. WordsWritten /\ eeprom_pc = "running" => Kept
  BY DEF WordsWritten
<1>4. ASSUME Kept, [EepromNext]_eepromVars PROVE Kept' /\ [OnlySet]_eepromVars
  BY <1>4
  DEF EepromNext, eepromVars, WordsComplete, magic_verify, eeprom_init, ResetByte, ResetDone,
      cmnd_setting_choose, cmnd_setting_set, BoardReset
<1>5. Kept => eeprom_pc # "reset"
  OBVIOUS
<1> HIDE DEF Kept
<1> QED BY <1>2, <1>3, <1>4, <1>5, PTL DEF EepromSpec

-----------------------------------------------------------------------------
(* Loops: the state after n passes, by induction over n.                   *)

\* What holds of no smaller number holds of none, if it is inherited.
LEMMA Least ==
    ASSUME NEW S, S \subseteq Nat, S # {}
    PROVE  \E m \in S : \A k \in S : m <= k
<1>1. IsWellFoundedOn(OpToRel(<, Nat), Nat)
  BY NatLessThanWellFounded
<1>2. PICK m \in S : \A k \in S : ~ (<<k, m>> \in OpToRel(<, Nat))
  BY <1>1, WFMin
<1>3. \A k \in S : ~(k < m)
  BY <1>2 DEF OpToRel
<1> QED BY <1>3

\* f has the state after each of n passes.
Passes(step, start, n, f) ==
    f = [k \in 0 .. n |-> IF k = 0 THEN start ELSE step[f[k - 1]]]

\* The recursive function that Iterate chooses exists.
LEMMA PassesExist ==
    ASSUME NEW step, NEW start, NEW n \in Nat
    PROVE  \E f : Passes(step, start, n, f)
<1> DEFINE Missing == {j \in Nat : ~ \E f : Passes(step, start, j, f)}
<1> SUFFICES ASSUME Missing # {} PROVE FALSE
  OBVIOUS
<1>1. PICK m \in Missing : \A j \in Missing : m <= j
  <2>1. Missing \subseteq Nat
    OBVIOUS
  <2> HIDE DEF Missing
  <2> QED BY <2>1, Least
<1>2. m # 0
  <2>1. Passes(step, start, 0, [k \in 0 .. 0 |-> start])
    BY DEF Passes
  <2> QED BY <1>1, <2>1
<1>3. PICK f : Passes(step, start, m - 1, f)
  <2>1. m - 1 \in Nat /\ ~(m <= m - 1)
    BY <1>1, <1>2
  <2> QED BY <1>1, <2>1
<1> DEFINE g == [k \in 0 .. m |-> IF k = m THEN step[f[m - 1]] ELSE f[k]]
<1>4. ASSUME NEW k \in 0 .. m
      PROVE  g[k] = IF k = 0 THEN start ELSE step[g[k - 1]]
  <2>0. \A j \in 0 .. m - 1 : f[j] = IF j = 0 THEN start ELSE step[f[j - 1]]
    BY <1>3 DEF Passes
  <2>1. CASE k = m
    <3>1. g[k] = step[f[m - 1]] /\ g[k - 1] = f[m - 1]
      BY <1>1, <1>2, <2>1
    <3> QED BY <1>2, <2>1, <3>1
  <2>2. CASE k # m
    <3>1. k \in 0 .. m - 1 /\ g[k] = f[k]
      BY <1>1, <2>2
    <3>2. k # 0 => g[k - 1] = f[k - 1]
      BY <1>1, <3>1
    <3> QED BY <2>0, <3>1, <3>2
  <2> QED BY <2>1, <2>2
<1>5. Passes(step, start, m, g)
  <2>1. g = [k \in 0 .. m |-> g[k]]
    OBVIOUS
  <2> HIDE DEF g
  <2> QED BY <1>4, <2>1 DEF Passes
<1> QED BY <1>1, <1>5

\* What holds at the start and is inherited by each pass holds after the last
\* one; inv says it for each number of passes.
LEMMA LoopInvariant ==
    ASSUME NEW step, NEW start, NEW n \in Nat, NEW inv,
           start \in inv[0],
           \A k \in 0 .. n : \A x \in inv[k] : step[x] \in inv[k + 1]
    PROVE  Iterate(step, start, n) \in inv[n]
<1> DEFINE f == CHOOSE g : Passes(step, start, n, g)
<1>1. Passes(step, start, n, f)
  BY PassesExist
<1>2. Iterate(step, start, n) = f[n]
  BY DEF Iterate, Passes
<1> HIDE DEF f
<1> DEFINE Broken == {k \in 0 .. n : f[k] \notin inv[k]}
<1>3. ASSUME Broken # {} PROVE FALSE
  <2>1. PICK m \in Broken : \A k \in Broken : m <= k
    <3>1. Broken \subseteq Nat
      OBVIOUS
    <3> HIDE DEF Broken
    <3> QED BY <1>3, <3>1, Least
  <2>2. m # 0
    BY <1>1, <2>1 DEF Passes
  <2>3. f[m - 1] \in inv[m - 1] /\ m - 1 \in 0 .. n
    BY <2>1, <2>2
  <2>4. step[f[m - 1]] \in inv[m]
    BY <2>2, <2>3
  <2> QED BY <1>1, <2>1, <2>2, <2>4 DEF Passes
<1> QED BY <1>2, <1>3
-----------------------------------------------------------------------------
(* The binary search finds the end of what lies before a cell b.           *)

LEMMA FileNumbers ==
    /\ FileSize \in Nat /\ FileSize > 0 /\ ConfItems \in Nat /\ BufSize \in Nat
    /\ BufSize > 2 /\ ConfItems > 0 /\ FileSize >= 2 * ConfItems
BY FileAssumption

LEMMA Middle ==
    ASSUME NEW x \in Nat, NEW y \in Nat, x <= y
    PROVE  (x + y) \div 2 \in x .. y
OBVIOUS

\* The range left to be searched after k passes: b is in it or next to it.
RangeLeft(b, k, left, right) ==
    /\ left \in 0 .. FileSize /\ right \in -1 .. FileSize - 1
    /\ left <= b /\ b <= right + 1
    /\ left > right \/ right - left + 1 <= FileSize - k

\* Where the search for the last cell is after k passes, and the one for the
\* first.
SeekingLast(b, k) ==
    {p \in SearchState : RangeLeft(b, k, p.left, p.right) /\ p.found = p.left - 1}
SeekingFirst(b, k) ==
    {p \in SearchState :
        /\ RangeLeft(b, k, p.left, p.right)
        /\ p.found = IF p.right = FileSize - 1 THEN -1 ELSE p.right + 1}

LEMMA RangeShrinks ==
    ASSUME NEW b \in 0 .. FileSize, NEW k \in Nat, NEW left, NEW right,
           RangeLeft(b, k, left, right), left <= right
    PROVE  LET mid == (left + right) \div 2
           IN  /\ mid \in Offsets /\ left <= mid /\ mid <= right
               /\ mid < b => RangeLeft(b, k + 1, mid + 1, right)
               /\ ~(mid < b) => RangeLeft(b, k + 1, left, mid - 1)
<1>1. left \in Nat /\ right \in Nat /\ right < FileSize
  BY FileNumbers DEF RangeLeft
<1> DEFINE mid == (left + right) \div 2
<1>2. mid \in left .. right
  BY <1>1, Middle
<1> HIDE DEF mid
<1>3. mid \in Offsets /\ left <= mid /\ mid <= right
  BY <1>1, <1>2, FileNumbers DEF Offsets
<1>4. mid < b => RangeLeft(b, k + 1, mid + 1, right)
  BY <1>1, <1>2, FileNumbers DEF RangeLeft
<1>5. ~(mid < b) => RangeLeft(b, k + 1, left, mid - 1)
  BY <1>1, <1>2, FileNumbers DEF RangeLeft
<1> QED BY <1>3, <1>4, <1>5 DEF mid

LEMMA RangeStays ==
    ASSUME NEW b \in 0 .. FileSize, NEW k \in Nat, NEW left, NEW right,
           RangeLeft(b, k, left, right), ~(left <= right)
    PROVE  RangeLeft(b, k + 1, left, right)
BY FileNumbers DEF RangeLeft

LEMMA ProbeLast ==
    ASSUME NEW v, NEW b \in 0 .. FileSize, \A a \in Offsets : file[a] = v <=> a < b,
           NEW k \in Nat, NEW p \in SeekingLast(b, k)
    PROVE  Probe(v, TRUE)[p] \in SeekingLast(b, k + 1)
<1> DEFINE mid == (p.left + p.right) \div 2
           q == Probe(v, TRUE)[p]
<1> SUFFICES q \in SeekingLast(b, k + 1)
  OBVIOUS
<1>1. /\ p \in SearchState /\ RangeLeft(b, k, p.left, p.right)
      /\ p.left \in Int /\ p.right \in Int /\ p.found = p.left - 1
  BY FileNumbers DEF SeekingLast, SearchState, RangeLeft
<1>2. CASE ~(p.left <= p.right)
  <2>1. q = p
    BY <1>1, <1>2 DEF Probe
  <2>2. RangeLeft(b, k + 1, p.left, p.right)
    BY <1>1, <1>2, RangeStays
  <2> QED BY <1>1, <2>1, <2>2 DEF SeekingLast
<1>3. CASE p.left <= p.right
  <2>1. /\ mid \in Offsets /\ mid \in Int /\ p.left <= mid /\ mid <= p.right
        /\ mid < b => RangeLeft(b, k + 1, mid + 1, p.right)
        /\ ~(mid < b) => RangeLeft(b, k + 1, p.left, mid - 1)
    BY <1>1, <1>3, RangeShrinks, FileNumbers DEF Offsets
  <2>2. q = [left  |-> IF file[mid] = v THEN mid + 1 ELSE p.left,
             right |-> IF file[mid] = v THEN p.right ELSE mid - 1,
             found |-> IF file[mid] = v THEN mid ELSE p.found]
    BY <1>1, <1>3 DEF Probe
  <2> HIDE DEF mid, q
  <2>3. CASE mid < b
    <3>1. q = [left |-> mid + 1, right |-> p.right, found |-> mid]
      BY <2>1, <2>2, <2>3
    <3>2. RangeLeft(b, k + 1, mid + 1, p.right) /\ mid = (mid + 1) - 1
      BY <2>1, <2>3
    <3>3. mid \in -1 .. FileSize - 1
      BY <2>1, FileNumbers DEF Offsets
    <3>4. q \in SearchState
      BY <3>1, <3>2, <3>3 DEF SearchState, RangeLeft
    <3>5. q.left = mid + 1 /\ q.right = p.right /\ q.found = mid
      BY <3>1
    <3>6. q.found = q.left - 1
      BY <3>2, <3>5
    <3>7. RangeLeft(b, k + 1, q.left, q.right)
      BY <3>2, <3>5, Zenon
    <3> QED BY <3>4, <3>6, <3>7, Zenon DEF SeekingLast
  <2>4. CASE ~(mid < b)
    <3>1. q = [left |-> p.left, right |-> mid - 1, found |-> p.found]
      BY <2>1, <2>2, <2>4
    <3>2. RangeLeft(b, k + 1, p.left, mid - 1)
      BY <2>1, <2>4
    <3>3. p.found \in -1 .. FileSize - 1
      BY <1>1, FileNumbers DEF SearchState
    <3>4. q \in SearchState
      BY <3>1, <3>2, <3>3 DEF SearchState, RangeLeft
    <3>5. q.left = p.left /\ q.right = mid - 1 /\ q.found = p.found
      BY <3>1
    <3>6. q.found = q.left - 1
      BY <1>1, <3>5
    <3>7. RangeLeft(b, k + 1, q.left, q.right)
      BY <3>2, <3>5, Zenon
    <3> QED BY <3>4, <3>6, <3>7, Zenon DEF SeekingLast
  <2> QED BY <2>3, <2>4
<1> QED BY <1>2, <1>3

LEMMA ProbeFirst ==
    ASSUME NEW v, NEW b \in 0 .. FileSize,
           \A a \in Offsets : file[a] = v <=> ~(a < b),
           NEW k \in Nat, NEW p \in SeekingFirst(b, k)
    PROVE  Probe(v, FALSE)[p] \in SeekingFirst(b, k + 1)
<1> DEFINE mid == (p.left + p.right) \div 2
           q == Probe(v, FALSE)[p]
<1> SUFFICES q \in SeekingFirst(b, k + 1)
  OBVIOUS
<1>1. /\ p \in SearchState /\ RangeLeft(b, k, p.left, p.right)
      /\ p.left \in Int /\ p.right \in Int
      /\ p.found = IF p.right = FileSize - 1 THEN -1 ELSE p.right + 1
  BY FileNumbers DEF SeekingFirst, SearchState, RangeLeft
<1>2. CASE ~(p.left <= p.right)
  <2>1. q = p
    BY <1>1, <1>2 DEF Probe
  <2>2. RangeLeft(b, k + 1, p.left, p.right)
    BY <1>1, <1>2, RangeStays
  <2> QED BY <1>1, <2>1, <2>2 DEF SeekingFirst
<1>3. CASE p.left <= p.right
  <2>1. /\ mid \in Offsets /\ mid \in Int /\ p.left <= mid /\ mid <= p.right
        /\ mid < b => RangeLeft(b, k + 1, mid + 1, p.right)
        /\ ~(mid < b) => RangeLeft(b, k + 1, p.left, mid - 1)
    BY <1>1, <1>3, RangeShrinks, FileNumbers DEF Offsets
  <2>2. q = [left  |-> IF file[mid] = v THEN p.left ELSE mid + 1,
             right |-> IF file[mid] = v THEN mid - 1 ELSE p.right,
             found |-> IF file[mid] = v /\ (p.found = -1 \/ mid < p.found)
                         THEN mid ELSE p.found]
    BY <1>1, <1>3 DEF Probe
  <2> HIDE DEF mid, q
  <2>3. CASE mid < b
    <3>1. q = [left |-> mid + 1, right |-> p.right, found |-> p.found]
      BY <2>1, <2>2, <2>3
    <3>2. RangeLeft(b, k + 1, mid + 1, p.right)
      BY <2>1, <2>3
    <3>3. p.found \in -1 .. FileSize - 1
      BY <1>1, FileNumbers DEF SearchState
    <3>4. q \in SearchState
      BY <3>1, <3>2, <3>3 DEF SearchState, RangeLeft
    <3>5. q.left = mid + 1 /\ q.right = p.right /\ q.found = p.found
      BY <3>1
    <3>6. q.found = IF q.right = FileSize - 1 THEN -1 ELSE q.right + 1
      BY <1>1, <3>5
    <3>7. RangeLeft(b, k + 1, q.left, q.right)
      BY <3>2, <3>5, Zenon
    <3> QED BY <3>4, <3>6, <3>7, Zenon DEF SeekingFirst
  <2>4. CASE ~(mid < b)
    <3>0. p.found = -1 \/ mid < p.found
      BY <1>1, <2>1, FileNumbers
    <3>1. q = [left |-> p.left, right |-> mid - 1, found |-> mid]
      BY <2>1, <2>2, <2>4, <3>0
    <3>2. RangeLeft(b, k + 1, p.left, mid - 1)
      BY <2>1, <2>4
    <3>3. mid \in -1 .. FileSize - 1 /\ mid - 1 # FileSize - 1 /\ mid = (mid - 1) + 1
      BY <2>1, FileNumbers DEF Offsets
    <3>4. q \in SearchState
      BY <3>1, <3>2, <3>3 DEF SearchState, RangeLeft
    <3>5. q.left = p.left /\ q.right = mid - 1 /\ q.found = mid
      BY <3>1
    <3>6. q.found = IF q.right = FileSize - 1 THEN -1 ELSE q.right + 1
      BY <3>3, <3>5
    <3>7. RangeLeft(b, k + 1, q.left, q.right)
      BY <3>2, <3>5, Zenon
    <3> QED BY <3>4, <3>6, <3>7, Zenon DEF SeekingFirst
  <2> QED BY <2>3, <2>4
<1> QED BY <1>2, <1>3

\* The last cell that is v, if the cells that are lie before b.
LEMMA FindsLast ==
    ASSUME NEW v, NEW b \in 0 .. FileSize, \A a \in Offsets : file[a] = v <=> a < b
    PROVE  flash_find_byte(v, TRUE) = b - 1
<1> DEFINE step == Probe(v, TRUE)
           start == [left |-> 0, right |-> FileSize - 1, found |-> -1]
           inv == [k \in Nat |-> SeekingLast(b, k)]
           p == Iterate(step, start, FileSize)
<1>1. start \in inv[0]
  BY FileNumbers DEF SeekingLast, RangeLeft, SearchState
<1>2. ASSUME NEW k \in 0 .. FileSize, NEW x \in inv[k]
      PROVE  step[x] \in inv[k + 1]
  <2>1. k \in Nat /\ k + 1 \in Nat
    BY FileNumbers
  <2>2. x \in SeekingLast(b, k)
    BY <2>1
  <2>3. step[x] \in SeekingLast(b, k + 1)
    BY <2>1, <2>2, ProbeLast
  <2> QED BY <2>1, <2>3
<1>3. p \in inv[FileSize]
  <2> HIDE DEF step, start, inv
  <2> QED BY <1>1, <1>2, FileNumbers, LoopInvariant
<1>4. p \in SeekingLast(b, FileSize)
  BY <1>3, FileNumbers
<1>5. flash_find_byte(v, TRUE) = p.found
  BY DEF flash_find_byte
<1> HIDE DEF p
<1>6. p.left = b /\ p.found = p.left - 1
  BY <1>4, FileNumbers DEF SeekingLast, RangeLeft
<1> QED BY <1>5, <1>6

\* The first cell that is v, if the cells that are lie from b on.
LEMMA FindsFirst ==
    ASSUME NEW v, NEW b \in 0 .. FileSize,
           \A a \in Offsets : file[a] = v <=> ~(a < b)
    PROVE  flash_find_byte(v, FALSE) = IF b = FileSize THEN -1 ELSE b
<1> DEFINE step == Probe(v, FALSE)
           start == [left |-> 0, right |-> FileSize - 1, found |-> -1]
           inv == [k \in Nat |-> SeekingFirst(b, k)]
           p == Iterate(step, start, FileSize)
<1>1. start \in inv[0]
  BY FileNumbers DEF SeekingFirst, RangeLeft, SearchState
<1>2. ASSUME NEW k \in 0 .. FileSize, NEW x \in inv[k]
      PROVE  step[x] \in inv[k + 1]
  <2>1. k \in Nat /\ k + 1 \in Nat
    BY FileNumbers
  <2>2. x \in SeekingFirst(b, k)
    BY <2>1
  <2>3. step[x] \in SeekingFirst(b, k + 1)
    BY <2>1, <2>2, ProbeFirst
  <2> QED BY <2>1, <2>3
<1>3. p \in inv[FileSize]
  <2> HIDE DEF step, start, inv
  <2> QED BY <1>1, <1>2, FileNumbers, LoopInvariant
<1>4. p \in SeekingFirst(b, FileSize)
  BY <1>3, FileNumbers
<1>5. flash_find_byte(v, FALSE) = p.found
  BY DEF flash_find_byte
<1> HIDE DEF p
<1>6. /\ b \in Int /\ p.right \in Int /\ p.right = b - 1
      /\ p.found = IF p.right = FileSize - 1 THEN -1 ELSE p.right + 1
  BY <1>4, FileNumbers DEF SeekingFirst, RangeLeft
<1>7. p.found = IF b = FileSize THEN -1 ELSE b
  BY <1>6, FileNumbers
<1> QED BY <1>5, <1>7
-----------------------------------------------------------------------------
(* The settings file: zeros, then cells of the text of one version, then   *)
(* erased cells, wherever a reset cut a save.                              *)

\* The cells settings_write prints for the configuration v.
Text(v) == {Half(part, i, v) : part \in {"name", "rest"}, i \in Items}

Layout(z, e, v) ==
    /\ z \in 0 .. FileSize /\ e \in 0 .. FileSize /\ z <= e
    /\ \A a \in Offsets :
           /\ a < z => file[a] = Zero
           /\ ~(a < z) /\ a < e => file[a] \in Text(v)
           /\ ~(a < e) => file[a] = Erased

\* Cell k of the text of v, and a file that holds n of them from z on.
Cell(v, k) == Half(IF k % 2 = 0 THEN "name" ELSE "rest", k \div 2 + 1, v)
Whole(z, n, v) == z + n <= FileSize /\ \A k \in 0 .. n - 1 : file[z + k] = Cell(v, k)

\* Cells a print has behind it.
Behind == 2 * ConfItems - limit

\* A print that still fits, which the second one always does, has lost nothing.
Printing(z, e, v) ==
    /\ e = pos /\ v = s /\ limit \in 0 .. 2 * ConfItems
    /\ again => z = 0
    /\ ~out_of_space \/ again => pos = z + Behind /\ Whole(z, Behind, s)

FileIInv ==
    /\ FileTypeOK
    /\ \E z \in 0 .. FileSize, e \in 0 .. FileSize, v \in versions :
           /\ Layout(z, e, v)
           /\ file_pc = "fill" => z = pos /\ limit = e - 1
           /\ file_pc = "print" => Printing(z, e, v)
    /\ file_pc \in {"fill", "print"} => s \in versions
    /\ file_pc = "fill" => ~again

LEMMA CellsDiffer ==
    /\ Zero # Erased
    /\ \A v : \A c \in Text(v) : c # Zero /\ c # Erased
BY DEF Text, Half, Zero, Erased

\* What the two searches find.
LEMMA SearchesFind ==
    ASSUME NEW z, NEW e, NEW v, Layout(z, e, v)
    PROVE  /\ flash_find_byte(Zero, TRUE) = z - 1
           /\ flash_find_byte(Erased, FALSE) = IF e = FileSize THEN -1 ELSE e
<1>1. z \in 0 .. FileSize /\ e \in 0 .. FileSize /\ z <= e
  BY DEF Layout
<1>2. \A a \in Offsets : file[a] = Zero <=> a < z
  <2> TAKE a \in Offsets
  <2> QED BY <1>1, CellsDiffer, FileNumbers DEF Layout, Offsets
<1>3. \A a \in Offsets : file[a] = Erased <=> ~(a < e)
  <2> TAKE a \in Offsets
  <2> QED BY <1>1, CellsDiffer, FileNumbers DEF Layout, Offsets
<1> QED BY <1>1, <1>2, <1>3, FindsLast, FindsFirst

-----------------------------------------------------------------------------
(* settings_init reads nothing but cells of that text.                     *)

Mixture(v, conf) == \A i \in Items : conf[i] \in {v[i], settings_default[i], CutShort}

LEMMA ParseKeeps ==
    ASSUME NEW v \in Config, NEW conf \in Config, Mixture(v, conf),
           NEW n \in Nat, NEW line, line = [k \in 1 .. n |-> line[k]],
           \A k \in 1 .. n : line[k] \in Text(v)
    PROVE  /\ settings_parse(line, conf) \in Config
           /\ Mixture(v, settings_parse(line, conf))
<1>1. CASE /\ line # <<>>
           /\ line[1].part = "name"
           /\ Len(line) = 1 \/ (Len(line) = 2 /\ line[2] = [line[1] EXCEPT !.part = "rest"])
  <2>1. 1 \in 1 .. n
    BY <1>1
  <2>2. PICK part \in {"name", "rest"}, i \in Items : line[1] = Half(part, i, v)
    BY <2>1 DEF Text
  <2>3. line[1].item = i /\ line[1].value = v[i]
    BY <2>2 DEF Half
  <2> DEFINE new == IF Len(line) = 2 THEN line[1].value ELSE CutShort
  <2>4. new \in {v[i], CutShort} /\ new \in ConfValues \cup {CutShort}
    BY <2>2, <2>3 DEF Config
  <2>5. settings_parse(line, conf) = [conf EXCEPT ![i] = new]
    BY <1>1, <2>3 DEF settings_parse
  <2> HIDE DEF new
  <2> QED BY <2>2, <2>4, <2>5 DEF Config, Mixture
<1>2. CASE ~(/\ line # <<>>
             /\ line[1].part = "name"
             /\ Len(line) = 1 \/ (Len(line) = 2 /\ line[2] = [line[1] EXCEPT !.part = "rest"]))
  BY <1>2 DEF settings_parse
<1> QED BY <1>1, <1>2

\* Where the loop of settings_init is.
Parsing(z, v) == {r \in ReadState : z <= r.offset /\ Mixture(v, r.conf)}

LEMMA ReadLineKeeps ==
    ASSUME NEW z, NEW e, NEW v \in Config, Layout(z, e, v), NEW r \in Parsing(z, v)
    PROVE  ReadLine[r] \in Parsing(z, v)
<1>1. /\ z \in 0 .. FileSize /\ r \in ReadState /\ r.offset \in 0 .. FileSize
      /\ r.conf \in Config /\ z <= r.offset /\ Mixture(v, r.conf)
  BY DEF Layout, Parsing, ReadState
<1>2. CASE r.at # "line"
  BY <1>1, <1>2 DEF ReadLine
<1>3. CASE r.at = "line" /\ FileSize - r.offset < BufSize
  <2>1. ReadLine[r] = [r EXCEPT !.at = "hung"]
    BY <1>1, <1>3 DEF ReadLine
  <2>2. ReadLine[r] \in ReadState /\ ReadLine[r].offset = r.offset /\ ReadLine[r].conf = r.conf
    BY <1>1, <2>1 DEF ReadState
  <2> QED BY <1>1, <2>2 DEF Parsing
<1>4. CASE r.at = "line" /\ ~(FileSize - r.offset < BufSize) /\ file[r.offset] = Erased
  <2>1. ReadLine[r] = [r EXCEPT !.at = "end"]
    BY <1>1, <1>4 DEF ReadLine
  <2>2. ReadLine[r] \in ReadState /\ ReadLine[r].offset = r.offset /\ ReadLine[r].conf = r.conf
    BY <1>1, <2>1 DEF ReadState
  <2> QED BY <1>1, <2>2 DEF Parsing
<1>5. CASE r.at = "line" /\ ~(FileSize - r.offset < BufSize) /\ file[r.offset] # Erased
  <2> DEFINE ends == {a \in r.offset .. r.offset + BufSize - 1 : LineEnd(file[a])}
             end  == IF ends = {} THEN r.offset + BufSize - 1 ELSE Min(ends)
             last == IF file[end] = Erased THEN end - 1 ELSE end
             text == [k \in 1 .. last - r.offset + 1 |-> file[r.offset + k - 1]]
             conf == settings_parse(text, r.conf)
  <2>1. ReadLine[r] = [r EXCEPT !.offset = end + 1, !.conf = conf]
    BY <1>1, <1>5 DEF ReadLine
  <2>2. /\ end \in r.offset .. r.offset + BufSize - 1
        /\ \A a \in r.offset .. end - 1 : ~LineEnd(file[a])
    <3>1. CASE ends = {}
      BY <1>1, <3>1, FileNumbers
    <3>2. CASE ends # {}
      <4>1. ends \subseteq Nat
        BY <1>1
      <4>2. \E m \in ends : \A k \in ends : m <= k
        <5> HIDE DEF ends
        <5> QED BY <3>2, <4>1, Least
      <4>3. Min(ends) \in ends /\ \A k \in ends : Min(ends) <= k
        <5> HIDE DEF ends
        <5> QED BY <4>2 DEF Min
      <4>4. end = Min(ends)
        BY <3>2
      <4> HIDE DEF end
      <4> QED BY <1>1, <4>3, <4>4, FileNumbers
    <3> QED BY <3>1, <3>2
  <2> HIDE DEF ends, end
  <2>3. end \in Nat /\ end + 1 \in 0 .. FileSize /\ z <= end + 1
    BY <1>1, <1>5, <2>2, FileNumbers
  <2>4. last \in Int /\ last - r.offset + 1 \in Nat /\ last <= end
        /\ \A a \in r.offset .. last : file[a] # Erased
    <3>1. \A a \in r.offset .. end - 1 : file[a] # Erased
      BY <2>2 DEF LineEnd
    <3>2. CASE file[end] = Erased
      BY <1>1, <2>2, <2>3, <3>1, <3>2, FileNumbers
    <3>3. CASE file[end] # Erased
      BY <1>1, <2>2, <2>3, <3>1, <3>3, FileNumbers
    <3> QED BY <3>2, <3>3
  <2> HIDE DEF last
  <2>5. \A k \in 1 .. last - r.offset + 1 : text[k] \in Text(v)
    <3> TAKE k \in 1 .. last - r.offset + 1
    <3> DEFINE a == r.offset + k - 1
    <3>0. k \in Nat /\ k >= 1 /\ k <= last - r.offset + 1 /\ r.offset \in Nat
      BY <1>1, <2>4
    <3>1. a \in r.offset .. last /\ a \in Offsets /\ ~(a < z) /\ text[k] = file[a]
      <4>1. a \in Int /\ r.offset <= a /\ a <= last
        BY <2>4, <3>0
      <4>2. text[k] = file[a]
        OBVIOUS
      <4> HIDE DEF a, text
      <4>3. a \in Offsets /\ ~(a < z)
        BY <1>1, <2>3, <2>4, <4>1, FileNumbers DEF Offsets
      <4> QED BY <3>0, <2>4, <4>1, <4>2, <4>3
    <3> HIDE DEF a, text
    <3>2. file[a] # Erased
      BY <2>4, <3>1
    <3> QED BY <1>1, <3>1, <3>2 DEF Layout
  <2>6. conf \in Config /\ Mixture(v, conf)
    <3>1. text = [k \in 1 .. last - r.offset + 1 |-> text[k]]
      OBVIOUS
    <3> HIDE DEF text
    <3> QED BY <1>1, <2>4, <2>5, <3>1, ParseKeeps
  <2> HIDE DEF conf
  <2>7. /\ ReadLine[r] \in ReadState
        /\ ReadLine[r].offset = end + 1 /\ ReadLine[r].conf = conf
    BY <1>1, <2>1, <2>3, <2>6 DEF ReadState
  <2> QED BY <2>3, <2>6, <2>7 DEF Parsing
<1> QED BY <1>2, <1>3, <1>4, <1>5

LEMMA ReadsOneVersion ==
    ASSUME NEW z, NEW e, NEW v \in Config, Layout(z, e, v)
    PROVE  /\ Reading(z) \in ReadState
           /\ Mixture(v, Reading(z).conf)
<1> DEFINE start == [offset |-> z, conf |-> settings_default, at |-> "line"]
           n == FileSize + 1
           inv == [k \in Nat |-> Parsing(z, v)]
<1>1. start \in inv[0]
  <2>1. z \in 0 .. FileSize
    BY DEF Layout
  <2>2. settings_default \in Config /\ Mixture(v, settings_default)
    BY FileAssumption DEF Config, settings_default, Mixture
  <2> QED BY <2>1, <2>2 DEF Parsing, ReadState
<1>2. n \in Nat
  BY FileNumbers
<1>3. ASSUME NEW k \in 0 .. n, NEW x \in inv[k]
      PROVE  ReadLine[x] \in inv[k + 1]
  <2>1. k \in Nat /\ k + 1 \in Nat
    BY <1>2
  <2> QED BY <2>1, ReadLineKeeps
<1>4. Iterate(ReadLine, start, n) \in inv[n]
  <2> HIDE DEF start, n, inv
  <2> QED BY <1>1, <1>2, <1>3, LoopInvariant
<1>5. Reading(z) \in Parsing(z, v)
  BY <1>2, <1>4 DEF Reading
<1> QED BY <1>5 DEF Parsing

-----------------------------------------------------------------------------
(* A whole text is read back line by line.                                 *)

\* Where settings_init is after k passes, if the text of v begins at z.
Progress(z, v, k) ==
    {r \in ReadState :
        /\ r.at = "line" =>
               /\ k <= ConfItems /\ r.offset = z + 2 * k
               /\ \A i \in Items : r.conf[i] = IF i <= k THEN v[i] ELSE settings_default[i]
        /\ r.at = "end" => r.conf = v}

LEMMA CellsOfLine ==
    ASSUME NEW v, NEW k \in Nat
    PROVE  Cell(v, 2 * k) = Half("name", k + 1, v) /\ Cell(v, 2 * k + 1) = Half("rest", k + 1, v)
<1>1. (2 * k) % 2 = 0 /\ (2 * k) \div 2 = k /\ (2 * k + 1) % 2 = 1 /\ (2 * k + 1) \div 2 = k
  OBVIOUS
<1> QED BY <1>1 DEF Cell

LEMMA LineRead ==
    ASSUME NEW z, NEW v \in Config, Layout(z, z + 2 * ConfItems, v),
           Whole(z, 2 * ConfItems, v), NEW k \in Nat, NEW r \in Progress(z, v, k)
    PROVE  ReadLine[r] \in Progress(z, v, k + 1)
<1> USE FileNumbers
<1>1. /\ z \in 0 .. FileSize /\ z + 2 * ConfItems <= FileSize
      /\ r \in ReadState /\ r.offset \in 0 .. FileSize /\ r.conf \in Config
  BY DEF Layout, Progress, ReadState
<1>2. CASE r.at # "line"
  <2>1. ReadLine[r] = r
    BY <1>1, <1>2 DEF ReadLine
  <2> QED BY <1>2, <2>1 DEF Progress
<1>3. CASE r.at = "line" /\ FileSize - r.offset < BufSize
  <2>1. ReadLine[r] = [r EXCEPT !.at = "hung"]
    BY <1>1, <1>3 DEF ReadLine
  <2>2. ReadLine[r] \in ReadState /\ ReadLine[r].at = "hung"
    BY <1>1, <2>1 DEF ReadState
  <2> QED BY <2>2 DEF Progress
<1>4. CASE r.at = "line" /\ ~(FileSize - r.offset < BufSize)
  <2>1. /\ k <= ConfItems /\ r.offset = z + 2 * k /\ r.offset \in Offsets
        /\ \A i \in Items : r.conf[i] = IF i <= k THEN v[i] ELSE settings_default[i]
    BY <1>1, <1>4 DEF Progress, Offsets
  <2>2. CASE k = ConfItems
    <3>1. file[r.offset] = Erased
      BY <1>1, <2>1, <2>2 DEF Layout, Offsets
    <3>2. ReadLine[r] = [r EXCEPT !.at = "end"]
      BY <1>1, <1>4, <3>1 DEF ReadLine
    <3>3. ReadLine[r] \in ReadState /\ ReadLine[r].at = "end" /\ ReadLine[r].conf = r.conf
      BY <1>1, <3>2 DEF ReadState
    <3>4. r.conf = v
      <4>1. \A i \in Items : r.conf[i] = v[i]
        BY <2>1, <2>2 DEF Items
      <4> QED BY <1>1, <4>1 DEF Config
    <3> QED BY <3>3, <3>4 DEF Progress
  <2>3. CASE k # ConfItems
    <3> DEFINE i == k + 1
    <3>1. i \in Items /\ k < ConfItems
      BY <2>1, <2>3 DEF Items
    <3>2. /\ file[r.offset] = Half("name", i, v) /\ file[r.offset + 1] = Half("rest", i, v)
      <4>1. 2 * k \in 0 .. 2 * ConfItems - 1 /\ 2 * k + 1 \in 0 .. 2 * ConfItems - 1
        BY <3>1
      <4>2. file[z + 2 * k] = Cell(v, 2 * k) /\ file[z + (2 * k + 1)] = Cell(v, 2 * k + 1)
        BY <4>1 DEF Whole
      <4>3. z + 2 * k = r.offset /\ z + (2 * k + 1) = r.offset + 1
        BY <1>1, <2>1
      <4> QED BY <4>2, <4>3, CellsOfLine
    <3> DEFINE ends == {a \in r.offset .. r.offset + BufSize - 1 : LineEnd(file[a])}
               end  == IF ends = {} THEN r.offset + BufSize - 1 ELSE Min(ends)
               last == IF file[end] = Erased THEN end - 1 ELSE end
               text == [j \in 1 .. last - r.offset + 1 |-> file[r.offset + j - 1]]
               conf == settings_parse(text, r.conf)
    <3>3. file[r.offset] # Erased /\ file[r.offset + 1] # Erased
      BY <3>2 DEF Half, Erased
    <3>4. ReadLine[r] = [r EXCEPT !.offset = end + 1, !.conf = conf]
      BY <1>1, <1>4, <3>3 DEF ReadLine
    <3>5. end = r.offset + 1
      <4>1. r.offset + 1 \in ends /\ r.offset \notin ends /\ ends \subseteq Nat
            /\ \A a \in ends : r.offset <= a
        BY <1>1, <3>2, <3>3 DEF LineEnd, Half
      <4>2. \E m \in ends : \A a \in ends : m <= a
        <5> HIDE DEF ends
        <5> QED BY <4>1, Least
      <4> HIDE DEF ends
      <4>3. Min(ends) \in ends /\ \A a \in ends : Min(ends) <= a
        BY <4>2 DEF Min
      <4> DEFINE m == Min(ends)
      <4>4. m \in Nat /\ m # r.offset /\ r.offset <= m /\ m <= r.offset + 1
        BY <4>1, <4>3
      <4> HIDE DEF m
      <4>5. m = r.offset + 1
        BY <1>1, <4>4
      <4> QED BY <4>1, <4>5 DEF end, m
    <3> HIDE DEF ends, end
    <3>6. last = r.offset + 1
      BY <3>3, <3>5
    <3>7. text = <<Half("name", i, v), Half("rest", i, v)>>
      <4>1. last - r.offset + 1 = 2
        BY <1>1, <3>6
      <4>2. text = [j \in 1 .. 2 |-> file[r.offset + j - 1]]
        BY <4>1
      <4> HIDE DEF text
      <4>3. text[1] = file[r.offset] /\ text[2] = file[r.offset + 1]
        BY <1>1, <4>2
      <4> QED BY <3>2, <4>2, <4>3
    <3> HIDE DEF last, text
    <3>8. conf = [r.conf EXCEPT ![i] = v[i]]
      BY <3>7 DEF settings_parse, Half
    <3> HIDE DEF conf
    <3>9. /\ conf \in Config
          /\ \A j \in Items : conf[j] = IF j <= k + 1 THEN v[j] ELSE settings_default[j]
      <4>1. v[i] \in ConfValues \cup {CutShort}
        BY <3>1 DEF Config
      <4>2. conf \in Config
        BY <1>1, <3>1, <3>8, <4>1 DEF Config
      <4>3. ASSUME NEW j \in Items
            PROVE  conf[j] = IF j <= k + 1 THEN v[j] ELSE settings_default[j]
        <5>1. conf[j] = IF j = i THEN v[i] ELSE r.conf[j]
          BY <1>1, <3>1, <3>8 DEF Config
        <5>2. j <= k + 1 <=> j <= k \/ j = i
          BY DEF Items
        <5> QED BY <2>1, <5>1, <5>2
      <4> QED BY <4>2, <4>3
    <3>10. end + 1 \in 0 .. FileSize /\ end + 1 = z + 2 * (k + 1) /\ k + 1 <= ConfItems
      BY <1>1, <2>1, <3>1, <3>5
    <3>11. /\ ReadLine[r] \in ReadState /\ ReadLine[r].at = "line"
           /\ ReadLine[r].offset = end + 1 /\ ReadLine[r].conf = conf
      BY <1>1, <1>4, <3>4, <3>9, <3>10 DEF ReadState
    <3> QED BY <3>9, <3>10, <3>11 DEF Progress
  <2> QED BY <2>2, <2>3
<1> QED BY <1>2, <1>3, <1>4

\* The whole text of the configuration s is in the file, and no other.
Saved == \E z \in 0 .. FileSize : Layout(z, z + 2 * ConfItems, s) /\ Whole(z, 2 * ConfItems, s)

LEMMA WholeTextIsRead == FileTypeOK /\ Saved => SavedIsRead
<1> SUFFICES ASSUME FileTypeOK, Saved, ReadFile.at # "hung" PROVE ReadFile.conf = s
  BY DEF SavedIsRead
<1>1. s \in Config
  BY DEF FileTypeOK
<1>2. PICK z \in 0 .. FileSize : Layout(z, z + 2 * ConfItems, s) /\ Whole(z, 2 * ConfItems, s)
  BY DEF Saved
<1> DEFINE found == flash_find_byte(Zero, TRUE)
<1>3. found = z - 1
  BY <1>2, SearchesFind, Zenon
<1> HIDE DEF found
<1>4. found + 1 = z
  BY <1>2, <1>3
<1> DEFINE start == [offset |-> z, conf |-> settings_default, at |-> "line"]
           n == FileSize + 1
           inv == [k \in Nat |-> Progress(z, s, k)]
<1>5. ReadFile = Iterate(ReadLine, start, n)
  BY <1>4 DEF ReadFile, Reading, found
<1>6. start \in inv[0]
  <2>1. settings_default \in Config /\ 0 \in Nat /\ \A i \in Items : ~(i <= 0)
    BY FileAssumption DEF Config, settings_default, Items
  <2>2. start \in ReadState
    BY <1>2, <2>1 DEF ReadState
  <2>3. z = z + 2 * 0 /\ 0 <= ConfItems
    BY <1>2, FileNumbers
  <2>4. start \in Progress(z, s, 0)
    BY <2>1, <2>2, <2>3 DEF Progress
  <2> QED BY <2>4
<1>7. n \in Nat /\ n > ConfItems
  BY FileNumbers
<1>8. ASSUME NEW k \in 0 .. n, NEW x \in inv[k]
      PROVE  ReadLine[x] \in inv[k + 1]
  <2>1. k \in Nat /\ k + 1 \in Nat
    BY <1>7
  <2>2. x \in Progress(z, s, k)
    BY <2>1
  <2>3. ReadLine[x] \in Progress(z, s, k + 1)
    BY <1>1, <1>2, <2>1, <2>2, LineRead
  <2> QED BY <2>1, <2>3
<1>9. Iterate(ReadLine, start, n) \in inv[n]
  <2> HIDE DEF start, n, inv
  <2> QED BY <1>6, <1>7, <1>8, LoopInvariant
<1>10. ReadFile \in Progress(z, s, n)
  BY <1>5, <1>7, <1>9
<1> HIDE DEF n
<1>11. ReadFile.at = "end"
  <2>1. ReadFile.at \in {"line", "end", "hung"} /\ (ReadFile.at = "line" => n <= ConfItems)
    BY <1>10 DEF Progress, ReadState
  <2> QED BY <1>7, <2>1, FileNumbers
<1> QED BY <1>10, <1>11 DEF Progress
-----------------------------------------------------------------------------
(* The invariant, action by action.                                        *)

LEMMA DefaultConfig == settings_default \in Config
BY FileAssumption DEF Config, settings_default

LEMMA FileInitIInv == FileInit => FileIInv
<1> SUFFICES ASSUME FileInit PROVE FileIInv
  OBVIOUS
<1>1. FileTypeOK
  BY DefaultConfig, FileNumbers DEF FileInit, FileTypeOK, ErasedFile
<1>2. Layout(0, 0, settings_default)
  BY FileNumbers DEF FileInit, Layout, ErasedFile, Offsets
<1> QED BY <1>1, <1>2, FileNumbers DEF FileInit, FileIInv

\* What settings_init reads is of one version.
LEMMA InitReads ==
    ASSUME FileIInv, settings_init
    PROVE  /\ settings' \in Config /\ s' = settings'
           /\ \E v \in versions : Mixture(v, settings')
<1>1. PICK z \in 0 .. FileSize, e \in 0 .. FileSize, v \in versions : Layout(z, e, v)
  BY DEF FileIInv
<1>2. v \in Config
  BY DEF FileIInv, FileTypeOK
<1> DEFINE found == flash_find_byte(Zero, TRUE)
           from  == found + 1
<1>3. found = z - 1
  BY <1>1, SearchesFind, Zenon
<1>4. settings' = Reading(from).conf /\ s' = settings'
  BY DEF settings_init, ReadFile
<1> HIDE DEF found
<1>6. from = z
  BY <1>1, <1>3
<1> HIDE DEF from
<1>5. Reading(from) \in ReadState /\ Mixture(v, Reading(from).conf)
  BY <1>1, <1>2, <1>6, ReadsOneVersion
<1> QED BY <1>4, <1>5 DEF ReadState

LEMMA ProgrammedErased ==
    ASSUME NEW c, c # Zero
    PROVE  Programmed(Erased, c) = c
BY DEF Programmed

LEMMA PrintedIsText ==
    ASSUME limit \in 0 .. 2 * ConfItems, limit > 0
    PROVE  Printed \in Text(s)
<1> DEFINE k == 2 * ConfItems - limit
<1>1. k \in Nat /\ k < 2 * ConfItems
  BY FileNumbers
<1>2. Printed = Half(IF k % 2 = 0 THEN "name" ELSE "rest", k \div 2 + 1, s)
  BY DEF Printed
<1> HIDE DEF k
<1>3. k \div 2 + 1 \in Items
  BY <1>1, FileNumbers DEF Items
<1> QED BY <1>2, <1>3 DEF Text

\* After a step that leaves the file as it is and is not in a save.
LEMMA LayoutKept ==
    ASSUME FileIInv, FileTypeOK', file' = file, versions \subseteq versions',
           file_pc' \notin {"fill", "print"}
    PROVE  FileIInv'
BY DEF FileIInv, Layout, Text, Half, Items

LEMMA NothingPrinted ==
    ASSUME pos' \in 0 .. FileSize, limit' = 2 * ConfItems
    PROVE  /\ limit' \in 0 .. 2 * ConfItems /\ pos' = pos' + Behind'
           /\ Whole(pos, Behind, s)'
<1>1. PICK p \in 0 .. FileSize : p = pos'
  OBVIOUS
<1>2. PICK n \in {0} : n = Behind'
  BY FileNumbers DEF Behind
<1>3. limit' \in 0 .. 2 * ConfItems /\ p = p + n /\ p + n <= FileSize
  BY <1>2, FileNumbers
<1>4. \A k \in 0 .. n - 1 : FALSE
  BY <1>2
<1> QED BY <1>1, <1>2, <1>3, <1>4 DEF Whole

\* After a step that begins a print at pos, with zeros or nothing in front.
LEMMA PrintStarts ==
    ASSUME FileTypeOK', StartPrint, s' \in versions', Layout(pos, pos, s)',
           again' => pos' = 0
    PROVE  FileIInv'
<1>1. pos' \in 0 .. FileSize /\ limit' = 2 * ConfItems
  BY DEF FileTypeOK, StartPrint
<1>2. Printing(pos, pos, s)'
  BY <1>1, NothingPrinted DEF Printing
<1>3. file_pc' = "print"
  BY DEF StartPrint
<1> QED BY <1>1, <1>2, <1>3 DEF FileIInv

LEMMA FileNextIInv ==
    ASSUME FileIInv, [FileNext]_fileVars
    PROVE  FileIInv'
<1> USE FileNumbers
<1>0. /\ FileTypeOK /\ DOMAIN file = Offsets /\ settings \in Config /\ s \in Config
      /\ versions \subseteq Config
  BY DEF FileIInv, FileTypeOK
<1>1. CASE settings_init
  BY <1>0, <1>1, InitReads, LayoutKept DEF FileTypeOK, settings_init
<1>2. CASE settings_init_no_file
  BY <1>0, <1>2, DefaultConfig, LayoutKept DEF FileTypeOK, settings_init_no_file
<1>3. ASSUME NEW i \in Items, NEW v \in ConfValues, conf_item(i, v)
      PROVE  FileIInv'
  <2>1. s' \in Config
    BY <1>0, <1>3 DEF Config, conf_item
  <2> QED BY <1>0, <1>3, <2>1, LayoutKept DEF FileTypeOK, conf_item
<1>4. CASE conf_defaults
  BY <1>0, <1>4, DefaultConfig, LayoutKept DEF FileTypeOK, conf_defaults
<1>5. CASE settings_write
  <2>1. PICK z \in 0 .. FileSize, e \in 0 .. FileSize, v \in versions : Layout(z, e, v)
    BY DEF FileIInv
  <2> DEFINE found == flash_find_byte(Zero, TRUE)
             from == found + 1
             end  == flash_find_byte(Erased, FALSE)
  <2>2. from = z /\ end = IF e = FileSize THEN -1 ELSE e
    <3>1. found = z - 1
      BY <2>1, SearchesFind, Zenon
    <3>2. end = IF e = FileSize THEN -1 ELSE e
      BY <2>1, SearchesFind, Zenon
    <3> HIDE DEF found, end
    <3> QED BY <2>1, <3>1, <3>2
  <2>3. versions' = versions \cup {s} /\ s' = s /\ settings' = settings /\ again' = FALSE
    BY <1>5 DEF settings_write
  <2>4. CASE file[0] = Erased /\ pos' = 0 /\ StartPrint /\ UNCHANGED file
    <3>1. e = 0 /\ z = 0
      BY <2>1, <2>4, CellsDiffer DEF Layout, Offsets
    <3>2. Layout(0, 0, s)'
      BY <2>1, <2>4, <3>1 DEF Layout
    <3>3. FileTypeOK'
      BY <1>0, <2>3, <2>4 DEF FileTypeOK, StartPrint
    <3>4. Layout(pos, pos, s)'
      BY <2>4, <3>2 DEF Layout
    <3> QED BY <2>3, <2>4, <3>3, <3>4, PrintStarts
  <2>5. CASE file' = ErasedFile /\ pos' = 0 /\ StartPrint
    <3>1. Layout(0, 0, s)'
      BY <2>5 DEF Layout, ErasedFile, Offsets
    <3>2. FileTypeOK'
      BY <1>0, <2>3, <2>5 DEF FileTypeOK, StartPrint, ErasedFile
    <3>3. Layout(pos, pos, s)'
      BY <2>5, <3>1 DEF Layout
    <3> QED BY <2>3, <2>5, <3>2, <3>3, PrintStarts
  <2>6. CASE /\ end # -1 /\ file_pc' = "fill" /\ pos' = from /\ limit' = end - 1
             /\ UNCHANGED file
    <3>1. pos' = z /\ limit' = e - 1 /\ file_pc' = "fill" /\ file' = file
      BY <2>2, <2>6
    <3>2. Layout(z, e, v)'
      BY <2>1, <3>1 DEF Layout, Text, Half
    <3>3. FileTypeOK'
      BY <1>0, <2>3, <3>1 DEF FileTypeOK
    <3> QED BY <2>1, <2>3, <3>1, <3>2, <3>3 DEF FileIInv
  <2> QED BY <1>5, <2>4, <2>5, <2>6 DEF settings_write, FillRange
<1>6. CASE FillCell
  <2>1. PICK z \in 0 .. FileSize, e \in 0 .. FileSize, v \in versions :
            Layout(z, e, v) /\ z = pos /\ limit = e - 1
    BY <1>6 DEF FileIInv, FillCell
  <2>2. z < e /\ z \in Offsets /\ z + 1 \in 0 .. FileSize
    BY <1>6, <2>1 DEF FillCell, Offsets
  <2>3. /\ file' = [file EXCEPT ![z] = Zero] /\ pos' = z + 1 /\ limit' = e - 1
        /\ UNCHANGED <<file_pc, settings, s, again, versions>>
    BY <1>6, <2>1 DEF FillCell, Programmed
  <2>4. DOMAIN file' = Offsets /\ \A a \in Offsets : file'[a] = IF a = z THEN Zero ELSE file[a]
    BY <1>0, <2>2, <2>3
  <2>5. Layout(z + 1, e, v)'
    BY <2>1, <2>2, <2>4 DEF Layout, Offsets
  <2>6. FileTypeOK'
    BY <1>0, <2>2, <2>3, <2>4 DEF FileTypeOK
  <2> QED BY <1>6, <2>1, <2>2, <2>3, <2>5, <2>6 DEF FileIInv, FillCell
<1>7. CASE Filled
  <2>1. PICK z \in 0 .. FileSize, e \in 0 .. FileSize, v \in versions :
            Layout(z, e, v) /\ z = pos /\ limit = e - 1
    BY <1>7 DEF FileIInv, Filled
  <2>2. z = e /\ pos' = e /\ limit' = 2 * ConfItems /\ file_pc' = "print" /\ file' = file
        /\ UNCHANGED <<settings, s, again, versions>>
    BY <1>7, <2>1 DEF Filled, StartPrint, Layout
  <2>3. Layout(pos, pos, s)'
    BY <2>1, <2>2 DEF Layout
  <2>4. FileTypeOK'
    BY <1>0, <2>2 DEF FileTypeOK
  <2>5. s \in versions /\ ~again
    BY <1>7 DEF FileIInv, Filled
  <2> QED BY <1>7, <2>2, <2>3, <2>4, <2>5, PrintStarts DEF Filled
<1>8. CASE PrintCell
  <2>1. PICK z \in 0 .. FileSize, e \in 0 .. FileSize :
            /\ Layout(z, e, s) /\ e = pos /\ limit \in 0 .. 2 * ConfItems
            /\ again => z = 0
            /\ ~out_of_space \/ again => pos = z + Behind /\ Whole(z, Behind, s)
    BY <1>8 DEF FileIInv, PrintCell, Printing
  <2>2. /\ s \in versions /\ limit' \in 0 .. 2 * ConfItems
        /\ Behind \in 0 .. 2 * ConfItems - 1 /\ Behind' = Behind + 1
    BY <1>8, <2>1 DEF FileIInv, PrintCell, Behind
  <2>3. CASE pos < FileSize
    <3>1. pos \in Offsets /\ pos + 1 \in 0 .. FileSize /\ file[pos] = Erased
      BY <2>1, <2>3 DEF Layout, Offsets
    <3> DEFINE new == Printed
    <3>2. new \in Text(s) /\ new # Zero /\ new = Cell(s, Behind)
      BY <1>8, <2>1, PrintedIsText, CellsDiffer DEF PrintCell, Printed, Cell, Behind
    <3> HIDE DEF new
    <3>3. file' = [file EXCEPT ![pos] = Programmed(@, new)] /\ pos' = pos + 1
          /\ UNCHANGED <<file_pc, settings, s, out_of_space, again, versions>>
      BY <1>8, <2>3 DEF PrintCell, new
    <3>4. DOMAIN file' = Offsets
          /\ \A a \in Offsets : file'[a] = IF a = pos THEN new ELSE file[a]
      BY <1>0, <3>1, <3>2, <3>3, ProgrammedErased
    <3>5. Layout(z, e + 1, s)'
      <4>1. Text(s)' = Text(s)
        BY <3>3 DEF Text, Half
      <4>2. z \in 0 .. FileSize /\ e + 1 \in 0 .. FileSize /\ z <= e + 1
        BY <2>1, <3>1 DEF Layout
      <4>3. ASSUME NEW a \in Offsets
            PROVE  /\ a < z => file'[a] = Zero
                   /\ ~(a < z) /\ a < e + 1 => file'[a] \in Text(s)
                   /\ ~(a < e + 1) => file'[a] = Erased
        <5>1. CASE a = pos
          <6>1. ~(a < z) /\ a < e + 1
            BY <2>1, <3>1, <5>1 DEF Layout, Offsets
          <6> QED BY <3>2, <3>4, <5>1, <6>1
        <5>2. CASE a # pos
          <6>1. file'[a] = file[a] /\ (a < e + 1 <=> a < e)
            BY <2>1, <3>1, <3>4, <5>2 DEF Offsets
          <6> QED BY <2>1, <6>1 DEF Layout
        <5> QED BY <5>1, <5>2
      <4> QED BY <4>1, <4>2, <4>3 DEF Layout
    <3>6. FileTypeOK'
      BY <1>0, <3>1, <3>3, <3>4 DEF FileTypeOK
    <3>7. /\ s' = s /\ versions' = versions /\ pos' = e + 1 /\ file_pc' = "print"
          /\ z \in 0 .. FileSize /\ e + 1 \in 0 .. FileSize
      BY <1>8, <2>1, <3>1, <3>3 DEF PrintCell
    <3>8. Printing(z, e + 1, s)'
      <4>1. ASSUME ~out_of_space \/ again
            PROVE  (pos = z + Behind /\ Whole(z, Behind, s))'
        <5>1. PICK n \in Nat : n = Behind
          BY <2>2
        <5>2. e = z + n /\ Whole(z, n, s) /\ z \in Nat
          BY <2>1, <4>1, <5>1
        <5>3. ASSUME NEW k \in 0 .. n
              PROVE  file'[z + k] = Cell(s, k)
          <6>1. CASE k = n
            BY <2>1, <3>1, <3>2, <3>4, <5>1, <5>2, <6>1
          <6>2. CASE k # n
            <7>1. k \in 0 .. n - 1 /\ z + k \in Offsets /\ z + k # pos
              BY <2>1, <3>1, <5>1, <5>2, <6>2 DEF Offsets
            <7> QED BY <3>4, <5>2, <7>1 DEF Whole
          <6> QED BY <6>1, <6>2
        <5>4. Behind' = n + 1 /\ (n + 1) - 1 = n /\ z + (n + 1) <= FileSize
          BY <2>1, <2>2, <3>1, <5>1, <5>2
        <5>5. Whole(z, Behind, s)' <=>
                  /\ z + Behind' <= FileSize
                  /\ \A k \in 0 .. Behind' - 1 : file'[z + k] = Cell(s, k)
          BY <3>3 DEF Whole, Cell, Half
        <5> QED BY <2>1, <3>3, <5>2, <5>3, <5>4, <5>5
      <4> QED BY <2>1, <2>2, <3>3, <3>7, <4>1 DEF Printing
    <3> QED BY <2>2, <3>5, <3>6, <3>7, <3>8 DEF FileIInv
  <2>4. CASE ~(pos < FileSize)
    <3>1. UNCHANGED <<file, pos, file_pc, settings, s, again, versions>> /\ out_of_space' = TRUE
      BY <1>8, <2>4 DEF PrintCell
    <3>4. ~again
      BY <2>1, <2>2, <2>4
    <3>5. Printing(z, e, s)'
      BY <2>1, <2>2, <3>1, <3>4 DEF Printing
    <3>2. Layout(z, e, s)'
      BY <2>1, <3>1 DEF Layout, Text, Half
    <3>3. FileTypeOK'
      BY <1>0, <3>1 DEF FileTypeOK
    <3> QED BY <1>8, <2>1, <2>2, <3>1, <3>2, <3>3, <3>5 DEF FileIInv, PrintCell
  <2> QED BY <2>3, <2>4
<1>9. CASE PrintAgain
  <2>1. /\ file' = ErasedFile /\ pos' = 0 /\ limit' = 2 * ConfItems /\ s \in versions
        /\ UNCHANGED <<file_pc, settings, s, versions>>
    BY <1>9 DEF PrintAgain, FileIInv
  <2>2. Layout(0, 0, s)'
    BY <2>1 DEF Layout, ErasedFile, Offsets
  <2>3. FileTypeOK'
    BY <1>0, <2>1 DEF FileTypeOK, ErasedFile
  <2>4. Behind' = 0 /\ file_pc' = "print"
    BY <1>9, <2>1 DEF PrintAgain, Behind
  <2>5. Whole(0, Behind, s)'
    BY <2>4 DEF Whole
  <2>6. Printing(0, 0, s)'
    BY <2>1, <2>4, <2>5 DEF Printing
  <2> QED BY <2>1, <2>2, <2>3, <2>4, <2>6 DEF FileIInv
<1>10. CASE WriteDone
  <2>1. PICK z \in 0 .. FileSize, e \in 0 .. FileSize : Layout(z, e, s)
    BY <1>10 DEF FileIInv, Printing, WriteDone
  <2>2. /\ file_pc' = "running" /\ versions' = {s} /\ pos' = 0
        /\ UNCHANGED <<file, settings, s>>
    BY <1>10 DEF WriteDone
  <2>3. Layout(z, e, s)'
    BY <2>1, <2>2 DEF Layout, Text, Half
  <2>4. FileTypeOK'
    BY <1>0, <2>2 DEF FileTypeOK
  <2> QED BY <2>1, <2>2, <2>3, <2>4 DEF FileIInv
<1>11. CASE FileReset
  BY <1>0, <1>11, DefaultConfig, LayoutKept DEF FileTypeOK, FileReset
<1>12. CASE UNCHANGED fileVars
  BY <1>12
  DEF FileIInv, FileTypeOK, Layout, Printing, Whole, Behind, Text, Cell, Half, fileVars
<1> QED BY <1>1, <1>2, <1>3, <1>4, <1>5, <1>6, <1>7, <1>8, <1>9, <1>10, <1>11, <1>12
        DEF FileNext

\* Whatever is done and wherever it is cut, the file holds zeros, text of one
\* version that may be there, and erased cells: what both binary searches of
\* settings.cpp:216-329 take for granted.
THEOREM FileLaidOut == FileSpec => []FileIInv
<1>1. FileInit => FileIInv
  BY FileInitIInv
<1>2. FileIInv /\ [FileNext]_fileVars => FileIInv'
  BY FileNextIInv
<1> QED BY <1>1, <1>2, PTL DEF FileSpec

\* A save that is completed leaves its whole text and nothing else.
LEMMA DoneIsSaved == FileIInv /\ FileIInv' /\ WriteDone => FileTypeOK' /\ Saved'
<1> SUFFICES ASSUME FileIInv, FileIInv', WriteDone PROVE Saved'
  BY DEF FileIInv
<1>1. PICK z \in 0 .. FileSize, e \in 0 .. FileSize :
          Layout(z, e, s) /\ e = z + Behind /\ Whole(z, Behind, s)
  BY DEF FileIInv, Printing, WriteDone
<1>2. Behind = 2 * ConfItems
  BY FileNumbers DEF Behind, WriteDone
<1>3. Layout(z, z + 2 * ConfItems, s) /\ Whole(z, 2 * ConfItems, s)
  BY <1>1, <1>2
<1>4. file' = file /\ s' = s
  BY DEF WriteDone
<1>5. (Layout(z, z + 2 * ConfItems, s) /\ Whole(z, 2 * ConfItems, s))'
  BY <1>3, <1>4 DEF Layout, Whole, Text, Cell, Half
<1> QED BY <1>1, <1>5 DEF Saved

\* The settings a board starts with, read from the file however full it is and
\* wherever resets have cut the saves, are of one version; and once a save is
\* completed, all of it is read.
THEOREM FileStartsWithOneVersion == FileSpec => StartsWithOneVersion
<1>1. ASSUME FileIInv, [FileNext]_fileVars
      PROVE  [file_pc = "boot" /\ file_pc' = "running" =>
                  \E version \in versions : \A i \in Items :
                      settings'[i] \in {version[i], settings_default[i], CutShort}]_fileVars
  <2>1. CASE settings_init
    BY <1>1, <2>1, InitReads DEF Mixture
  <2>2. CASE settings_init_no_file
    <3>1. PICK v \in versions : TRUE
      BY <1>1 DEF FileIInv
    <3> QED BY <2>2, <3>1 DEF settings_init_no_file
  <2>3. CASE file_pc = "boot" /\ file_pc' = "running" /\ ~UNCHANGED fileVars
    BY <1>1, <2>1, <2>2, <2>3
    DEF FileNext, conf_item, conf_defaults, settings_write, FillCell, Filled, PrintCell,
        PrintAgain, WriteDone, FileReset
  <2> QED BY <2>3
<1>2. ASSUME FileIInv, FileIInv', [FileNext]_fileVars
      PROVE  [file_pc = "print" /\ file_pc' = "running" => SavedIsRead']_fileVars
  <2>1. CASE WriteDone
    <3>1. FileTypeOK' /\ Saved'
      BY <1>2, <2>1, DoneIsSaved
    <3>2. SavedIsRead'
      BY <3>1, WholeTextIsRead, PTL
    <3> QED BY <3>2
  <2>2. CASE file_pc = "print" /\ file_pc' = "running" /\ ~UNCHANGED fileVars
    BY <1>2, <2>1, <2>2
    DEF FileNext, settings_init, settings_init_no_file, conf_item, conf_defaults,
        settings_write, FillCell, Filled, PrintCell, PrintAgain, WriteDone, FileReset
  <2> QED BY <2>2
<1> QED BY <1>1, <1>2, FileLaidOut, PTL DEF FileSpec, StartsWithOneVersion
-----------------------------------------------------------------------------
(* Only a file that is nearly full hangs settings_init.                    *)

\* Where the loop is at most: on the cell behind the first erased one, e.
NearText(e) ==
    {r \in ReadState :
        /\ r.offset <= e + 1
        /\ r.at = "hung" => FileSize - r.offset < BufSize}

LEMMA ReadLineStaysNear ==
    ASSUME NEW z, NEW e, NEW v \in Config, Layout(z, e, v),
           NEW r \in Parsing(z, v), r \in NearText(e)
    PROVE  ReadLine[r] \in NearText(e)
<1>1. /\ z \in 0 .. FileSize /\ e \in 0 .. FileSize
      /\ r \in ReadState /\ r.offset \in 0 .. FileSize /\ r.offset <= e + 1
  BY DEF Layout, NearText, ReadState
<1>0. ReadLine[r] \in ReadState
  BY ReadLineKeeps DEF Parsing
<1>2. CASE r.at # "line"
  <2>1. ReadLine[r] = r
    BY <1>1, <1>2 DEF ReadLine
  <2> QED BY <2>1
<1>3. CASE r.at = "line" /\ FileSize - r.offset < BufSize
  <2>1. ReadLine[r] = [r EXCEPT !.at = "hung"]
    BY <1>1, <1>3 DEF ReadLine
  <2>2. ReadLine[r].offset = r.offset
    BY <1>1, <2>1 DEF ReadState
  <2> QED BY <1>0, <1>1, <1>3, <2>2 DEF NearText
<1>4. CASE r.at = "line" /\ ~(FileSize - r.offset < BufSize) /\ file[r.offset] = Erased
  <2>1. ReadLine[r] = [r EXCEPT !.at = "end"]
    BY <1>1, <1>4 DEF ReadLine
  <2>2. ReadLine[r].offset = r.offset /\ ReadLine[r].at = "end"
    BY <1>1, <2>1 DEF ReadState
  <2> QED BY <1>0, <1>1, <2>2 DEF NearText
<1>5. CASE r.at = "line" /\ ~(FileSize - r.offset < BufSize) /\ file[r.offset] # Erased
  <2> DEFINE ends == {a \in r.offset .. r.offset + BufSize - 1 : LineEnd(file[a])}
             end  == IF ends = {} THEN r.offset + BufSize - 1 ELSE Min(ends)
             last == IF file[end] = Erased THEN end - 1 ELSE end
             text == [k \in 1 .. last - r.offset + 1 |-> file[r.offset + k - 1]]
             conf == settings_parse(text, r.conf)
  <2>1. ReadLine[r] = [r EXCEPT !.offset = end + 1, !.conf = conf]
    BY <1>1, <1>5 DEF ReadLine
  <2> HIDE DEF conf
  <2>2. r.offset \in Offsets /\ r.offset < e
    <3>1. r.offset \in Offsets
      BY <1>1, <1>5, FileNumbers DEF Offsets
    <3> QED BY <1>1, <1>5, <3>1 DEF Layout
  <2>3. end <= e /\ end \in Int
    <3>1. CASE e \in r.offset .. r.offset + BufSize - 1
      <4>1. e \in ends
        <5>1. e \in Offsets /\ ~(e < e)
          BY <1>1, <1>5, <3>1, FileNumbers DEF Offsets
        <5>2. file[e] = Erased
          BY <5>1 DEF Layout
        <5> QED BY <3>1, <5>2 DEF LineEnd
      <4>2. ends \subseteq Nat
        BY <1>1
      <4>3. \E m \in ends : \A k \in ends : m <= k
        <5> HIDE DEF ends
        <5> QED BY <4>1, <4>2, Least
      <4>4. Min(ends) \in ends /\ \A k \in ends : Min(ends) <= k
        <5> HIDE DEF ends
        <5> QED BY <4>3 DEF Min
      <4>5. end = Min(ends)
        BY <4>1
      <4>6. Min(ends) \in Nat /\ Min(ends) <= e
        BY <4>1, <4>2, <4>4
      <4> HIDE DEF end, ends, last, text
      <4> QED BY <4>5, <4>6
    <3>2. CASE e \notin r.offset .. r.offset + BufSize - 1
      <4>1. end \in r.offset .. r.offset + BufSize - 1
        <5>1. CASE ends = {}
          BY <1>1, <5>1, FileNumbers
        <5>2. CASE ends # {}
          <6>1. ends \subseteq Nat
            BY <1>1
          <6>2. \E m \in ends : \A k \in ends : m <= k
            <7> HIDE DEF ends
            <7> QED BY <5>2, <6>1, Least
          <6>3. Min(ends) \in ends
            <7> HIDE DEF ends
            <7> QED BY <6>2 DEF Min
          <6>4. end = Min(ends)
            BY <5>2
          <6> HIDE DEF end
          <6> QED BY <6>3, <6>4
        <5> QED BY <5>1, <5>2
      <4> HIDE DEF end
      <4> QED BY <1>1, <2>2, <3>2, <4>1, FileNumbers
    <3> QED BY <3>1, <3>2
  <2> HIDE DEF end
  <2>4. ReadLine[r].offset = end + 1 /\ ReadLine[r].at = "line"
    BY <1>1, <1>5, <2>1 DEF ReadState
  <2> QED BY <1>0, <1>1, <2>3, <2>4 DEF NearText
<1> QED BY <1>2, <1>3, <1>4, <1>5

LEMMA ReadingStaysNear ==
    ASSUME NEW z, NEW e, NEW v \in Config, Layout(z, e, v)
    PROVE  Reading(z) \in NearText(e)
<1> DEFINE start == [offset |-> z, conf |-> settings_default, at |-> "line"]
           n == FileSize + 1
           inv == [k \in Nat |-> Parsing(z, v) \cap NearText(e)]
<1>1. start \in inv[0]
  <2>1. z \in 0 .. FileSize /\ e \in 0 .. FileSize /\ z <= e
    BY DEF Layout
  <2>2. settings_default \in Config /\ Mixture(v, settings_default)
    BY FileAssumption DEF Config, settings_default, Mixture
  <2>3. start \in ReadState /\ start.offset = z /\ start.at = "line"
        /\ start.conf = settings_default
    BY <2>1, <2>2 DEF ReadState
  <2> HIDE DEF start
  <2>4. start \in Parsing(z, v)
    BY <2>1, <2>2, <2>3 DEF Parsing
  <2>5. start \in NearText(e)
    BY <2>1, <2>3, FileNumbers DEF NearText
  <2> QED BY <2>4, <2>5
<1>2. n \in Nat
  BY FileNumbers
<1>3. ASSUME NEW k \in 0 .. n, NEW x \in inv[k]
      PROVE  ReadLine[x] \in inv[k + 1]
  <2>1. k \in Nat /\ k + 1 \in Nat
    BY <1>2
  <2> QED BY <2>1, ReadLineKeeps, ReadLineStaysNear
<1>4. Iterate(ReadLine, start, n) \in inv[n]
  <2> HIDE DEF start, n, inv
  <2> QED BY <1>1, <1>2, <1>3, LoopInvariant
<1> QED BY <1>2, <1>4 DEF Reading

\* settings_init can hang (settings.cpp:235-247) only if the text reaches the
\* last cells of the file, those of its last buffer and the one in front.
THEOREM HangsOnlyNearFileEnd ==
    FileSpec => [][file_pc = "boot" /\ file_pc' = "hung" =>
                       FileSize <= BufSize \/ file[FileSize - BufSize - 1] # Erased]_fileVars
<1>1. ASSUME FileIInv, [FileNext]_fileVars, file_pc = "boot", file_pc' = "hung",
             ~(FileSize <= BufSize)
      PROVE  file[FileSize - BufSize - 1] # Erased
  <2>1. settings_init
    BY <1>1
    DEF FileNext, settings_init_no_file, conf_item, conf_defaults, settings_write,
        FillCell, Filled, PrintCell, PrintAgain, WriteDone, FileReset, fileVars
  <2>2. ReadFile.at = "hung"
    BY <1>1, <2>1 DEF settings_init
  <2>3. PICK z \in 0 .. FileSize, e \in 0 .. FileSize, v \in versions : Layout(z, e, v)
    BY <1>1 DEF FileIInv
  <2>4. v \in Config
    BY <1>1 DEF FileIInv, FileTypeOK
  <2> DEFINE found == flash_find_byte(Zero, TRUE)
             from  == found + 1
  <2>5. found = z - 1
    BY <2>3, SearchesFind, Zenon
  <2>6. ReadFile = Reading(from)
    BY DEF ReadFile
  <2> HIDE DEF found
  <2>7. from = z
    BY <2>3, <2>5
  <2> HIDE DEF from
  <2>8. Reading(z) \in NearText(e) /\ Reading(z).at = "hung"
    BY <2>2, <2>3, <2>4, <2>6, <2>7, ReadingStaysNear
  <2>9. FileSize - BufSize - 1 \in Offsets /\ FileSize - BufSize - 1 < e
    <3>1. /\ Reading(z).offset \in 0 .. FileSize /\ Reading(z).offset <= e + 1
          /\ FileSize - Reading(z).offset < BufSize
      BY <2>8 DEF NearText, ReadState
    <3> QED BY <1>1, <2>3, <3>1, FileNumbers DEF Offsets
  <2>10. file[FileSize - BufSize - 1] = Zero \/ file[FileSize - BufSize - 1] \in Text(v)
    BY <2>3, <2>9 DEF Layout
  <2> QED BY <2>10, CellsDiffer
<1>2. ASSUME FileIInv, [FileNext]_fileVars
      PROVE  [file_pc = "boot" /\ file_pc' = "hung" =>
                  FileSize <= BufSize \/ file[FileSize - BufSize - 1] # Erased]_fileVars
  BY <1>1, <1>2
<1> QED BY <1>2, FileLaidOut, PTL DEF FileSpec
-----------------------------------------------------------------------------
(* The editor: sequences.                                                  *)

LEMMA FrontProperties ==
    ASSUME NEW S, NEW u \in Seq(S), Len(u) > 0
    PROVE  /\ Front(u) \in Seq(S) /\ Len(Front(u)) = Len(u) - 1
           /\ \A i \in 1 .. Len(u) - 1 : Front(u)[i] = u[i]
<1>1. Len(u) \in Nat /\ \A i \in 1 .. Len(u) - 1 : u[i] \in S
  BY LenProperties, ElementOfSeq
<1> DEFINE n == Len(u) - 1
<1>2. n \in Nat /\ \A i \in 1 .. n : u[i] \in S
  BY <1>1
<1> HIDE DEF n
<1>3. /\ SubSeq(u, 1, n) \in Seq(S) /\ Len(SubSeq(u, 1, n)) = n
      /\ \A i \in 1 .. n : SubSeq(u, 1, n)[i] = u[i]
  BY <1>2, SubSeqProperties
<1> QED BY <1>3 DEF Front, n

LEMMA FrontOfConcat ==
    ASSUME NEW S, NEW t \in Seq(S), NEW u \in Seq(S), Len(u) > 0
    PROVE  t \o Front(u) = Front(t \o u)
<1> DEFINE w == t \o u
           f == Front(u)
           a == t \o f
           b == Front(w)
<1>1. Len(u) \in Nat /\ Len(t) \in Nat
  BY LenProperties
<1>2. /\ w \in Seq(S) /\ Len(w) = Len(t) + Len(u)
      /\ \A i \in 1 .. Len(t) + Len(u) : w[i] = IF i <= Len(t) THEN t[i] ELSE u[i - Len(t)]
  BY ConcatProperties
<1> HIDE DEF w
<1>3. f \in Seq(S) /\ Len(f) = Len(u) - 1 /\ \A i \in 1 .. Len(u) - 1 : f[i] = u[i]
  BY FrontProperties
<1> HIDE DEF f
<1>4. /\ a \in Seq(S) /\ Len(a) = Len(t) + Len(f)
      /\ \A i \in 1 .. Len(t) + Len(f) : a[i] = IF i <= Len(t) THEN t[i] ELSE f[i - Len(t)]
  BY <1>3, ConcatProperties
<1> HIDE DEF a
<1>5. /\ b \in Seq(S) /\ Len(b) = Len(w) - 1
      /\ \A i \in 1 .. Len(w) - 1 : b[i] = w[i]
  <2>1. Len(w) > 0
    BY <1>1, <1>2
  <2> QED BY <1>2, <2>1, FrontProperties
<1> HIDE DEF b
<1>8. Len(a) = Len(t) + Len(u) - 1 /\ Len(b) = Len(a) /\ Len(a) \in Nat
  BY <1>1, <1>2, <1>3, <1>4, <1>5
<1>6. ASSUME NEW i \in 1 .. Len(a) PROVE a[i] = b[i]
  <2>1. /\ i \in 1 .. Len(t) + Len(u) /\ i \in 1 .. Len(t) + Len(f) /\ i \in 1 .. Len(w) - 1
    BY <1>1, <1>2, <1>3, <1>8
  <2>2. CASE i <= Len(t)
    BY <1>2, <1>4, <1>5, <2>1, <2>2
  <2>3. CASE ~(i <= Len(t))
    <3>1. i - Len(t) \in 1 .. Len(u) - 1
      BY <1>1, <1>8, <2>3
    <3> QED BY <1>2, <1>3, <1>4, <1>5, <2>1, <2>3, <3>1
  <2> QED BY <2>2, <2>3
<1>7. a = b
  BY <1>4, <1>5, <1>8, <1>6, SeqEqual
<1> QED BY <1>7 DEF a, b, f, w

LEMMA FrontOfStart ==
    ASSUME NEW S, NEW t \in Seq(S), NEW n \in 1 .. Len(t)
    PROVE  Front(SubSeq(t, 1, n)) = SubSeq(t, 1, n - 1)
<1>1. Len(t) \in Nat /\ n \in Nat /\ \A i \in 1 .. Len(t) : t[i] \in S
  BY LenProperties
<1> DEFINE u == SubSeq(t, 1, n)
           x == SubSeq(t, 1, n - 1)
<1>2. u \in Seq(S) /\ Len(u) = n /\ \A i \in 1 .. n : u[i] = t[i]
  BY <1>1, SubSeqProperties
<1>3. x \in Seq(S) /\ Len(x) = n - 1 /\ \A i \in 1 .. n - 1 : x[i] = t[i]
  BY <1>1, SubSeqProperties
<1> HIDE DEF u, x
<1>4. Front(u) \in Seq(S) /\ Len(Front(u)) = n - 1 /\ \A i \in 1 .. n - 1 : Front(u)[i] = t[i]
  <2>1. \A i \in 1 .. n - 1 : u[i] \in S
    BY <1>1, <1>2
  <2> QED BY <1>1, <1>2, <2>1, SubSeqProperties DEF Front
<1>5. Front(u) = x
  BY <1>3, <1>4, SeqEqual
<1> QED BY <1>5 DEF u, x

\* Storing a character behind n characters of a section.
LEMMA StoreInSection ==
    ASSUME NEW S, NEW size \in Nat, NEW f \in [1 .. size -> S], NEW n \in 0 .. size - 1, NEW c \in S
    PROVE  /\ SubSeq(f, 1, n) \in Seq(S) /\ Len(SubSeq(f, 1, n)) = n
           /\ SubSeq([f EXCEPT ![n + 1] = c], 1, n + 1) = Append(SubSeq(f, 1, n), c)
<1> DEFINE u == SubSeq(f, 1, n)
           g == [f EXCEPT ![n + 1] = c]
           x == SubSeq(g, 1, n + 1)
<1>1. u \in Seq(S) /\ Len(u) = n /\ \A i \in 1 .. n : u[i] = f[i]
  BY SubSeqProperties
<1>2. \A i \in 1 .. n + 1 : g[i] \in S /\ g[i] = IF i = n + 1 THEN c ELSE f[i]
  OBVIOUS
<1> HIDE DEF g
<1>3. x \in Seq(S) /\ Len(x) = n + 1 /\ \A i \in 1 .. n + 1 : x[i] = g[i]
  BY <1>2, SubSeqProperties
<1> HIDE DEF u, x
<1>4. /\ Append(u, c) \in Seq(S) /\ Len(Append(u, c)) = n + 1
      /\ \A i \in 1 .. n + 1 : Append(u, c)[i] = IF i = n + 1 THEN c ELSE f[i]
  BY <1>1, AppendProperties
<1>5. x = Append(u, c)
  <2> DEFINE y == Append(u, c)
  <2>1. /\ x \in Seq(S) /\ y \in Seq(S) /\ Len(x) = Len(y)
        /\ \A i \in 1 .. Len(x) : x[i] = y[i]
    BY <1>2, <1>3, <1>4
  <2> HIDE DEF y
  <2>2. x = y
    BY <2>1, SeqEqual
  <2> QED BY <2>2 DEF y
<1> QED BY <1>1, <1>5 DEF g, u, x

LEMMA AppendOfConcat ==
    ASSUME NEW S, NEW t \in Seq(S), NEW u \in Seq(S), NEW c \in S
    PROVE  t \o Append(u, c) = Append(t \o u, c)
BY AppendIsConcat, ConcatAssociative, ConcatProperties, ElementOfSeq

LEMMA WholeSection ==
    ASSUME NEW S, NEW size \in Nat, NEW f \in [1 .. size -> S]
    PROVE  f \in Seq(S) /\ Len(f) = size /\ SubSeq(f, 1, size) = f
<1>1. f \in Seq(S)
  BY SeqDef
<1>2. Len(f) = size
  BY <1>1
<1> QED BY <1>1, <1>2, SubSeqFull

-----------------------------------------------------------------------------
(* What is unwritten at a position in the two sections.                    *)

Positions == [section : 0 .. 1, index : 0 .. WRITE_BUF_SIZE - 1]

UnwrittenAt(at) ==
    (IF at.section = last_write THEN buf[Other(at.section)] ELSE <<>>)
        \o BufferedUpTo(at.section, at.index)

\* end_sequence_i characters of the end sequence have come and are unwritten.
EndSeen ==
    undisturbed =>
        /\ Len(Unwritten) >= end_sequence_i /\ Len(shown) >= end_sequence_i
        /\ \A k \in 1 .. end_sequence_i :
               shown[Len(shown) - end_sequence_i + k] = end_sequence[k]

EdIInv ==
    /\ EdTypeOK
    /\ ed_mode => written \o Unwritten = shown /\ EndSeen

LEMMA EditorNumbers ==
    WRITE_BUF_SIZE \in Nat /\ WRITE_BUF_SIZE >= 2
BY EditorAssumption

LEMMA SectionType ==
    ASSUME EdTypeOK, NEW sec \in 0 .. 1
    PROVE  /\ Other(sec) \in 0 .. 1 /\ Other(sec) # sec /\ Other(Other(sec)) = sec
           /\ buf[sec] \in [1 .. WRITE_BUF_SIZE -> Char]
           /\ buf[sec] \in Seq(Char) /\ Len(buf[sec]) = WRITE_BUF_SIZE
<1>1. buf[sec] \in [1 .. WRITE_BUF_SIZE -> Char]
  BY DEF EdTypeOK
<1> QED BY <1>1, WholeSection, EditorNumbers DEF Other

LEMMA BufferedType ==
    ASSUME EdTypeOK, NEW sec \in 0 .. 1, NEW n \in 0 .. WRITE_BUF_SIZE
    PROVE  BufferedUpTo(sec, n) \in Seq(Char) /\ Len(BufferedUpTo(sec, n)) = n
<1>1. buf[sec] \in [1 .. WRITE_BUF_SIZE -> Char]
  BY SectionType
<1> DEFINE f == buf[sec]
<1> HIDE DEF f
<1>2. \A i \in 1 .. n : f[i] \in Char
  BY <1>1, EditorNumbers DEF f
<1>3. SubSeq(f, 1, n) \in Seq(Char) /\ Len(SubSeq(f, 1, n)) = n
  BY <1>2, EditorNumbers, SubSeqProperties
<1> QED BY <1>3 DEF BufferedUpTo, f

LEMMA UnwrittenType ==
    ASSUME EdTypeOK, NEW at \in Positions
    PROVE  /\ UnwrittenAt(at) \in Seq(Char)
           /\ Len(UnwrittenAt(at)) =
                  (IF at.section = last_write THEN WRITE_BUF_SIZE ELSE 0) + at.index
<1> DEFINE x == BufferedUpTo(at.section, at.index)
<1>1. at.section \in 0 .. 1 /\ at.index \in 0 .. WRITE_BUF_SIZE /\ at.index \in Nat
  BY EditorNumbers DEF Positions
<1>2. x \in Seq(Char) /\ Len(x) = at.index
  BY <1>1, BufferedType
<1> HIDE DEF x
<1>3. CASE at.section = last_write
  <2> DEFINE f == buf[Other(at.section)]
  <2>1. f \in Seq(Char) /\ Len(f) = WRITE_BUF_SIZE
    BY <1>1, SectionType
  <2>2. UnwrittenAt(at) = f \o x
    BY <1>3 DEF UnwrittenAt, x
  <2> HIDE DEF f
  <2>3. f \o x \in Seq(Char) /\ Len(f \o x) = Len(f) + Len(x)
    BY <1>2, <2>1, ConcatProperties
  <2>4. Len(f) + Len(x) = WRITE_BUF_SIZE + at.index
    BY <1>2, <2>1
  <2> QED BY <1>3, <2>2, <2>3, <2>4
<1>4. CASE at.section # last_write
  <2>1. UnwrittenAt(at) = x
    BY <1>2, <1>4, ConcatEmptySeq DEF UnwrittenAt, x
  <2> QED BY <1>1, <1>2, <1>4, <2>1
<1> QED BY <1>3, <1>4

\* backspace() takes the last unwritten character off, if there is one.
LEMMA BackDrops ==
    ASSUME EdTypeOK, NEW at \in Positions
    PROVE  /\ Back(at) \in Positions
           /\ Back(at) = at <=> Len(UnwrittenAt(at)) = 0
           /\ Back(at) # at => UnwrittenAt(Back(at)) = Front(UnwrittenAt(at))
<1>1. /\ at.section \in 0 .. 1 /\ at.index \in 0 .. WRITE_BUF_SIZE - 1 /\ at.index \in Nat
      /\ at = [section |-> at.section, index |-> at.index]
  BY EditorNumbers DEF Positions
<1>2. Len(UnwrittenAt(at)) = (IF at.section = last_write THEN WRITE_BUF_SIZE ELSE 0) + at.index
  BY UnwrittenType
<1>3. CASE at.index > 0
  <2>1. Back(at) = [section |-> at.section, index |-> at.index - 1]
    BY <1>1, <1>3 DEF Back, Positions
  <2>2. Back(at) \in Positions /\ Back(at) # at /\ Len(UnwrittenAt(at)) > 0
    BY <1>1, <1>2, <1>3, <2>1, EditorNumbers DEF Positions
  <2> DEFINE t == IF at.section = last_write THEN buf[Other(at.section)] ELSE <<>>
             f == buf[at.section]
             n == at.index
  <2>3. t \in Seq(Char)
    BY <1>1, SectionType, EmptySeq
  <2>4. f \in Seq(Char) /\ Len(f) = WRITE_BUF_SIZE /\ n \in 1 .. WRITE_BUF_SIZE
    BY <1>1, <1>3, SectionType
  <2>5. UnwrittenAt(at) = t \o SubSeq(f, 1, n) /\ UnwrittenAt(Back(at)) = t \o SubSeq(f, 1, n - 1)
    <3>1. UnwrittenAt(at) = t \o SubSeq(f, 1, n)
      BY DEF UnwrittenAt, BufferedUpTo
    <3>2. Back(at).section = at.section /\ Back(at).index = n - 1
      BY <2>1
    <3>3. UnwrittenAt(Back(at)) = t \o SubSeq(f, 1, n - 1)
      BY <3>2, Zenon DEF UnwrittenAt, BufferedUpTo
    <3> QED BY <3>1, <3>3
  <2>6. SubSeq(f, 1, n) \in Seq(Char) /\ Len(SubSeq(f, 1, n)) = n
    BY <1>1, BufferedType, EditorNumbers DEF BufferedUpTo
  <2> HIDE DEF t, f, n
  <2>7. Front(SubSeq(f, 1, n)) = SubSeq(f, 1, n - 1)
    BY <2>4, FrontOfStart
  <2>8. t \o Front(SubSeq(f, 1, n)) = Front(t \o SubSeq(f, 1, n))
    <3>1. Len(SubSeq(f, 1, n)) > 0
      BY <2>4, <2>6
    <3> QED BY <2>3, <2>6, <3>1, FrontOfConcat
  <2>9. UnwrittenAt(Back(at)) = Front(UnwrittenAt(at))
    BY <2>5, <2>7, <2>8, Zenon
  <2> QED BY <2>2, <2>9
<1>4. CASE at.index = 0 /\ at.section = last_write
  <2> DEFINE sec == Other(at.section)
  <2>1. Back(at) = [section |-> sec, index |-> WRITE_BUF_SIZE - 1]
    BY <1>1, <1>4 DEF Back, PastSection
  <2>2. sec \in 0 .. 1 /\ sec # at.section
    BY <1>1, SectionType
  <2>3. Back(at) \in Positions /\ Back(at) # at /\ Len(UnwrittenAt(at)) > 0
    BY <1>1, <1>2, <1>4, <2>1, <2>2, EditorNumbers DEF Positions
  <2> DEFINE f == buf[sec]
  <2>4. /\ f \in Seq(Char) /\ Len(f) = WRITE_BUF_SIZE /\ SubSeq(f, 1, WRITE_BUF_SIZE) = f
        /\ BufferedUpTo(sec, WRITE_BUF_SIZE - 1) = SubSeq(f, 1, WRITE_BUF_SIZE - 1)
        /\ BufferedUpTo(sec, WRITE_BUF_SIZE - 1) \in Seq(Char)
    <3>1. buf[sec] \in [1 .. WRITE_BUF_SIZE -> Char]
      BY <2>2, SectionType
    <3> QED BY <2>2, <3>1, WholeSection, BufferedType, EditorNumbers DEF BufferedUpTo
  <2>5. UnwrittenAt(at) = f
    <3>1. BufferedUpTo(at.section, 0) = <<>>
      BY SubSeqEmpty DEF BufferedUpTo
    <3>2. UnwrittenAt(at) = f \o <<>>
      BY <1>4, <3>1 DEF UnwrittenAt
    <3> QED BY <2>4, <3>2, ConcatEmptySeq
  <2>6. UnwrittenAt(Back(at)) = SubSeq(f, 1, WRITE_BUF_SIZE - 1)
    <3>1. UnwrittenAt(Back(at)) = <<>> \o BufferedUpTo(sec, WRITE_BUF_SIZE - 1)
      BY <1>4, <2>1, <2>2 DEF UnwrittenAt
    <3> QED BY <2>4, <3>1, ConcatEmptySeq
  <2>7. Front(f) = SubSeq(f, 1, WRITE_BUF_SIZE - 1)
    BY <2>4 DEF Front
  <2> QED BY <2>3, <2>5, <2>6, <2>7
<1>5. CASE ~(at.index > 0) /\ ~(at.index = 0 /\ at.section = last_write)
  <2>1. Back(at) = at
    BY <1>5 DEF Back, PastSection
  <2> QED BY <1>1, <1>2, <1>5, <2>1
<1> QED BY <1>3, <1>4, <1>5

-----------------------------------------------------------------------------
(* The editor, action by action.                                           *)

LEMMA PositionType ==
    ASSUME EdTypeOK
    PROVE  /\ Position \in Positions /\ Position.section = section /\ Position.index = index
           /\ Unwritten = UnwrittenAt(Position)
BY DEF EdTypeOK, Position, Positions, Unwritten, UnwrittenAt

LEMMA EdInitIInv == EdInit => EdIInv
<1> SUFFICES ASSUME EdInit PROVE EdIInv
  OBVIOUS
<1>1. <<>> \in Seq(Char)
  BY EmptySeq
<1>2. EdTypeOK
  BY <1>1, EditorNumbers DEF EdInit, EdTypeOK, Char
<1> QED BY <1>2 DEF EdInit, EdIInv

LEMMA BackspaceKeeps == EdIInv /\ Backspace => EdIInv'
<1> SUFFICES ASSUME EdIInv, Backspace PROVE EdIInv'
  OBVIOUS
<1> DEFINE at == Back(Position)
<1>1. /\ EdTypeOK /\ shown \in Seq(Char) /\ written \in Seq(Char)
      /\ section' = at.section /\ index' = at.index
      /\ shown' = IF at = Position \/ shown = <<>> THEN shown ELSE Front(shown)
      /\ undisturbed' = (undisturbed /\ end_sequence_i = 0)
      /\ UNCHANGED <<ed_mode, ed_pass, last_write, buf, end_sequence_i, written>>
  BY DEF EdIInv, EdTypeOK, Backspace, MoveTo
<1>2. /\ at \in Positions
      /\ at = Position <=> Len(Unwritten) = 0
      /\ at # Position => UnwrittenAt(at) = Front(Unwritten)
      /\ Position \in Positions /\ Unwritten = UnwrittenAt(Position)
  BY <1>1, PositionType, BackDrops
<1> HIDE DEF at
<1>3. Unwritten' = UnwrittenAt(at)
  BY <1>1 DEF Unwritten, UnwrittenAt, BufferedUpTo
<1>4. shown' \in Seq(Char)
  <2>1. CASE shown # <<>>
    <3>1. Len(shown) > 0
      BY <1>1, <2>1, EmptySeq
    <3> QED BY <1>1, <3>1, FrontProperties
  <2>2. CASE shown = <<>>
    BY <1>1, <2>2
  <2> QED BY <2>1, <2>2
<1>5. EdTypeOK'
  BY <1>1, <1>2, <1>4 DEF EdTypeOK, Positions
<1>6. Unwritten \in Seq(Char) /\ Len(Unwritten) \in Nat
  BY <1>1, <1>2, UnwrittenType, LenProperties
<1>7. ASSUME ed_mode
      PROVE  written' \o Unwritten' = shown'
  <2>1. written \o Unwritten = shown
    BY <1>7 DEF EdIInv
  <2>2. CASE at = Position
    BY <1>1, <1>2, <1>3, <2>1, <2>2
  <2>3. CASE at # Position
    <3>1. Len(Unwritten) > 0
      BY <1>2, <1>6, <2>3
    <3>2. written \o Front(Unwritten) = Front(shown)
      BY <1>1, <1>6, <2>1, <3>1, FrontOfConcat
    <3>3. shown # <<>>
      <4>1. Len(shown) = Len(written) + Len(Unwritten) /\ Len(written) \in Nat
        BY <1>1, <1>6, <2>1, ConcatProperties, LenProperties
      <4>2. Len(shown) > 0
        BY <1>6, <3>1, <4>1
      <4> QED BY <4>2
    <3> QED BY <1>1, <1>2, <1>3, <2>3, <3>2, <3>3
  <2> QED BY <2>2, <2>3
<1>8. EndSeen'
  <2>1. undisturbed' => end_sequence_i' = 0
    BY <1>1
  <2>2. Unwritten' \in Seq(Char)
    BY <1>1, <1>2, <1>3, UnwrittenType
  <2>3. Len(Unwritten') \in Nat /\ Len(shown') \in Nat
    BY <1>4, <2>2, LenProperties
  <2> QED BY <2>1, <2>3 DEF EndSeen
<1> QED BY <1>1, <1>5, <1>7, <1>8 DEF EdIInv

\* Where end_sequence_i stands, and what the character was if it is not 0.
LEMMA MatchedType ==
    ASSUME EdTypeOK, NEW c
    PROVE  /\ Matched(c) \in 0 .. 3
           /\ Matched(c) = 1 => c = end_sequence[1]
           /\ Matched(c) = 2 => c = end_sequence[2] /\ end_sequence_i = 1
           /\ Matched(c) = 3 => c = end_sequence[3] /\ end_sequence_i = 2
           /\ Len(end_sequence) = 3
<1>1. end_sequence_i \in {0, 1, 2}
  BY DEF EdTypeOK
<1>2. CASE c = end_sequence[end_sequence_i + 1]
  <2>1. Matched(c) = end_sequence_i + 1
    BY <1>2 DEF Matched
  <2> QED BY <1>1, <1>2, <2>1 DEF end_sequence
<1>3. CASE c # end_sequence[end_sequence_i + 1]
  <2>1. Matched(c) = IF c = end_sequence[1] THEN 1 ELSE 0
    BY <1>3 DEF Matched
  <2> QED BY <2>1 DEF end_sequence
<1> QED BY <1>2, <1>3

\* A stored character is what is unwritten at the end.
LEMMA StoreAppends ==
    ASSUME EdTypeOK, NEW c \in Char, StoreChar(c)
    PROVE  /\ buf' \in [0 .. 1 -> [1 .. WRITE_BUF_SIZE -> Char]]
           /\ section' \in 0 .. 1 /\ last_write' \in 0 .. 1
           /\ index' \in 0 .. WRITE_BUF_SIZE - 1
           /\ written' \in Seq(Char) /\ Unwritten' \in Seq(Char)
           /\ written' \o Unwritten' = Append(written \o Unwritten, c)
           /\ Len(Unwritten') >= 2 \/ Len(Unwritten') = Len(Unwritten) + 1
<1> USE EditorNumbers
<1> DEFINE other == Other(section)
           x == BufferedUpTo(section, index)
           f == buf[section]
           g == [f EXCEPT ![index + 1] = c]
           d == buf[other]
<1>1. /\ section \in 0 .. 1 /\ index \in 0 .. WRITE_BUF_SIZE - 1 /\ last_write \in 0 .. 1
      /\ written \in Seq(Char) /\ buf \in [0 .. 1 -> [1 .. WRITE_BUF_SIZE -> Char]]
  BY DEF EdTypeOK
<1>2. other \in 0 .. 1 /\ other # section /\ Other(other) = section
  BY <1>1, SectionType
<1>3. /\ f \in [1 .. WRITE_BUF_SIZE -> Char]
      /\ d \in Seq(Char) /\ Len(d) = WRITE_BUF_SIZE
  BY <1>1, <1>2, SectionType
<1>4. x \in Seq(Char) /\ Len(x) = index
  <2>1. index \in 0 .. WRITE_BUF_SIZE
    BY <1>1
  <2> QED BY <1>1, <2>1, BufferedType
<1>5. g \in [1 .. WRITE_BUF_SIZE -> Char] /\ SubSeq(g, 1, index + 1) = Append(x, c)
  <2> HIDE DEF f
  <2>1. g \in [1 .. WRITE_BUF_SIZE -> Char]
    BY <1>1, <1>3
  <2>2. SubSeq(g, 1, index + 1) = Append(SubSeq(f, 1, index), c)
    BY <1>1, <1>3, StoreInSection
  <2>3. x = SubSeq(f, 1, index)
    BY DEF BufferedUpTo, f
  <2> QED BY <2>1, <2>2, <2>3
<1>6. /\ buf' \in [0 .. 1 -> [1 .. WRITE_BUF_SIZE -> Char]]
      /\ buf'[section] = g /\ buf'[other] = d
  <2>1. buf' = [buf EXCEPT ![section] = g]
    BY DEF StoreChar
  <2> HIDE DEF g
  <2> QED BY <1>1, <1>2, <1>5, <2>1
<1>7. Append(x, c) \in Seq(Char) /\ Len(Append(x, c)) = index + 1
  BY <1>4, AppendProperties
<1>8. Unwritten = (IF section = last_write THEN d ELSE <<>>) \o x
  BY DEF Unwritten
<1> HIDE DEF x, f, g, d, other
<1>9. CASE index + 1 < WRITE_BUF_SIZE
  <2>1. /\ index' = index + 1 /\ section' = section /\ last_write' = last_write
        /\ written' = written
    BY <1>9 DEF StoreChar
  <2>2. index' \in 0 .. WRITE_BUF_SIZE - 1
    BY <1>1, <1>9, <2>1
  <2> DEFINE t == IF section = last_write THEN d ELSE <<>>
  <2>3. t \in Seq(Char)
    BY <1>3, EmptySeq
  <2>4. Unwritten' = t \o Append(x, c)
    BY <1>5, <1>6, <2>1 DEF Unwritten, BufferedUpTo, other
  <2>5. Unwritten = t \o x
    BY <1>8
  <2> HIDE DEF t
  <2>6. Unwritten' = Append(Unwritten, c)
    BY <1>4, <2>3, <2>4, <2>5, AppendOfConcat
  <2>7. Unwritten \in Seq(Char)
    BY <1>4, <2>3, <2>5, ConcatProperties
  <2>8. written' \o Unwritten' = Append(written \o Unwritten, c)
    BY <1>1, <2>1, <2>6, <2>7, AppendOfConcat
  <2>9. Unwritten' \in Seq(Char) /\ Len(Unwritten') = Len(Unwritten) + 1
    BY <2>6, <2>7, AppendProperties
  <2> QED BY <1>1, <1>6, <2>1, <2>2, <2>8, <2>9
<1>10. CASE ~(index + 1 < WRITE_BUF_SIZE)
  <2>1. index + 1 = WRITE_BUF_SIZE /\ section' = other /\ index' = 0
    BY <1>1, <1>10 DEF StoreChar, MoveTo, other
  <2>2. g = Append(x, c)
    BY <1>5, <2>1, WholeSection
  <2>3. BufferedUpTo(section, index)' = <<>>
    BY <2>1, SubSeqEmpty DEF BufferedUpTo
  <2>4. CASE section = last_write
    <3>1. written' = written \o d /\ last_write' = other
      BY <1>2, <1>6, <1>10, <2>4 DEF StoreChar, WritesOther, other
    <3>2. Unwritten' = g \o <<>>
      BY <1>2, <1>6, <2>1, <2>3, <3>1 DEF Unwritten
    <3>3. Unwritten' = Append(x, c)
      BY <1>7, <2>2, <3>2, ConcatEmptySeq
    <3>4. written' \in Seq(Char) /\ written' \o x = written \o Unwritten
      <4>1. Unwritten = d \o x
        BY <1>8, <2>4
      <4>2. written \o d \in Seq(Char)
        BY <1>1, <1>3, ConcatProperties
      <4>3. (written \o d) \o x = written \o (d \o x)
        BY <1>1, <1>3, <1>4, ConcatAssociative
      <4> QED BY <3>1, <4>1, <4>2, <4>3
    <3>5. written' \o Unwritten' = Append(written \o Unwritten, c)
      <4>1. written' \o Append(x, c) = Append(written' \o x, c)
        <5> DEFINE w == written'
        <5>1. w \in Seq(Char)
          BY <3>4
        <5> HIDE DEF w
        <5>2. w \o Append(x, c) = Append(w \o x, c)
          BY <1>4, <5>1, AppendOfConcat
        <5> QED BY <5>2 DEF w
      <4> QED BY <3>3, <3>4, <4>1, Zenon
    <3>6. Unwritten' \in Seq(Char) /\ Len(Unwritten') >= 2
      BY <1>1, <1>7, <2>1, <3>3
    <3>7. index' \in 0 .. WRITE_BUF_SIZE - 1
      BY <2>1
    <3> QED BY <1>2, <1>6, <2>1, <3>1, <3>4, <3>5, <3>6, <3>7
  <2>5. CASE section # last_write
    <3>1. written' = written /\ last_write' = last_write /\ other = last_write
      BY <1>1, <1>2, <1>10, <2>5 DEF StoreChar, WritesOther, other
    <3>2. Unwritten' = g \o <<>>
      BY <1>2, <1>6, <2>1, <2>3, <3>1 DEF Unwritten
    <3>3. Unwritten' = Append(x, c)
      BY <1>7, <2>2, <3>2, ConcatEmptySeq
    <3>4. Unwritten = x
      BY <1>4, <1>8, <2>5, ConcatEmptySeq
    <3>5. written' \o Unwritten' = Append(written \o Unwritten, c)
      BY <1>1, <1>4, <3>1, <3>3, <3>4, AppendOfConcat
    <3>6. Unwritten' \in Seq(Char) /\ Len(Unwritten') >= 2
      BY <1>1, <1>7, <2>1, <3>3
    <3>7. index' \in 0 .. WRITE_BUF_SIZE - 1
      BY <2>1
    <3> QED BY <1>1, <1>2, <1>6, <2>1, <3>1, <3>5, <3>6, <3>7
  <2> QED BY <2>4, <2>5
<1> QED BY <1>9, <1>10

LEMMA StoreKeeps ==
    ASSUME EdIInv, NEW c \in Char, StoreChar(c)
    PROVE  EdIInv'
<1>1. /\ EdTypeOK /\ shown \in Seq(Char) /\ written \in Seq(Char)
      /\ shown' = Append(shown, c) /\ end_sequence_i' = Matched(c)
      /\ Matched(c) < 3
      /\ undisturbed' = (undisturbed \/ Matched(c) < 2)
      /\ UNCHANGED <<ed_mode, ed_pass>>
  BY DEF EdIInv, EdTypeOK, StoreChar, end_sequence
<1>2. /\ buf' \in [0 .. 1 -> [1 .. WRITE_BUF_SIZE -> Char]]
      /\ section' \in 0 .. 1 /\ last_write' \in 0 .. 1
      /\ index' \in 0 .. WRITE_BUF_SIZE - 1
      /\ written' \in Seq(Char) /\ Unwritten' \in Seq(Char)
      /\ written' \o Unwritten' = Append(written \o Unwritten, c)
      /\ Len(Unwritten') >= 2 \/ Len(Unwritten') = Len(Unwritten) + 1
  BY <1>1, StoreAppends
<1>3. shown' \in Seq(Char) /\ Matched(c) \in 0 .. 2
  BY <1>1, MatchedType, AppendProperties
<1>4. EdTypeOK'
  <2>1. undisturbed' \in BOOLEAN
    BY <1>1
  <2>2. end_sequence_i' \in 0 .. 2
    BY <1>1, <1>3
  <2> QED BY <1>1, <1>2, <1>3, <2>1, <2>2 DEF EdTypeOK
<1>5. ASSUME ed_mode
      PROVE  written' \o Unwritten' = shown'
  BY <1>1, <1>2, <1>5 DEF EdIInv
<1>6. ASSUME ed_mode
      PROVE  EndSeen'
  <2>1. Unwritten \in Seq(Char) /\ Len(Unwritten) \in Nat /\ Len(Unwritten') \in Nat
    BY <1>1, <1>2, PositionType, UnwrittenType, LenProperties
  <2>2. /\ Len(shown) \in Nat /\ Len(shown') = Len(shown) + 1
        /\ shown'[Len(shown) + 1] = c
        /\ \A i \in 1 .. Len(shown) : shown'[i] = shown[i]
    BY <1>1, AppendProperties, LenProperties
  <2>3. CASE Matched(c) = 0
    <3>1. end_sequence_i' = 0
      BY <1>1, <2>3
    <3> QED BY <2>1, <2>2, <3>1 DEF EndSeen
  <2>4. CASE Matched(c) = 1
    <3>1. c = end_sequence[1]
      BY <1>1, <2>4, MatchedType
    <3>2. end_sequence_i' = 1 /\ Len(Unwritten') >= 1 /\ Len(shown') >= 1
      BY <1>1, <1>2, <2>1, <2>2, <2>4
    <3>3. \A k \in 1 .. 1 : shown'[Len(shown') - 1 + k] = end_sequence[k]
      <4> TAKE k \in 1 .. 1
      <4>1. k = 1 /\ Len(shown') - 1 + k = Len(shown) + 1
        BY <2>2
      <4> QED BY <2>2, <3>1, <4>1
    <3> QED BY <3>2, <3>3 DEF EndSeen
  <2>5. CASE Matched(c) = 2
    <3>1. c = end_sequence[2] /\ end_sequence_i = 1
      BY <1>1, <2>5, MatchedType
    <3>2. SUFFICES ASSUME undisturbed'
                   PROVE  /\ Len(Unwritten') >= 2 /\ Len(shown') >= 2
                          /\ \A k \in 1 .. 2 : shown'[Len(shown') - 2 + k] = end_sequence[k]
      BY <1>1, <2>5 DEF EndSeen
    <3>3. undisturbed /\ EndSeen
      <4>1. ~(Matched(c) < 2)
        BY <2>5
      <4> QED BY <1>1, <1>6, <3>2, <4>1, Zenon DEF EdIInv
    <3>4. /\ Len(Unwritten) >= 1 /\ Len(shown) >= 1
          /\ shown[Len(shown) - 1 + 1] = end_sequence[1]
      BY <3>1, <3>3 DEF EndSeen
    <3>5. shown[Len(shown)] = end_sequence[1]
      BY <2>2, <3>4
    <3>6. Len(Unwritten') >= 2 /\ Len(shown') >= 2
      BY <1>2, <2>1, <2>2, <3>4
    <3>7. \A k \in 1 .. 2 : shown'[Len(shown') - 2 + k] = end_sequence[k]
      <4> TAKE k \in 1 .. 2
      <4>1. CASE k = 1
        <5>1. Len(shown') - 2 + k = Len(shown) /\ Len(shown) \in 1 .. Len(shown)
          BY <2>2, <3>4, <4>1
        <5> QED BY <2>2, <3>5, <4>1, <5>1
      <4>2. CASE k = 2
        <5>1. Len(shown') - 2 + k = Len(shown) + 1
          BY <2>2, <4>2
        <5> QED BY <2>2, <3>1, <4>2, <5>1
      <4> QED BY <4>1, <4>2
    <3> QED BY <3>6, <3>7
  <2> QED BY <1>3, <2>3, <2>4, <2>5
<1> QED BY <1>1, <1>4, <1>5, <1>6 DEF EdIInv

\* What Finish writes.
LEMMA FinishWrites ==
    ASSUME EdTypeOK, NEW c \in Char, Finish(c)
    PROVE  LET at == Back(Back(Position))
           IN  /\ at \in Positions /\ section' = at.section /\ index' = at.index
               /\ written' = written \o UnwrittenAt(at)
<1> DEFINE at == Back(Back(Position))
<1>1. at \in Positions
  BY PositionType, BackDrops
<1> DEFINE t == IF at.section = last_write THEN buf[Other(at.section)] ELSE <<>>
           x == BufferedUpTo(at.section, at.index)
<1>2. section' = at.section /\ index' = at.index /\ written' = (written \o t) \o x
  BY DEF Finish, MoveTo
<1>3. UnwrittenAt(at) = t \o x
  BY DEF UnwrittenAt
<1> HIDE DEF at
<1>4. at.section \in 0 .. 1 /\ at.index \in 0 .. WRITE_BUF_SIZE
  BY <1>1, EditorNumbers DEF Positions
<1>5. t \in Seq(Char) /\ x \in Seq(Char) /\ written \in Seq(Char)
  BY <1>4, SectionType, BufferedType, EmptySeq DEF EdTypeOK
<1> HIDE DEF t, x
<1>6. written' = written \o (t \o x)
  BY <1>2, <1>5, ConcatAssociative
<1> QED BY <1>1, <1>2, <1>3, <1>6 DEF at

LEMMA FinishKeeps ==
    ASSUME EdIInv, NEW c \in Char, Finish(c)
    PROVE  EdIInv'
<1> DEFINE at == Back(Back(Position))
<1>1. EdTypeOK
  BY DEF EdIInv
<1>2. /\ at \in Positions /\ section' = at.section /\ index' = at.index
      /\ written' = written \o UnwrittenAt(at)
  BY <1>1, FinishWrites
<1>3. /\ last_write' = (IF at.section = last_write THEN at.section ELSE last_write)
      /\ shown' = Append(shown, c) /\ end_sequence_i' = 0 /\ ed_mode' = FALSE
      /\ UNCHANGED <<ed_pass, buf, undisturbed>>
  BY DEF Finish
<1> HIDE DEF at
<1>4. written' \in Seq(Char) /\ shown' \in Seq(Char)
  <2>1. written \in Seq(Char) /\ shown \in Seq(Char) /\ UnwrittenAt(at) \in Seq(Char)
    BY <1>1, <1>2, UnwrittenType DEF EdTypeOK
  <2>2. written \o UnwrittenAt(at) \in Seq(Char)
    BY <2>1, ConcatProperties
  <2> QED BY <1>2, <1>3, <2>1, <2>2, AppendProperties
<1>5. EdTypeOK'
  <2>1. section' \in 0 .. 1 /\ index' \in 0 .. WRITE_BUF_SIZE - 1
    BY <1>2 DEF Positions
  <2>2. last_write' \in 0 .. 1
    BY <1>1, <1>2, <1>3 DEF EdTypeOK, Positions
  <2>3. end_sequence_i' \in 0 .. 2
    <3>1. end_sequence_i' = 0
      BY <1>3
    <3> QED BY <3>1
  <2>4. ed_mode' \in BOOLEAN
    BY <1>3, Zenon
  <2> QED BY <1>1, <1>3, <1>4, <2>1, <2>2, <2>3, <2>4 DEF EdTypeOK
<1> QED BY <1>3, <1>5 DEF EdIInv

LEMMA EdNextIInv ==
    ASSUME EdIInv, [EdNext]_edVars
    PROVE  EdIInv'
<1>1. CASE cmnd_ed
  <2>1. <<>> \in Seq(Char)
    BY EmptySeq
  <2>2. EdTypeOK'
    BY <1>1, <2>1, EditorNumbers DEF EdIInv, EdTypeOK, cmnd_ed, Char
  <2>3. Unwritten' = <<>>
    <3>1. BufferedUpTo(section, index)' = <<>>
      BY <1>1, SubSeqEmpty DEF cmnd_ed, BufferedUpTo
    <3>2. Unwritten' = <<>> \o <<>>
      BY <1>1, <3>1 DEF cmnd_ed, Unwritten
    <3> QED BY <2>1, <3>2, ConcatEmptySeq
  <2>4. written' \o Unwritten' = shown'
    BY <1>1, <2>1, <2>3, ConcatEmptySeq DEF cmnd_ed
  <2>5. EndSeen'
    <3>1. Len(Unwritten') = 0 /\ Len(shown') = 0 /\ end_sequence_i' = 0
      BY <1>1, <2>3, EmptySeq DEF cmnd_ed
    <3> QED BY <3>1 DEF EndSeen
  <2> QED BY <2>2, <2>4, <2>5 DEF EdIInv
<1>2. CASE CLI_loop \/ UNCHANGED edVars
  <2>1. /\ UNCHANGED <<ed_mode, section, index, last_write, buf, end_sequence_i, written,
                       shown, undisturbed>>
        /\ ed_pass' \in {ed_pass, ~ed_pass}
    BY <1>2 DEF CLI_loop, edVars
  <2>2. EdTypeOK'
    BY <2>1 DEF EdIInv, EdTypeOK
  <2>3. Unwritten' = Unwritten
    BY <2>1 DEF Unwritten, BufferedUpTo
  <2> QED BY <2>1, <2>2, <2>3 DEF EdIInv, EndSeen
<1> QED BY <1>1, <1>2, BackspaceKeeps, StoreKeeps, FinishKeeps DEF EdNext

-----------------------------------------------------------------------------
(* The end of the editor.                                                  *)

\* A character taken off the unwritten ones is taken off the text.
LEMMA TextAfterBack ==
    ASSUME EdTypeOK, NEW at \in Positions, NEW n \in 0 .. Len(shown),
           written \o UnwrittenAt(at) = SubSeq(shown, 1, n)
    PROVE  LET u == UnwrittenAt(at)
               m == IF Len(u) = 0 THEN n ELSE n - 1
           IN  /\ m \in 0 .. Len(shown)
               /\ written \o UnwrittenAt(Back(at)) = SubSeq(shown, 1, m)
               /\ Len(u) > 0 => Len(UnwrittenAt(Back(at))) = Len(u) - 1
<1> DEFINE u == UnwrittenAt(at)
<1>1. /\ u \in Seq(Char) /\ Len(u) \in Nat
      /\ Back(at) = at <=> Len(u) = 0
      /\ Back(at) # at => UnwrittenAt(Back(at)) = Front(u)
  BY UnwrittenType, BackDrops, LenProperties
<1>2. written \in Seq(Char) /\ shown \in Seq(Char) /\ Len(shown) \in Nat /\ Len(written) \in Nat
  BY LenProperties DEF EdTypeOK
<1>3. CASE Len(u) = 0
  BY <1>1, <1>3
<1>4. CASE Len(u) # 0
  <2>1. Len(u) > 0 /\ UnwrittenAt(Back(at)) = Front(u)
    BY <1>1, <1>4
  <2> HIDE DEF u
  <2>2. written \o Front(u) = Front(written \o u) /\ Len(Front(u)) = Len(u) - 1
    BY <1>1, <1>2, <2>1, FrontOfConcat, FrontProperties
  <2>3. n = Len(written) + Len(u)
    <3>1. Len(written \o u) = Len(written) + Len(u)
      BY <1>1, <1>2, ConcatProperties
    <3>2. \A i \in 1 .. n : shown[i] \in Char
      BY <1>2, ElementOfSeq
    <3>3. Len(SubSeq(shown, 1, n)) = n
      BY <1>2, <3>2, SubSeqProperties
    <3> QED BY <3>1, <3>3 DEF u
  <2>4. n \in 1 .. Len(shown)
    BY <1>1, <1>2, <2>1, <2>3
  <2>5. Front(SubSeq(shown, 1, n)) = SubSeq(shown, 1, n - 1)
    BY <1>2, <2>4, FrontOfStart
  <2>6. written \o UnwrittenAt(Back(at)) = SubSeq(shown, 1, n - 1)
    BY <2>1, <2>2, <2>5 DEF u
  <2>7. n - 1 \in 0 .. Len(shown)
    BY <1>2, <2>4
  <2> QED BY <1>4, <2>1, <2>2, <2>6, <2>7 DEF u
<1> QED BY <1>3, <1>4

LEMMA StartIsPrefix ==
    ASSUME NEW S, NEW t \in Seq(S), NEW c \in S, NEW m \in 0 .. Len(t)
    PROVE  /\ IsPrefix(SubSeq(t, 1, m), Append(t, c))
           /\ SubSeq(t, 1, m) \in Seq(S) /\ Len(SubSeq(t, 1, m)) = m
           /\ \A i \in 1 .. m : SubSeq(t, 1, m)[i] = t[i]
<1> DEFINE p == SubSeq(t, 1, m)
           w == Append(t, c)
<1>1. Len(t) \in Nat /\ \A i \in 1 .. m : t[i] \in S
  BY LenProperties, ElementOfSeq
<1>2. p \in Seq(S) /\ Len(p) = m /\ \A i \in 1 .. m : p[i] = t[i]
  BY <1>1, SubSeqProperties
<1>3. Len(w) = Len(t) + 1 /\ \A i \in 1 .. Len(t) : w[i] = t[i]
  BY AppendProperties
<1> HIDE DEF p, w
<1>4. \A i \in 1 .. m : w[i] \in S /\ w[i] = t[i]
  BY <1>1, <1>3
<1>5. SubSeq(w, 1, m) \in Seq(S) /\ Len(SubSeq(w, 1, m)) = m
      /\ \A i \in 1 .. m : SubSeq(w, 1, m)[i] = w[i]
  BY <1>1, <1>4, SubSeqProperties
<1>6. SubSeq(w, 1, m) = p
  BY <1>2, <1>4, <1>5, SeqEqual
<1>7. SubSeq(p, 1, m) = p
  BY <1>2, SubSeqFull
<1>8. IsPrefix(p, w)
  BY <1>1, <1>2, <1>3, <1>6, <1>7 DEF IsPrefix
<1> QED BY <1>2, <1>8 DEF p, w

LEMMA FinishWritesShown ==
    ASSUME EdIInv, ed_mode, NEW c \in Char, Finish(c)
    PROVE  IF undisturbed THEN written' \o end_sequence = shown'
                          ELSE IsPrefix(written', shown')
<1> DEFINE first == Back(Position)
           at == Back(first)
           n == Len(shown)
<1>1. /\ EdTypeOK /\ shown \in Seq(Char) /\ n \in Nat /\ written \in Seq(Char)
      /\ written \o Unwritten = shown /\ EndSeen /\ shown' = Append(shown, c)
  BY LenProperties DEF EdIInv, EdTypeOK, Finish
<1>2. /\ Position \in Positions /\ first \in Positions /\ at \in Positions
      /\ Unwritten = UnwrittenAt(Position)
  BY <1>1, PositionType, BackDrops
<1>3. written' = written \o UnwrittenAt(at)
  BY <1>1, FinishWrites
<1>4. SubSeq(shown, 1, n) = shown
  BY <1>1, SubSeqFull
<1> DEFINE m1 == IF Len(Unwritten) = 0 THEN n ELSE n - 1
           m2 == IF Len(UnwrittenAt(first)) = 0 THEN m1 ELSE m1 - 1
<1>5. /\ m1 \in 0 .. n
      /\ written \o UnwrittenAt(first) = SubSeq(shown, 1, m1)
      /\ Len(Unwritten) > 0 => Len(UnwrittenAt(first)) = Len(Unwritten) - 1
  <2>1. n \in 0 .. Len(shown) /\ written \o UnwrittenAt(Position) = SubSeq(shown, 1, n)
    BY <1>1, <1>2, <1>4
  <2> QED BY <1>1, <1>2, <2>1, TextAfterBack
<1> HIDE DEF m1
<1>6. m2 \in 0 .. n /\ written \o UnwrittenAt(at) = SubSeq(shown, 1, m2)
  BY <1>1, <1>2, <1>5, TextAfterBack
<1> HIDE DEF at, m2
<1>7. /\ written' = SubSeq(shown, 1, m2)
      /\ IsPrefix(written', shown')
      /\ written' \in Seq(Char) /\ Len(written') = m2
      /\ \A i \in 1 .. m2 : written'[i] = shown[i]
  BY <1>1, <1>3, <1>6, StartIsPrefix
<1>8. CASE undisturbed
  <2>1. c = end_sequence[3] /\ end_sequence_i = 2
    <3>1. Matched(c) = 3
      BY DEF Finish, end_sequence
    <3> QED BY <1>1, <3>1, MatchedType
  <2>2. Len(Unwritten) >= 2 /\ n >= 2
        /\ \A k \in 1 .. 2 : shown[n - 2 + k] = end_sequence[k]
    BY <1>1, <1>8, <2>1 DEF EndSeen
  <2>3. Len(Unwritten) \in Nat
    BY <1>1, <1>2, UnwrittenType, LenProperties
  <2>4. m2 = n - 2
    <3>1. m1 = n - 1
      BY <2>2, <2>3 DEF m1
    <3>2. Len(UnwrittenAt(first)) # 0
      BY <1>5, <2>2, <2>3
    <3> QED BY <1>1, <3>1, <3>2 DEF m2
  <2> DEFINE e == end_sequence
             w == written'
             a == w \o e
             b == Append(shown, c)
  <2>5. e \in Seq(Char) /\ Len(e) = 3
    BY DEF end_sequence, Char
  <2>6. w \in Seq(Char) /\ Len(w) = n - 2 /\ \A i \in 1 .. n - 2 : w[i] = shown[i]
    BY <1>7, <2>4
  <2> HIDE DEF e, w
  <2>7. /\ a \in Seq(Char) /\ Len(a) = n + 1
        /\ \A i \in 1 .. n + 1 : a[i] = IF i <= n - 2 THEN w[i] ELSE e[i - (n - 2)]
    <3>1. /\ a \in Seq(Char) /\ Len(a) = Len(w) + Len(e)
          /\ \A i \in 1 .. Len(w) + Len(e) : a[i] = IF i <= Len(w) THEN w[i] ELSE e[i - Len(w)]
      BY <2>5, <2>6, ConcatProperties
    <3>2. Len(w) + Len(e) = n + 1
      BY <1>1, <2>5, <2>6
    <3> HIDE DEF a
    <3> QED BY <2>6, <3>1, <3>2
  <2>8. /\ b \in Seq(Char) /\ Len(b) = n + 1
        /\ \A i \in 1 .. n : b[i] = shown[i]
        /\ b[n + 1] = c
    BY <1>1, AppendProperties
  <2> HIDE DEF a, b
  <2>9. ASSUME NEW i \in 1 .. n + 1 PROVE a[i] = b[i]
    <3>1. CASE i <= n - 2
      <4>1. i \in 1 .. n - 2 /\ i \in 1 .. n
        BY <1>1, <3>1
      <4> QED BY <2>6, <2>7, <2>8, <3>1, <4>1
    <3>2. CASE i = n - 1
      <4>1. ~(i <= n - 2) /\ i - (n - 2) = 1 /\ i \in 1 .. n /\ n - 2 + 1 = i
        BY <1>1, <2>2, <3>2
      <4>2. shown[n - 2 + 1] = end_sequence[1]
        BY <2>2
      <4> QED BY <2>7, <2>8, <4>1, <4>2 DEF e
    <3>3. CASE i = n
      <4>1. ~(i <= n - 2) /\ i - (n - 2) = 2 /\ i \in 1 .. n /\ n - 2 + 2 = i
        BY <1>1, <2>2, <3>3
      <4>2. shown[n - 2 + 2] = end_sequence[2]
        BY <2>2
      <4> QED BY <2>7, <2>8, <4>1, <4>2 DEF e
    <3>4. CASE i = n + 1
      <4>1. ~(i <= n - 2) /\ i - (n - 2) = 3
        BY <1>1, <3>4
      <4> QED BY <2>1, <2>7, <2>8, <3>4, <4>1 DEF e
    <3> QED BY <1>1, <2>2, <3>1, <3>2, <3>3, <3>4
  <2>10. a = b
    <3>1. \A i \in 1 .. Len(a) : a[i] = b[i]
      BY <2>7, <2>9
    <3> QED BY <2>7, <2>8, <3>1, SeqEqual
  <2> QED BY <1>1, <1>8, <2>10 DEF a, b, e, w
<1> QED BY <1>7, <1>8

\* The buffer of the editor never holds anything but the end of what the
\* terminal shows, for sections of any size and text of any length
\* (CLIeditor.cpp:6-113).
THEOREM EditorInvariant == EdSpec => []EdIInv
<1>1. EdInit => EdIInv
  BY EdInitIInv
<1>2. EdIInv /\ [EdNext]_edVars => EdIInv'
  BY EdNextIInv
<1> QED BY <1>1, <1>2, PTL DEF EdSpec

\* The file gets what the terminal shows without the end sequence, and nothing
\* but a beginning of what it shows when a character of it was erased again.
THEOREM EditorFile == EdSpec => FileGetsWhatIsShown
<1>1. EdIInv => (ed_mode => written \o Unwritten = shown)
  BY DEF EdIInv
<1>2. ASSUME EdIInv, [EdNext]_edVars
      PROVE  [ed_mode /\ ~ed_mode' =>
                 IF undisturbed THEN written' \o end_sequence = shown'
                                ELSE IsPrefix(written', shown')]_edVars
  <2>1. ASSUME NEW c \in Char, Finish(c), ed_mode
        PROVE  IF undisturbed THEN written' \o end_sequence = shown'
                              ELSE IsPrefix(written', shown')
    BY <1>2, <2>1, FinishWritesShown
  <2> QED BY <1>2, <2>1 DEF EdNext, cmnd_ed, CLI_loop, Backspace, StoreChar, edVars
<1> QED BY <1>1, <1>2, EditorInvariant, PTL DEF EdSpec, FileGetsWhatIsShown
=============================================================================
