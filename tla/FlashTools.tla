----------------------------- MODULE FlashTools -----------------------------
(***************************************************************************)
(* The two ways a hex file gets into the QSPI flash.  For simulation            *)
(* tools/clear_adresses_for_qspi_boot.py rewrites it without addresses; on the    *)
(* board tools/vmem2carr.py makes C arrays of it, which tests/program/program.c   *)
(* writes to the flash word by word.  A step is a word of the file, or a word     *)
(* that goes into the flash.                                                *)
(***************************************************************************)
EXTENDS Vmem

CONSTANTS
    Word,                 \* bytes of a word, 4
    FlashTexts,           \* the hex files there may be
    Stray                 \* what lies behind an array

ASSUME FlashAssumption ==
    /\ Word \in Nat \ {0}
    /\ FlashTexts \subseteq Seq([kind : {"section", "byte"}, value : Int])

VARIABLES
    fst,                  \* "idle", "clear", "parse", "flash", "done", "failed"
    text, next,           \* the file and its next word
    place_zero,
    previous_address, previous_data_length, filtered,   \* clear_adresses
    memory_blocks, block,                \* vmem2carr: sections, the current one
    block_idx, written, flash            \* program.c

clearVars == <<previous_address, previous_data_length, filtered>>
blockVars == <<memory_blocks, block>>
flashVars == <<block_idx, written, flash>>
flashToolVars == <<fst, text, next, place_zero, clearVars, blockVars, flashVars>>

FlashInit ==
    /\ fst = "idle" /\ text = <<>> /\ next = 1 /\ place_zero = FALSE
    /\ previous_address = {} /\ previous_data_length = 0 /\ filtered = <<>>
    /\ memory_blocks = <<>> /\ block = 0
    /\ block_idx = 1 /\ written = 0 /\ flash = NoImage

FlashStart ==
    /\ fst = "idle" /\ text' \in FlashTexts
    /\ \/ fst' = "clear" /\ place_zero' \in BOOLEAN
       \/ fst' = "parse" /\ UNCHANGED place_zero
    /\ UNCHANGED <<next, clearVars, blockVars, flashVars>>

Here == text[next]
Left == next <= Len(text)

-----------------------------------------------------------------------------
(* clear_adresses_for_qspi_boot.py                                           *)
Zeros(n) == [i \in 1 .. n |-> Byte(0)]

(* A fault for the mutants: the data of the section before is not counted.          *)
GapIgnoresData == {Here.value - a : a \in previous_address}

Gap == {Here.value - (a + previous_data_length) : a \in previous_address}

ClearSection ==
    /\ fst = "clear" /\ Left /\ IsSection(Here) /\ Here.value # Unreadable
    /\ filtered' = filtered \o Zeros(Max({0} \cup {g \in Gap : place_zero}))
    /\ previous_address' = {Here.value} /\ previous_data_length' = 0
    /\ next' = next + 1
    /\ UNCHANGED <<fst, text, place_zero, blockVars, flashVars>>

ClearData ==
    /\ fst = "clear" /\ Left /\ ~IsSection(Here)
    /\ filtered' = Append(filtered, Here)
    /\ previous_data_length' = previous_data_length + 1
    /\ next' = next + 1
    /\ UNCHANGED <<fst, text, place_zero, previous_address, blockVars, flashVars>>

ClearDone ==
    /\ fst = "clear" /\ ~Left
    /\ filtered' = <<Section(0)>> \o filtered
    /\ fst' = "done"
    /\ UNCHANGED <<text, next, place_zero, previous_address, previous_data_length,
                   blockVars, flashVars>>

(* int() raises.                                                            *)
ClearFails ==
    /\ fst = "clear" /\ Left /\ IsSection(Here) /\ Here.value = Unreadable
    /\ fst' = "failed"
    /\ UNCHANGED <<text, next, place_zero, clearVars, blockVars, flashVars>>

-----------------------------------------------------------------------------
(* vmem2carr.py.  The sections are a dictionary: one that comes again is emptied and   *)
(* keeps its place.                                                         *)
ParseSection ==
    /\ fst = "parse" /\ Left /\ IsSection(Here)
    /\ LET known == {n \in DOMAIN memory_blocks : memory_blocks[n].address = Here.value}
           empty == [address |-> Here.value, bytes |-> <<>>]
       IN IF known = {}
            THEN /\ memory_blocks' = Append(memory_blocks, empty)
                 /\ block' = Len(memory_blocks) + 1
            ELSE /\ block' \in known
                 /\ memory_blocks' = [memory_blocks EXCEPT ![block'] = empty]
    /\ next' = next + 1
    /\ UNCHANGED <<fst, text, place_zero, clearVars, flashVars>>

(* A byte before the first section: KeyError.                                    *)
ParseData ==
    /\ fst = "parse" /\ Left /\ ~IsSection(Here)
    /\ IF block = 0 THEN fst' = "failed" /\ UNCHANGED memory_blocks
       ELSE /\ memory_blocks' = [memory_blocks EXCEPT ![block].bytes = Append(@, Here.value)]
            /\ UNCHANGED fst
    /\ next' = next + 1
    /\ UNCHANGED <<text, place_zero, block, clearVars, flashVars>>

(* An address or a byte that is no number stops the script or the compiler.       *)
ParseDone ==
    /\ fst = "parse" /\ ~Left
    /\ fst' = IF \E j \in DOMAIN text : text[j].value = Unreadable THEN "failed" ELSE "flash"
    /\ UNCHANGED <<text, next, place_zero, clearVars, blockVars, flashVars>>

base_address == Min({memory_blocks[n].address : n \in DOMAIN memory_blocks})

(* A fault for the mutants: addresses are not made relative.                        *)
RegistryAbsolute(n) ==
    LET b == memory_blocks[n]
    IN [address |-> b.address, length |-> Len(b.bytes),
        data |-> [i \in 0 .. Len(b.bytes) \div Word - 1 |->
                    SubSeq(b.bytes, i * Word + 1, i * Word + Word)]]

(* The entry of a section: its address from the lowest, its length in bytes, and its   *)
(* whole words; the bytes of a last word that is not whole are dropped.             *)
Registry(n) ==
    LET b == memory_blocks[n]
    IN [address |-> b.address - base_address, length |-> Len(b.bytes),
        data |-> [i \in 0 .. Len(b.bytes) \div Word - 1 |->
                    SubSeq(b.bytes, i * Word + 1, i * Word + Word)]]

-----------------------------------------------------------------------------
(* write_all_flash_data of program.c.                                        *)
Program(a, bytes) == flash' = Over(flash, [b \in a .. a + Word - 1 |-> bytes[b - a + 1]])

num_words == (Registry(block_idx).length + Word - 1) \div Word

(* The loop runs over all words the length counts; past the array it reads what lies   *)
(* behind it.                                                               *)
WriteWord ==
    /\ fst = "flash" /\ block_idx <= Len(memory_blocks) /\ written < num_words
    /\ Program(Registry(block_idx).address + written * Word,
               IF written \in DOMAIN Registry(block_idx).data
                 THEN Registry(block_idx).data[written] ELSE [i \in 1 .. Word |-> Stray])
    /\ written' = written + 1
    /\ UNCHANGED <<fst, text, next, place_zero, clearVars, blockVars, block_idx>>

(* Zeros up to the next section, in whole words.                                 *)
FillGap ==
    /\ fst = "flash" /\ block_idx <= Len(memory_blocks) /\ written = num_words
    /\ LET end == Registry(block_idx).address + num_words * Word
           gap == IF block_idx = Len(memory_blocks) THEN 0
                  ELSE ((Registry(block_idx + 1).address - end) \div Word) * Word
       IN flash' = Over(flash, [b \in end .. end + gap - 1 |-> 0])
    /\ block_idx' = block_idx + 1 /\ written' = 0
    /\ UNCHANGED <<fst, text, next, place_zero, clearVars, blockVars>>

FlashDone ==
    /\ fst = "flash" /\ block_idx > Len(memory_blocks) /\ fst' = "done"
    /\ UNCHANGED <<text, next, place_zero, clearVars, blockVars, flashVars>>

FlashNext ==
    \/ FlashStart \/ ClearSection \/ ClearData \/ ClearDone \/ ClearFails
    \/ ParseSection \/ ParseData \/ ParseDone \/ WriteWord \/ FillGap \/ FlashDone
FlashSpec == FlashInit /\ [][FlashNext]_flashToolVars

-----------------------------------------------------------------------------
(* The file without addresses puts every byte at its distance from the first section,  *)
(* if the gaps are filled and the sections ascend: gaps, empty sections and sections     *)
(* that touch do not move what follows.                                        *)
ClearedFileKeepsPlaces ==
    (fst = "done" /\ Len(filtered) > 1 /\ place_zero /\ WellFormed(text) /\ Ordered(text)) =>
       LET origin == text[1].value
           image == Meaning(filtered)
       IN /\ \A a \in DOMAIN Meaning(text) :
                a - origin \in DOMAIN image /\ image[a - origin] = Meaning(text)[a]
          /\ \A a \in DOMAIN image : a + origin \notin DOMAIN Meaning(text) => image[a] = 0

(* The board's flash holds the file, each byte at its distance from the lowest section    *)
(* and zeros in the gaps, if the sections ascend, begin at words and end with whole words  *)
(* (the bytes of a last word that is not whole are lost, see the README).            *)
FlashHoldsTheFile ==
    LET whole == \A i \in Sections(text) :
                    text[i].value % Word = 0 /\ End(text, i) % Word = 0
        once == \A i, j \in Sections(text) : text[i].value = text[j].value => i = j
    IN (fst = "done" /\ memory_blocks # <<>> /\ whole /\ once /\ Ordered(text)) =>
          /\ \A a \in DOMAIN Meaning(text) :
                a - base_address \in DOMAIN flash /\ flash[a - base_address] = Meaning(text)[a]
          /\ \A a \in DOMAIN flash : a + base_address \notin DOMAIN Meaning(text) => flash[a] = 0
=============================================================================
