----------------------------- MODULE VmemImages -----------------------------
(***************************************************************************)
(* The scripts that turn hex files into the contents of a memory:               *)
(* tools/vmem_to_ddr3_init.py, which writes the preload file of the DDR3 model,  *)
(* and the two readers of the benches (tb_air.py, tb_air_program.py).  A step is *)
(* a word of a file, a line of the output, or the opening of a file.            *)
(***************************************************************************)
EXTENDS Vmem

CONSTANTS
    BASE_ADDRESS, KERNEL_OFFSET, DTB_OFFSET,
    Line,                  \* bytes of a DRAM line, 16
    RowLines,              \* lines of a row, 128
    ChipRows, CoreRows,    \* rows as rtl/sim/ddr3.v and ddr3_core.v split an address
    Banks,
    Texts,                 \* the hex files there may be
    Missing                \* a name no file has

ASSUME ImageAssumption ==
    /\ {Line, RowLines, ChipRows, CoreRows, Banks} \subseteq Nat \ {0} /\ ChipRows <= CoreRows
    /\ {BASE_ADDRESS, KERNEL_OFFSET, DTB_OFFSET} \subseteq Nat
    /\ Texts \subseteq Seq([kind : {"section", "byte"}, value : Int])

VARIABLES
    st,                    \* "idle", "open", "read", "write", "done", "failed"
    reader,                \* which script
    files,                 \* its input files, each with its option
    at, pos,               \* the file that is read and its next word
    memory,
    current_address,       \* {} for None
    addr, lines            \* next line to look at, lines written

vars == <<st, reader, files, at, pos, memory, current_address, addr, lines>>

Converter == "vmem_to_ddr3_init"
Readers == {Converter, "load_verilog_hex_file", "load_dram_verilog_hex_file"}

Init == /\ st = "idle" /\ reader = Converter /\ files = <<>> /\ at = 1 /\ pos = 1
        /\ memory = NoImage /\ current_address = {} /\ addr = 0 /\ lines = <<>>

-----------------------------------------------------------------------------
(* An option that is not given leaves its file out; the order is fixed.          *)
InputFiles(i, i2, i3) ==
    LET given(offset_type, text) ==
            IF text = {} THEN <<>>
            ELSE <<[offset |-> offset_type, text |-> CHOOSE t \in text : TRUE]>>
    IN given("i", i) \o given("i2", i2) \o given("i3", i3)

Start ==
    /\ st = "idle"
    /\ reader' \in Readers
    /\ LET names == Texts \cup {Missing} IN
       \E i, i2, i3 \in {{}} \cup {{t} : t \in names} :
          files' = IF reader' = Converter THEN InputFiles(i, i2, i3)
                   ELSE InputFiles(i, i2, {})      \* one file for each test
    /\ st' = IF files' = <<>> THEN "failed" ELSE "open"
    /\ UNCHANGED <<at, pos, memory, current_address, addr, lines>>

Open ==
    /\ st = "open" /\ at <= Len(files)
    /\ st' = IF files[at].text = Missing THEN "failed" ELSE "read"
    /\ pos' = 1 /\ current_address' = {}
    /\ memory' = IF reader = Converter THEN memory ELSE NoImage
    /\ UNCHANGED <<reader, files, at, addr, lines>>

word == files[at].text[pos]
Reading == st = "read" /\ pos <= Len(files[at].text)

Offset(offset_type) ==
    CASE reader = "load_verilog_hex_file" -> 0
      [] reader = "load_dram_verilog_hex_file" -> 0 - BASE_ADDRESS
      [] offset_type = "i" -> 0 - BASE_ADDRESS
      [] offset_type = "i2" -> KERNEL_OFFSET
      [] offset_type = "i3" -> DTB_OFFSET

(* int() raises: the converter goes on, a bench does not catch it.              *)
ReadSection ==
    /\ Reading /\ IsSection(word)
    /\ IF word.value # Unreadable
         THEN current_address' = {word.value + Offset(files[at].offset)} /\ UNCHANGED st
         ELSE IF reader = Converter THEN current_address' = {} /\ UNCHANGED st
         ELSE st' = "failed" /\ UNCHANGED current_address
    /\ pos' = pos + 1
    /\ UNCHANGED <<reader, files, at, memory, addr, lines>>

(* A fault for the mutants: a word that is no number takes an address.           *)
ReadByteCountsJunk ==
    /\ Reading /\ ~IsSection(word)
    /\ pos' = pos + 1
    /\ IF current_address = {} THEN UNCHANGED <<st, memory, current_address>>
       ELSE /\ current_address' = {a + 1 : a \in current_address}
            /\ memory' = IF word.value = Unreadable THEN memory
                         ELSE Over(memory, [a \in current_address |-> word.value])
            /\ UNCHANGED st
    /\ UNCHANGED <<reader, files, at, addr, lines>>

ReadByte ==
    /\ Reading /\ ~IsSection(word)
    /\ pos' = pos + 1
    /\ \/ /\ current_address # {} /\ word.value # Unreadable
          /\ memory' = Over(memory, [a \in current_address |-> word.value])
          /\ current_address' = {a + 1 : a \in current_address}
          /\ UNCHANGED st
       \/ /\ current_address = {} \/ word.value = Unreadable
          /\ st' = IF current_address # {} /\ reader # Converter THEN "failed" ELSE st
          /\ UNCHANGED <<memory, current_address>>
    /\ UNCHANGED <<reader, files, at, addr, lines>>

NextFile ==
    /\ st = "read" /\ pos > Len(files[at].text)
    /\ st' = "open" /\ at' = at + 1
    /\ UNCHANGED <<reader, files, pos, memory, current_address, addr, lines>>

(* A fault for the mutants: the first line begins with the first byte.             *)
AllReadUnaligned ==
    /\ st = "open" /\ at > Len(files)
    /\ IF reader = Converter /\ memory # NoImage
         THEN st' = "write" /\ addr' = Min(DOMAIN memory)
         ELSE st' = "done" /\ UNCHANGED addr
    /\ UNCHANGED <<reader, files, at, pos, memory, current_address, lines>>

(* All files are read; the output file is empty when the memory is.              *)
AllRead ==
    /\ st = "open" /\ at > Len(files)
    /\ IF reader = Converter /\ memory # NoImage
         THEN st' = "write" /\ addr' = (Min(DOMAIN memory) \div Line) * Line
         ELSE st' = "done" /\ UNCHANGED addr
    /\ UNCHANGED <<reader, files, at, pos, memory, current_address, lines>>

LineBytes == addr .. addr + Line - 1
LineData == [i \in 0 .. Line - 1 |->
               IF addr + i \in DOMAIN memory THEN memory[addr + i] ELSE 0]

(* One turn of the loop over the lines: those without data are left out.          *)
WriteLine ==
    /\ st = "write" /\ addr < Max(DOMAIN memory) + Line
    /\ lines' = IF LineBytes \cap DOMAIN memory = {} THEN lines
                ELSE Append(lines, [addr |-> addr, data |-> LineData])
    /\ addr' = addr + Line
    /\ UNCHANGED <<st, reader, files, at, pos, memory, current_address>>

Written ==
    /\ st = "write" /\ addr >= Max(DOMAIN memory) + Line
    /\ st' = "done"
    /\ UNCHANGED <<reader, files, at, pos, memory, current_address, addr, lines>>

Step == \/ Open \/ ReadSection \/ ReadByte \/ NextFile \/ AllRead \/ WriteLine \/ Written
Next == Start \/ Step
Spec == Init /\ [][Next]_vars

-----------------------------------------------------------------------------
(* Where an address of the preload file is put, and where the core looks for it:   *)
(* rows of 14 and of 15 bits, and 14 row bits on the pins of the chip.            *)
Column(a)   == (a \div Line) % RowLines
RowBank(a)  == a \div (Line * RowLines)
PreloadCell(a) == [bank |-> (RowBank(a) \div ChipRows) % Banks,
                   row |-> RowBank(a) % ChipRows, column |-> Column(a)]
CoreCell(a) == [bank |-> (RowBank(a) \div CoreRows) % Banks,
                row |-> (RowBank(a) % CoreRows) % ChipRows, column |-> Column(a)]

(* The cell after the preload, the last line written to it first; 0 elsewhere.      *)
Cell(c) ==
    LET hits == {n \in DOMAIN lines : PreloadCell(lines[n].addr) = c}
    IN IF hits = {} THEN [i \in 0 .. Line - 1 |-> 0] ELSE lines[Max(hits)].data

ReadOfCore(a) == Cell(CoreCell(a))[a % Line]

Image(f) == Moved(Meaning(f.text), Offset(f.offset))

(* What the script should end up with: the later file over the earlier for the      *)
(* converter, the file of the last test for a bench.                           *)
Wanted ==
    LET n == Len(files)
        image(k) == IF k <= n THEN Image(files[k]) ELSE NoImage
    IN IF reader = Converter THEN Over(Over(image(1), image(2)), image(3))
       ELSE image(n)

(* Every script reads the same file the same way, each byte at the address its        *)
(* section gives it, across unreadable words (of which a bench makes an error), empty  *)
(* and overlapping sections and up to three files laid over each other.             *)
MemoryIsWhatTheFilesSay ==
    st \in {"write", "done"} => memory = Wanted

(* After the preload the core reads, at each address of an image in the first bank,     *)
(* the byte the files have there, and zero beside it: line alignment, the gaps,         *)
(* the place of a line in the chip model and the address split of ddr3_core.v fit.  *)
PreloadIsReadBack ==
    LET FirstBank == 0 .. Line * RowLines * ChipRows - 1
    IN (st = "done" /\ reader = Converter /\ DOMAIN Wanted \subseteq FirstBank) =>
          \A a \in FirstBank : ReadOfCore(a) = IF a \in DOMAIN Wanted THEN Wanted[a] ELSE 0
=============================================================================
