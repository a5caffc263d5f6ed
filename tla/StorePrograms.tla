---------------------------- MODULE StorePrograms ----------------------------
(***************************************************************************)
(* tools/dram_write_chunk_hexs.py: an image gets into the DRAM word by word.  For      *)
(* each word the script sends a program of its own, the code of one store after a     *)
(* header that takes the CPU there from its boot address.  A step is a word of the     *)
(* image, or an instruction.                                                *)
(***************************************************************************)
EXTENDS Integers, Sequences

CONSTANTS
    Half, High,        \* 2^11 and 2^20: immediates have 12 bits, LUI takes 20
    Lane,              \* 2^5: the immediate of a store lies in two fields
    new_base_address,
    Images             \* sequences of words; Short is a last word cut off

Low == 2 * Half
Width == Low * High    \* 2^32

ASSUME StoreAssumption ==
    /\ {Half, High, Lane} \subseteq Nat \ {0} /\ Low % Lane = 0
    /\ new_base_address \in 0 .. Width - 1
    /\ Images \subseteq Seq(0 .. Width - 1 \cup {-1})

Short == -1

VARIABLES
    sst,               \* "idle", "send", "run"
    file, index,          \* the file, words sent
    ram, pc,           \* what the loader put into the RAM, the CPU
    x14, x15,
    cells

storeVars == <<sst, file, index, ram, pc, x14, x15, cells>>

-----------------------------------------------------------------------------
(* A fault for the mutants: the upper part is not raised for a negative lower one.       *)
UpperUncompensated(x) == (x \div Low) % High

Lower(x) == x % Low
Upper(x) == ((x \div Low) + (IF Lower(x) >= Half THEN 1 ELSE 0)) % High

Lui(rd, imm)      == [op |-> "lui", rd |-> rd, imm |-> imm, top |-> 0]
Addi(rd, imm)     == [op |-> "addi", rd |-> rd, imm |-> imm, top |-> 0]
Sw(imm, top)      == [op |-> "sw", rd |-> 0, imm |-> imm, top |-> top]
Jump(by)          == [op |-> "jal", rd |-> 0, imm |-> by, top |-> 0]
Nop    == Addi(0, 0)
Return == [op |-> "ret", rd |-> 0, imm |-> 0, top |-> 0]
Zero   == [op |-> "none", rd |-> 0, imm |-> 0, top |-> 0]

(* The six instructions: those of original_hex, the first four rewritten.             *)
modify_hex(offset, value) ==
    LET final_address == new_base_address + offset
    IN << Lui(15, Upper(value)), Lui(14, Upper(final_address)), Addi(15, Lower(value)),
          Sw(Lower(final_address) % Lane, Lower(final_address) \div Lane),
          Addi(10, 0), Return >>

(* header_hex: the CPU boots at word 32 and jumps 32 words on, over the rest.         *)
HeaderWords == 64
BootWord == 32
header_hex == [n \in 1 .. HeaderWords |->
    CASE n <= 31 -> Nop [] n = 32 -> Jump(50) [] n = 33 -> Jump(32) [] OTHER -> Zero]

StoreInit ==
    /\ sst = "idle" /\ file = <<>> /\ index = 0 /\ ram = <<>> /\ pc = BootWord
    /\ x14 = 0 /\ x15 = 0 /\ cells = [a \in {} |-> 0]

StoreStart ==
    /\ sst = "idle" /\ file' \in Images /\ sst' = "send"
    /\ UNCHANGED <<index, ram, pc, x14, x15, cells>>

(* The loader takes header and code as one program and resets the SoC; a word that is    *)
(* cut off is left out.                                                     *)
SendWord ==
    /\ sst = "send" /\ index < Len(file)
    /\ index' = index + 1
    /\ IF file[index + 1] = Short THEN UNCHANGED <<sst, ram, pc>>
       ELSE /\ ram' = header_hex \o modify_hex(4 * index, file[index + 1])
            /\ pc' = BootWord /\ sst' = "run"
    /\ UNCHANGED <<file, x14, x15, cells>>

-----------------------------------------------------------------------------
(* The CPU, as far as these programs need it.                                        *)
Instruction == ram[pc + 1]
Signed(imm) == IF imm >= Half THEN imm - Low ELSE imm

LoadUpper ==
    /\ sst = "run" /\ Instruction.op = "lui"
    /\ IF Instruction.rd = 14 THEN x14' = Instruction.imm * Low /\ UNCHANGED x15
       ELSE x15' = Instruction.imm * Low /\ UNCHANGED x14
    /\ pc' = pc + 1
    /\ UNCHANGED <<sst, file, index, ram, cells>>

AddImmediate ==
    /\ sst = "run" /\ Instruction.op = "addi"
    /\ x15' = IF Instruction.rd = 15 THEN (x15 + Signed(Instruction.imm)) % Width ELSE x15
    /\ pc' = pc + 1
    /\ UNCHANGED <<sst, file, index, ram, x14, cells>>

Store ==
    /\ sst = "run" /\ Instruction.op = "sw"
    /\ LET a == (x14 + Signed(Instruction.top * Lane + Instruction.imm)) % Width
       IN cells' = [b \in DOMAIN cells \cup {a} |-> IF b = a THEN x15 ELSE cells[b]]
    /\ pc' = pc + 1
    /\ UNCHANGED <<sst, file, index, ram, x14, x15>>

Jal ==
    /\ sst = "run" /\ Instruction.op = "jal"
    /\ pc' = pc + Instruction.imm
    /\ UNCHANGED <<sst, file, index, ram, x14, x15, cells>>

(* The script sleeps 0.1 s after each program, so the CPU gets here before the next.     *)
(* Where the return leads to is left out, see the README.                           *)
Ret ==
    /\ sst = "run" /\ Instruction.op = "ret"
    /\ sst' = "send"
    /\ UNCHANGED <<file, index, ram, pc, x14, x15, cells>>

StoreNext ==
    StoreStart \/ SendWord \/ LoadUpper \/ AddImmediate \/ Store \/ Jal \/ Ret
StoreSpec == StoreInit /\ [][StoreNext]_storeVars

-----------------------------------------------------------------------------
Place(k) == (new_base_address + 4 * k) % Width      \* of word k + 1 of the file
Whole(n) == {k \in 0 .. n - 1 : file[k + 1] # Short}

(* When its program has run, each word of the image is at its address, and nothing is     *)
(* anywhere else: the jump of the header lands on the code, the split of value and address   *)
(* into immediates makes up for their signs, in the last page of the address space too,     *)
(* and an image that runs over the end of the space goes on at zero.                 *)
EveryWordIsStored ==
    (sst = "send" /\ 4 * Len(file) <= Width) =>
       /\ DOMAIN cells = {Place(k) : k \in Whole(index)}
       /\ \A k \in Whole(index) : cells[Place(k)] = file[k + 1]
=============================================================================
