----------------------------- MODULE ProgLoader -----------------------------
(***************************************************************************)
(* The main memory and its loader (memory/ram_dwr.sv): bytes of a serial     *)
(* line are framed into a start sequence, a length and words; a program goes *)
(* into the RAM, a DRAM image out on the dram_write port; then the SoC is    *)
(* reset.  The same RAM takes the boot image after a reset and the CPU's     *)
(* writes.  One step is one rising edge of clk_i.                           *)
(*                                                                         *)
(* uart_do and cpu are the input ports in this cycle.  Registers that shift  *)
(* bytes in are numbers, as wide as in the code: WordLen bytes, or           *)
(* PROG_SEQ_LENGTH for received_sequence.                                   *)
(***************************************************************************)
EXTENDS Naturals

CONSTANTS
    Byte,                  \* values of a byte, 256
    WordLen,               \* bytes of a word, 4
    PROG_SEQ_LENGTH,       \* bytes of a start sequence, 9
    WordMod, SeqMod,       \* values of a word, of a start sequence: Byte to the
                           \* power of WordLen, of PROG_SEQ_LENGTH
    PROGRAM_SEQUENCE, DRAMWRITE_SEQUENCE, RESET_SEQUENCE,
    SEQ_BREAK_THRESHOLD,   \* 2^32 - 1 cycles
    RAM_DEPTH,             \* words of the RAM
    ProgAddrs,             \* values of prog_addr, the power of two above RAM_DEPTH
    BootImage              \* bootrom: what the RAM holds after start-up

ASSUME LoaderAssumption ==
    /\ Byte \in Nat \ {0} /\ WordLen \in Nat \ {0}
    /\ PROG_SEQ_LENGTH \in Nat \ {0, 1}
    /\ SEQ_BREAK_THRESHOLD \in Nat \ {0}
    /\ RAM_DEPTH \in Nat \ {0} /\ ProgAddrs \in Nat \ {0}
    /\ RAM_DEPTH <= ProgAddrs
    /\ WordMod \in Nat \ {0} /\ SeqMod \in Nat \ {0}

Words == 0 .. WordMod - 1

ASSUME BootAssumption == BootImage \in [0 .. RAM_DEPTH - 1 -> Words]

VARIABLES
    uart_do,     \* prog_uart_do: NoByte, or a byte that is there for one cycle
    cpu,         \* req_i && we_i, addr_i, wdata_i
    state_prog, instruction_byte_ctr,
    received_sequence, rcv_seq_ctr, sequence_break_ctr,
    prog_instruction, prog_intr_number, prog_intr_ctr, prog_inst_valid,
    prog_addr, prog_sys_rst_n,
    dram_prog_size, dram_prog_ctr, dram_prog_addr, dram_prog_instruction,
    dram_prog_inst_valid, dram_prog_sys_rst_n,
    soft_rst, boot_rom_addr, boot_in_progress, mem

frameRegs == <<received_sequence, rcv_seq_ctr, sequence_break_ctr>>
progRegs == <<prog_instruction, prog_intr_number, prog_intr_ctr>>
dramRegs == <<dram_prog_size, dram_prog_ctr, dram_prog_instruction>>
pulses == <<prog_inst_valid, prog_sys_rst_n, dram_prog_inst_valid,
            dram_prog_sys_rst_n>>
loaderVars == <<state_prog, instruction_byte_ctr, frameRegs, progRegs, dramRegs,
                pulses, prog_addr, dram_prog_addr, soft_rst, boot_rom_addr,
                boot_in_progress, mem>>

NoByte == Byte                   \* ~0: no byte has this value
Rx == uart_do # NoByte
LastByte == instruction_byte_ctr = WordLen - 1

(* {r[..:0], byte}: the oldest byte falls out.                               *)
ShiftIn(r, modulus) == (r * Byte + uart_do) % modulus

LoaderStates == {"Wait", "Receive", "Check", "LengthCalc", "Program", "Finish",
    "DramWriteLengthCalc", "DramWriteAddrCalc", "DramWriteProgram",
    "DramWriteFinish"}

boot_done == ~boot_in_progress
prog_mode == state_prog = "Program"
dram_mode_o == state_prog = "DramWriteProgram"
system_reset_o == prog_sys_rst_n /\ dram_prog_sys_rst_n /\ boot_done
ram_prog_rd_en == state_prog \notin {"Finish", "DramWriteFinish"}

-----------------------------------------------------------------------------
LoaderInit ==
    /\ state_prog = "Wait" /\ instruction_byte_ctr = 0
    /\ received_sequence = 0 /\ rcv_seq_ctr = 0 /\ sequence_break_ctr = 0
    /\ prog_instruction = 0 /\ prog_intr_number = 0 /\ prog_intr_ctr = 0
    /\ prog_inst_valid = FALSE /\ prog_addr = 0 /\ prog_sys_rst_n = TRUE
    /\ dram_prog_size = 0 /\ dram_prog_ctr = 0 /\ dram_prog_addr = 0
    /\ dram_prog_instruction = 0 /\ dram_prog_inst_valid = FALSE
    /\ dram_prog_sys_rst_n = TRUE
    /\ soft_rst = FALSE /\ boot_rom_addr = 0 /\ boot_in_progress = TRUE
    /\ mem = [a \in 0 .. RAM_DEPTH - 1 |-> 0]

SoftReset ==
    /\ soft_rst
    /\ state_prog' = "Wait" /\ instruction_byte_ctr' = 0
    /\ received_sequence' = 0 /\ rcv_seq_ctr' = 0 /\ sequence_break_ctr' = 0
    /\ prog_instruction' = 0 /\ prog_intr_number' = 0 /\ prog_intr_ctr' = 0
    /\ prog_inst_valid' = FALSE /\ prog_addr' = 0 /\ prog_sys_rst_n' = TRUE
    /\ dram_prog_size' = 0 /\ dram_prog_ctr' = 0 /\ dram_prog_addr' = 0
    /\ dram_prog_instruction' = 0 /\ dram_prog_inst_valid' = FALSE
    /\ dram_prog_sys_rst_n' = TRUE
    /\ boot_rom_addr' = 0 /\ boot_in_progress' = TRUE

(* A fault for the mutants: every byte is taken for the last of its word.    *)
PulsesEveryByte ==
    /\ prog_inst_valid' = (state_prog = "Program" /\ Rx)
    /\ dram_prog_inst_valid' = (state_prog = "DramWriteProgram" /\ Rx)
    /\ prog_sys_rst_n' = (state_prog # "Finish")
    /\ dram_prog_sys_rst_n' = (state_prog # "DramWriteFinish")

(* What every edge outside a soft reset does, whatever the state: one-cycle   *)
(* pulses, the two write addresses, the copy of the boot image.             *)
Pulses ==
    LET word == Rx /\ LastByte IN
    /\ prog_inst_valid' = (state_prog = "Program" /\ word)
    /\ dram_prog_inst_valid' = (state_prog = "DramWriteProgram" /\ word)
    /\ prog_sys_rst_n' = (state_prog # "Finish")
    /\ dram_prog_sys_rst_n' = (state_prog # "DramWriteFinish")

(* A fault for the mutants: the address steps in words.                      *)
DramAddrInWords ==
    dram_prog_addr' =
        CASE state_prog \in {"Wait", "DramWriteLengthCalc"} -> 0
          [] state_prog = "DramWriteAddrCalc" /\ Rx ->
               ShiftIn(dram_prog_addr, WordMod)
          [] OTHER -> IF dram_prog_inst_valid
                        THEN (dram_prog_addr + 1) % WordMod ELSE dram_prog_addr

(* A fault for the mutants: the address starts where the last image ended.   *)
ProgAddrRunsOn ==
    prog_addr' = IF prog_mode /\ prog_inst_valid
                   THEN (prog_addr + 1) % ProgAddrs ELSE prog_addr

ProgAddr ==
    prog_addr' = IF ~system_reset_o THEN 0
                 ELSE IF prog_mode /\ prog_inst_valid
                   THEN (prog_addr + 1) % ProgAddrs ELSE prog_addr

DramAddr ==
    dram_prog_addr' =
        CASE state_prog \in {"Wait", "DramWriteLengthCalc"} -> 0
          [] state_prog = "DramWriteAddrCalc" /\ Rx ->
               ShiftIn(dram_prog_addr, WordMod)
          [] OTHER -> IF dram_prog_inst_valid
                        THEN (dram_prog_addr + WordLen) % WordMod
                        ELSE dram_prog_addr

Boot ==
    IF boot_in_progress /\ boot_rom_addr < RAM_DEPTH - 1
      THEN boot_rom_addr' = boot_rom_addr + 1 /\ UNCHANGED boot_in_progress
      ELSE boot_in_progress' = FALSE /\ UNCHANGED boot_rom_addr

(* One write port: the boot copy goes before the loader, the loader before    *)
(* the CPU, and whoever loses is not told.  Nothing happens at an address     *)
(* beyond the RAM.                                                          *)
RamWrite ==
    IF boot_in_progress
      THEN mem' = [mem EXCEPT ![boot_rom_addr] = BootImage[boot_rom_addr]]
    ELSE IF prog_mode /\ prog_inst_valid
      THEN mem' = [mem EXCEPT ![prog_addr] = prog_instruction]
    ELSE IF cpu.we
      THEN mem' = [mem EXCEPT ![cpu.adr] = cpu.dat]
    ELSE UNCHANGED mem

-----------------------------------------------------------------------------
(* The byte counter of LengthCalc, AddrCalc and Program, which wraps.         *)
CountByte ==
    instruction_byte_ctr' = IF ~Rx THEN instruction_byte_ctr
                            ELSE IF LastByte THEN 0 ELSE instruction_byte_ctr + 1

(* Silence or the first byte of a start sequence.  received_sequence is       *)
(* cleared in silence only: after it the byte is shifted into zeros.          *)
Wait ==
    /\ state_prog = "Wait"
    /\ state_prog' = IF Rx THEN "Receive" ELSE "Wait"
    /\ received_sequence' = IF Rx THEN ShiftIn(received_sequence, SeqMod) ELSE 0
    /\ rcv_seq_ctr' = IF Rx THEN rcv_seq_ctr + 1 ELSE 0
    /\ sequence_break_ctr' = 0 /\ instruction_byte_ctr' = 0
    /\ prog_instruction' = 0 /\ prog_intr_number' = 0 /\ prog_intr_ctr' = 0
    /\ dram_prog_size' = 0 /\ dram_prog_ctr' = 0 /\ dram_prog_instruction' = 0

ReceiveByte ==
    /\ state_prog = "Receive" /\ Rx
    /\ received_sequence' = ShiftIn(received_sequence, SeqMod)
    /\ IF rcv_seq_ctr = PROG_SEQ_LENGTH - 1
         THEN rcv_seq_ctr' = 0 /\ state_prog' = "Check"
         ELSE rcv_seq_ctr' = rcv_seq_ctr + 1 /\ UNCHANGED state_prog
    /\ UNCHANGED <<sequence_break_ctr, instruction_byte_ctr, progRegs, dramRegs>>

(* A fault for the mutants: a stray byte is never given up.                  *)
ReceiveForever ==
    /\ state_prog = "Receive" /\ ~Rx
    /\ UNCHANGED <<state_prog, frameRegs, instruction_byte_ctr, progRegs, dramRegs>>

(* The break counter counts the silence of the whole sequence: a byte does    *)
(* not clear it.                                                            *)
ReceiveNothing ==
    /\ state_prog = "Receive" /\ ~Rx
    /\ IF sequence_break_ctr = SEQ_BREAK_THRESHOLD
         THEN state_prog' = "Wait" /\ sequence_break_ctr' = 0 /\ rcv_seq_ctr' = 0
         ELSE /\ sequence_break_ctr' = sequence_break_ctr + 1
              /\ UNCHANGED <<state_prog, rcv_seq_ctr>>
    /\ UNCHANGED <<received_sequence, instruction_byte_ctr, progRegs, dramRegs>>

Check ==
    /\ state_prog = "Check"
    /\ state_prog' = CASE received_sequence = PROGRAM_SEQUENCE -> "LengthCalc"
                       [] received_sequence = DRAMWRITE_SEQUENCE ->
                            "DramWriteLengthCalc"
                       [] OTHER -> "Wait"
    /\ instruction_byte_ctr' = 0
    /\ UNCHANGED <<frameRegs, progRegs, dramRegs>>

LengthCalc ==
    /\ state_prog = "LengthCalc"
    /\ state_prog' = IF Rx /\ LastByte THEN "Program" ELSE state_prog
    /\ prog_intr_number' = IF Rx THEN ShiftIn(prog_intr_number, WordMod)
                                 ELSE prog_intr_number
    /\ prog_intr_ctr' = 0
    /\ CountByte
    /\ UNCHANGED <<frameRegs, prog_instruction, dramRegs>>

(* A fault for the mutants: the frame ends one word late.                    *)
ProgramOneMore ==
    /\ state_prog = "Program"
    /\ state_prog' = IF prog_intr_ctr > prog_intr_number THEN "Finish"
                     ELSE state_prog
    /\ prog_instruction' = IF Rx THEN ShiftIn(prog_instruction, WordMod)
                                 ELSE prog_instruction
    /\ prog_intr_ctr' = IF Rx /\ LastByte THEN prog_intr_ctr + 1 ELSE prog_intr_ctr
    /\ CountByte
    /\ UNCHANGED <<frameRegs, prog_intr_number, dramRegs>>

Program ==
    /\ state_prog = "Program"
    /\ state_prog' = IF prog_intr_ctr = prog_intr_number THEN "Finish"
                     ELSE state_prog
    /\ prog_instruction' = IF Rx THEN ShiftIn(prog_instruction, WordMod)
                                 ELSE prog_instruction
    /\ prog_intr_ctr' = IF Rx /\ LastByte THEN (prog_intr_ctr + 1) % WordMod
                                          ELSE prog_intr_ctr
    /\ CountByte
    /\ UNCHANGED <<frameRegs, prog_intr_number, dramRegs>>

Finish ==
    /\ state_prog \in {"Finish", "DramWriteFinish"}
    /\ state_prog' = "Wait"
    /\ UNCHANGED <<instruction_byte_ctr, frameRegs, progRegs, dramRegs>>

DramWriteLengthCalc ==
    /\ state_prog = "DramWriteLengthCalc"
    /\ state_prog' = IF Rx /\ LastByte THEN "DramWriteAddrCalc" ELSE state_prog
    /\ dram_prog_size' = IF Rx THEN ShiftIn(dram_prog_size, WordMod)
                               ELSE dram_prog_size
    /\ dram_prog_ctr' = 0
    /\ CountByte
    /\ UNCHANGED <<frameRegs, progRegs, dram_prog_instruction>>

(* The address itself is in DramAddr.                                        *)
DramWriteAddrCalc ==
    /\ state_prog = "DramWriteAddrCalc"
    /\ state_prog' = IF Rx /\ LastByte THEN "DramWriteProgram" ELSE state_prog
    /\ CountByte
    /\ UNCHANGED <<frameRegs, progRegs, dramRegs>>

DramWriteProgram ==
    /\ state_prog = "DramWriteProgram"
    /\ state_prog' = IF dram_prog_ctr = dram_prog_size THEN "DramWriteFinish"
                     ELSE state_prog
    /\ dram_prog_instruction' = IF Rx THEN ShiftIn(dram_prog_instruction, WordMod)
                                      ELSE dram_prog_instruction
    /\ dram_prog_ctr' = IF Rx /\ LastByte THEN (dram_prog_ctr + 1) % WordMod
                                          ELSE dram_prog_ctr
    /\ CountByte
    /\ UNCHANGED <<frameRegs, progRegs, dram_prog_size>>

LoaderStep ==
    /\ ~soft_rst
    /\ \/ Wait \/ ReceiveByte \/ ReceiveNothing \/ Check
       \/ LengthCalc \/ Program \/ Finish
       \/ DramWriteLengthCalc \/ DramWriteAddrCalc \/ DramWriteProgram
    /\ Pulses /\ ProgAddr /\ DramAddr /\ Boot

LoaderTick ==
    /\ SoftReset \/ LoaderStep
    /\ RamWrite
    /\ soft_rst' = (received_sequence = RESET_SEQUENCE)

(* What the ports may bring: any bytes at any time but during the copy of the *)
(* boot image, and any stores.                                              *)
CpuPorts == [we : {FALSE}] \cup [we : {TRUE}, adr : 0 .. RAM_DEPTH - 1, dat : Words]
LoaderInputs ==
    /\ uart_do \in 0 .. Byte /\ cpu \in CpuPorts
    /\ boot_in_progress => ~Rx

LoaderSpec ==
    /\ LoaderInit /\ LoaderInputs
    /\ [][LoaderTick /\ LoaderInputs']_<<uart_do, cpu, loaderVars>>

-----------------------------------------------------------------------------
LoaderTypeOK ==
    /\ state_prog \in LoaderStates /\ instruction_byte_ctr \in 0 .. WordLen - 1
    /\ received_sequence \in 0 .. SeqMod - 1
    /\ rcv_seq_ctr \in 0 .. PROG_SEQ_LENGTH - 1
    /\ sequence_break_ctr \in 0 .. SEQ_BREAK_THRESHOLD
    /\ prog_instruction \in Words /\ prog_intr_number \in Words
    /\ prog_intr_ctr \in Words
    /\ dram_prog_size \in Words /\ dram_prog_ctr \in Words
    /\ dram_prog_addr \in Words /\ dram_prog_instruction \in Words
    /\ prog_addr \in 0 .. ProgAddrs - 1
    /\ prog_inst_valid \in BOOLEAN /\ prog_sys_rst_n \in BOOLEAN
    /\ dram_prog_inst_valid \in BOOLEAN /\ dram_prog_sys_rst_n \in BOOLEAN
    /\ soft_rst \in BOOLEAN /\ boot_in_progress \in BOOLEAN
    /\ boot_rom_addr \in 0 .. RAM_DEPTH - 1
    /\ mem \in [0 .. RAM_DEPTH - 1 -> Words]

(* While a program comes in, the words counted never pass the number          *)
(* announced, so that the comparison for equality that ends the frame cannot   *)
(* be missed, and the address is that of the next word to be written: the      *)
(* words go to 0, 1, 2 and so on, whatever was loaded or broken off before.    *)
(* (An image longer than the address counts goes round.)                     *)
WordsInOrder ==
    prog_mode /\ prog_intr_number < ProgAddrs =>
        /\ prog_intr_ctr <= prog_intr_number
        /\ prog_inst_valid => prog_intr_ctr > 0
        /\ prog_addr = IF prog_inst_valid THEN prog_intr_ctr - 1 ELSE prog_intr_ctr
=============================================================================
