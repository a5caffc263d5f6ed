-------------------------- MODULE ProgLoader_proofs --------------------------
(***************************************************************************)
(* Proofs about ProgLoader, for all sizes of bytes, words and RAM, for any   *)
(* bytes on the line and any stores of the CPU.                             *)
(***************************************************************************)
EXTENDS ProgLoader, TLAPS

(* The counter of the start sequence is zero outside Receive: Wait may add    *)
(* one to it.                                                               *)
CounterInv ==
    state_prog # "Receive" => rcv_seq_ctr = 0

TypeInv == LoaderTypeOK /\ CounterInv

LEMMA ModRange ==
    ASSUME NEW x \in Nat, NEW m \in Nat \ {0}
    PROVE  x % m \in 0 .. m - 1
BY SMT

LEMMA ShiftInRange ==
    ASSUME LoaderAssumption, uart_do \in 0 .. Byte,
           NEW r \in Nat, NEW m \in Nat \ {0}
    PROVE  ShiftIn(r, m) \in 0 .. m - 1
<1>1. r * Byte + uart_do \in Nat
  BY DEF LoaderAssumption
<1>. QED  BY <1>1, ModRange DEF ShiftIn

-----------------------------------------------------------------------------
LEMMA ZeroInRanges ==
    /\ 0 \in Words /\ 0 \in 0 .. SeqMod - 1
    /\ 0 \in 0 .. WordLen - 1 /\ 0 \in 0 .. PROG_SEQ_LENGTH - 1
    /\ 1 \in 0 .. PROG_SEQ_LENGTH - 1 /\ 0 \in 0 .. SEQ_BREAK_THRESHOLD
    /\ 0 \in 0 .. ProgAddrs - 1 /\ 0 \in 0 .. RAM_DEPTH - 1
BY LoaderAssumption DEF LoaderAssumption, Words

LEMMA InitTyped == LoaderInit => TypeInv
<1>. SUFFICES ASSUME LoaderInit PROVE TypeInv
  OBVIOUS
<1>1. mem \in [0 .. RAM_DEPTH - 1 -> Words]
  BY ZeroInRanges DEF LoaderInit
<1>2. /\ prog_inst_valid \in BOOLEAN /\ prog_sys_rst_n \in BOOLEAN
      /\ dram_prog_inst_valid \in BOOLEAN /\ dram_prog_sys_rst_n \in BOOLEAN
      /\ soft_rst \in BOOLEAN /\ boot_in_progress \in BOOLEAN
  BY DEF LoaderInit
<1>3. state_prog \in LoaderStates /\ rcv_seq_ctr = 0
  BY DEF LoaderInit, LoaderStates
<1>. QED  BY <1>1, <1>2, <1>3, ZeroInRanges
          DEF LoaderInit, TypeInv, CounterInv, LoaderTypeOK

(* The parts of a step, one by one.                                          *)
LEMMA RamTyped ==
    ASSUME LoaderTypeOK, LoaderInputs, RamWrite
    PROVE  mem' \in [0 .. RAM_DEPTH - 1 -> Words]
<1>1. BootImage[boot_rom_addr] \in Words
  BY BootAssumption DEF LoaderTypeOK
<1>2. cpu.we => cpu.dat \in Words
  BY DEF LoaderInputs, CpuPorts
<1>. QED  BY <1>1, <1>2 DEF RamWrite, LoaderTypeOK

LEMMA CountTyped ==
    ASSUME LoaderTypeOK, CountByte
    PROVE  instruction_byte_ctr' \in 0 .. WordLen - 1
BY LoaderAssumption DEF LoaderTypeOK, CountByte, LastByte, LoaderAssumption

LEMMA AddressesTyped ==
    ASSUME LoaderTypeOK, LoaderInputs, ProgAddr, DramAddr, Boot
    PROVE  /\ prog_addr' \in 0 .. ProgAddrs - 1
           /\ dram_prog_addr' \in Words
           /\ boot_rom_addr' \in 0 .. RAM_DEPTH - 1
           /\ boot_in_progress' \in BOOLEAN
<1>1. prog_addr' \in 0 .. ProgAddrs - 1
  <2>1. (prog_addr + 1) % ProgAddrs \in 0 .. ProgAddrs - 1
    BY LoaderAssumption, ModRange DEF LoaderTypeOK, LoaderAssumption
  <2>2. 0 \in 0 .. ProgAddrs - 1
    BY LoaderAssumption DEF LoaderAssumption
  <2>. QED  BY <2>1, <2>2 DEF ProgAddr, LoaderTypeOK
<1>2. dram_prog_addr' \in Words
  <2>1. (dram_prog_addr + WordLen) % WordMod \in Words
    BY LoaderAssumption, ModRange DEF LoaderTypeOK, LoaderAssumption, Words
  <2>2. ShiftIn(dram_prog_addr, WordMod) \in Words
    BY LoaderAssumption, ShiftInRange
    DEF LoaderTypeOK, LoaderAssumption, LoaderInputs, Words
  <2>3. 0 \in Words
    BY LoaderAssumption DEF LoaderAssumption, Words
  <2>. QED  BY <2>1, <2>2, <2>3 DEF DramAddr, LoaderTypeOK
<1>3. boot_rom_addr' \in 0 .. RAM_DEPTH - 1 /\ boot_in_progress' \in BOOLEAN
  <2>1. CASE boot_in_progress /\ boot_rom_addr < RAM_DEPTH - 1
    BY <2>1, LoaderAssumption DEF Boot, LoaderTypeOK, LoaderAssumption
  <2>2. CASE ~(boot_in_progress /\ boot_rom_addr < RAM_DEPTH - 1)
    BY <2>2 DEF Boot, LoaderTypeOK
  <2>. QED  BY <2>1, <2>2
<1>. QED  BY <1>1, <1>2, <1>3

LEMMA PulsesTyped ==
    ASSUME Pulses
    PROVE  /\ prog_inst_valid' \in BOOLEAN /\ prog_sys_rst_n' \in BOOLEAN
           /\ dram_prog_inst_valid' \in BOOLEAN /\ dram_prog_sys_rst_n' \in BOOLEAN
BY DEF Pulses

(* What the state machine itself keeps.                                      *)
MachineTyped ==
    /\ state_prog \in LoaderStates /\ instruction_byte_ctr \in 0 .. WordLen - 1
    /\ received_sequence \in 0 .. SeqMod - 1
    /\ rcv_seq_ctr \in 0 .. PROG_SEQ_LENGTH - 1
    /\ sequence_break_ctr \in 0 .. SEQ_BREAK_THRESHOLD
    /\ prog_instruction \in Words /\ prog_intr_number \in Words
    /\ prog_intr_ctr \in Words
    /\ dram_prog_size \in Words /\ dram_prog_ctr \in Words
    /\ dram_prog_instruction \in Words

LEMMA MachineStep ==
    ASSUME TypeInv, LoaderInputs,
           \/ Wait \/ ReceiveByte \/ ReceiveNothing \/ Check
           \/ LengthCalc \/ Program \/ Finish
           \/ DramWriteLengthCalc \/ DramWriteAddrCalc \/ DramWriteProgram
    PROVE  MachineTyped' /\ CounterInv'
<1>. USE LoaderAssumption
<1>1. \A r \in Words : ShiftIn(r, WordMod) \in Words
  BY ShiftInRange DEF LoaderAssumption, LoaderInputs, Words
<1>2. ShiftIn(received_sequence, SeqMod) \in 0 .. SeqMod - 1
  BY ShiftInRange DEF LoaderAssumption, LoaderInputs, TypeInv, LoaderTypeOK
<1>3. \A r \in Words : (r + 1) % WordMod \in Words
  BY ModRange DEF LoaderAssumption, Words
<1>4. CASE Wait
  BY ZeroInRanges, <1>2, <1>4
  DEF Wait, TypeInv, LoaderTypeOK, CounterInv, MachineTyped, LoaderStates
<1>5. CASE ReceiveByte
  BY ZeroInRanges, <1>2, <1>5
  DEF ReceiveByte, TypeInv, LoaderTypeOK, CounterInv, MachineTyped, LoaderStates,
      LoaderAssumption, progRegs, dramRegs
<1>6. CASE ReceiveNothing
  BY ZeroInRanges, <1>6
  DEF ReceiveNothing, TypeInv, LoaderTypeOK, CounterInv, MachineTyped, LoaderStates,
      LoaderAssumption, progRegs, dramRegs
<1>7. CASE Check
  BY ZeroInRanges, <1>7
  DEF Check, TypeInv, LoaderTypeOK, CounterInv, MachineTyped, LoaderStates,
      frameRegs, progRegs, dramRegs
<1>8. CASE LengthCalc
  BY ZeroInRanges, <1>1, <1>8, CountTyped
  DEF LengthCalc, TypeInv, LoaderTypeOK, CounterInv, MachineTyped, LoaderStates,
      frameRegs, dramRegs
<1>9. CASE Program
  BY ZeroInRanges, <1>1, <1>3, <1>9, CountTyped
  DEF Program, TypeInv, LoaderTypeOK, CounterInv, MachineTyped, LoaderStates,
      frameRegs, dramRegs
<1>10. CASE Finish
  BY ZeroInRanges, <1>10
  DEF Finish, TypeInv, LoaderTypeOK, CounterInv, MachineTyped, LoaderStates,
      frameRegs, progRegs, dramRegs
<1>11. CASE DramWriteLengthCalc
  BY ZeroInRanges, <1>1, <1>11, CountTyped
  DEF DramWriteLengthCalc, TypeInv, LoaderTypeOK, CounterInv, MachineTyped,
      LoaderStates, frameRegs, progRegs
<1>12. CASE DramWriteAddrCalc
  BY ZeroInRanges, <1>12, CountTyped
  DEF DramWriteAddrCalc, TypeInv, LoaderTypeOK, CounterInv, MachineTyped,
      LoaderStates, frameRegs, progRegs, dramRegs
<1>13. CASE DramWriteProgram
  BY ZeroInRanges, <1>1, <1>3, <1>13, CountTyped
  DEF DramWriteProgram, TypeInv, LoaderTypeOK, CounterInv, MachineTyped,
      LoaderStates, frameRegs, progRegs
<1>. QED  BY <1>4, <1>5, <1>6, <1>7, <1>8, <1>9, <1>10, <1>11, <1>12, <1>13

LEMMA StepTyped ==
    ASSUME TypeInv, LoaderInputs, LoaderTick
    PROVE  TypeInv'
<1>1. mem' \in [0 .. RAM_DEPTH - 1 -> Words] /\ soft_rst' \in BOOLEAN
  BY RamTyped DEF LoaderTick, TypeInv
<1>2. CASE SoftReset
  <2>1. /\ prog_inst_valid' \in BOOLEAN /\ prog_sys_rst_n' \in BOOLEAN
        /\ dram_prog_inst_valid' \in BOOLEAN /\ dram_prog_sys_rst_n' \in BOOLEAN
        /\ boot_in_progress' \in BOOLEAN
    BY <1>2 DEF SoftReset
  <2>2. state_prog' \in LoaderStates /\ rcv_seq_ctr' = 0
    BY <1>2 DEF SoftReset, LoaderStates
  <2>. QED  BY <1>1, <1>2, <2>1, <2>2, ZeroInRanges
            DEF SoftReset, TypeInv, LoaderTypeOK, CounterInv
<1>3. CASE LoaderStep
  <2>1. MachineTyped' /\ CounterInv'
    BY <1>3, MachineStep DEF LoaderStep
  <2>2. /\ prog_addr' \in 0 .. ProgAddrs - 1
        /\ dram_prog_addr' \in Words
        /\ boot_rom_addr' \in 0 .. RAM_DEPTH - 1
        /\ boot_in_progress' \in BOOLEAN
    BY <1>3, AddressesTyped DEF LoaderStep, TypeInv
  <2>. QED  BY <1>1, <1>3, <2>1, <2>2, PulsesTyped
            DEF LoaderStep, TypeInv, LoaderTypeOK, MachineTyped
<1>. QED  BY <1>2, <1>3 DEF LoaderTick

(* The registers of ram_dwr.sv stay in their ranges, for all parameters.     *)
THEOREM LoaderTypeCorrect == LoaderSpec => []LoaderTypeOK
<1>1. LoaderInit => TypeInv
  BY InitTyped
<1>2. TypeInv /\ LoaderInputs /\ [LoaderTick /\ LoaderInputs']_<<uart_do, cpu, loaderVars>>
        => TypeInv' /\ LoaderInputs'
  <2> SUFFICES ASSUME TypeInv, LoaderInputs,
                      [LoaderTick /\ LoaderInputs']_<<uart_do, cpu, loaderVars>>
               PROVE  TypeInv' /\ LoaderInputs'
    OBVIOUS
  <2>1. CASE LoaderTick /\ LoaderInputs'
    BY <2>1, StepTyped
  <2>2. CASE UNCHANGED <<uart_do, cpu, loaderVars>>
    BY <2>2 DEF TypeInv, LoaderTypeOK, CounterInv, LoaderInputs, Rx, loaderVars,
                frameRegs, progRegs, dramRegs, pulses
  <2>. QED  BY <2>1, <2>2
<1>3. TypeInv => LoaderTypeOK
  BY DEF TypeInv
<1>. QED  BY <1>1, <1>2, <1>3, PTL DEF LoaderSpec

-----------------------------------------------------------------------------
(* The strengthening of WordsInOrder: outside Wait the SoC is not in reset,   *)
(* so that the address counts; before a program comes in the address is zero, *)
(* and in Wait the reset that follows each program is about to make it so.    *)
OrderInv ==
    /\ state_prog # "Wait" => system_reset_o
    /\ state_prog \notin {"Wait", "Program", "Finish"} => prog_addr = 0
    /\ state_prog = "Wait" => prog_addr = 0 \/ ~system_reset_o
    /\ WordsInOrder

LEMMA InitInOrder == LoaderInit => OrderInv
BY DEF LoaderInit, OrderInv, WordsInOrder, prog_mode, system_reset_o, boot_done

(* Below the modulus the counters just count.                                *)
LEMMA ModSmall ==
    ASSUME NEW x \in Nat, NEW m \in Nat \ {0}, x < m
    PROVE  x % m = x
BY SMT

(* A step that does not come from the Finish states and leaves Wait, if at    *)
(* all, for a byte, leaves the SoC out of reset.                             *)
LEMMA OutOfReset ==
    ASSUME LoaderTypeOK, LoaderInputs, OrderInv, LoaderStep,
           state_prog \notin {"Finish", "DramWriteFinish"},
           state_prog = "Wait" => Rx
    PROVE  system_reset_o'
<1>1. prog_sys_rst_n' /\ dram_prog_sys_rst_n'
  BY DEF LoaderStep, Pulses
<1>2. ~boot_in_progress
  BY DEF OrderInv, system_reset_o, boot_done, LoaderInputs
<1>3. ~boot_in_progress'
  BY <1>2 DEF LoaderStep, Boot
<1>. QED  BY <1>1, <1>3 DEF system_reset_o, boot_done

(* The address outside Program: it stays, or goes to zero.                   *)
LEMMA AddressOutside ==
    ASSUME LoaderStep, state_prog # "Program"
    PROVE  prog_addr' = IF system_reset_o THEN prog_addr ELSE 0
BY DEF LoaderStep, ProgAddr, prog_mode

LEMMA ProgramInOrder ==
    ASSUME LoaderTypeOK, LoaderInputs, OrderInv, LoaderStep,
           state_prog = "Program", state_prog' = "Program"
    PROVE  WordsInOrder'
<1>. USE LoaderAssumption
<1>1. Program
  BY DEF LoaderStep, Wait, ReceiveByte, ReceiveNothing, Check, LengthCalc, Finish,
         DramWriteLengthCalc, DramWriteAddrCalc, DramWriteProgram
<1>2. UNCHANGED prog_intr_number /\ prog_intr_ctr # prog_intr_number
  BY <1>1 DEF Program
<1>. SUFFICES ASSUME prog_intr_number < ProgAddrs
              PROVE  /\ prog_intr_ctr' <= prog_intr_number
                     /\ prog_inst_valid' => prog_intr_ctr' > 0
                     /\ prog_addr' = IF prog_inst_valid' THEN prog_intr_ctr' - 1
                                     ELSE prog_intr_ctr'
  BY <1>2 DEF WordsInOrder
<1>3. /\ prog_intr_ctr \in Nat /\ prog_intr_number \in Nat
      /\ prog_intr_number < WordMod /\ ProgAddrs \in Nat \ {0}
      /\ WordMod \in Nat \ {0}
  BY DEF LoaderTypeOK, Words, LoaderAssumption
<1>4. /\ prog_intr_ctr < prog_intr_number
      /\ prog_inst_valid => prog_intr_ctr > 0
      /\ prog_addr = IF prog_inst_valid THEN prog_intr_ctr - 1 ELSE prog_intr_ctr
  BY <1>2, <1>3 DEF OrderInv, WordsInOrder, prog_mode
<1>5. prog_addr' = prog_intr_ctr
  <2>1. system_reset_o
    BY DEF OrderInv
  <2>2. prog_inst_valid => prog_addr' = prog_intr_ctr % ProgAddrs
    BY <1>3, <1>4, <2>1 DEF LoaderStep, ProgAddr, prog_mode
  <2>3. prog_intr_ctr % ProgAddrs = prog_intr_ctr
    BY <1>3, <1>4, ModSmall
  <2>4. ~prog_inst_valid => prog_addr' = prog_addr
    BY <2>1 DEF LoaderStep, ProgAddr
  <2>. QED  BY <1>4, <2>2, <2>3, <2>4
<1>6. CASE Rx /\ LastByte
  <2>1. prog_intr_ctr' = prog_intr_ctr + 1
    BY <1>1, <1>3, <1>4, <1>6, ModSmall DEF Program
  <2>2. prog_inst_valid' = TRUE
    BY <1>6 DEF LoaderStep, Pulses
  <2>. QED  BY <1>3, <1>4, <1>5, <2>1, <2>2
<1>7. CASE ~(Rx /\ LastByte)
  <2>1. prog_intr_ctr' = prog_intr_ctr
    BY <1>1, <1>7 DEF Program
  <2>2. prog_inst_valid' = FALSE
    BY <1>7 DEF LoaderStep, Pulses
  <2>. QED  BY <1>3, <1>4, <1>5, <2>1, <2>2
<1>. QED  BY <1>6, <1>7

LEMMA StepInOrder ==
    ASSUME LoaderTypeOK, LoaderInputs, OrderInv, LoaderTick
    PROVE  OrderInv'
<1>1. CASE SoftReset
  BY <1>1 DEF SoftReset, OrderInv, WordsInOrder, prog_mode
<1>2. CASE LoaderStep
  <2>1. CASE Wait
    <3>1. prog_addr' = 0
      BY <2>1, <1>2, AddressOutside DEF Wait, OrderInv
    <3>2. state_prog' \in {"Wait", "Receive"} /\ (state_prog' = "Receive" => Rx)
      BY <2>1 DEF Wait
    <3>3. state_prog' = "Receive" => system_reset_o'
      BY <1>2, <2>1, <3>2, OutOfReset DEF Wait
    <3>. QED  BY <3>1, <3>2, <3>3 DEF OrderInv, WordsInOrder, prog_mode
  <2>2. CASE state_prog \notin {"Wait", "Program", "Finish", "DramWriteFinish",
                                "LengthCalc"}
    <3>1. prog_addr' = 0
      BY <1>2, <2>2, AddressOutside DEF OrderInv
    <3>2. state_prog' \notin {"Program", "Finish"}
      BY <1>2, <2>2 DEF LoaderStep, Wait, ReceiveByte, ReceiveNothing, Check,
           LengthCalc, Program, Finish, DramWriteLengthCalc, DramWriteAddrCalc,
           DramWriteProgram
    <3>3. system_reset_o'
      BY <1>2, <2>2, OutOfReset
    <3>. QED  BY <3>1, <3>2, <3>3 DEF OrderInv, WordsInOrder, prog_mode
  <2>3. CASE LengthCalc
    <3>1. prog_addr' = 0 /\ prog_intr_ctr' = 0
      BY <1>2, <2>3, AddressOutside DEF LengthCalc, OrderInv
    <3>2. ~prog_inst_valid'
      BY <1>2, <2>3 DEF LoaderStep, LengthCalc, Pulses
    <3>3. prog_intr_number' \in Nat
      BY <2>3, LoaderAssumption, ShiftInRange
      DEF LengthCalc, LoaderTypeOK, LoaderInputs, LoaderAssumption, Words
    <3>4. state_prog' \in {"LengthCalc", "Program"}
      BY <2>3 DEF LengthCalc
    <3>5. system_reset_o'
      BY <1>2, <2>3, OutOfReset DEF LengthCalc
    <3>. QED  BY <3>1, <3>2, <3>3, <3>4, <3>5
              DEF OrderInv, WordsInOrder, prog_mode
  <2>4. CASE Program
    <3>1. state_prog' \in {"Program", "Finish"}
      BY <2>4 DEF Program
    <3>2. system_reset_o'
      BY <1>2, <2>4, OutOfReset DEF Program
    <3>3. state_prog' = "Program" => WordsInOrder'
      BY <1>2, <2>4, ProgramInOrder DEF Program
    <3>. QED  BY <3>1, <3>2, <3>3 DEF OrderInv, WordsInOrder, prog_mode
  <2>5. CASE Finish
    <3>1. state_prog' = "Wait"
      BY <2>5 DEF Finish
    <3>2. ~system_reset_o'
      BY <1>2, <2>5 DEF LoaderStep, Pulses, Finish, system_reset_o
    <3>. QED  BY <3>1, <3>2 DEF OrderInv, WordsInOrder, prog_mode
  <2>. QED  BY <1>2, <2>1, <2>2, <2>3, <2>4, <2>5
            DEF LoaderStep, Wait, ReceiveByte, ReceiveNothing, Check, LengthCalc,
                Program, Finish, DramWriteLengthCalc, DramWriteAddrCalc,
                DramWriteProgram
<1>. QED  BY <1>1, <1>2 DEF LoaderTick

(* Whatever came before, the words of a program go to 0, 1, 2 and so on, and   *)
(* the frame ends with the last of them: for all sizes, any bytes on the line  *)
(* outside the boot copy, and any stores of the CPU.                         *)
THEOREM WordsInOrderCorrect == LoaderSpec => []WordsInOrder
<1>1. LoaderInit => OrderInv
  BY InitInOrder
<1>2. LoaderTypeOK /\ LoaderInputs /\ OrderInv
        /\ [LoaderTick /\ LoaderInputs']_<<uart_do, cpu, loaderVars>>
        => OrderInv' /\ LoaderInputs'
  <2> SUFFICES ASSUME LoaderTypeOK, LoaderInputs, OrderInv,
                      [LoaderTick /\ LoaderInputs']_<<uart_do, cpu, loaderVars>>
               PROVE  OrderInv' /\ LoaderInputs'
    OBVIOUS
  <2>1. CASE LoaderTick /\ LoaderInputs'
    BY <2>1, StepInOrder
  <2>2. CASE UNCHANGED <<uart_do, cpu, loaderVars>>
    BY <2>2 DEF OrderInv, WordsInOrder, prog_mode, system_reset_o, boot_done,
                LoaderInputs, Rx, loaderVars, frameRegs, progRegs, dramRegs, pulses
  <2>. QED  BY <2>1, <2>2
<1>3. OrderInv => WordsInOrder
  BY DEF OrderInv
<1>. QED  BY <1>1, <1>2, <1>3, LoaderTypeCorrect, PTL DEF LoaderSpec
=============================================================================
