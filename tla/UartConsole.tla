----------------------------- MODULE UartConsole -----------------------------
(***************************************************************************)
(* The SoC prints a text: init_uart and zputchar of tests/common/drivers/uart.c,   *)
(* the adapter and the registers of the UART as far as they send (uart_tx.sv,        *)
(* uart_controller.sv, uart_controller_axi.sv), and at the other end of the line     *)
(* uart_monitor of the benches, which samples by time and not by a clock of the SoC.   *)
(* One step is one rising edge of clk_i and the cycle after it.                   *)
(***************************************************************************)
EXTENDS Integers, Sequences

CONSTANTS
    Divider,                    \* CPU_CLK / BAUD_RATE, 54
    Cycle,                      \* ns, 20
    bit_time_ns, half_bit_time_ns,   \* of the monitor: 1085 and 542
    Texts,                      \* sequences of bytes, each eight bits, bit 1 first
    Pauses,                     \* cycles between two accesses of the CPU
    BootCycles,                 \* and from a reset to the first one
    MaxResets                   \* (a bound)

ASSUME ConsoleAssumption ==
    /\ {Divider, Cycle} \subseteq Nat \ {0} /\ {bit_time_ns, half_bit_time_ns} \subseteq Nat
    /\ Cycle < half_bit_time_ns /\ half_bit_time_ns <= bit_time_ns
    /\ Texts \subseteq Seq([1 .. 8 -> 0 .. 1]) /\ Pauses \subseteq Nat
    /\ BootCycles * Cycle > 10 * bit_time_ns /\ MaxResets \in Nat

VARIABLES
    state, read_ptr, write_ptr, queue, counter, uart_clk_pulse,      \* uart_tx
    baud_div, stop_bit, tx_en, cfg_2, tx_we, tx_full_0, tx_full_1,   \* uart_controller
    axi, wb_dat_o,                                  \* adapter: state, the value read
    text, pc, char, seen, pause,                    \* software: seen is what it read
    place, due, bits, shown, garbled,               \* monitor; garbled: see Reset
    resets

txVars == <<state, read_ptr, write_ptr, queue, counter, uart_clk_pulse>>
regVars == <<baud_div, stop_bit, tx_en, cfg_2, tx_we, tx_full_0, tx_full_1>>
cpuVars == <<axi, wb_dat_o, pc, char, seen, pause>>
monitorVars == <<place, due, bits, shown, garbled>>
consoleVars == <<txVars, regVars, cpuVars, text, monitorVars, resets>>

IDLE == 0
START_BIT == 1
DATA_0 == 2
DATA_7 == 9
STOP_BIT_ONLY_ONE == 10
STOP_BIT_ONE == 11
STOP_BIT_ONE_AND_HALF == 12

Silence == [i \in 1 .. 8 |-> 0]

ConsoleInit ==
    /\ state = IDLE /\ read_ptr = 0 /\ write_ptr = 0 /\ counter = 0 /\ uart_clk_pulse = FALSE
    /\ baud_div = 0 /\ stop_bit = 0 /\ tx_en = 0 /\ cfg_2 = 1 /\ tx_we = FALSE
    /\ tx_full_0 = FALSE /\ tx_full_1 = FALSE
    /\ axi = "idle" /\ wb_dat_o = 0 /\ pc = 1 /\ char = 1 /\ seen = 0 /\ pause = BootCycles
    /\ queue = [p \in 0 .. 1 |-> Silence] /\ text \in Texts /\ resets = 0
    /\ place = 0 /\ due = 0 /\ bits = Silence /\ shown = <<>> /\ garbled = FALSE

-----------------------------------------------------------------------------
(* The software, as its accesses to the registers.  CFG is tx_en + 4 * cfg_2; its bit 1  *)
(* belongs to the receiver and is left out.                                    *)
Read(adr)     == [we |-> FALSE, adr |-> adr]
Write(adr, v) == [we |-> TRUE, adr |-> adr, value |-> v]

Bit2(v) == v \div 4
init_uart == << Read("CFG"), Write("CFG", 5), Write("CPB", Divider),
                Read("STP"), Write("STP", 1) >>

(* A fault for the mutants: the software does not clear the bit it waits for.        *)
zputcharNoClear ==
    << Read("CFG"), Read("CFG"), Write("CFG", seen),
       Write("TDR", 0), Read("CFG"), Write("CFG", (seen \div 4) * 4 + 1), Read("CFG") >>

(* Its first and last steps are the loops of uart_txfull.                           *)
zputchar ==
    << Read("CFG"), Read("CFG"), Write("CFG", seen % 4),
       Write("TDR", 0), Read("CFG"), Write("CFG", (seen \div 4) * 4 + 1), Read("CFG") >>

FirstOfChar == Len(init_uart) + 1
LastOfChar == Len(init_uart) + Len(zputchar)
Polls == {FirstOfChar, LastOfChar}
Finished == char > Len(text) /\ pc = FirstOfChar
access == (init_uart \o zputchar)[pc]

(* A turn of a loop that waits, the next access, the next character.               *)
Advance(v) ==
    /\ seen' = v
    /\ pc' = IF pc \in Polls /\ Bit2(v) = 0 THEN pc
             ELSE IF pc = LastOfChar THEN FirstOfChar ELSE pc + 1
    /\ char' = IF pc = LastOfChar /\ Bit2(v) = 1 THEN char + 1 ELSE char
    /\ pause' \in Pauses

-----------------------------------------------------------------------------
(* uart_controller_axi: the states an access goes through; the CPU has its data ready    *)
(* and takes the answer at once.  A read takes the register in S_READ_ADDR, a write      *)
(* changes it in S_WRITE_DATA, and the data stays until the cycle after.              *)
Adapter ==
    \/ /\ axi = "idle"
       /\ IF pause > 0 \/ Finished
            THEN pause' = (IF pause > 0 THEN pause - 1 ELSE 0) /\ UNCHANGED axi
            ELSE axi' = (IF access.we THEN "write_addr" ELSE "read_addr") /\ UNCHANGED pause
       /\ UNCHANGED <<wb_dat_o, pc, char, seen>>
    \/ /\ axi = "write_addr" /\ axi' = "write_data"
       /\ UNCHANGED <<wb_dat_o, pc, char, seen, pause>>
    \/ /\ axi = "write_data" /\ axi' = "wait_ack"
       /\ UNCHANGED <<wb_dat_o, pc, char, seen, pause>>
    \/ /\ axi = "read_addr" /\ axi' = "wait_ack"
       /\ wb_dat_o' = IF access.adr = "CFG" THEN tx_en + 4 * cfg_2 ELSE stop_bit
       /\ UNCHANGED <<pc, char, seen, pause>>
    \/ /\ axi = "wait_ack" /\ axi' = "resp"
       /\ UNCHANGED <<wb_dat_o, pc, char, seen, pause>>
    \/ /\ axi = "resp" /\ axi' = "idle"
       /\ Advance(IF access.we THEN seen ELSE wb_dat_o)
       /\ UNCHANGED wb_dat_o

Writes(adr) == axi = "write_data" /\ access.adr = adr

full_o == (read_ptr + 1) % 2 = write_ptr
empty_o == read_ptr = write_ptr

(* The queue was full two cycles ago and no more the cycle after.                   *)
tx_stopped == tx_full_1 /\ ~tx_full_0

Registers ==
    /\ tx_full_0' = full_o /\ tx_full_1' = tx_full_0
    /\ tx_we' = (Writes("TDR") /\ ~full_o)
    /\ baud_div' = IF Writes("CPB") THEN access.value ELSE baud_div
    /\ stop_bit' = IF Writes("STP") THEN access.value ELSE stop_bit
    /\ tx_en' = IF Writes("CFG") THEN access.value % 2 ELSE tx_en
    /\ cfg_2' = IF tx_stopped THEN 1 ELSE IF Writes("CFG") THEN Bit2(access.value) ELSE cfg_2

-----------------------------------------------------------------------------
(* uart_tx.  With one-bit pointers the queue is full with one byte in it.             *)
next ==
    CASE state = IDLE -> IF ~empty_o /\ tx_en = 1 THEN START_BIT ELSE IDLE
      [] state \in START_BIT .. DATA_7 - 1 -> state + 1
      [] state = DATA_7 -> IF stop_bit = 0 THEN STOP_BIT_ONLY_ONE ELSE STOP_BIT_ONE
      [] state = STOP_BIT_ONE -> STOP_BIT_ONE_AND_HALF
      [] state \in {STOP_BIT_ONLY_ONE, STOP_BIT_ONE_AND_HALF} -> IDLE

Transmit ==
    LET ends == uart_clk_pulse /\ state # IDLE /\ next = IDLE
    IN /\ state' = IF uart_clk_pulse THEN next ELSE state
       /\ IF tx_we THEN /\ write_ptr' = (write_ptr + 1) % 2
                        /\ queue' = [queue EXCEPT ![write_ptr] = text[char]]
          ELSE UNCHANGED <<write_ptr, queue>>
       /\ read_ptr' = IF ends THEN (read_ptr + 1) % 2 ELSE read_ptr
       /\ counter' = IF counter # baud_div THEN counter + 1
                     ELSE IF next = STOP_BIT_ONE_AND_HALF THEN baud_div \div 2 ELSE 0
       /\ uart_clk_pulse' = (counter = baud_div)

tx_o == CASE state = START_BIT -> 0
          [] state \in DATA_0 .. DATA_7 -> queue[read_ptr][state - 1]
          [] OTHER -> 1

-----------------------------------------------------------------------------
(* uart_monitor: it waits for an edge, half a bit, and then samples bit after bit.     *)
Waiting == 0
HalfBitWait == 1
StopSample == 10

Monitor ==
    LET late == due - Cycle
        now == place # Waiting /\ late <= 0 IN
    /\ due' = IF place = Waiting THEN half_bit_time_ns - Cycle
              ELSE IF now THEN late + bit_time_ns ELSE late
    /\ place' = CASE place = Waiting -> IF tx_o = 1 /\ tx_o' = 0 THEN HalfBitWait ELSE Waiting
                  [] place # Waiting /\ ~now -> place
                  [] now /\ place < StopSample -> place + 1
                  [] now /\ place = StopSample -> Waiting
    /\ bits' = IF now /\ place \in 2 .. 9 THEN [bits EXCEPT ![place - 1] = tx_o'] ELSE bits
    /\ IF now /\ place = StopSample
         THEN garbled' = FALSE /\ shown' = IF garbled THEN shown ELSE Append(shown, bits)
         ELSE UNCHANGED <<shown, garbled>>

-----------------------------------------------------------------------------
Clock == /\ Transmit /\ Registers /\ Adapter /\ Monitor
         /\ UNCHANGED <<text, resets>>

(* The bench resets the SoC, in the middle of a byte or not: the line goes high, the       *)
(* monitor goes on with the frame it is in and shows what it takes for a byte, and the      *)
(* software starts again.                                                     *)
Reset ==
    /\ resets < MaxResets /\ resets' = resets + 1
    /\ state' = IDLE /\ read_ptr' = 0 /\ write_ptr' = 0 /\ counter' = 0
    /\ uart_clk_pulse' = FALSE
    /\ baud_div' = 0 /\ stop_bit' = 0 /\ tx_en' = 0 /\ cfg_2' = 1 /\ tx_we' = FALSE
    /\ tx_full_0' = FALSE /\ tx_full_1' = FALSE
    /\ axi' = "idle" /\ wb_dat_o' = 0 /\ pc' = 1 /\ char' = 1 /\ seen' = 0
    /\ pause' = BootCycles
    /\ garbled' = (place # Waiting) /\ shown' = <<>>
    /\ UNCHANGED <<queue, text, place, due, bits>>

ConsoleNext == Clock \/ Reset
ConsoleSpec == ConsoleInit /\ [][ConsoleNext]_consoleVars /\ WF_consoleVars(Clock)

-----------------------------------------------------------------------------
(* What the monitor shows after the last reset is in the end the text, every character       *)
(* of it once and as it was written, and zputchar has returned from each: the bit the        *)
(* software polls comes back after each byte, no byte is dropped at the full queue, the       *)
(* monitor stays inside the bits although its bit is shorter, and is in step again after     *)
(* a byte that was cut off.                                                  *)
ConsoleShowsTheText == <>[](Finished /\ shown = text)
=============================================================================
