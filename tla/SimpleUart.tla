----------------------------- MODULE SimpleUart -----------------------------
(***************************************************************************)
(* The receiver of memory/simpleuart.sv on the loader's serial line, and the *)
(* other end of the line.  One step is one rising edge of clk_i; time on the *)
(* line is counted in units, Unit of them to a cycle, as the bit time of the  *)
(* host (54.25 cycles at 921600 baud) is no whole number of cycles and its    *)
(* clock is not ours.                                                       *)
(***************************************************************************)
EXTENDS Naturals, Sequences

CONSTANTS
    cfg_divider, \* DEFAULT_DIV = CPU_CLK / BAUD_RATE, 54
    Unit,        \* units of a cycle
    BitTimes,    \* the host's bit time in units: nominal, too fast, too slow
    Payloads,    \* the bytes it sends: eight bits, bit 1 first on the line
    MaxOwed      \* how many bytes pending remembers (a bound)

ASSUME UartAssumption ==
    /\ cfg_divider \in Nat \ {0} /\ Unit \in Nat \ {0}
    /\ BitTimes \subseteq Nat /\ \A t \in BitTimes : t > Unit
    /\ Payloads \subseteq [1 .. 8 -> 0 .. 1] /\ MaxOwed \in Nat

(* Cycles from the start of a bit to its middle, and from middle to middle:   *)
(* the counter passes the divider and is cleared in a cycle of its own.      *)
HalfBitCycles == cfg_divider \div 2 + 2
BitCycles == cfg_divider + 2

(* How far the host's clock may be off: the last data bit is sampled before    *)
(* its end, and the receiver looks for a start bit again while the stop bit   *)
(* is on the line (9.5 middles of 56 cycles lie between 9 and 10 bits of the  *)
(* host: 213.6 to 237.3 quarter cycles with the divider of 54).              *)
ASSUME ToleranceAssumption ==
    /\ MaxOwed >= 2
    /\ \A t \in BitTimes :
         LET awake == Unit * (1 + HalfBitCycles + 9 * BitCycles)
         IN  /\ 9 * t <= awake /\ awake <= 10 * t
             /\ 8 * t <= Unit * (HalfBitCycles + 8 * BitCycles)

VARIABLES
    ser_rx, reg_dat_re,                      \* input ports
    recv_state, recv_divcnt, recv_pattern, recv_buf_data, recv_buf_valid,
    bitTime, bit, left, byte,                \* host: current bit, units of it left
    pending                                  \* history: begun and not yet read

recvVars == <<recv_state, recv_divcnt, recv_pattern, recv_buf_data,
              recv_buf_valid>>
hostVars == <<bitTime, bit, left, byte, ser_rx>>
vars == <<recvVars, hostVars, reg_dat_re, pending>>

Zeros == [i \in 1 .. 8 |-> 0]
IdleBit == 10

Init ==
    /\ recv_state = 0 /\ recv_divcnt = 0 /\ recv_pattern = Zeros
    /\ recv_buf_data = Zeros /\ recv_buf_valid = FALSE
    /\ bitTime \in BitTimes /\ bit = IdleBit /\ left \in 1 .. Unit
    /\ byte = Zeros /\ ser_rx = 1 /\ reg_dat_re = TRUE /\ pending = <<>>

(* Nobody has a host on the line.                                            *)
LineAtRest ==
    /\ recv_state = 0 /\ recv_divcnt = 0 /\ recv_pattern = Zeros
    /\ recv_buf_data = Zeros /\ recv_buf_valid = FALSE
    /\ bitTime = 0 /\ bit = IdleBit /\ left = 0 /\ byte = Zeros /\ pending = <<>>
    /\ ser_rx = 1 /\ reg_dat_re = TRUE

-----------------------------------------------------------------------------
(* {ser_rx, recv_pattern[7:1]}: the first bit of the line ends up in place 1. *)
ShiftRight(pattern, b) == [i \in 1 .. 8 |-> IF i = 8 THEN b ELSE pattern[i + 1]]

(* A fault for the mutants: the start bit is not waited out to its middle.    *)
WaitNoStartBit ==
    /\ recv_state = 0
    /\ recv_state' = IF ser_rx = 0 THEN 2 ELSE 0
    /\ recv_divcnt' = 0
    /\ UNCHANGED <<recv_pattern, recv_buf_data>>
    /\ recv_buf_valid' = (recv_buf_valid /\ ~reg_dat_re)

WaitStart ==
    /\ recv_state = 0
    /\ recv_state' = IF ser_rx = 0 THEN 1 ELSE 0
    /\ recv_divcnt' = 0
    /\ UNCHANGED <<recv_pattern, recv_buf_data>>
    /\ recv_buf_valid' = (recv_buf_valid /\ ~reg_dat_re)

(* To the middle of the start bit.                                           *)
HalfBit ==
    /\ recv_state = 1
    /\ IF 2 * recv_divcnt > cfg_divider
         THEN recv_state' = 2 /\ recv_divcnt' = 0
         ELSE recv_divcnt' = recv_divcnt + 1 /\ UNCHANGED recv_state
    /\ UNCHANGED <<recv_pattern, recv_buf_data>>
    /\ recv_buf_valid' = (recv_buf_valid /\ ~reg_dat_re)

(* From middle to middle; eight times.                                       *)
DataBit ==
    /\ recv_state \in 2 .. 9
    /\ IF recv_divcnt > cfg_divider
         THEN /\ recv_pattern' = ShiftRight(recv_pattern, ser_rx)
              /\ recv_state' = recv_state + 1 /\ recv_divcnt' = 0
         ELSE recv_divcnt' = recv_divcnt + 1 /\ UNCHANGED <<recv_pattern, recv_state>>
    /\ UNCHANGED recv_buf_data
    /\ recv_buf_valid' = (recv_buf_valid /\ ~reg_dat_re)

(* A fault for the mutants: a read in the cycle of the stop bit wins.         *)
StopBitReadWins ==
    /\ recv_state = 10
    /\ recv_divcnt' = recv_divcnt + 1
    /\ IF recv_divcnt > cfg_divider
         THEN /\ recv_buf_data' = recv_pattern /\ recv_state' = 0
              /\ recv_buf_valid' = ~reg_dat_re
         ELSE /\ recv_buf_valid' = (recv_buf_valid /\ ~reg_dat_re)
              /\ UNCHANGED <<recv_buf_data, recv_state>>
    /\ UNCHANGED recv_pattern

(* The byte is handed over, in the middle of the stop bit or later: the level *)
(* of the line is not looked at, and a byte not yet read is overwritten.      *)
StopBit ==
    /\ recv_state = 10
    /\ recv_divcnt' = recv_divcnt + 1
    /\ IF recv_divcnt > cfg_divider
         THEN /\ recv_buf_data' = recv_pattern /\ recv_state' = 0
              /\ recv_buf_valid' = TRUE
         ELSE /\ recv_buf_valid' = (recv_buf_valid /\ ~reg_dat_re)
              /\ UNCHANGED <<recv_buf_data, recv_state>>
    /\ UNCHANGED recv_pattern

Receive == WaitStart \/ HalfBit \/ DataBit \/ StopBit

-----------------------------------------------------------------------------
Level(b, payload) == CASE b = 0 -> 0
                       [] b \in 1 .. 8 -> payload[b]
                       [] b \in {9, IdleBit} -> 1

(* The host: the line idles, or a byte goes out bit by bit; the next byte may  *)
(* follow at once.                                                          *)
Line ==
    LET over == left <= Unit
        next == IF bit = IdleBit THEN {0, IdleBit}
                ELSE IF bit = 9 THEN {0, IdleBit} ELSE {bit + 1}
    IN /\ UNCHANGED bitTime
       /\ IF ~over THEN left' = left - Unit /\ UNCHANGED <<bit, byte>>
          ELSE \E b \in next :
                 /\ bit' = b
                 /\ left' = IF b = IdleBit THEN left ELSE left + bitTime - Unit
                 /\ IF b = 0 THEN byte' \in Payloads ELSE UNCHANGED byte
       /\ ser_rx' = Level(bit', byte')

(* The loader reads in every cycle but the ones of its Finish states.         *)
Reader == reg_dat_re' \in IF reg_dat_re THEN BOOLEAN ELSE {TRUE}

Begun == bit' = 0 /\ bit # 0
Delivered == recv_buf_valid /\ reg_dat_re

Owed ==
    LET rest == IF Delivered /\ pending # <<>> THEN Tail(pending) ELSE pending
    IN pending' = IF Begun /\ Len(rest) < MaxOwed THEN Append(rest, byte') ELSE rest

Tick == Receive /\ Line /\ Reader /\ Owed

Next == Tick
Spec == Init /\ [][Next]_vars /\ WF_vars(Tick)

-----------------------------------------------------------------------------
(* What the loader can read is the byte the host sent, bit for bit and in      *)
(* order, and it is read before a third byte begins: the sampling points are    *)
(* 56 cycles apart and the bits 54.25, so they wander towards the end of their   *)
(* bits, and the receiver must be done with a stop bit before the next start     *)
(* bit is too far on, byte after byte without a gap.                        *)
BytesArriveAsSent ==
    /\ recv_buf_valid => pending # <<>> /\ recv_buf_data = Head(pending)
    /\ Len(pending) <= 2

(* No byte is lost: whatever the line does next, it can be read.              *)
BytesAllArrive == pending # <<>> ~> Delivered
=============================================================================
