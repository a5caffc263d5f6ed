-------------------------- MODULE DramControllerWb --------------------------
(***************************************************************************)
(* The Wishbone front of the DRAM (peripherals/dram/dram_controller_wb.sv):  *)
(* one state machine serves a Wishbone slave port and the UART loader's      *)
(* write pulses, turns every write into a read-modify-write of a 16-byte     *)
(* line, and holds the DRAM core in reset until a watchdog has counted down.  *)
(* One step is one rising edge of clk_i.                                    *)
(*                                                                         *)
(* wb, uart and ram are the input ports in this cycle.                      *)
(***************************************************************************)
EXTENDS Naturals

CONSTANTS
    LineAddrs,   \* what is left of an address without its low four bits
    Words,       \* the words of a line, address bits 3:2
    Lanes,       \* the byte lanes of a word
    Bytes,       \* what a byte can hold
    WdgStart     \* `CPU_CLK / 5000

ASSUME WdgAssumption == WdgStart \in Nat

VARIABLES
    wb,        \* wb_cyc_i (with wb_stb_i), wb_we_i, wb_adr_i, wb_dat_i, wb_sel_i
    uart,      \* uart_dram_write_we_i, _addr_i, _data_i
    ram,       \* ram_ready, ram_accept, ram_ack, ram_rd_data
    state_r, wb_ack_r, wb_read_data_r,
    wb_adr_r, wb_dat_r, wb_sel_r,
    uart_adr_r, uart_dat_r,
    DRAM_ADDRESS, DRAM_DATA_WRITE, DRAM_RE, DRAM_WE, DRAM_WDG

wbReqRegs == <<wb_adr_r, wb_dat_r, wb_sel_r>>
uartRegs == <<uart_adr_r, uart_dat_r>>
ramRegs == <<DRAM_ADDRESS, DRAM_DATA_WRITE, DRAM_RE, DRAM_WE>>
wbVars == <<state_r, wb_ack_r, wb_read_data_r, wbReqRegs, uartRegs, ramRegs,
            DRAM_WDG>>

Word == [Lanes -> Bytes]
Line == [Words -> Word]
Addr == [line : LineAddrs, word : Words]

(* A fault for the mutants: the strobes are ignored.                         *)
MergeAll(line, word, dat, sel) == [line EXCEPT ![word] = dat]

(* A write of some lanes of one word into a line.                           *)
Merge(line, word, dat, sel) ==
    [line EXCEPT ![word] = [b \in Lanes |-> IF b \in sel THEN dat[b] ELSE @[b]]]

(* ddr3_reset_i: the core, not this machine, waits for the watchdog.         *)
CoreHeld == DRAM_WDG # 0

ZeroWord == [b \in Lanes |-> CHOOSE v \in Bytes : TRUE]
ZeroLine == [w \in Words |-> ZeroWord]
ZeroAddr == CHOOSE a \in Addr : TRUE

WbInit ==
    /\ state_r = "IDLE" /\ wb_ack_r = FALSE /\ wb_read_data_r = ZeroWord
    /\ wb_adr_r = ZeroAddr /\ wb_dat_r = ZeroWord /\ wb_sel_r = {}
    /\ uart_adr_r = ZeroAddr /\ uart_dat_r = ZeroWord
    /\ DRAM_ADDRESS = ZeroAddr.line /\ DRAM_DATA_WRITE = ZeroLine
    /\ DRAM_RE = FALSE /\ DRAM_WE = FALSE /\ DRAM_WDG = WdgStart

WbReset ==
    /\ state_r' = "IDLE" /\ wb_ack_r' = FALSE /\ wb_read_data_r' = ZeroWord
    /\ wb_adr_r' = ZeroAddr /\ wb_dat_r' = ZeroWord /\ wb_sel_r' = {}
    /\ uart_adr_r' = ZeroAddr /\ uart_dat_r' = ZeroWord
    /\ DRAM_ADDRESS' = ZeroAddr.line /\ DRAM_DATA_WRITE' = ZeroLine
    /\ DRAM_RE' = FALSE /\ DRAM_WE' = FALSE /\ DRAM_WDG' = WdgStart

-----------------------------------------------------------------------------
(* IDLE: the UART goes first; its pulse is looked at in no other state.      *)
IdleUart ==
    /\ state_r = "IDLE" /\ uart.we
    /\ uart_adr_r' = uart.adr /\ uart_dat_r' = uart.dat
    /\ DRAM_ADDRESS' = uart.adr.line
    /\ state_r' = "UART_WRITE_RMW_START"
    /\ DRAM_RE' = FALSE /\ DRAM_WE' = FALSE /\ wb_ack_r' = FALSE
    /\ UNCHANGED <<wb_read_data_r, wbReqRegs, DRAM_DATA_WRITE>>

(* A fault for the mutants: the request is looked at while it is acknowledged. *)
IdleWbTwice ==
    /\ state_r = "IDLE" /\ ~uart.we /\ wb.cyc
    /\ wb_adr_r' = wb.adr
    /\ DRAM_ADDRESS' = wb.adr.line
    /\ IF wb.we THEN /\ wb_dat_r' = wb.dat /\ wb_sel_r' = wb.sel
                     /\ state_r' = "WRITE_RMW_START"
                ELSE state_r' = "READ_START" /\ UNCHANGED <<wb_dat_r, wb_sel_r>>
    /\ DRAM_RE' = FALSE /\ DRAM_WE' = FALSE /\ wb_ack_r' = FALSE
    /\ UNCHANGED <<wb_read_data_r, uartRegs, DRAM_DATA_WRITE>>

IdleWb ==
    /\ state_r = "IDLE" /\ ~uart.we /\ wb.cyc /\ ~wb_ack_r
    /\ wb_adr_r' = wb.adr
    /\ DRAM_ADDRESS' = wb.adr.line
    /\ IF wb.we THEN /\ wb_dat_r' = wb.dat /\ wb_sel_r' = wb.sel
                     /\ state_r' = "WRITE_RMW_START"
                ELSE state_r' = "READ_START" /\ UNCHANGED <<wb_dat_r, wb_sel_r>>
    /\ DRAM_RE' = FALSE /\ DRAM_WE' = FALSE /\ wb_ack_r' = FALSE
    /\ UNCHANGED <<wb_read_data_r, uartRegs, DRAM_DATA_WRITE>>

IdleNothing ==
    /\ state_r = "IDLE" /\ ~uart.we /\ (wb.cyc => wb_ack_r)
    /\ DRAM_RE' = FALSE /\ DRAM_WE' = FALSE /\ wb_ack_r' = FALSE
    /\ UNCHANGED <<state_r, wb_read_data_r, wbReqRegs, uartRegs, DRAM_ADDRESS,
                   DRAM_DATA_WRITE>>

(* A fault for the mutants: a read is never requested.                       *)
StartWritesOnly(from, to, isWrite) ==
    /\ state_r = from
    /\ IF ram.ready THEN state_r' = to /\ DRAM_WE' = isWrite
                    ELSE UNCHANGED <<state_r, DRAM_WE>>
    /\ wb_ack_r' = FALSE
    /\ UNCHANGED <<wb_read_data_r, wbReqRegs, uartRegs, DRAM_ADDRESS,
                   DRAM_DATA_WRITE, DRAM_RE>>

(* A *_START state raises its request when the core is idle.                 *)
Start(from, to, isWrite) ==
    /\ state_r = from
    /\ IF ram.ready
         THEN /\ state_r' = to
              /\ IF isWrite THEN DRAM_WE' = TRUE /\ UNCHANGED DRAM_RE
                            ELSE DRAM_RE' = TRUE /\ UNCHANGED DRAM_WE
         ELSE UNCHANGED <<state_r, DRAM_RE, DRAM_WE>>
    /\ wb_ack_r' = FALSE
    /\ UNCHANGED <<wb_read_data_r, wbReqRegs, uartRegs, DRAM_ADDRESS,
                   DRAM_DATA_WRITE>>

(* A *_WAIT_ACCEPT state leaves the request up when it is accepted.          *)
WaitAccept(from, to) ==
    /\ state_r = from
    /\ state_r' = IF ram.accept THEN to ELSE from
    /\ wb_ack_r' = FALSE
    /\ UNCHANGED <<wb_read_data_r, wbReqRegs, uartRegs, ramRegs>>

StillWaiting(from) ==
    /\ state_r = from /\ ~ram.ack
    /\ wb_ack_r' = FALSE
    /\ UNCHANGED <<state_r, wb_read_data_r, wbReqRegs, uartRegs, ramRegs>>

ReadAck ==
    /\ state_r = "READ_WAIT_ACK" /\ ram.ack
    /\ wb_read_data_r' = ram.data[wb_adr_r.word]
    /\ wb_ack_r' = TRUE /\ state_r' = "IDLE" /\ DRAM_RE' = FALSE
    /\ UNCHANGED <<wbReqRegs, uartRegs, DRAM_ADDRESS, DRAM_DATA_WRITE, DRAM_WE>>

RmwAck(from, to, adr, dat, sel) ==
    /\ state_r = from /\ ram.ack
    /\ DRAM_DATA_WRITE' = Merge(ram.data, adr.word, dat, sel)
    /\ state_r' = to /\ DRAM_RE' = FALSE /\ wb_ack_r' = FALSE
    /\ UNCHANGED <<wb_read_data_r, wbReqRegs, uartRegs, DRAM_ADDRESS, DRAM_WE>>

(* The end of a write is acknowledged on the Wishbone, unless it was a UART  *)
(* write.                                                                    *)
WriteAck(from) ==
    /\ state_r = from /\ ram.ack
    /\ wb_ack_r' = (from = "WRITE_WAIT_ACK")
    /\ state_r' = "IDLE" /\ DRAM_WE' = FALSE
    /\ UNCHANGED <<wb_read_data_r, wbReqRegs, uartRegs, DRAM_ADDRESS,
                   DRAM_DATA_WRITE, DRAM_RE>>

WbRead ==
    \/ Start("READ_START", "READ_WAIT_ACCEPT", FALSE)
    \/ WaitAccept("READ_WAIT_ACCEPT", "READ_WAIT_ACK")
    \/ StillWaiting("READ_WAIT_ACK")
    \/ ReadAck

WbWrite ==
    \/ Start("WRITE_RMW_START", "WRITE_RMW_WAIT_ACCEPT", FALSE)
    \/ WaitAccept("WRITE_RMW_WAIT_ACCEPT", "WRITE_RMW_WAIT_ACK")
    \/ StillWaiting("WRITE_RMW_WAIT_ACK")
    \/ RmwAck("WRITE_RMW_WAIT_ACK", "WRITE_START", wb_adr_r, wb_dat_r, wb_sel_r)
    \/ Start("WRITE_START", "WRITE_WAIT_ACCEPT", TRUE)
    \/ WaitAccept("WRITE_WAIT_ACCEPT", "WRITE_WAIT_ACK")
    \/ StillWaiting("WRITE_WAIT_ACK")
    \/ WriteAck("WRITE_WAIT_ACK")

UartWrite ==
    \/ Start("UART_WRITE_RMW_START", "UART_WRITE_RMW_WAIT_ACCEPT", FALSE)
    \/ WaitAccept("UART_WRITE_RMW_WAIT_ACCEPT", "UART_WRITE_RMW_WAIT_ACK")
    \/ StillWaiting("UART_WRITE_RMW_WAIT_ACK")
    \/ RmwAck("UART_WRITE_RMW_WAIT_ACK", "UART_WRITE_START", uart_adr_r,
              uart_dat_r, Lanes)
    \/ Start("UART_WRITE_START", "UART_WRITE_WAIT_ACCEPT", TRUE)
    \/ WaitAccept("UART_WRITE_WAIT_ACCEPT", "UART_WRITE_WAIT_ACK")
    \/ StillWaiting("UART_WRITE_WAIT_ACK")
    \/ WriteAck("UART_WRITE_WAIT_ACK")

WbTick ==
    /\ IdleUart \/ IdleWb \/ IdleNothing \/ WbRead \/ WbWrite \/ UartWrite
    /\ DRAM_WDG' = IF DRAM_WDG > 0 THEN DRAM_WDG - 1 ELSE 0
=============================================================================
