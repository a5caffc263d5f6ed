-------------------------- MODULE DramControllerAxi --------------------------
(***************************************************************************)
(* The AXI front of the DRAM (peripherals/dram/dram_controller_axi.sv): one  *)
(* transaction at a time, one Wishbone access per beat.  One step is one     *)
(* rising edge of clk_i.                                                    *)
(*                                                                         *)
(* aw, w, ar, bready, rready and wb_ack, wb_dat_r are the input ports in     *)
(* this cycle.  Addresses are byte addresses; prot and wlast are ignored, as *)
(* in the code, and so are the bresp and rresp that are always OKAY.         *)
(***************************************************************************)
EXTENDS Naturals

CONSTANTS
    AddrMod,     \* 2^AXI_ADDR_WIDTH
    ZeroData     \* the data word '0

ASSUME AddrModAssumption == AddrMod \in Nat \ {0}

VARIABLES
    aw, w, ar,             \* offers: valid, and the channel's fields if it is
    bready, rready,
    wb_ack, wb_dat_r,
    current_state,
    reg_id, current_addr, reg_len, reg_size, reg_burst,
    beat_count, is_write, reg_rdata,
    wb_dat_w, wb_sel

burstRegs == <<reg_id, reg_len, reg_size, reg_burst, is_write>>
dataRegs == <<reg_rdata, wb_dat_w, wb_sel>>
axiVars == <<current_state, burstRegs, current_addr, beat_count, dataRegs>>

awready == current_state = "IDLE"
arready == current_state = "IDLE"
wready == current_state = "WRITE_WAIT_DATA"
bvalid == current_state = "WRITE_RESP_AXI"
rvalid == current_state = "READ_RESP_AXI"
rlast == beat_count = reg_len
wb_cyc == current_state \in {"READ_REQ_WB", "READ_WAIT_WB",
                             "WRITE_REQ_WB", "WRITE_WAIT_WB"}

AxiInit ==
    /\ current_state = "IDLE"
    /\ reg_id = 0 /\ reg_len = 0 /\ reg_size = 0 /\ reg_burst = "FIXED"
    /\ is_write = FALSE /\ current_addr = 0 /\ beat_count = 0
    /\ reg_rdata = ZeroData /\ wb_dat_w = ZeroData /\ wb_sel = {}

(* Take the burst offered in req.                                            *)
Latch(req, write) ==
    /\ reg_id' = req.id /\ reg_len' = req.len /\ reg_size' = req.size
    /\ reg_burst' = req.burst /\ is_write' = write
    /\ current_addr' = req.addr /\ beat_count' = 0
    /\ UNCHANGED dataRegs

(* Both address channels are ready in IDLE; a write goes first.              *)
TakeWrite ==
    /\ current_state = "IDLE" /\ aw.valid
    /\ current_state' = "WRITE_WAIT_DATA"
    /\ Latch(aw, TRUE)

TakeRead ==
    /\ current_state = "IDLE" /\ ~aw.valid /\ ar.valid
    /\ current_state' = "READ_REQ_WB"
    /\ Latch(ar, FALSE)

(* A fault for the mutants: every burst steps the address.                   *)
NextBeatSteps ==
    /\ beat_count' = (beat_count + 1) % 256
    /\ current_addr' = (current_addr + 2^reg_size) % AddrMod

(* The beat is over: count it, and step the address of an INCR burst.        *)
NextBeat ==
    /\ beat_count' = (beat_count + 1) % 256
    /\ current_addr' = IF reg_burst = "INCR"
                         THEN (current_addr + 2^reg_size) % AddrMod
                         ELSE current_addr

Request(from, to) ==
    /\ current_state = from /\ current_state' = to
    /\ UNCHANGED <<burstRegs, current_addr, beat_count, dataRegs>>

ReadAnswered ==
    /\ current_state = "READ_WAIT_WB" /\ wb_ack
    /\ reg_rdata' = wb_dat_r
    /\ current_state' = "READ_RESP_AXI"
    /\ UNCHANGED <<burstRegs, current_addr, beat_count, wb_dat_w, wb_sel>>

(* A fault for the mutants: the burst ends with its first beat.              *)
ReadResponseOnce ==
    /\ rvalid /\ rready
    /\ current_state' = "IDLE"
    /\ NextBeat
    /\ UNCHANGED <<burstRegs, dataRegs>>

ReadResponse ==
    /\ rvalid /\ rready
    /\ current_state' = IF rlast THEN "IDLE" ELSE "READ_REQ_WB"
    /\ NextBeat
    /\ UNCHANGED <<burstRegs, dataRegs>>

(* A fault for the mutants: the strobes of the first beat are kept.          *)
TakeDataOnly ==
    /\ wready /\ w.valid
    /\ wb_dat_w' = w.data
    /\ wb_sel' = IF beat_count = 0 THEN w.strb ELSE wb_sel
    /\ current_state' = "WRITE_REQ_WB"
    /\ UNCHANGED <<burstRegs, current_addr, beat_count, reg_rdata>>

TakeData ==
    /\ wready /\ w.valid
    /\ wb_dat_w' = w.data /\ wb_sel' = w.strb
    /\ current_state' = "WRITE_REQ_WB"
    /\ UNCHANGED <<burstRegs, current_addr, beat_count, reg_rdata>>

(* A fault for the mutants: the last beat is counted one too far.            *)
WriteAnsweredLate ==
    /\ current_state = "WRITE_WAIT_WB" /\ wb_ack
    /\ current_state' = IF beat_count = reg_len + 1 THEN "WRITE_RESP_AXI"
                        ELSE "WRITE_WAIT_DATA"
    /\ NextBeat
    /\ UNCHANGED <<burstRegs, dataRegs>>

WriteAnswered ==
    /\ current_state = "WRITE_WAIT_WB" /\ wb_ack
    /\ current_state' = IF rlast THEN "WRITE_RESP_AXI" ELSE "WRITE_WAIT_DATA"
    /\ NextBeat
    /\ UNCHANGED <<burstRegs, dataRegs>>

WriteResponse ==
    /\ bvalid /\ bready
    /\ current_state' = "IDLE"
    /\ UNCHANGED <<burstRegs, current_addr, beat_count, dataRegs>>

(* Nothing the current state looks at has arrived.                           *)
Wait ==
    /\ CASE current_state = "IDLE" -> ~aw.valid /\ ~ar.valid
         [] current_state \in {"READ_WAIT_WB", "WRITE_WAIT_WB"} -> ~wb_ack
         [] rvalid -> ~rready
         [] wready -> ~w.valid
         [] bvalid -> ~bready
         [] OTHER -> FALSE
    /\ UNCHANGED axiVars

AxiTick ==
    \/ TakeWrite \/ TakeRead
    \/ Request("READ_REQ_WB", "READ_WAIT_WB") \/ ReadAnswered \/ ReadResponse
    \/ TakeData \/ Request("WRITE_REQ_WB", "WRITE_WAIT_WB") \/ WriteAnswered
    \/ WriteResponse \/ Wait
=============================================================================
