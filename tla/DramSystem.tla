----------------------------- MODULE DramSystem -----------------------------
(***************************************************************************)
(* The whole DRAM subsystem, cycle by cycle: dram_controller_axi.sv on       *)
(* dram_controller_wb.sv on ddr3_controller.sv (core, sequencer, PHY) and    *)
(* the chip, under an AXI4 master.  The components are the modules of those  *)
(* names; this one is their wiring, the id fifo and the acknowledge of       *)
(* ddr3_core.v.  The CPU runs only while the UART loader is quiet, so no     *)
(* UART word arrives here.                                                  *)
(***************************************************************************)
EXTENDS Integers, Sequences

CONSTANTS
    TRCD, TRP, TRFC, TWTR, WL, BL, RL, PhyRdLat, FifoDepth, Long,
    StartDelay, RefreshCycles, InitSequence, WdgStart,
    Banks, Rows, Lines, Closed, Masked, Garbage,
    Lanes, Bytes, AddrMod, ZeroData, Reads, Writes, Strobes, Serial,
    InitMemory,
    LineOf,      \* the bank, row and column of each 16-byte line
    IdDepth      \* depth of u_id_fifo

VARIABLES
    aw, w, ar, bready, rready,                              \* the AXI master
    wleft, rq, wq, memory, expected,
    current_state, reg_id, current_addr, reg_len, reg_size, reg_burst,
    beat_count, is_write, reg_rdata, wb_dat_w, wb_sel,      \* the AXI front
    state_r, wb_ack_r, wb_read_data_r, wb_adr_r, wb_dat_r, wb_sel_r,
    uart_adr_r, uart_dat_r,                                 \* the Wishbone front
    DRAM_ADDRESS, DRAM_DATA_WRITE, DRAM_RE, DRAM_WE, DRAM_WDG,
    state_q, target_state_q, refresh_timer_q, refresh_q,    \* the core
    row_open_q, active_row_q,
    id_count, write_ack_q,
    delay_q, last_cmd_q, dfi, wfifo, wr_en_q, dfi_wr_idx_q, \* the sequencer
    wr_beat, rd_en_q, rd_pipe, dfi_rd_idx_q, rd_data_q, rd_valid_q,
    open_row, since, cells, dev_wr, dev_rd                  \* the chip

masterVars == <<aw, w, ar, bready, rready, wleft, rq, wq, memory, expected>>

(* What the AXI front sees of the Wishbone.                                  *)
Axi == INSTANCE DramAxiMemory
         WITH wb_ack <- wb_ack_r,
              wb_dat_r <- IF wb_ack_r /\ ~is_write THEN wb_read_data_r
                          ELSE ZeroData

wb == [cyc |-> Axi!wb_cyc, we |-> is_write,
       adr |-> [line |-> current_addr \div 16, word |-> (current_addr \div 4) % 4],
       dat |-> wb_dat_w, sel |-> wb_sel]

(* ram_req_w: a full id fifo hides the request.                              *)
id_fifo_space_w == id_count # IdDepth
req == CASE id_fifo_space_w /\ DRAM_RE -> "READ"
         [] id_fifo_space_w /\ ~DRAM_RE /\ DRAM_WE -> "WRITE"
         [] OTHER -> "NONE"

Core == INSTANCE Ddr3Core WITH line <- LineOf[DRAM_ADDRESS]

LineAddrs == 0..((AddrMod - 1) \div 16)

(* The bursts stay in the memory, and each line has its place in the chip.   *)
ASSUME WiringAssumption ==
    /\ AddrMod \in Nat \ {0}
    /\ \A r \in Reads \cup Writes :
         r.valid /\ r.addr \in 0..(AddrMod - 1) /\ r.size \in 0..2
    /\ LineOf \in [LineAddrs -> Lines]
    /\ \A l \in Lines : l.bank \in Banks /\ l.row \in Rows
    /\ \A t \in DOMAIN InitSequence :
         InitSequence[t] \in {"LOAD_MODE", "ZQCL", "PRECHARGE_ALL"}

(* The wiring relies on how long things take.  A burst outlasts the cycle     *)
(* between two accesses of the core, so that a held request runs back to      *)
(* back, and is over before the next request of the AXI front can be taken    *)
(* (BL is 4 in the code).  A read is answered before the delay counter lets   *)
(* any other command pass (8 < 10), and the id fifo is deep enough for the    *)
(* reads that burst spacing lets in until then (12 < 24).                     *)
ASSUME LatencyAssumption ==
    /\ TRCD \in Nat /\ TRP \in Nat /\ TRFC \in Nat /\ TWTR \in Nat
    /\ WL \in Nat /\ RL \in Nat \ {0} /\ PhyRdLat \in Nat
    /\ BL \in 2..4
    /\ RL + PhyRdLat < WL + TWTR
    /\ IdDepth \in Nat /\ RL + PhyRdLat + BL < BL * (IdDepth - 2)
Line == [0..3 -> [Lanes -> Bytes]]
Dfi == INSTANCE Ddr3DfiData WITH Data <- Line

(* inport_accept_o, inport_ack_o, inport_read_data_o, ram_ready              *)
ram == [accept |-> Core!Accepted, ack |-> rd_valid_q \/ write_ack_q,
        data |-> Dfi!ReadData, ready |-> state_q = "IDLE"]

Wb == INSTANCE DramControllerWb WITH Words <- 0..3, uart <- [we |-> FALSE]

coreSide == <<id_count, write_ack_q, Core!seqVars, Core!deviceVars,
              Core!coreVars, Dfi!dataVars>>
vars == <<masterVars, Axi!axiVars, Wb!wbVars, coreSide>>

(* The command accepted in this cycle and the payload that goes with it.     *)
Issued == IF Core!Accepted THEN state_q ELSE "NOP"
Payload == IF DRAM_WE THEN DRAM_DATA_WRITE ELSE Masked

(* A fault for the mutants: an answer does not pop the id fifo.              *)
IdFifoPushOnly ==
    id_count' = IF req # "NONE" /\ Core!Accepted THEN id_count + 1 ELSE id_count

IdFifo ==
    LET push == req # "NONE" /\ Core!Accepted
        pop == ram.ack /\ id_count # 0
    IN  id_count' = CASE push /\ ~pop -> id_count + 1
                      [] pop /\ ~push -> id_count - 1
                      [] OTHER -> id_count

Init ==
    /\ Axi!Init /\ Wb!WbInit
    /\ Core!DeviceInit /\ Core!CoreInit
    /\ cells = [l \in Lines |->
                  LET n == CHOOSE a \in LineAddrs : LineOf[a] = l
                  IN  [k \in 0..3 |-> InitMemory[4 * n + k]]]
    /\ Dfi!DataInit
    /\ id_count = 0 /\ write_ack_q = FALSE

(* The core side runs once the watchdog of the Wishbone front is at zero.    *)
CoreSide ==
    /\ Core!DeviceTick
    /\ IF Wb!CoreHeld
         THEN /\ Core!CoreReset /\ Dfi!DataReset
              /\ id_count' = 0 /\ write_ack_q' = FALSE
         ELSE /\ Core!CoreTick /\ Dfi!DataTick(Issued, Payload)
              /\ IdFifo /\ write_ack_q' = (Issued = "WRITE")

(* memory is what the acknowledged writes amount to.                         *)
Acknowledged ==
    memory' = IF wb_ack_r' /\ is_write
                THEN [memory EXCEPT ![current_addr \div 4] =
                        Axi!Strobed(@, wb_dat_w, wb_sel)]
                ELSE memory

(* The front looks at an offer only when it is ready for it, so offers that   *)
(* come up earlier and are held make no difference and are left out.         *)
Master ==
    /\ Axi!Master
    /\ aw'.valid \/ ar'.valid => Axi!awready'
    /\ w'.valid => Axi!wready'

Tick ==
    /\ Axi!AxiTick /\ Axi!History /\ Master
    /\ Wb!WbTick /\ CoreSide /\ Acknowledged

Next == Tick

(* The clock ticks.                                                          *)
Spec == Init /\ [][Next]_vars /\ WF_vars(Tick)

-----------------------------------------------------------------------------
(* A read gets the data of its own address: what "Full AXI4 Slave Interface"  *)
(* (dram_controller_axi.sv:15) says of bursts, wherever they run.            *)
ReadsFitTheirBurst == Axi!ReadBeatsFitTheirBurst

(* The subsystem behaves like a memory behind the AXI front: each access is   *)
(* acknowledged once, and a read gets what the acknowledged writes left,      *)
(* although the held request makes the core run it several times over and the *)
(* answers of the extra runs come in later.                                  *)
ImplementsAxiMemory == Axi!Init /\ [][Axi!Next]_(Axi!vars)

(* The core reads its address port live from ACTIVATE to READ or WRITE; the   *)
(* Wishbone front never moves it there.                                      *)
AddressHeld == [][Core!LineInUse' => DRAM_ADDRESS' = DRAM_ADDRESS]_vars

(* The request that the front leaves up until the acknowledge never fills the *)
(* id fifo, which would hide it.                                             *)
IdFifoHasRoom == id_count < IdDepth

(* An access on the Wishbone is acknowledged, start-up, refreshes and row     *)
(* changes included.                                                         *)
AccessesAnswered == Axi!wb_cyc ~> wb_ack_r
=============================================================================
