------------------------------ MODULE Ddr3Core ------------------------------
(***************************************************************************)
(* The DRAM controller core (peripherals/dram/ddr3_core.v): the bank state  *)
(* machine, the refresh timer, and the open-row table, on top of the DFI    *)
(* sequencer and the chip.  One step is one rising edge of clk_i.           *)
(*                                                                         *)
(* req and line are the input port: what the requester asks for in this     *)
(* cycle (inport_rd_i / inport_wr_i gated by the id fifo) and the line      *)
(* inport_addr_i selects.  The core has no request register: it reads the   *)
(* live address in every state from ACTIVATE on, so the requester must not  *)
(* move the address while LineInUse holds.                                  *)
(***************************************************************************)
EXTENDS Ddr3Device

CONSTANTS
    StartDelay,      \* DDR_START_DELAY
    RefreshCycles,   \* DDR_REFRESH_CYCLES
    InitSequence     \* timer value -> command, while in STATE_INIT

(* The start-up sequence holds mode-register and calibration commands, which *)
(* cost no delay, and one PRECHARGE of all banks, before the timer runs out  *)
(* and long enough after the reset for the chip to have finished whatever it *)
(* was doing (30000 - 10 cycles in the code).                                *)
ASSUME CoreAssumption ==
    /\ StartDelay \in Nat /\ RefreshCycles \in Nat
    /\ DOMAIN InitSequence \subseteq 1..StartDelay
    /\ \E p \in DOMAIN InitSequence :
         /\ InitSequence[p] = "PRECHARGE_ALL" /\ p + Long <= StartDelay
         /\ \A t \in DOMAIN InitSequence \ {p} :
               InitSequence[t] \in {"LOAD_MODE", "ZQCL"}

(* A refresh period outlasts what may come before a refresh, whatever delay  *)
(* runs when it is asked for: the row change and the access under way, and    *)
(* closing all banks (37 of 390 cycles in the code).                          *)
ASSUME RefreshAssumption ==
    \A d \in {TRCD, TRP, TRFC, NonSeq} :
        d + NonSeq + TRCD + 2 * TRP + 6 <= RefreshCycles

VARIABLES
    req, line,              \* the input port
    state_q, target_state_q,
    refresh_timer_q, refresh_q,
    row_open_q,             \* the banks whose bit is set
    active_row_q            \* active_row_q[b]: the row opened last in b

portVars == <<req, line>>
coreVars == <<state_q, target_state_q, refresh_timer_q, refresh_q,
              row_open_q, active_row_q>>
vars == <<seqVars, deviceVars, portVars, coreVars>>

Requests == {"NONE", "READ", "WRITE"}
States == {"INIT", "IDLE", "ACTIVATE", "READ", "WRITE", "PRECHARGE", "REFRESH"}

RowZero == CHOOSE r \in Rows : TRUE    \* row 0

RowHit == line.bank \in row_open_q /\ active_row_q[line.bank] = line.row

(* Reset values; the chip keeps its rows (dfi_reset_n_o is tied high).      *)
CoreReset ==
    /\ state_q' = "INIT" /\ target_state_q' = "IDLE"
    /\ refresh_timer_q' = StartDelay /\ refresh_q' = FALSE
    /\ row_open_q' = {}
    /\ active_row_q' = [b \in Banks |-> RowZero]
    /\ SeqReset

CoreInit ==
    /\ state_q = "INIT" /\ target_state_q = "IDLE"
    /\ refresh_timer_q = StartDelay /\ refresh_q = FALSE
    /\ row_open_q = {}
    /\ active_row_q = [b \in Banks |-> RowZero]
    /\ SeqInit

(* Command cmd is on command_i; the state machine moves on when it is taken. *)
Drive(cmd, next, target) ==
    /\ SeqTick(cmd, line)
    /\ IF Accept(cmd)
         THEN state_q' = next /\ target_state_q' = target
         ELSE UNCHANGED <<state_q, target_state_q>>

(* A fault for the mutants: refresh_q is not cleared by the refresh.         *)
RefreshTimerSticky ==
    /\ refresh_timer_q' = IF refresh_timer_q = 0 THEN RefreshCycles
                          ELSE refresh_timer_q - 1
    /\ refresh_q' = (refresh_timer_q = 0 \/ refresh_q)

RefreshTimer ==
    /\ refresh_timer_q' = IF refresh_timer_q = 0 THEN RefreshCycles
                          ELSE refresh_timer_q - 1
    /\ refresh_q' = \/ refresh_timer_q = 0
                    \/ refresh_q /\ state_q # "REFRESH"

StartUp ==
    /\ state_q = "INIT"
    /\ Drive(IF refresh_timer_q \in DOMAIN InitSequence
               THEN InitSequence[refresh_timer_q] ELSE "NOP",
             IF refresh_q THEN "IDLE" ELSE "INIT", target_state_q)
    /\ UNCHANGED <<row_open_q, active_row_q>>

IdleRefresh ==
    /\ state_q = "IDLE" /\ refresh_q
    /\ Drive("NOP", IF row_open_q # {} THEN "PRECHARGE" ELSE "REFRESH",
             "REFRESH")
    /\ UNCHANGED <<row_open_q, active_row_q>>

(* A fault for the mutants: a request may go before a refresh.               *)
IdleAccessFirst ==
    /\ state_q = "IDLE" /\ req # "NONE"
    /\ IF RowHit THEN Drive("NOP", req, target_state_q)
       ELSE Drive("NOP", IF line.bank \in row_open_q THEN "PRECHARGE"
                         ELSE "ACTIVATE", req)
    /\ UNCHANGED <<row_open_q, active_row_q>>

IdleAccess ==
    /\ state_q = "IDLE" /\ ~refresh_q /\ req # "NONE"
    /\ IF RowHit THEN Drive("NOP", req, target_state_q)
       ELSE Drive("NOP", IF line.bank \in row_open_q THEN "PRECHARGE"
                         ELSE "ACTIVATE", req)
    /\ UNCHANGED <<row_open_q, active_row_q>>

IdleWait ==
    /\ state_q = "IDLE" /\ ~refresh_q /\ req = "NONE"
    /\ Drive("NOP", "IDLE", target_state_q)
    /\ UNCHANGED <<row_open_q, active_row_q>>

(* The table is written in every cycle of the state, the first one included, *)
(* even while the sequencer still holds the command back.                    *)
Activate ==
    /\ state_q = "ACTIVATE"
    /\ Drive("ACTIVE", target_state_q, target_state_q)
    /\ row_open_q' = row_open_q \cup {line.bank}
    /\ active_row_q' = [active_row_q EXCEPT ![line.bank] = line.row]

(* STATE_READ and STATE_WRITE issue their command whether or not the request *)
(* is still there.                                                           *)
ReadWrite ==
    /\ state_q \in {"READ", "WRITE"}
    /\ Drive(state_q, "IDLE", target_state_q)
    /\ UNCHANGED <<row_open_q, active_row_q>>

(* A fault for the mutants: the table keeps the rows.                        *)
PrechargeAllKeepsRows ==
    /\ state_q = "PRECHARGE" /\ target_state_q = "REFRESH"
    /\ Drive("PRECHARGE_ALL", "REFRESH", target_state_q)
    /\ UNCHANGED <<row_open_q, active_row_q>>

PrechargeAll ==
    /\ state_q = "PRECHARGE" /\ target_state_q = "REFRESH"
    /\ Drive("PRECHARGE_ALL", "REFRESH", target_state_q)
    /\ row_open_q' = {}
    /\ UNCHANGED active_row_q

PrechargeBank ==
    /\ state_q = "PRECHARGE" /\ target_state_q # "REFRESH"
    /\ Drive("PRECHARGE", "ACTIVATE", target_state_q)
    /\ row_open_q' = row_open_q \ {line.bank}
    /\ UNCHANGED active_row_q

Refresh ==
    /\ state_q = "REFRESH"
    /\ Drive("REFRESH", "IDLE", target_state_q)
    /\ UNCHANGED <<row_open_q, active_row_q>>

CoreTick ==
    /\ \/ StartUp \/ IdleRefresh \/ IdleAccess \/ IdleWait \/ Activate
       \/ ReadWrite \/ PrechargeAll \/ PrechargeBank \/ Refresh
    /\ RefreshTimer

-----------------------------------------------------------------------------
(* The requester.  It may ask for anything, and withdraw it, at any time; it *)
(* moves the address only while the core does not use it.                    *)
LineInUse ==
    \/ state_q \in {"ACTIVATE", "READ", "WRITE"}
    \/ state_q = "PRECHARGE" /\ target_state_q # "REFRESH"

Requester ==
    /\ req' \in Requests
    /\ line' \in Lines
    /\ LineInUse' => line' = line

(* inport_accept_o                                                           *)
Accepted == state_q \in {"READ", "WRITE"} /\ Accept(state_q)

Init ==
    /\ DeviceInit /\ CoreInit
    /\ req \in Requests /\ line \in Lines

Tick == CoreTick /\ DeviceTick /\ Requester
Reset == CoreReset /\ DeviceTick /\ Requester

Next == Tick \/ Reset

Spec == Init /\ [][Next]_vars /\ WF_vars(Tick)

-----------------------------------------------------------------------------
(* The delay counter stays in its six bits, the table and the chip's rows in *)
(* their ranges, and the machine in its states (STATE_DELAY is unreachable).  *)
TypeOK ==
    /\ SeqTypeOK /\ DeviceTypeOK
    /\ req \in Requests /\ line \in Lines
    /\ state_q \in States
    /\ target_state_q \in {"IDLE", "READ", "WRITE", "REFRESH"}
    /\ refresh_timer_q \in Nat /\ refresh_q \in BOOLEAN
    /\ row_open_q \subseteq Banks /\ active_row_q \in [Banks -> Rows]

(* Every command reaches the chip with the banks in the state it needs: a   *)
(* READ or WRITE finds the row the requester addressed open, an ACTIVE finds *)
(* its bank closed, a REFRESH finds all banks closed.  The table             *)
(* row_open_q/active_row_q is written before the command is accepted, and a  *)
(* reset clears it without closing the chip's rows, so it is the state       *)
(* machine as a whole that keeps the two in step.                            *)
CommandsFindTheirRow == RowRule

(* Every command arrives the required number of cycles after each earlier    *)
(* one (tRCD, tRP, tRFC, burst length, bus turnaround), although back-to-back *)
(* reads and writes skip the delay counter and a reset clears it.            *)
CommandsKeepDistance == SpacingRule

(* When the timer asks for a refresh, the one before is done: refresh_q is   *)
(* one bit, and STATE_REFRESH clears it whether it was set before or during   *)
(* the state, so a refresh asked for earlier would be swallowed.             *)
NoRefreshLost == refresh_timer_q = 0 => ~refresh_q /\ state_q # "REFRESH"

(* A request that is held is accepted, whatever refreshes and row changes     *)
(* come first.                                                               *)
HeldReadServed ==
    (req = "READ") ~>
        (req # "READ" \/ (state_q = "READ" /\ Accepted) \/ state_q = "INIT")
=============================================================================
