----------------------------- MODULE Ddr3DfiSeq -----------------------------
(***************************************************************************)
(* The command side of the DFI sequencer (peripherals/dram/ddr3_dfi_seq.v): *)
(* the delay counter that spaces DRAM commands, the early acceptance of     *)
(* back-to-back reads or writes, and the register that drives the DFI       *)
(* command pins.  The data side of the same file is module Ddr3DfiData.     *)
(*                                                                         *)
(* The module has no next-state relation of its own: one clock edge is the  *)
(* action SeqTick(cmd, line), whose parameters are the combinational inputs *)
(* command_i, bank_i and address_i that ddr3_core drives.                   *)
(***************************************************************************)
EXTENDS Integers

CONSTANTS
    TRCD, TRP, TRFC, TWTR,   \* DDR_TRCD/TRP/TRFC/TWTR_CYCLES
    WL,                      \* DDR_WRITE_LATENCY
    BL,                      \* DDR_BURST_LEN, in DFI data beats
    Lines                    \* 16-byte lines: records with a bank, a row, a col

(* The delay counter has DELAY_W = 6 bits, and a burst is at least one beat. *)
ASSUME TimingAssumption ==
    /\ TRCD \in 0..63 /\ TRP \in 0..63 /\ TRFC \in 0..63
    /\ TWTR \in Nat /\ WL \in Nat /\ BL \in Nat \ {0}
    /\ WL + BL + TWTR < 64

NonSeq == WL + BL + TWTR      \* DDR_RW_NONSEQ_CYCLES
SeqGap == NonSeq + 1 - BL     \* DDR_RW_SEQ_CYCLES

Commands == {"NOP", "ACTIVE", "READ", "WRITE", "PRECHARGE", "PRECHARGE_ALL",
             "REFRESH", "LOAD_MODE", "ZQCL"}

VARIABLES
    delay_q,      \* cycles before the next command may be accepted
    last_cmd_q,   \* the last accepted command other than NOP
    dfi           \* the command on the DFI pins (command_q, bank_q, addr_q)

seqVars == <<delay_q, last_cmd_q, dfi>>

(* The line a command is for travels with it.  Its bank, and its row for an *)
(* ACTIVE or its column for a READ or WRITE, are what the pins carry; the   *)
(* row of a READ or WRITE is not on the pins and is kept to state which row *)
(* the requester meant.                                                     *)
NopCommand == [cmd |-> "NOP"]
DfiCommands == {NopCommand} \cup [cmd : Commands \ {"NOP"}, line : Lines]

(* Faults for the mutants: the last command is not compared; writes are not  *)
(* accepted early; bursts are accepted for a cycle longer.                   *)
EarlyAfterAny(cmd) == cmd \in {"READ", "WRITE"} /\ delay_q = SeqGap
EarlyReadsOnly(cmd) == cmd = "READ" /\ last_cmd_q = cmd /\ delay_q = SeqGap
EarlyAWhile(cmd) == cmd \in {"READ", "WRITE"} /\ last_cmd_q = cmd /\ delay_q \in {SeqGap - 1, SeqGap}

EarlyAccept(cmd) ==
    cmd \in {"READ", "WRITE"} /\ last_cmd_q = cmd /\ delay_q = SeqGap

Accept(cmd) == delay_q = 0 \/ EarlyAccept(cmd) \/ cmd = "NOP"

DelayAfter(cmd) ==
    CASE cmd = "ACTIVE" -> TRCD
      [] cmd \in {"READ", "WRITE"} -> NonSeq
      [] cmd \in {"PRECHARGE", "PRECHARGE_ALL"} -> TRP
      [] cmd = "REFRESH" -> TRFC
      [] cmd \in {"NOP", "LOAD_MODE", "ZQCL"} -> 0

(* A fault for the mutants: the counter counts on below zero.                *)
NextDelayUnguarded(cmd) ==
    IF delay_q = 0 /\ cmd # "NOP" THEN DelayAfter(cmd)
    ELSE IF EarlyAccept(cmd) THEN NonSeq ELSE delay_q - 1

NextDelay(cmd) ==
    IF delay_q = 0 THEN DelayAfter(cmd)
    ELSE IF EarlyAccept(cmd) THEN NonSeq ELSE delay_q - 1

SeqInit ==
    /\ delay_q = 0
    /\ last_cmd_q = "NOP"
    /\ dfi = NopCommand

SeqTick(cmd, line) ==
    /\ delay_q' = NextDelay(cmd)
    /\ IF Accept(cmd) /\ cmd # "NOP"
          THEN last_cmd_q' = cmd /\ dfi' = [cmd |-> cmd, line |-> line]
          ELSE last_cmd_q' = last_cmd_q /\ dfi' = NopCommand

SeqReset == delay_q' = 0 /\ last_cmd_q' = "NOP" /\ dfi' = NopCommand

SeqTypeOK ==
    /\ delay_q \in 0..63
    /\ last_cmd_q \in Commands
    /\ dfi \in DfiCommands
=============================================================================
