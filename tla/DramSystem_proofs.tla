------------------------- MODULE DramSystem_proofs -------------------------
(***************************************************************************)
(* Proofs about DramSystem: the Wishbone front never moves the address under *)
(* the core, its held request never fills the id fifo, and the subsystem     *)
(* runs the core the way Ddr3Core asks of a requester, for all memories,     *)
(* bursts and contents and all timing parameters within LatencyAssumption.   *)
(***************************************************************************)
EXTENDS DramSystem, FiniteSetTheorems, TLAPS

NonSeq == Core!NonSeq
SeqGap == Core!SeqGap
RdAge == Dfi!RdAge
LastRd == RdAge + BL - 1

-----------------------------------------------------------------------------
(* The two fronts are in step: the Wishbone front is away from IDLE exactly   *)
(* while the AXI front waits for it, and a request is up in the states that   *)
(* wait for its acceptance or its answer.                                    *)
ReadAccepting == {"READ_WAIT_ACCEPT", "WRITE_RMW_WAIT_ACCEPT"}
ReadAnswering == {"READ_WAIT_ACK", "WRITE_RMW_WAIT_ACK"}
Starting == {"READ_START", "WRITE_RMW_START"}
RequestsWb == {"READ_REQ_WB", "WRITE_REQ_WB"}
AwaitsWb == {"READ_WAIT_WB", "WRITE_WAIT_WB"}

FrontInv ==
    /\ state_r \in {"IDLE", "WRITE_START", "WRITE_WAIT_ACCEPT", "WRITE_WAIT_ACK"}
                   \cup ReadAccepting \cup ReadAnswering \cup Starting
    /\ DRAM_RE \in BOOLEAN /\ DRAM_WE \in BOOLEAN /\ wb_ack_r \in BOOLEAN
    /\ DRAM_RE <=> state_r \in ReadAccepting \cup ReadAnswering
    /\ DRAM_WE <=> state_r \in {"WRITE_WAIT_ACCEPT", "WRITE_WAIT_ACK"}
    /\ wb_ack_r => state_r = "IDLE" /\ current_state \in AwaitsWb
    /\ state_r # "IDLE" => current_state \in AwaitsWb
    /\ current_state \in AwaitsWb /\ ~wb_ack_r => state_r # "IDLE"

(* Addresses stay in the memory.                                             *)
AddressInv ==
    /\ aw.valid => aw \in Writes
    /\ ar.valid => ar \in Reads
    /\ current_addr \in 0..(AddrMod - 1) /\ reg_size \in 0..2
    /\ DRAM_ADDRESS \in LineAddrs

-----------------------------------------------------------------------------
(* The reads under way, by their ages: accepted and not yet answered.         *)
Ages == {r.age : r \in dev_rd} \cup (IF dfi.cmd = "READ" THEN {0} ELSE {})

(* They are at least a burst apart, and the delay counter knows of them.      *)
ReadsApart ==
    /\ Ages \subseteq 0..LastRd
    /\ \A r \in dev_rd : r = [data |-> r.data, age |-> r.age] /\ r.age # 0
    /\ \A x, y \in Ages : x < y => y - x >= BL
    /\ \A x \in Ages : last_cmd_q = "READ" /\ delay_q + x >= NonSeq

(* Shift registers and beat counter know when their beats are due.            *)
BeatsTimed ==
    /\ rd_en_q = {k \in 0..RL + BL - 2 : \E x \in Ages :
                    RL - 1 <= k + x /\ k + x <= RL + BL - 2}
    /\ rd_pipe = {k \in 0..PhyRdLat + 1 : \E x \in Ages :
                    RdAge <= k + x /\ k + x <= LastRd}
    /\ \A x \in Ages : RdAge <= x => dfi_rd_idx_q = x - RdAge
    /\ (\A x \in Ages : x < RdAge) => dfi_rd_idx_q = 0

(* The id fifo holds no more than the accesses that are still to be answered. *)
Answering == rd_valid_q \/ write_ack_q

CountInv ==
    /\ rd_valid_q \in BOOLEAN /\ write_ack_q \in BOOLEAN
    /\ write_ack_q => Ages = {} /\ ~rd_valid_q
    /\ id_count \in Nat
    /\ id_count <= Cardinality(Ages) + (IF Answering THEN 1 ELSE 0)

-----------------------------------------------------------------------------
(* An access that uses the address is a burst back to back with the one      *)
(* before, and will have been accepted in d cycles at most.                  *)
EndsWithin(d) ==
    Core!LineInUse =>
        /\ state_q \in {"READ", "WRITE"} /\ last_cmd_q = state_q
        /\ SeqGap <= delay_q /\ delay_q <= SeqGap + d

Asked == IF DRAM_RE THEN "READ" ELSE "WRITE"

(* What the core may be doing while no request is up: finishing an extra run  *)
(* of the last one, in time for the next address.                            *)
QuietInv ==
    /\ state_r = "IDLE" =>
         EndsWithin(IF wb_ack_r THEN 2
                    ELSE IF current_state \in RequestsWb THEN 0 ELSE 1)
    /\ state_r \in Starting => ~Core!LineInUse
    /\ state_r = "WRITE_START" => EndsWithin(2)

(* While a request waits to be accepted, the core works on no other.          *)
AcceptInv ==
    state_r \in ReadAccepting \cup {"WRITE_WAIT_ACCEPT"} =>
        /\ state_q \in {"READ", "WRITE"} => state_q = Asked
        /\ state_q = "ACTIVATE" => target_state_q = Asked
        /\ state_q = "PRECHARGE" => target_state_q \in {"REFRESH", Asked}

(* While it waits for its answer the row stays open: the core runs it again,  *)
(* back to back, or has started to close all rows and cannot get on with it.  *)
AnsweringFrom(cmd) ==
    \/ /\ state_q = "IDLE" /\ Core!RowHit
       /\ last_cmd_q = cmd /\ delay_q = NonSeq
    \/ state_q = cmd /\ EndsWithin(2)
    \/ state_q = "PRECHARGE" /\ target_state_q = "REFRESH"

AnswerInv ==
    /\ state_r \in ReadAnswering =>
         AnsweringFrom("READ") /\ (Ages # {} \/ rd_valid_q)
    /\ state_r = "WRITE_WAIT_ACK" =>
         write_ack_q /\ AnsweringFrom("WRITE")

CoreInv ==
    /\ delay_q \in Nat /\ active_row_q \in [Banks -> Rows]
    /\ state_q \in {"READ", "WRITE"} => Core!RowHit
    /\ state_q = "INIT" => state_r \in {"IDLE"} \cup Starting /\ Ages = {}
    /\ DRAM_WDG # 0 => state_q = "INIT"

IInv ==
    /\ FrontInv /\ AddressInv /\ ReadsApart /\ BeatsTimed /\ CountInv
    /\ CoreInv /\ QuietInv /\ AcceptInv /\ AnswerInv

-----------------------------------------------------------------------------
(* The parameters are numbers of the expected size.                          *)
LEMMA Parameters ==
    /\ BL \in Nat /\ BL \in 2..4 /\ RL \in Nat /\ RL >= 1 /\ PhyRdLat \in Nat
    /\ NonSeq \in Nat /\ SeqGap \in Nat /\ SeqGap + BL = NonSeq + 1
    /\ SeqGap # 0
    /\ RdAge \in Nat /\ RdAge = RL + 1 + PhyRdLat
    /\ LastRd \in Nat /\ LastRd = RdAge + BL - 1 /\ LastRd < NonSeq
    /\ LastRd < BL * (IdDepth - 2)
<1>1. /\ NonSeq = WL + BL + TWTR /\ SeqGap = NonSeq + 1 - BL
      /\ RdAge = RL + 1 + PhyRdLat /\ LastRd = RdAge + BL - 1
  BY DEF NonSeq, SeqGap, RdAge, LastRd, Core!NonSeq, Core!SeqGap, Dfi!RdAge
<1>2. LastRd = RL + PhyRdLat + BL
  BY <1>1, LatencyAssumption
<1> QED
  BY <1>1, <1>2, LatencyAssumption

(* What the sequencer does with the command the core drives.                 *)
LEMMA CommandTaken ==
    ASSUME delay_q \in Nat, NEW cmd \in Core!Commands, NEW next, NEW target,
           Core!Drive(cmd, next, target),
           NEW issued, issued = IF Core!Accept(cmd) THEN cmd ELSE "NOP"
    PROVE  /\ delay_q' \in Nat
           /\ dfi'.cmd = issued
           /\ issued = "NOP" =>
                /\ last_cmd_q' = last_cmd_q
                /\ delay_q # 0 => delay_q' = delay_q - 1
           /\ issued # "NOP" =>
                /\ last_cmd_q' = issued
                /\ \/ delay_q = 0
                   \/ /\ issued \in {"READ", "WRITE"}
                      /\ last_cmd_q = issued /\ delay_q = SeqGap
           /\ issued \in {"READ", "WRITE"} => delay_q' = NonSeq
           /\ cmd = "NOP" \/ issued # "NOP" =>
                state_q' = next /\ target_state_q' = target
           /\ cmd # "NOP" /\ issued = "NOP" =>
                UNCHANGED <<state_q, target_state_q>> /\ delay_q # 0
<1>1. /\ delay_q' = Core!NextDelay(cmd)
      /\ IF Core!Accept(cmd) /\ cmd # "NOP"
           THEN /\ last_cmd_q' = cmd
                /\ dfi' = [cmd |-> cmd, line |-> LineOf[DRAM_ADDRESS]]
           ELSE last_cmd_q' = last_cmd_q /\ dfi' = Core!NopCommand
      /\ IF Core!Accept(cmd)
           THEN state_q' = next /\ target_state_q' = target
           ELSE UNCHANGED <<state_q, target_state_q>>
  BY DEF Core!Drive, Core!SeqTick
<1>2. /\ Core!Accept(cmd) <=> delay_q = 0 \/ Core!EarlyAccept(cmd) \/ cmd = "NOP"
      /\ Core!EarlyAccept(cmd) <=>
           cmd \in {"READ", "WRITE"} /\ last_cmd_q = cmd /\ delay_q = SeqGap
  BY DEF Core!Accept, Core!EarlyAccept, SeqGap
<1>3. Core!NextDelay(cmd) = IF delay_q = 0 THEN Core!DelayAfter(cmd)
                            ELSE IF Core!EarlyAccept(cmd) THEN NonSeq
                            ELSE delay_q - 1
  BY DEF Core!NextDelay, NonSeq
<1>4. Core!DelayAfter(cmd) \in Nat
  BY LatencyAssumption, Parameters
  DEF Core!DelayAfter, Core!Commands, Core!NonSeq, NonSeq
<1>5. cmd \in {"READ", "WRITE"} => Core!DelayAfter(cmd) = NonSeq
  BY DEF Core!DelayAfter, NonSeq
<1>6. delay_q' \in Nat
  BY <1>1, <1>3, <1>4, Parameters
<1>7. dfi'.cmd = issued
  BY <1>1 DEF Core!NopCommand
<1>8. issued \in {"READ", "WRITE"} => delay_q' = NonSeq
  BY <1>1, <1>2, <1>3, <1>5
<1>9. issued = "NOP" => last_cmd_q' = last_cmd_q
                        /\ (delay_q # 0 => delay_q' = delay_q - 1)
  BY <1>1, <1>2, <1>3
<1> QED
  BY <1>1, <1>2, <1>6, <1>7, <1>8, <1>9

(* The line the address selects, and the row table at it.                    *)
LEMMA Addressed ==
    ASSUME AddressInv
    PROVE  /\ LineOf[DRAM_ADDRESS] \in Lines
           /\ LineOf[DRAM_ADDRESS].bank \in Banks
           /\ LineOf[DRAM_ADDRESS].row \in Rows
BY WiringAssumption DEF AddressInv

(* Which action of the core runs depends on its state.                       *)
LEMMA ByState ==
    ASSUME Core!CoreTick
    PROVE  /\ state_q \in Core!States
           /\ state_q = "INIT" => Core!StartUp
           /\ state_q = "IDLE" => \/ Core!IdleRefresh \/ Core!IdleAccess
                                  \/ Core!IdleWait
           /\ state_q = "ACTIVATE" => Core!Activate
           /\ state_q \in {"READ", "WRITE"} => Core!ReadWrite
           /\ state_q = "PRECHARGE" => Core!PrechargeAll \/ Core!PrechargeBank
           /\ state_q = "REFRESH" => Core!Refresh
BY DEF Core!CoreTick, Core!States, Core!StartUp, Core!IdleRefresh,
       Core!IdleAccess, Core!IdleWait, Core!Activate, Core!ReadWrite,
       Core!PrechargeAll, Core!PrechargeBank, Core!Refresh

(* Accesses are issued in READ and WRITE only.                               *)
LEMMA IssuedIs ==
    /\ Issued \in {"NOP", "READ", "WRITE"}
    /\ state_q \notin {"READ", "WRITE"} => Issued = "NOP"
    /\ state_q \in {"READ", "WRITE"} =>
         Issued = IF Core!Accept(state_q) THEN state_q ELSE "NOP"
BY DEF Issued, Core!Accepted

(* An access in its state: it is issued, or waits for the delay counter.     *)
LEMMA AccessMoves ==
    ASSUME delay_q \in Nat, Core!CoreTick, state_q \in {"READ", "WRITE"}
    PROVE  /\ delay_q' \in Nat /\ dfi'.cmd = Issued
           /\ UNCHANGED <<row_open_q, active_row_q>>
           /\ Issued = "NOP" =>
                /\ UNCHANGED <<state_q, target_state_q, last_cmd_q>>
                /\ delay_q # 0 /\ delay_q' = delay_q - 1
                /\ ~(last_cmd_q = state_q /\ delay_q = SeqGap)
           /\ Issued # "NOP" =>
                /\ Issued = state_q /\ state_q' = "IDLE"
                /\ last_cmd_q' = Issued /\ delay_q' = NonSeq
                /\ delay_q = 0 \/ (last_cmd_q = Issued /\ delay_q = SeqGap)
<1>1. Core!ReadWrite
  BY ByState
<1>2. /\ Core!Drive(state_q, "IDLE", target_state_q)
      /\ UNCHANGED <<row_open_q, active_row_q>>
  BY <1>1 DEF Core!ReadWrite
<1>3. PICK cmd \in Core!Commands : cmd = state_q /\ cmd # "NOP"
  BY DEF Core!Commands
<1>4. PICK issued : issued = IF Core!Accept(cmd) THEN cmd ELSE "NOP"
  OBVIOUS
<1>5. Issued = issued
  BY <1>3, <1>4, IssuedIs
<1>6. Core!Drive(cmd, "IDLE", target_state_q)
  BY <1>2, <1>3
<1>7. /\ delay_q' \in Nat
      /\ dfi'.cmd = issued
      /\ issued = "NOP" =>
           /\ last_cmd_q' = last_cmd_q
           /\ delay_q # 0 => delay_q' = delay_q - 1
      /\ issued # "NOP" =>
           /\ last_cmd_q' = issued
           /\ \/ delay_q = 0
              \/ /\ issued \in {"READ", "WRITE"}
                 /\ last_cmd_q = issued /\ delay_q = SeqGap
      /\ issued \in {"READ", "WRITE"} => delay_q' = NonSeq
      /\ cmd = "NOP" \/ issued # "NOP" => state_q' = "IDLE"
      /\ cmd # "NOP" /\ issued = "NOP" =>
           UNCHANGED <<state_q, target_state_q>> /\ delay_q # 0
  BY <1>4, <1>6, CommandTaken
<1>8. issued = "NOP" => ~(last_cmd_q = state_q /\ delay_q = SeqGap)
  BY <1>3, <1>4 DEF Core!Accept, Core!EarlyAccept, SeqGap
<1> QED
  BY <1>2, <1>3, <1>4, <1>5, <1>7, <1>8

(* In every other state the delay counter runs on, and no READ is issued.     *)
LEMMA OtherMoves ==
    ASSUME delay_q \in Nat, Core!CoreTick, state_q \notin {"READ", "WRITE"}
    PROVE  /\ delay_q' \in Nat /\ dfi'.cmd # "READ" /\ Issued = "NOP"
           /\ (delay_q # 0 /\ state_q # "INIT") =>
                last_cmd_q' = last_cmd_q /\ delay_q' = delay_q - 1
           /\ (delay_q # 0 /\ state_q \in {"ACTIVATE", "PRECHARGE", "REFRESH"}) =>
                UNCHANGED <<state_q, target_state_q>>
<1>0. Issued = "NOP"
  BY IssuedIs
<1> DEFINE Goal ==
      /\ delay_q' \in Nat /\ dfi'.cmd # "READ"
      /\ (delay_q # 0 /\ state_q # "INIT") =>
           last_cmd_q' = last_cmd_q /\ delay_q' = delay_q - 1
      /\ (delay_q # 0 /\ state_q \in {"ACTIVATE", "PRECHARGE", "REFRESH"}) =>
           UNCHANGED <<state_q, target_state_q>>
<1> SUFFICES Goal
  BY <1>0
<1>a. ASSUME NEW cmd \in Core!Commands \ {"READ", "WRITE"}, NEW next, NEW target,
             Core!Drive(cmd, next, target),
             state_q \in {"ACTIVATE", "PRECHARGE", "REFRESH"} => cmd # "NOP"
      PROVE  Goal
  <2>1. PICK issued : issued = IF Core!Accept(cmd) THEN cmd ELSE "NOP"
    OBVIOUS
  <2>2. /\ delay_q' \in Nat /\ dfi'.cmd = issued
        /\ issued = "NOP" =>
             /\ last_cmd_q' = last_cmd_q
             /\ delay_q # 0 => delay_q' = delay_q - 1
        /\ issued # "NOP" =>
             \/ delay_q = 0
             \/ issued \in {"READ", "WRITE"}
        /\ cmd # "NOP" /\ issued = "NOP" =>
             UNCHANGED <<state_q, target_state_q>>
    BY <1>a, <2>1, CommandTaken
  <2>3. issued \in {cmd, "NOP"} /\ issued \notin {"READ", "WRITE"}
    BY <2>1
  <2> QED
    BY <1>a, <2>2, <2>3
<1> HIDE DEF Goal
<1>1. CASE state_q = "INIT"
  <2>1. Core!StartUp
    BY <1>1, ByState
  <2>2. PICK cmd : cmd = IF refresh_timer_q \in DOMAIN InitSequence
                           THEN InitSequence[refresh_timer_q] ELSE "NOP"
    OBVIOUS
  <2>3. cmd \in Core!Commands \ {"READ", "WRITE"}
    BY <2>2, WiringAssumption DEF Core!Commands
  <2>4. Core!Drive(cmd, IF refresh_q THEN "IDLE" ELSE "INIT", target_state_q)
    BY <2>1, <2>2 DEF Core!StartUp
  <2> QED
    BY <1>1, <1>a, <2>3, <2>4
<1>2. CASE state_q = "IDLE"
  <2>1. "NOP" \in Core!Commands \ {"READ", "WRITE"}
    BY DEF Core!Commands
  <2>2. CASE Core!IdleRefresh
    <3>1. Core!Drive("NOP", IF row_open_q # {} THEN "PRECHARGE" ELSE "REFRESH",
                     "REFRESH")
      BY <2>2 DEF Core!IdleRefresh
    <3> QED
      BY <1>2, <1>a, <2>1, <3>1
  <2>3. CASE Core!IdleAccess
    <3>1. CASE Core!RowHit
      <4>1. Core!Drive("NOP", req, target_state_q)
        BY <2>3, <3>1 DEF Core!IdleAccess
      <4> QED
        BY <1>2, <1>a, <2>1, <4>1
    <3>2. CASE ~Core!RowHit
      <4>1. Core!Drive("NOP", IF LineOf[DRAM_ADDRESS].bank \in row_open_q
                                THEN "PRECHARGE" ELSE "ACTIVATE", req)
        BY <2>3, <3>2 DEF Core!IdleAccess
      <4> QED
        BY <1>2, <1>a, <2>1, <4>1
    <3> QED
      BY <3>1, <3>2
  <2>4. CASE Core!IdleWait
    <3>1. Core!Drive("NOP", "IDLE", target_state_q)
      BY <2>4 DEF Core!IdleWait
    <3> QED
      BY <1>2, <1>a, <2>1, <3>1
  <2> QED
    BY <1>2, <2>2, <2>3, <2>4, ByState
<1>3. CASE state_q = "ACTIVATE"
  <2>1. Core!Drive("ACTIVE", target_state_q, target_state_q)
    BY <1>3, ByState DEF Core!Activate
  <2>2. "ACTIVE" \in Core!Commands \ {"READ", "WRITE"}
    BY DEF Core!Commands
  <2> QED
    BY <1>a, <2>1, <2>2
<1>4. CASE state_q = "PRECHARGE"
  <2>1. \/ Core!Drive("PRECHARGE_ALL", "REFRESH", target_state_q)
        \/ Core!Drive("PRECHARGE", "ACTIVATE", target_state_q)
    BY <1>4, ByState DEF Core!PrechargeAll, Core!PrechargeBank
  <2>2. /\ "PRECHARGE_ALL" \in Core!Commands \ {"READ", "WRITE"}
        /\ "PRECHARGE" \in Core!Commands \ {"READ", "WRITE"}
    BY DEF Core!Commands
  <2>3. CASE Core!Drive("PRECHARGE_ALL", "REFRESH", target_state_q)
    BY <1>a, <2>2, <2>3
  <2>4. CASE Core!Drive("PRECHARGE", "ACTIVATE", target_state_q)
    BY <1>a, <2>2, <2>4
  <2> QED
    BY <2>1, <2>3, <2>4
<1>5. CASE state_q = "REFRESH"
  <2>1. Core!Drive("REFRESH", "IDLE", target_state_q)
    BY <1>5, ByState DEF Core!Refresh
  <2>2. "REFRESH" \in Core!Commands \ {"READ", "WRITE"}
    BY DEF Core!Commands
  <2> QED
    BY <1>a, <2>1, <2>2
<1> QED
  BY <1>1, <1>2, <1>3, <1>4, <1>5, ByState DEF Core!States

(* Where the state machine goes, and what it knows of the row it needs.       *)
LEMMA StateMoves ==
    ASSUME Core!CoreTick, LineOf[DRAM_ADDRESS].bank \in Banks,
           LineOf[DRAM_ADDRESS].row \in Rows, active_row_q \in [Banks -> Rows]
    PROVE  /\ state_q = "INIT" => state_q' \in {"INIT", "IDLE"}
           /\ state_q = "IDLE" =>
                /\ UNCHANGED <<row_open_q, active_row_q>>
                /\ \/ /\ state_q' \in {"PRECHARGE", "REFRESH"}
                      /\ Core!RowHit => state_q' = "PRECHARGE"
                      /\ target_state_q' = "REFRESH"
                   \/ req = "NONE" /\ state_q' = "IDLE"
                   \/ req # "NONE" /\ Core!RowHit /\ state_q' = req
                   \/ /\ req # "NONE" /\ ~Core!RowHit
                      /\ state_q' \in {"PRECHARGE", "ACTIVATE"}
                      /\ target_state_q' = req
           /\ state_q = "ACTIVATE" =>
                /\ state_q' \in {"ACTIVATE", target_state_q}
                /\ target_state_q' = target_state_q
                /\ LineOf[DRAM_ADDRESS].bank \in row_open_q'
                /\ active_row_q'[LineOf[DRAM_ADDRESS].bank] =
                     LineOf[DRAM_ADDRESS].row
           /\ state_q = "PRECHARGE" =>
                /\ state_q' \in {"PRECHARGE", IF target_state_q = "REFRESH"
                                                THEN "REFRESH" ELSE "ACTIVATE"}
                /\ target_state_q' = target_state_q
           /\ state_q = "REFRESH" => state_q' \in {"REFRESH", "IDLE"}
           /\ active_row_q' \in [Banks -> Rows]
<1>1. CASE state_q = "INIT"
  BY <1>1, ByState DEF Core!StartUp, Core!Drive
<1>2. CASE state_q = "IDLE"
  <2>1. CASE Core!IdleRefresh
    <3>1. /\ state_q' \in {"PRECHARGE", "REFRESH"} /\ target_state_q' = "REFRESH"
          /\ row_open_q # {} => state_q' = "PRECHARGE"
          /\ UNCHANGED <<row_open_q, active_row_q>>
      BY <2>1 DEF Core!IdleRefresh, Core!Drive, Core!Accept
    <3>2. Core!RowHit => row_open_q # {}
      BY DEF Core!RowHit
    <3> QED
      BY <1>2, <3>1, <3>2
  <2>2. CASE Core!IdleAccess
    <3>1. /\ req # "NONE" /\ UNCHANGED <<row_open_q, active_row_q>>
          /\ Core!RowHit => state_q' = req
          /\ ~Core!RowHit => /\ state_q' \in {"PRECHARGE", "ACTIVATE"}
                             /\ target_state_q' = req
      BY <2>2 DEF Core!IdleAccess, Core!Drive, Core!Accept
    <3> QED
      BY <1>2, <3>1
  <2>3. CASE Core!IdleWait
    <3>1. /\ req = "NONE" /\ state_q' = "IDLE"
          /\ UNCHANGED <<row_open_q, active_row_q>>
      BY <2>3 DEF Core!IdleWait, Core!Drive, Core!Accept
    <3> QED
      BY <1>2, <3>1
  <2> QED
    BY <1>2, <2>1, <2>2, <2>3, ByState
<1>3. CASE state_q = "ACTIVATE"
  BY <1>3, ByState DEF Core!Activate, Core!Drive
<1>4. CASE state_q \in {"READ", "WRITE"}
  BY <1>4, ByState DEF Core!ReadWrite
<1>5. CASE state_q = "PRECHARGE"
  BY <1>5, ByState DEF Core!PrechargeAll, Core!PrechargeBank, Core!Drive
<1>6. CASE state_q = "REFRESH"
  BY <1>6, ByState DEF Core!Refresh, Core!Drive
<1> QED
  BY <1>1, <1>2, <1>3, <1>4, <1>5, <1>6, ByState DEF Core!States

-----------------------------------------------------------------------------
(* Each cycle makes the reads a cycle older, drops the one that is done, and  *)
(* adds the one that is issued.                                              *)
Older(ages) == {x + 1 : x \in ages \ {LastRd}}

LEMMA AgesStep ==
    ASSUME ReadsApart, Dfi!Chip, dfi'.cmd = "READ" <=> Issued = "READ"
    PROVE  /\ Ages' = Older(Ages) \cup (IF Issued = "READ" THEN {0} ELSE {})
           /\ \A r \in dev_rd' : r = [data |-> r.data, age |-> r.age] /\ r.age # 0
<1> DEFINE young == {r \in dev_rd : r.age < LastRd}
           new == IF dfi.cmd # "READ" THEN {}
                  ELSE {[data |-> IF Dfi!Target \in Lines THEN cells[Dfi!Target]
                                  ELSE Garbage, age |-> 1]}
<1>1. dev_rd' = {[o EXCEPT !.age = @ + 1] : o \in young} \cup new
  BY DEF Dfi!Chip, Dfi!Older, LastRd, RdAge
<1>2. ASSUME NEW r \in dev_rd
      PROVE  r.age \in 0..LastRd /\ r = [data |-> r.data, age |-> r.age]
             /\ r.age # 0
  BY DEF ReadsApart, Ages
<1>3. ASSUME NEW r \in young
      PROVE  [r EXCEPT !.age = @ + 1] = [data |-> r.data, age |-> r.age + 1]
  <2>1. PICK d, a : r = [data |-> d, age |-> a]
    BY <1>2
  <2> QED
    BY <2>1
<1>4. ASSUME NEW r \in new PROVE \E d : r = [data |-> d, age |-> 1]
  OBVIOUS
<1>5. (dfi.cmd = "READ" <=> new # {}) /\ (dfi.cmd = "READ" <=> \E r \in new : TRUE)
  OBVIOUS
<1> HIDE DEF new
<1>6. \A r \in dev_rd' : r = [data |-> r.data, age |-> r.age] /\ r.age # 0
  <2> SUFFICES ASSUME NEW r \in dev_rd'
               PROVE  r = [data |-> r.data, age |-> r.age] /\ r.age # 0
    OBVIOUS
  <2>1. CASE r \in new
    BY <1>4, <2>1
  <2>2. CASE r \notin new
    <3>1. PICK o \in young : r = [o EXCEPT !.age = @ + 1]
      BY <1>1, <2>2
    <3>2. r = [data |-> o.data, age |-> o.age + 1]
      BY <1>3, <3>1
    <3>3. o.age + 1 # 0
      BY <1>2, Parameters
    <3> QED
      BY <3>2, <3>3
  <2> QED
    BY <2>1, <2>2
<1>7. ASSUME NEW x
      PROVE  (\E r \in dev_rd' : r.age = x) <=> x \in Older(Ages)
  <2>1. ASSUME NEW r \in dev_rd', r.age = x PROVE x \in Older(Ages)
    <3>1. CASE r \in new
      <4>1. x = 0 + 1 /\ 0 \in Ages /\ 0 # LastRd
        BY <1>4, <1>5, <2>1, <3>1, Parameters DEF Ages
      <4> QED
        BY <4>1 DEF Older
    <3>2. CASE r \notin new
      <4>1. PICK o \in young : r = [o EXCEPT !.age = @ + 1]
        BY <1>1, <3>2
      <4>2. x = o.age + 1
        BY <1>3, <2>1, <4>1
      <4>3. o.age \in Ages /\ o.age # LastRd
        BY <1>2, Parameters DEF Ages
      <4> QED
        BY <4>2, <4>3 DEF Older
    <3> QED
      BY <3>1, <3>2
  <2>2. ASSUME x \in Older(Ages) PROVE \E r \in dev_rd' : r.age = x
    <3>1. PICK y \in Ages : y # LastRd /\ x = y + 1
      BY <2>2 DEF Older
    <3>2. CASE \E r \in dev_rd : r.age = y
      <4>1. PICK r \in dev_rd : r.age = y
        BY <3>2
      <4>2. r \in young
        BY <1>2, <3>1, <4>1, Parameters
      <4>3. [r EXCEPT !.age = @ + 1] \in dev_rd'
        BY <1>1, <4>2
      <4>4. [r EXCEPT !.age = @ + 1].age = x
        BY <1>3, <3>1, <4>1, <4>2
      <4> QED
        BY <4>3, <4>4
    <3>3. CASE ~ \E r \in dev_rd : r.age = y
      <4>1. dfi.cmd = "READ" /\ y = 0
        BY <3>1, <3>3 DEF Ages
      <4>2. PICK r \in new : r.age = 1
        BY <1>4, <1>5, <4>1
      <4> QED
        BY <1>1, <3>1, <4>1, <4>2
    <3> QED
      BY <3>2, <3>3
  <2> QED
    BY <2>1, <2>2
<1>8. Ages' = {r.age : r \in dev_rd'} \cup (IF Issued = "READ" THEN {0} ELSE {})
  BY DEF Ages
<1> QED
  BY <1>6, <1>7, <1>8

LEMMA ShiftIs ==
    ASSUME NEW s \in SUBSET Nat
    PROVE  /\ Dfi!Shift(s) \subseteq Nat
           /\ \A j \in Nat : j \in Dfi!Shift(s) <=> j + 1 \in s
<1>1. ASSUME NEW j \in Dfi!Shift(s) PROVE j \in Nat
  <2>1. PICK i \in s \ {0} : j = i - 1
    BY DEF Dfi!Shift
  <2>2. i \in Nat /\ i # 0
    OBVIOUS
  <2> QED
    BY <2>1, <2>2
<1>2. ASSUME NEW j \in Nat, j \in Dfi!Shift(s) PROVE j + 1 \in s
  <2>1. PICK i \in s \ {0} : j = i - 1
    BY <1>2 DEF Dfi!Shift
  <2>2. i \in Nat /\ i = j + 1
    BY <2>1
  <2> QED
    BY <2>2
<1>3. ASSUME NEW j \in Nat, j + 1 \in s PROVE j \in Dfi!Shift(s)
  <2>1. j + 1 \in s \ {0} /\ j = (j + 1) - 1
    BY <1>3
  <2> QED
    BY <2>1 DEF Dfi!Shift
<1> QED
  BY <1>1, <1>2, <1>3

(* A command is issued only when the reads under way leave it room.           *)
LEMMA IssueSpaced ==
    ASSUME ReadsApart, delay_q \in Nat, Core!CoreTick, Issued # "NOP"
    PROVE  \A x \in Ages : Issued = "READ" /\ x + 1 >= BL
<1> SUFFICES ASSUME NEW x \in Ages PROVE Issued = "READ" /\ x + 1 >= BL
  OBVIOUS
<1>1. state_q \in {"READ", "WRITE"}
  BY IssuedIs
<1>2. delay_q = 0 \/ (last_cmd_q = Issued /\ delay_q = SeqGap)
  BY <1>1, AccessMoves
<1>3. x \in 0..LastRd /\ last_cmd_q = "READ" /\ delay_q + x >= NonSeq
  BY DEF ReadsApart
<1> QED
  BY <1>2, <1>3, Parameters

LEMMA ReadsApartStep ==
    ASSUME ReadsApart, delay_q \in Nat, state_q = "INIT" => Ages = {},
           Core!CoreTick, Dfi!Chip
    PROVE  /\ ReadsApart'
           /\ Ages' = Older(Ages) \cup (IF Issued = "READ" THEN {0} ELSE {})
<1>1. delay_q' \in Nat /\ (dfi'.cmd = "READ" <=> Issued = "READ")
  BY AccessMoves, OtherMoves
<1>2. /\ Ages' = Older(Ages) \cup (IF Issued = "READ" THEN {0} ELSE {})
      /\ \A r \in dev_rd' : r = [data |-> r.data, age |-> r.age] /\ r.age # 0
  BY <1>1, AgesStep
<1>3. ASSUME NEW x \in Ages'
      PROVE  \/ Issued = "READ" /\ x = 0
             \/ /\ x \in Nat /\ x - 1 \in Ages
                /\ x - 1 # LastRd /\ x - 1 \in 0..LastRd
  <2>1. CASE x \in Older(Ages)
    <3>1. PICK y \in Ages : y # LastRd /\ x = y + 1
      BY <2>1 DEF Older
    <3>2. y \in 0..LastRd
      BY DEF ReadsApart
    <3> QED
      BY <3>1, <3>2
  <2> QED
    BY <1>2, <2>1
<1>4. Ages' \subseteq 0..LastRd
  BY <1>3, Parameters
<1>5. ASSUME NEW x \in Ages', NEW y \in Ages', x < y PROVE y - x >= BL
  <2>1. x \in 0..LastRd /\ y \in 0..LastRd
    BY <1>4
  <2>2. y # 0
    BY <1>5, <2>1
  <2>3. y - 1 \in Ages
    BY <1>3, <2>2
  <2>4. CASE x = 0 /\ Issued = "READ"
    <3>1. (y - 1) + 1 >= BL
      BY <2>3, <2>4, IssueSpaced
    <3> QED
      BY <2>1, <2>4, <3>1, Parameters
  <2>5. CASE x - 1 \in Ages
    <3>1. (y - 1) - (x - 1) >= BL
      BY <1>5, <2>1, <2>3, <2>5 DEF ReadsApart
    <3> QED
      BY <2>1, <3>1, Parameters
  <2> QED
    BY <1>3, <2>4, <2>5
<1>6. ASSUME NEW x \in Ages' PROVE last_cmd_q' = "READ" /\ delay_q' + x >= NonSeq
  <2>0. x \in 0..LastRd
    BY <1>4
  <2>1. CASE Issued = "READ"
    <3>1. state_q \in {"READ", "WRITE"}
      BY <2>1, IssuedIs
    <3>2. last_cmd_q' = Issued /\ delay_q' = NonSeq
      BY <2>1, <3>1, AccessMoves
    <3> QED
      BY <2>0, <2>1, <3>2, Parameters
  <2>2. CASE Issued # "READ"
    <3>1. x - 1 \in Ages /\ x - 1 \in 0..LastRd
      BY <1>3, <2>2
    <3>2. last_cmd_q = "READ" /\ delay_q + (x - 1) >= NonSeq
      BY <3>1 DEF ReadsApart
    <3>3. Issued = "NOP"
      BY <2>2, <3>1, IssueSpaced
    <3>4. delay_q # 0 /\ state_q # "INIT"
      BY <3>1, <3>2, Parameters
    <3>5. last_cmd_q' = last_cmd_q /\ delay_q' = delay_q - 1
      BY <3>3, <3>4, AccessMoves, OtherMoves
    <3> QED
      BY <2>0, <3>2, <3>5, Parameters
  <2> QED
    BY <2>1, <2>2
<1> QED
  BY <1>2, <1>4, <1>5, <1>6 DEF ReadsApart

(* A read is answered with its last beat, and only then.                     *)
LEMMA AnswerDue ==
    ASSUME Ages \subseteq 0..LastRd, BeatsTimed, NEW issue, Dfi!ReadBeats(issue)
    PROVE  /\ rd_valid_q' \in BOOLEAN /\ (rd_valid_q' <=> LastRd \in Ages)
           /\ 0 \in rd_pipe <=> \E x \in Ages : RdAge <= x
<1>1. rd_valid_q' = (0 \in rd_pipe /\ dfi_rd_idx_q = BL - 1)
  BY DEF Dfi!ReadBeats, Dfi!ReadBeatDue
<1>2. 0 \in rd_pipe <=> \E x \in Ages : RdAge <= 0 + x /\ 0 + x <= LastRd
  <2>1. 0 \in 0..PhyRdLat + 1
    BY Parameters
  <2> QED
    BY <2>1 DEF BeatsTimed
<1>3. 0 \in rd_pipe <=> \E x \in Ages : RdAge <= x
  BY <1>2, Parameters
<1>4. ASSUME LastRd \in Ages PROVE 0 \in rd_pipe /\ dfi_rd_idx_q = BL - 1
  <2>1. RdAge <= LastRd /\ LastRd - RdAge = BL - 1
    BY Parameters
  <2>2. dfi_rd_idx_q = LastRd - RdAge
    BY <1>4, <2>1 DEF BeatsTimed
  <2> QED
    BY <1>3, <1>4, <2>1, <2>2
<1>5. ASSUME 0 \in rd_pipe, dfi_rd_idx_q = BL - 1 PROVE LastRd \in Ages
  <2>1. PICK x \in Ages : RdAge <= x
    BY <1>3, <1>5
  <2>2. dfi_rd_idx_q = x - RdAge
    BY <2>1 DEF BeatsTimed
  <2>3. x = LastRd
    BY <1>5, <2>1, <2>2, Parameters
  <2> QED
    BY <2>3
<1> QED
  BY <1>1, <1>3, <1>4, <1>5

LEMMA BeatCount ==
    ASSUME NEW b \in 0..BL - 1
    PROVE  (b + 1) % BL = IF b = BL - 1 THEN 0 ELSE b + 1
BY Parameters

(* The registers follow the reads: the beats of an issued read are loaded     *)
(* above those that are still leaving.                                       *)
LEMMA BeatsTimedStep ==
    ASSUME ReadsApart, ReadsApart', BeatsTimed,
           NEW issue \in BOOLEAN, Dfi!ReadBeats(issue),
           Ages' = Older(Ages) \cup (IF issue THEN {0} ELSE {}),
           issue => \A x \in Ages : x + 1 >= BL
    PROVE  BeatsTimed'
<1>a. Ages \subseteq 0..LastRd /\ Ages' \subseteq 0..LastRd
  BY DEF ReadsApart
<1>b. \A x \in Ages : x \in Nat /\ x <= LastRd
  BY <1>a, Parameters
<1>c. \A x \in Ages' : x \in Nat /\ x <= LastRd
  BY <1>a, Parameters
<1>d. \A x \in Ages : x # LastRd => x + 1 \in Ages'
  BY DEF Older
<1>e. \A y \in Ages' : (y = 0 /\ issue) \/ \E x \in Ages : x # LastRd /\ y = x + 1
  BY DEF Older
<1>f. issue => 0 \in Ages'
  OBVIOUS
<1>g. /\ rd_en_q = {k \in 0..RL + BL - 2 : \E x \in Ages :
                      RL - 1 <= k + x /\ k + x <= RL + BL - 2}
      /\ rd_pipe = {k \in 0..PhyRdLat + 1 : \E x \in Ages :
                      RdAge <= k + x /\ k + x <= LastRd}
      /\ \A x \in Ages : RdAge <= x => dfi_rd_idx_q = x - RdAge
      /\ (\A x \in Ages : x < RdAge) => dfi_rd_idx_q = 0
  BY DEF BeatsTimed
<1>h. rd_en_q \in SUBSET Nat /\ rd_pipe \in SUBSET Nat
  BY <1>g, Parameters
<1>i. \A x, y \in Ages : x < y => y - x >= BL
  BY DEF ReadsApart
<1>j. /\ rd_en_q' = IF issue THEN Dfi!Load(rd_en_q, RL - 1) ELSE Dfi!Shift(rd_en_q)
      /\ rd_pipe' = Dfi!Shift(rd_pipe) \cup
                      (IF 0 \in rd_en_q THEN {PhyRdLat + 1} ELSE {})
      /\ IF 0 \in rd_pipe THEN dfi_rd_idx_q' = (dfi_rd_idx_q + 1) % BL
                          ELSE dfi_rd_idx_q' = dfi_rd_idx_q
  BY DEF Dfi!ReadBeats, Dfi!ReadBeatDue
<1>k. 0 \in rd_pipe <=> \E x \in Ages : RdAge <= x
  BY <1>a, AnswerDue
<1> HIDE DEF Older
<1>1. rd_en_q' = {k \in 0..RL + BL - 2 : \E x \in Ages' :
                    RL - 1 <= k + x /\ k + x <= RL + BL - 2}
  <2>1. ASSUME NEW j \in Nat
        PROVE  j + 1 \in rd_en_q <=>
                 \E x \in Ages : RL - 1 <= j + 1 + x /\ j + 1 + x <= RL + BL - 2
    <3>1. ASSUME NEW x \in Ages, j + 1 + x <= RL + BL - 2
          PROVE  j + 1 \in 0..RL + BL - 2
      BY <1>b, <3>1, Parameters
    <3> QED
      BY <1>g, <3>1
  <2>2. ASSUME NEW j \in Nat
        PROVE  j \in Dfi!Shift(rd_en_q) <=>
                 \E y \in Ages' : /\ \E x \in Ages : y = x + 1
                                  /\ RL - 1 <= j + y /\ j + y <= RL + BL - 2
    <3>1. j \in Dfi!Shift(rd_en_q) <=> j + 1 \in rd_en_q
      BY <1>h, ShiftIs
    <3>2. ASSUME NEW x \in Ages, RL - 1 <= j + 1 + x, j + 1 + x <= RL + BL - 2
          PROVE  \E y \in Ages' : /\ \E z \in Ages : y = z + 1
                                  /\ RL - 1 <= j + y /\ j + y <= RL + BL - 2
      <4>1. x # LastRd /\ j + (x + 1) = j + 1 + x
        BY <1>b, <3>2, Parameters
      <4>2. x + 1 \in Ages'
        BY <1>d, <4>1
      <4> QED
        BY <3>2, <4>1, <4>2
    <3>3. ASSUME NEW x \in Ages, RL - 1 <= j + (x + 1), j + (x + 1) <= RL + BL - 2
          PROVE  RL - 1 <= j + 1 + x /\ j + 1 + x <= RL + BL - 2
      BY <1>b, <3>3, Parameters
    <3> QED
      BY <2>1, <3>1, <3>2, <3>3
  <2>3. CASE issue
    <3>1. \A j \in rd_en_q : j \in 0..RL - 1
      <4> SUFFICES ASSUME NEW j \in rd_en_q PROVE j \in 0..RL - 1
        OBVIOUS
      <4>1. PICK x \in Ages : j + x <= RL + BL - 2
        BY <1>g
      <4>2. x + 1 >= BL /\ x \in Nat /\ j \in Nat
        BY <1>b, <1>h, <2>3
      <4> QED
        BY <4>1, <4>2, Parameters
    <3>2. rd_en_q' = Dfi!Shift(rd_en_q) \cup (RL - 1 .. RL - 1 + BL - 1)
      <4>1. rd_en_q \cap (0..RL - 1) = rd_en_q
        BY <3>1
      <4> QED
        BY <1>j, <2>3, <4>1 DEF Dfi!Load
    <3>3. ASSUME NEW j \in rd_en_q'
          PROVE  j \in 0..RL + BL - 2 /\ \E x \in Ages' :
                    RL - 1 <= j + x /\ j + x <= RL + BL - 2
      <4>1. CASE j \in Dfi!Shift(rd_en_q)
        <5>1. j \in Nat
          BY <1>h, <4>1, ShiftIs
        <5>2. j + 1 \in rd_en_q
          BY <1>h, <4>1, <5>1, ShiftIs
        <5>3. j \in 0..RL + BL - 2
          BY <1>g, <5>1, <5>2, Parameters
        <5> QED
          BY <2>2, <4>1, <5>1, <5>3
      <4>2. CASE j \in RL - 1 .. RL - 1 + BL - 1
        <5>1. /\ j \in 0..RL + BL - 2 /\ RL - 1 <= j + 0
              /\ j + 0 <= RL + BL - 2
          BY <4>2, Parameters
        <5> QED
          BY <1>f, <2>3, <5>1
      <4> QED
        BY <3>2, <3>3, <4>1, <4>2
    <3>4. ASSUME NEW j \in 0..RL + BL - 2, NEW y \in Ages',
                 RL - 1 <= j + y, j + y <= RL + BL - 2
          PROVE  j \in rd_en_q'
      <4>0. j \in Nat
        BY Parameters
      <4>1. CASE y = 0
        <5>1. j \in RL - 1 .. RL - 1 + BL - 1
          BY <3>4, <4>1, Parameters
        <5> QED
          BY <3>2, <5>1
      <4>2. CASE \E x \in Ages : y = x + 1
        <5>1. j \in Dfi!Shift(rd_en_q)
          BY <2>2, <3>4, <4>0, <4>2
        <5> QED
          BY <3>2, <5>1
      <4> QED
        BY <1>e, <4>1, <4>2
    <3> QED
      BY <3>3, <3>4
  <2>4. CASE ~issue
    <3>1. rd_en_q' = Dfi!Shift(rd_en_q)
      BY <1>j, <2>4
    <3>2. ASSUME NEW j \in rd_en_q'
          PROVE  j \in 0..RL + BL - 2 /\ \E x \in Ages' :
                    RL - 1 <= j + x /\ j + x <= RL + BL - 2
      <4>1. j \in Nat
        BY <1>h, <3>1, ShiftIs
      <4>2. j + 1 \in rd_en_q
        BY <1>h, <3>1, <4>1, ShiftIs
      <4>3. j \in 0..RL + BL - 2
        BY <1>g, <4>1, <4>2, Parameters
      <4> QED
        BY <2>2, <3>1, <4>1, <4>3
    <3>3. ASSUME NEW j \in 0..RL + BL - 2, NEW y \in Ages',
                 RL - 1 <= j + y, j + y <= RL + BL - 2
          PROVE  j \in rd_en_q'
      <4>1. j \in Nat /\ \E x \in Ages : y = x + 1
        BY <1>e, <2>4, Parameters
      <4> QED
        BY <2>2, <3>1, <3>3, <4>1
    <3> QED
      BY <3>2, <3>3
  <2> QED
    BY <2>3, <2>4
<1>2. rd_pipe' = {k \in 0..PhyRdLat + 1 : \E x \in Ages' :
                    RdAge <= k + x /\ k + x <= LastRd}
  <2>1. ASSUME NEW j \in 0..PhyRdLat + 1
        PROVE  (\E x \in Ages : RdAge <= j + 1 + x /\ j + 1 + x <= LastRd)
               <=> (\E y \in Ages' : RdAge <= j + y /\ j + y <= LastRd)
    <3>0. j \in Nat /\ j < RdAge
      BY Parameters
    <3>1. ASSUME NEW x \in Ages, RdAge <= j + 1 + x, j + 1 + x <= LastRd
          PROVE  \E y \in Ages' : RdAge <= j + y /\ j + y <= LastRd
      <4>1. x # LastRd /\ j + (x + 1) = j + 1 + x
        BY <1>b, <3>0, <3>1, Parameters
      <4>2. x + 1 \in Ages'
        BY <1>d, <4>1
      <4> QED
        BY <3>1, <4>1, <4>2
    <3>2. ASSUME NEW y \in Ages', RdAge <= j + y, j + y <= LastRd
          PROVE  \E x \in Ages : RdAge <= j + 1 + x /\ j + 1 + x <= LastRd
      <4>1. y # 0
        BY <3>0, <3>2, Parameters
      <4>2. PICK x \in Ages : y = x + 1
        BY <1>e, <4>1
      <4>3. j + 1 + x = j + y
        BY <1>b, <3>0, <4>2
      <4> QED
        BY <3>2, <4>3
    <3> QED
      BY <3>1, <3>2
  <2>2. 0 \in rd_en_q <=> \E y \in Ages' : /\ RdAge <= (PhyRdLat + 1) + y
                                           /\ (PhyRdLat + 1) + y <= LastRd
    <3>1. 0 \in rd_en_q <=> \E x \in Ages : RL - 1 <= 0 + x /\ 0 + x <= RL + BL - 2
      <4>1. 0 \in 0..RL + BL - 2
        BY Parameters
      <4> QED
        BY <1>g, <4>1
    <3>2. \A x \in Ages : (RL - 1 <= 0 + x /\ 0 + x <= RL + BL - 2)
             <=> (/\ RdAge <= (PhyRdLat + 1) + 1 + x
                  /\ (PhyRdLat + 1) + 1 + x <= LastRd)
      BY <1>b, Parameters
    <3>3. PhyRdLat + 1 \in 0..PhyRdLat + 1
      BY Parameters
    <3> QED
      BY <2>1, <3>1, <3>2, <3>3
  <2>3. ASSUME NEW j \in 0..PhyRdLat
        PROVE  j \in Dfi!Shift(rd_pipe) <=>
                 \E y \in Ages' : RdAge <= j + y /\ j + y <= LastRd
    <3>1. j \in Nat /\ j \in 0..PhyRdLat + 1 /\ j + 1 \in 0..PhyRdLat + 1
      BY Parameters
    <3>2. j \in Dfi!Shift(rd_pipe) <=> j + 1 \in rd_pipe
      BY <1>h, <3>1, ShiftIs
    <3>3. j + 1 \in rd_pipe <=>
            \E x \in Ages : RdAge <= j + 1 + x /\ j + 1 + x <= LastRd
      BY <1>g, <3>1
    <3> QED
      BY <2>1, <3>1, <3>2, <3>3
  <2>4. Dfi!Shift(rd_pipe) \subseteq 0..PhyRdLat
    <3> SUFFICES ASSUME NEW j \in Dfi!Shift(rd_pipe) PROVE j \in 0..PhyRdLat
      OBVIOUS
    <3>1. j \in Nat
      BY <1>h, ShiftIs
    <3>2. j + 1 \in rd_pipe
      BY <1>h, <3>1, ShiftIs
    <3> QED
      BY <1>g, <3>1, <3>2, Parameters
  <2>5. \A j \in 0..PhyRdLat + 1 : j \in 0..PhyRdLat \/ j = PhyRdLat + 1
    BY Parameters
  <2>6. /\ 0..PhyRdLat \subseteq 0..PhyRdLat + 1
        /\ PhyRdLat + 1 \in 0..PhyRdLat + 1 /\ PhyRdLat + 1 \notin 0..PhyRdLat
    BY Parameters
  <2>7. ASSUME NEW j
        PROVE  j \in rd_pipe' <=>
                 /\ j \in 0..PhyRdLat + 1
                 /\ \E y \in Ages' : RdAge <= j + y /\ j + y <= LastRd
    <3>1. CASE j \in 0..PhyRdLat
      BY <1>j, <2>3, <2>6, <3>1
    <3>2. CASE j = PhyRdLat + 1
      BY <1>j, <2>2, <2>4, <2>6, <3>2
    <3>3. CASE j \notin 0..PhyRdLat + 1
      BY <1>j, <2>4, <2>6, <3>3
    <3> QED
      BY <2>5, <3>1, <3>2, <3>3
  <2> QED
    BY <2>7
<1>3. ASSUME NEW y \in Ages', RdAge <= y PROVE dfi_rd_idx_q' = y - RdAge
  <2>1. y # 0
    BY <1>3, Parameters
  <2>2. PICK x \in Ages : x # LastRd /\ y = x + 1
    BY <1>e, <2>1
  <2>3. x \in Nat /\ x < LastRd
    BY <1>b, <2>2, Parameters
  <2>4. CASE RdAge <= x
    <3>1. 0 \in rd_pipe /\ dfi_rd_idx_q = x - RdAge
      BY <1>g, <1>k, <2>4
    <3>2. dfi_rd_idx_q \in 0..BL - 1 /\ dfi_rd_idx_q # BL - 1
      BY <2>3, <2>4, <3>1, Parameters
    <3>3. dfi_rd_idx_q' = dfi_rd_idx_q + 1
      BY <1>j, <3>1, <3>2, BeatCount
    <3> QED
      BY <2>2, <2>3, <3>1, <3>3, Parameters
  <2>5. CASE x < RdAge
    <3>1. x + 1 = RdAge /\ y - RdAge = 0
      BY <1>3, <2>2, <2>3, <2>5, Parameters
    <3>2. CASE \E z \in Ages : RdAge <= z
      <4>1. PICK z \in Ages : RdAge <= z
        BY <3>2
      <4>2. z - x >= BL /\ z \in Nat /\ z <= LastRd
        BY <1>b, <1>i, <2>3, <2>5, <4>1, Parameters
      <4>3. z = LastRd
        BY <2>3, <3>1, <4>2, Parameters
      <4>4. 0 \in rd_pipe /\ dfi_rd_idx_q = BL - 1
        BY <1>g, <1>k, <4>1, <4>3, Parameters
      <4>5. dfi_rd_idx_q' = 0
        BY <1>j, <4>4, BeatCount, Parameters
      <4> QED
        BY <3>1, <4>5
    <3>3. CASE ~ \E z \in Ages : RdAge <= z
      <4>1. \A z \in Ages : z < RdAge
        BY <1>b, <3>3, Parameters
      <4> QED
        BY <1>g, <1>j, <1>k, <3>1, <3>3, <4>1
    <3> QED
      BY <3>2, <3>3
  <2> QED
    BY <2>3, <2>4, <2>5, Parameters
<1>4. ASSUME \A y \in Ages' : y < RdAge PROVE dfi_rd_idx_q' = 0
  <2>1. CASE \E z \in Ages : RdAge <= z
    <3>1. PICK z \in Ages : RdAge <= z
      BY <2>1
    <3>2. z = LastRd
      <4>1. z # LastRd => z + 1 \in Ages' /\ z + 1 >= RdAge
        BY <1>b, <1>d, <3>1, Parameters
      <4> QED
        BY <1>4, <1>b, <4>1, Parameters
    <3>3. 0 \in rd_pipe /\ dfi_rd_idx_q = BL - 1
      BY <1>g, <1>k, <3>1, <3>2, Parameters
    <3> QED
      BY <1>j, <3>3, BeatCount, Parameters
  <2>2. CASE ~ \E z \in Ages : RdAge <= z
    <3>1. \A z \in Ages : z < RdAge
      BY <1>b, <2>2, Parameters
    <3> QED
      BY <1>g, <1>j, <1>k, <2>2, <3>1
  <2> QED
    BY <2>1, <2>2
<1> QED
  BY <1>1, <1>2, <1>3, <1>4 DEF BeatsTimed

-----------------------------------------------------------------------------
LEMMA AgesFinite ==
    ASSUME NEW ages \in SUBSET (0..LastRd)
    PROVE  /\ IsFiniteSet(ages) /\ Cardinality(ages) \in Nat
           /\ IsFiniteSet(Older(ages))
           /\ Cardinality(Older(ages)) = Cardinality(ages \ {LastRd})
           /\ 0 \notin Older(ages)
<1>1. IsFiniteSet(0..LastRd)
  BY Parameters, FS_Interval
<1>2. IsFiniteSet(ages) /\ IsFiniteSet(ages \ {LastRd})
  BY <1>1, FS_Subset
<1>3. Cardinality(ages) \in Nat
  BY <1>2, FS_CardinalityType
<1>4. \A x \in ages : x \in Int /\ x >= 0
  BY Parameters
<1> DEFINE f == [x \in ages \ {LastRd} |-> x + 1]
<1>5. f \in Bijection(ages \ {LastRd}, Older(ages))
  <2>1. f \in [ages \ {LastRd} -> Older(ages)]
    BY DEF Older
  <2>2. \A x, y \in ages \ {LastRd} : f[x] = f[y] => x = y
    BY <1>4
  <2>3. \A z \in Older(ages) : \E x \in ages \ {LastRd} : f[x] = z
    BY DEF Older
  <2> QED
    BY <2>1, <2>2, <2>3
    DEF Bijection, Injection, Surjection, IsInjective
<1>6. ExistsBijection(ages \ {LastRd}, Older(ages))
  BY <1>5 DEF ExistsBijection
<1>7. 0 \notin Older(ages)
  BY <1>4 DEF Older
<1> QED
  BY <1>2, <1>3, <1>6, <1>7, FS_Bijection

(* Reads a burst apart cannot be many before the first one is done.          *)
LEMMA AgesFit ==
    ASSUME ReadsApart PROVE Cardinality(Ages) <= IdDepth - 2 /\ IdDepth \in Nat
<1>0. IdDepth \in Nat
  BY LatencyAssumption
<1>b. BL = 2 \/ BL = 3 \/ BL = 4
  BY Parameters
<1>1. PICK n \in Nat : n = LastRd /\ n < BL * (IdDepth - 2)
  BY Parameters
<1>2. \A x \in Ages : x \in Nat /\ x <= n
  BY <1>1, Parameters DEF ReadsApart
<1>3. \A x \in Nat : x <= n => x \div BL \in 0..IdDepth - 3
  <2>1. CASE BL = 2
    BY <1>0, <1>1, <2>1
  <2>2. CASE BL = 3
    BY <1>0, <1>1, <2>2
  <2>3. CASE BL = 4
    BY <1>0, <1>1, <2>3
  <2> QED
    BY <1>b, <2>1, <2>2, <2>3
<1>4. \A x, y \in Nat : y - x >= BL => x \div BL # y \div BL
  <2>1. CASE BL = 2
    BY <2>1
  <2>2. CASE BL = 3
    BY <2>2
  <2>3. CASE BL = 4
    BY <2>3
  <2> QED
    BY <1>b, <2>1, <2>2, <2>3
<1> DEFINE f == [x \in Ages |-> x \div BL]
<1>5. f \in [Ages -> 0..IdDepth - 3]
  BY <1>2, <1>3
<1>6. ASSUME NEW x \in Ages, NEW y \in Ages, x # y PROVE f[x] # f[y]
  <2>1. x \in Nat /\ y \in Nat
    BY <1>2
  <2>2. x < y \/ y < x
    BY <1>6, <2>1
  <2>3. y - x >= BL \/ x - y >= BL
    BY <2>2 DEF ReadsApart
  <2> QED
    BY <1>4, <2>1, <2>3
<1>7. f \in Injection(Ages, 0..IdDepth - 3)
  BY <1>5, <1>6 DEF Injection, IsInjective
<1>8. /\ IsFiniteSet(0..IdDepth - 3)
      /\ Cardinality(0..IdDepth - 3) = IF 0 > IdDepth - 3 THEN 0 ELSE IdDepth - 2
  BY <1>0, FS_Interval
<1>9. Cardinality(Ages) <= Cardinality(0..IdDepth - 3)
  BY <1>7, <1>8, FS_Injection
<1>10. IdDepth - 2 >= 1
  <2>1. CASE BL = 2
    BY <1>0, <1>1, <2>1
  <2>2. CASE BL = 3
    BY <1>0, <1>1, <2>2
  <2>3. CASE BL = 4
    BY <1>0, <1>1, <2>3
  <2> QED
    BY <1>b, <2>1, <2>2, <2>3
<1> QED
  BY <1>0, <1>8, <1>9, <1>10

LEMMA RoomLeft ==
    ASSUME ReadsApart, CountInv PROVE IdFifoHasRoom
<1>1. Cardinality(Ages) <= IdDepth - 2 /\ IdDepth \in Nat
  BY AgesFit
<1>2. Ages \in SUBSET (0..LastRd)
  BY DEF ReadsApart
<1>3. Cardinality(Ages) \in Nat
  BY <1>2, AgesFinite
<1> QED
  BY <1>1, <1>3 DEF CountInv, IdFifoHasRoom

LEMMA CountStep ==
    ASSUME ReadsApart, CountInv, delay_q \in Nat, Core!CoreTick, IdFifo,
           write_ack_q' = (Issued = "WRITE"),
           Ages' = Older(Ages) \cup (IF Issued = "READ" THEN {0} ELSE {}),
           rd_valid_q' \in BOOLEAN, rd_valid_q' <=> LastRd \in Ages
    PROVE  CountInv'
<1>1. Ages \in SUBSET (0..LastRd)
  BY DEF ReadsApart
<1>2. /\ IsFiniteSet(Ages) /\ Cardinality(Ages) \in Nat
      /\ IsFiniteSet(Older(Ages))
      /\ Cardinality(Older(Ages)) = Cardinality(Ages \ {LastRd})
      /\ 0 \notin Older(Ages)
  BY <1>1, AgesFinite
<1>3. Cardinality(Ages \ {LastRd}) =
        IF LastRd \in Ages THEN Cardinality(Ages) - 1 ELSE Cardinality(Ages)
  BY <1>2, FS_RemoveElement
<1>4. Cardinality(Older(Ages) \cup {0}) = Cardinality(Older(Ages)) + 1
  BY <1>2, FS_AddElement
<1>5. (write_ack_q' <=> Issued = "WRITE") /\ write_ack_q' \in BOOLEAN
  OBVIOUS
<1>6. Issued = "WRITE" => Ages = {}
  BY IssueSpaced
<1>7. write_ack_q' => Ages' = {} /\ ~rd_valid_q'
  BY <1>5, <1>6 DEF Older
<1>8. Cardinality(Ages') + (IF Answering' THEN 1 ELSE 0) =
        Cardinality(Ages) + (IF Issued # "NOP" THEN 1 ELSE 0)
  <2>1. Answering' <=> LastRd \in Ages \/ Issued = "WRITE"
    BY <1>5 DEF Answering
  <2>2. CASE Issued = "READ"
    <3>1. Cardinality(Ages') = Cardinality(Ages \ {LastRd}) + 1
      BY <1>2, <1>4, <2>2
    <3>2. Answering' <=> LastRd \in Ages
      BY <2>1, <2>2
    <3> QED
      BY <1>2, <1>3, <2>2, <3>1, <3>2
  <2>3. CASE Issued # "READ"
    <3>1. Ages' = Older(Ages)
      BY <2>3
    <3>2. Cardinality(Ages') = Cardinality(Ages \ {LastRd})
      BY <1>2, <3>1
    <3>3. Issued = "WRITE" => LastRd \notin Ages
      BY <1>6
    <3> QED
      BY <1>2, <1>3, <2>1, <2>3, <3>2, <3>3, IssuedIs
  <2> QED
    BY <2>2, <2>3
<1>9. id_count \in Nat /\ id_count <= Cardinality(Ages) + (IF Answering THEN 1 ELSE 0)
  BY DEF CountInv
<1>10. /\ id_count' \in Nat
       /\ id_count' <= Cardinality(Ages) + (IF Issued # "NOP" THEN 1 ELSE 0)
  <2> DEFINE push == req # "NONE" /\ Core!Accepted
             pop == Answering /\ id_count # 0
  <2>1. ram.ack <=> Answering
    BY DEF ram, Answering
  <2>2. id_count' = CASE push /\ ~pop -> id_count + 1
                      [] pop /\ ~push -> id_count - 1
                      [] OTHER -> id_count
    BY <2>1 DEF IdFifo
  <2>3. push => Issued # "NOP"
    BY DEF Issued, Core!Accepted
  <2> HIDE DEF push
  <2>4. CASE push /\ ~pop
    BY <1>2, <1>9, <2>2, <2>3, <2>4
  <2>5. CASE pop /\ ~push
    <3>1. id_count' = id_count - 1
      BY <2>2, <2>5
    <3> QED
      BY <1>2, <1>9, <2>5, <3>1
  <2>6. CASE push <=> pop
    <3>1. id_count' = id_count
      BY <2>2, <2>6
    <3> QED
      BY <1>2, <1>9, <2>3, <2>6, <3>1
  <2> QED
    BY <2>4, <2>5, <2>6
<1>11. id_count' <= Cardinality(Ages') + (IF Answering' THEN 1 ELSE 0)
  BY <1>8, <1>10
<1>12. CountInv' <=>
         /\ rd_valid_q' \in BOOLEAN /\ write_ack_q' \in BOOLEAN
         /\ write_ack_q' => Ages' = {} /\ ~rd_valid_q'
         /\ id_count' \in Nat
         /\ id_count' <= Cardinality(Ages') + (IF Answering' THEN 1 ELSE 0)
  BY DEF CountInv
<1> QED
  BY <1>5, <1>7, <1>10, <1>11, <1>12

-----------------------------------------------------------------------------
(* With room in the id fifo, the core sees the request that is up.            *)
LEMMA RequestSeen ==
    ASSUME FrontInv, IdFifoHasRoom
    PROVE  /\ state_r \in ReadAccepting \cup ReadAnswering =>
                req = "READ" /\ Asked = "READ"
           /\ state_r \in {"WRITE_WAIT_ACCEPT", "WRITE_WAIT_ACK"} =>
                req = "WRITE" /\ Asked = "WRITE"
           /\ state_r \in {"IDLE", "WRITE_START"} \cup Starting => req = "NONE"
<1>1. id_fifo_space_w
  <2>1. id_count # IdDepth
    BY LatencyAssumption DEF IdFifoHasRoom
  <2> QED
    BY <2>1 DEF id_fifo_space_w
<1>2. /\ DRAM_RE => req = "READ"
      /\ ~DRAM_RE /\ DRAM_WE => req = "WRITE"
      /\ ~DRAM_RE /\ ~DRAM_WE => req = "NONE"
  BY <1>1 DEF req
<1>3. /\ DRAM_RE <=> state_r \in ReadAccepting \cup ReadAnswering
      /\ DRAM_WE <=> state_r \in {"WRITE_WAIT_ACCEPT", "WRITE_WAIT_ACK"}
  BY DEF FrontInv
<1> QED
  BY <1>2, <1>3 DEF Asked, ReadAccepting, ReadAnswering, Starting

(* One cycle of the Wishbone front, state by state.                          *)
LEMMA WbMoves ==
    ASSUME FrontInv, Wb!WbTick
    PROVE  /\ state_r = "IDLE" =>
                /\ DRAM_RE' = FALSE /\ DRAM_WE' = FALSE /\ wb_ack_r' = FALSE
                /\ IF Axi!wb_cyc /\ ~wb_ack_r
                     THEN /\ state_r' \in Starting
                          /\ DRAM_ADDRESS' = current_addr \div 16
                     ELSE state_r' = "IDLE" /\ DRAM_ADDRESS' = DRAM_ADDRESS
           /\ state_r # "IDLE" => DRAM_ADDRESS' = DRAM_ADDRESS
           /\ state_r \in Starting =>
                /\ wb_ack_r' = FALSE /\ DRAM_WE' = DRAM_WE
                /\ IF state_q = "IDLE"
                     THEN state_r' \in ReadAccepting /\ DRAM_RE' = TRUE
                     ELSE state_r' = state_r /\ DRAM_RE' = DRAM_RE
           /\ state_r = "WRITE_START" =>
                /\ wb_ack_r' = FALSE /\ DRAM_RE' = DRAM_RE
                /\ IF state_q = "IDLE"
                     THEN state_r' = "WRITE_WAIT_ACCEPT" /\ DRAM_WE' = TRUE
                     ELSE state_r' = state_r /\ DRAM_WE' = DRAM_WE
           /\ state_r \in ReadAccepting =>
                /\ UNCHANGED <<DRAM_RE, DRAM_WE>> /\ wb_ack_r' = FALSE
                /\ IF Core!Accepted THEN state_r' \in ReadAnswering
                                    ELSE state_r' = state_r
           /\ state_r = "WRITE_WAIT_ACCEPT" =>
                /\ UNCHANGED <<DRAM_RE, DRAM_WE>> /\ wb_ack_r' = FALSE
                /\ IF Core!Accepted THEN state_r' = "WRITE_WAIT_ACK"
                                    ELSE state_r' = state_r
           /\ state_r \in ReadAnswering =>
                /\ DRAM_WE' = DRAM_WE
                /\ IF Answering
                     THEN /\ DRAM_RE' = FALSE
                          /\ \/ state_r' = "IDLE" /\ wb_ack_r' = TRUE
                             \/ state_r' = "WRITE_START" /\ wb_ack_r' = FALSE
                     ELSE /\ state_r' = state_r /\ DRAM_RE' = DRAM_RE
                          /\ wb_ack_r' = FALSE
           /\ state_r = "WRITE_WAIT_ACK" =>
                /\ DRAM_RE' = DRAM_RE
                /\ IF Answering
                     THEN state_r' = "IDLE" /\ wb_ack_r' = TRUE /\ DRAM_WE' = FALSE
                     ELSE /\ state_r' = state_r /\ DRAM_WE' = DRAM_WE
                          /\ wb_ack_r' = FALSE
           /\ DRAM_WDG = 0 => DRAM_WDG' = 0
<1>1. /\ ram.ready <=> state_q = "IDLE"
      /\ ram.accept <=> Core!Accepted
      /\ ram.ack <=> Answering
      /\ wb.cyc <=> Axi!wb_cyc
      /\ wb.adr.line = current_addr \div 16
  BY DEF ram, wb, Answering
<1>2. \/ Wb!IdleWb \/ Wb!IdleNothing \/ Wb!WbRead \/ Wb!WbWrite
  <2>1. ~Wb!IdleUart
    BY DEF Wb!IdleUart
  <2>2. ~Wb!UartWrite
    BY DEF FrontInv, ReadAccepting, ReadAnswering, Starting, Wb!UartWrite,
       Wb!Start, Wb!WaitAccept, Wb!StillWaiting, Wb!RmwAck, Wb!WriteAck
  <2> QED
    BY <2>1, <2>2 DEF Wb!WbTick
<1>3. state_r = "IDLE" => Wb!IdleWb \/ Wb!IdleNothing
  BY <1>2 DEF Wb!WbRead, Wb!WbWrite, Wb!Start, Wb!WaitAccept,
     Wb!StillWaiting, Wb!RmwAck, Wb!WriteAck, Wb!ReadAck
<1>4. state_r # "IDLE" => Wb!WbRead \/ Wb!WbWrite
  BY <1>2 DEF Wb!IdleWb, Wb!IdleNothing
<1>5. state_r # "IDLE" => DRAM_ADDRESS' = DRAM_ADDRESS
  BY <1>4 DEF Wb!WbRead, Wb!WbWrite, Wb!Start, Wb!WaitAccept,
     Wb!StillWaiting, Wb!RmwAck, Wb!WriteAck, Wb!ReadAck, Wb!ramRegs
<1>6. DRAM_WDG = 0 => DRAM_WDG' = 0
  BY DEF Wb!WbTick
<1>7. CASE state_r = "IDLE"
  <2>1. /\ DRAM_RE' = FALSE /\ DRAM_WE' = FALSE /\ wb_ack_r' = FALSE
        /\ IF Axi!wb_cyc /\ ~wb_ack_r
             THEN /\ state_r' \in Starting
                  /\ DRAM_ADDRESS' = current_addr \div 16
             ELSE state_r' = "IDLE" /\ DRAM_ADDRESS' = DRAM_ADDRESS
    <3>1. CASE Wb!IdleWb
      BY <1>1, <3>1 DEF Wb!IdleWb, Starting
    <3>2. CASE Wb!IdleNothing
      BY <1>1, <1>7, <3>2 DEF Wb!IdleNothing
    <3> QED
      BY <1>3, <1>7, <3>1, <3>2
  <2> QED
    BY <1>6, <1>7, <2>1 DEF Starting, ReadAccepting, ReadAnswering
<1>8. CASE state_r = "READ_START"
  <2>1. Wb!Start("READ_START", "READ_WAIT_ACCEPT", FALSE)
    BY <1>4, <1>8 DEF Wb!WbRead, Wb!WbWrite, Wb!Start, Wb!WaitAccept,
       Wb!StillWaiting, Wb!RmwAck, Wb!WriteAck, Wb!ReadAck
  <2> QED
    BY <1>1, <1>5, <1>6, <1>8, <2>1
    DEF Wb!Start, Starting, ReadAccepting, ReadAnswering
<1>9. CASE state_r = "WRITE_RMW_START"
  <2>1. Wb!Start("WRITE_RMW_START", "WRITE_RMW_WAIT_ACCEPT", FALSE)
    BY <1>4, <1>9 DEF Wb!WbRead, Wb!WbWrite, Wb!Start, Wb!WaitAccept,
       Wb!StillWaiting, Wb!RmwAck, Wb!WriteAck, Wb!ReadAck
  <2> QED
    BY <1>1, <1>5, <1>6, <1>9, <2>1
    DEF Wb!Start, Starting, ReadAccepting, ReadAnswering
<1>10. CASE state_r = "WRITE_START"
  <2>1. Wb!Start("WRITE_START", "WRITE_WAIT_ACCEPT", TRUE)
    BY <1>4, <1>10 DEF Wb!WbRead, Wb!WbWrite, Wb!Start, Wb!WaitAccept,
       Wb!StillWaiting, Wb!RmwAck, Wb!WriteAck, Wb!ReadAck
  <2> QED
    BY <1>1, <1>5, <1>6, <1>10, <2>1
    DEF Wb!Start, Starting, ReadAccepting, ReadAnswering
<1>11. CASE state_r = "READ_WAIT_ACCEPT"
  <2>1. Wb!WaitAccept("READ_WAIT_ACCEPT", "READ_WAIT_ACK")
    BY <1>4, <1>11 DEF Wb!WbRead, Wb!WbWrite, Wb!Start, Wb!WaitAccept,
       Wb!StillWaiting, Wb!RmwAck, Wb!WriteAck, Wb!ReadAck
  <2> QED
    BY <1>1, <1>5, <1>6, <1>11, <2>1
    DEF Wb!WaitAccept, Wb!ramRegs, Starting, ReadAccepting, ReadAnswering
<1>12. CASE state_r = "WRITE_RMW_WAIT_ACCEPT"
  <2>1. Wb!WaitAccept("WRITE_RMW_WAIT_ACCEPT", "WRITE_RMW_WAIT_ACK")
    BY <1>4, <1>12 DEF Wb!WbRead, Wb!WbWrite, Wb!Start, Wb!WaitAccept,
       Wb!StillWaiting, Wb!RmwAck, Wb!WriteAck, Wb!ReadAck
  <2> QED
    BY <1>1, <1>5, <1>6, <1>12, <2>1
    DEF Wb!WaitAccept, Wb!ramRegs, Starting, ReadAccepting, ReadAnswering
<1>13. CASE state_r = "WRITE_WAIT_ACCEPT"
  <2>1. Wb!WaitAccept("WRITE_WAIT_ACCEPT", "WRITE_WAIT_ACK")
    BY <1>4, <1>13 DEF Wb!WbRead, Wb!WbWrite, Wb!Start, Wb!WaitAccept,
       Wb!StillWaiting, Wb!RmwAck, Wb!WriteAck, Wb!ReadAck
  <2> QED
    BY <1>1, <1>5, <1>6, <1>13, <2>1
    DEF Wb!WaitAccept, Wb!ramRegs, Starting, ReadAccepting, ReadAnswering
<1>14. CASE state_r = "READ_WAIT_ACK"
  <2>1. Wb!StillWaiting("READ_WAIT_ACK") \/ Wb!ReadAck
    BY <1>4, <1>14 DEF Wb!WbRead, Wb!WbWrite, Wb!Start, Wb!WaitAccept,
       Wb!StillWaiting, Wb!RmwAck, Wb!WriteAck, Wb!ReadAck
  <2> QED
    BY <1>1, <1>5, <1>6, <1>14, <2>1
    DEF Wb!StillWaiting, Wb!ReadAck, Wb!ramRegs, Starting, ReadAccepting,
        ReadAnswering
<1>15. CASE state_r = "WRITE_RMW_WAIT_ACK"
  <2>1. \/ Wb!StillWaiting("WRITE_RMW_WAIT_ACK")
        \/ Wb!RmwAck("WRITE_RMW_WAIT_ACK", "WRITE_START", wb_adr_r, wb_dat_r,
                     wb_sel_r)
    BY <1>4, <1>15 DEF Wb!WbRead, Wb!WbWrite, Wb!Start, Wb!WaitAccept,
       Wb!StillWaiting, Wb!RmwAck, Wb!WriteAck, Wb!ReadAck
  <2> QED
    BY <1>1, <1>5, <1>6, <1>15, <2>1
    DEF Wb!StillWaiting, Wb!RmwAck, Wb!ramRegs, Starting, ReadAccepting,
        ReadAnswering
<1>16. CASE state_r = "WRITE_WAIT_ACK"
  <2>1. Wb!StillWaiting("WRITE_WAIT_ACK") \/ Wb!WriteAck("WRITE_WAIT_ACK")
    BY <1>4, <1>16 DEF Wb!WbRead, Wb!WbWrite, Wb!Start, Wb!WaitAccept,
       Wb!StillWaiting, Wb!RmwAck, Wb!WriteAck, Wb!ReadAck
  <2> QED
    BY <1>1, <1>5, <1>6, <1>16, <2>1
    DEF Wb!StillWaiting, Wb!WriteAck, Wb!ramRegs, Starting, ReadAccepting,
        ReadAnswering
<1> QED
  BY <1>7, <1>8, <1>9, <1>10, <1>11, <1>12, <1>13, <1>14, <1>15, <1>16
  DEF FrontInv, Starting, ReadAccepting, ReadAnswering

(* One cycle of the AXI front, as far as the Wishbone goes.                   *)
LEMMA AxiMoves ==
    ASSUME Axi!AxiTick
    PROVE  /\ current_state \in RequestsWb => current_state' \in AwaitsWb
           /\ current_state \in AwaitsWb =>
                IF wb_ack_r THEN current_state' \notin AwaitsWb \cup RequestsWb
                            ELSE current_state' = current_state
           /\ current_state \notin AwaitsWb \cup RequestsWb =>
                current_state' \notin AwaitsWb
<1>1. CASE Axi!TakeWrite \/ Axi!TakeRead
  BY <1>1 DEF Axi!TakeWrite, Axi!TakeRead, AwaitsWb, RequestsWb
<1>2. CASE \/ Axi!Request("READ_REQ_WB", "READ_WAIT_WB")
           \/ Axi!Request("WRITE_REQ_WB", "WRITE_WAIT_WB")
  BY <1>2 DEF Axi!Request, AwaitsWb, RequestsWb
<1>3. CASE Axi!ReadAnswered \/ Axi!WriteAnswered
  BY <1>3 DEF Axi!ReadAnswered, Axi!WriteAnswered, AwaitsWb, RequestsWb
<1>4. CASE Axi!ReadResponse \/ Axi!WriteResponse \/ Axi!TakeData
  BY <1>4 DEF Axi!ReadResponse, Axi!WriteResponse, Axi!TakeData, Axi!rvalid,
     Axi!bvalid, Axi!wready, AwaitsWb, RequestsWb
<1>5. CASE Axi!Wait
  <2>1. /\ current_state' = current_state
        /\ CASE current_state = "IDLE" -> ~aw.valid /\ ~ar.valid
             [] current_state \in {"READ_WAIT_WB", "WRITE_WAIT_WB"} -> ~wb_ack_r
             [] Axi!rvalid -> ~rready
             [] Axi!wready -> ~w.valid
             [] Axi!bvalid -> ~bready
             [] OTHER -> FALSE
    BY <1>5 DEF Axi!Wait, Axi!axiVars
  <2>2. current_state \in AwaitsWb => ~wb_ack_r
    BY <2>1 DEF Axi!rvalid, Axi!wready, Axi!bvalid, AwaitsWb
  <2>3. current_state \notin RequestsWb
    BY <2>1 DEF Axi!rvalid, Axi!wready, Axi!bvalid, RequestsWb
  <2> QED
    BY <2>1, <2>2, <2>3
<1> QED
  BY <1>1, <1>2, <1>3, <1>4, <1>5 DEF Axi!AxiTick

LEMMA FrontStep ==
    ASSUME FrontInv, Wb!WbTick, Axi!AxiTick
    PROVE  FrontInv'
<1>1. Axi!wb_cyc <=> current_state \in RequestsWb \cup AwaitsWb
  BY DEF Axi!wb_cyc, RequestsWb, AwaitsWb
<1>2. /\ state_r \in {"IDLE", "WRITE_START", "WRITE_WAIT_ACCEPT", "WRITE_WAIT_ACK"}
                     \cup ReadAccepting \cup ReadAnswering \cup Starting
      /\ DRAM_RE \in BOOLEAN /\ DRAM_WE \in BOOLEAN /\ wb_ack_r \in BOOLEAN
      /\ DRAM_RE <=> state_r \in ReadAccepting \cup ReadAnswering
      /\ DRAM_WE <=> state_r \in {"WRITE_WAIT_ACCEPT", "WRITE_WAIT_ACK"}
      /\ wb_ack_r => state_r = "IDLE" /\ current_state \in AwaitsWb
      /\ state_r # "IDLE" => current_state \in AwaitsWb
      /\ current_state \in AwaitsWb /\ ~wb_ack_r => state_r # "IDLE"
  BY DEF FrontInv
<1> DEFINE Goal ==
      /\ state_r' \in {"IDLE", "WRITE_START", "WRITE_WAIT_ACCEPT", "WRITE_WAIT_ACK"}
                      \cup ReadAccepting \cup ReadAnswering \cup Starting
      /\ DRAM_RE' \in BOOLEAN /\ DRAM_WE' \in BOOLEAN /\ wb_ack_r' \in BOOLEAN
      /\ DRAM_RE' <=> state_r' \in ReadAccepting \cup ReadAnswering
      /\ DRAM_WE' <=> state_r' \in {"WRITE_WAIT_ACCEPT", "WRITE_WAIT_ACK"}
      /\ wb_ack_r' => state_r' = "IDLE" /\ current_state' \in AwaitsWb
      /\ state_r' # "IDLE" => current_state' \in AwaitsWb
      /\ current_state' \in AwaitsWb /\ ~wb_ack_r' => state_r' # "IDLE"
<1> SUFFICES Goal
  BY DEF FrontInv
<1>3. CASE state_r = "IDLE"
  <2>1. /\ DRAM_RE' = FALSE /\ DRAM_WE' = FALSE /\ wb_ack_r' = FALSE
        /\ IF Axi!wb_cyc /\ ~wb_ack_r
             THEN state_r' \in Starting ELSE state_r' = "IDLE"
    BY <1>3, WbMoves
  <2>2. DRAM_RE' \in BOOLEAN /\ DRAM_WE' \in BOOLEAN
    BY <2>1
  <2>3. CASE Axi!wb_cyc /\ ~wb_ack_r
    <3>1. current_state' \in AwaitsWb
      BY <1>1, <1>2, <1>3, <2>3, AxiMoves
    <3> QED
      BY <2>1, <2>2, <2>3, <3>1 DEF Starting, ReadAccepting, ReadAnswering
  <2>4. CASE ~(Axi!wb_cyc /\ ~wb_ack_r)
    <3>1. current_state' \notin AwaitsWb
      BY <1>1, <1>2, <1>3, <2>4, AxiMoves
    <3> QED
      BY <2>1, <2>2, <2>4, <3>1 DEF Starting, ReadAccepting, ReadAnswering
  <2> QED
    BY <2>3, <2>4
<1>4. CASE state_r # "IDLE"
  <2>1. current_state' \in AwaitsWb
    BY <1>2, <1>4, AxiMoves
  <2>2. CASE state_r \in Starting
    <3>1. DRAM_RE = FALSE /\ DRAM_WE = FALSE
      BY <1>2, <2>2 DEF Starting, ReadAccepting, ReadAnswering
    <3>2. \/ /\ state_r' \in ReadAccepting /\ DRAM_RE' = TRUE
             /\ DRAM_WE' = FALSE /\ wb_ack_r' = FALSE
          \/ /\ state_r' = state_r /\ DRAM_RE' = FALSE
             /\ DRAM_WE' = FALSE /\ wb_ack_r' = FALSE
      BY <2>2, <3>1, WbMoves
    <3> QED
      BY <1>2, <2>1, <2>2, <3>2 DEF Starting, ReadAccepting, ReadAnswering
  <2>3. CASE state_r = "WRITE_START"
    <3>1. DRAM_RE = FALSE /\ DRAM_WE = FALSE
      BY <1>2, <2>3 DEF Starting, ReadAccepting, ReadAnswering
    <3>2. \/ /\ state_r' = "WRITE_WAIT_ACCEPT" /\ DRAM_RE' = FALSE
             /\ DRAM_WE' = TRUE /\ wb_ack_r' = FALSE
          \/ /\ state_r' = state_r /\ DRAM_RE' = FALSE
             /\ DRAM_WE' = FALSE /\ wb_ack_r' = FALSE
      BY <2>3, <3>1, WbMoves
    <3> QED
      BY <1>2, <2>1, <2>3, <3>2 DEF Starting, ReadAccepting, ReadAnswering
  <2>4. CASE state_r \in ReadAccepting
    <3>1. DRAM_RE = TRUE /\ DRAM_WE = FALSE
      BY <1>2, <2>4 DEF Starting, ReadAccepting, ReadAnswering
    <3>2. \/ /\ state_r' \in ReadAnswering /\ DRAM_RE' = TRUE
             /\ DRAM_WE' = FALSE /\ wb_ack_r' = FALSE
          \/ /\ state_r' = state_r /\ DRAM_RE' = TRUE
             /\ DRAM_WE' = FALSE /\ wb_ack_r' = FALSE
      BY <2>4, <3>1, WbMoves
    <3> QED
      BY <1>2, <2>1, <2>4, <3>2 DEF Starting, ReadAccepting, ReadAnswering
  <2>5. CASE state_r = "WRITE_WAIT_ACCEPT"
    <3>1. DRAM_RE = FALSE /\ DRAM_WE = TRUE
      BY <1>2, <2>5 DEF Starting, ReadAccepting, ReadAnswering
    <3>2. \/ /\ state_r' = "WRITE_WAIT_ACK" /\ DRAM_RE' = FALSE
             /\ DRAM_WE' = TRUE /\ wb_ack_r' = FALSE
          \/ /\ state_r' = state_r /\ DRAM_RE' = FALSE
             /\ DRAM_WE' = TRUE /\ wb_ack_r' = FALSE
      BY <2>5, <3>1, WbMoves
    <3> QED
      BY <1>2, <2>1, <2>5, <3>2 DEF Starting, ReadAccepting, ReadAnswering
  <2>6. CASE state_r \in ReadAnswering
    <3>1. DRAM_RE = TRUE /\ DRAM_WE = FALSE
      BY <1>2, <2>6 DEF Starting, ReadAccepting, ReadAnswering
    <3>2. \/ /\ state_r' = "IDLE" /\ DRAM_RE' = FALSE
             /\ DRAM_WE' = FALSE /\ wb_ack_r' = TRUE
          \/ /\ state_r' = "WRITE_START" /\ DRAM_RE' = FALSE
             /\ DRAM_WE' = FALSE /\ wb_ack_r' = FALSE
          \/ /\ state_r' = state_r /\ DRAM_RE' = TRUE
             /\ DRAM_WE' = FALSE /\ wb_ack_r' = FALSE
      BY <2>6, <3>1, WbMoves
    <3> QED
      BY <1>2, <2>1, <2>6, <3>2 DEF Starting, ReadAccepting, ReadAnswering
  <2>7. CASE state_r = "WRITE_WAIT_ACK"
    <3>1. DRAM_RE = FALSE /\ DRAM_WE = TRUE
      BY <1>2, <2>7 DEF Starting, ReadAccepting, ReadAnswering
    <3>2. \/ /\ state_r' = "IDLE" /\ DRAM_RE' = FALSE
             /\ DRAM_WE' = FALSE /\ wb_ack_r' = TRUE
          \/ /\ state_r' = state_r /\ DRAM_RE' = FALSE
             /\ DRAM_WE' = TRUE /\ wb_ack_r' = FALSE
      BY <2>7, <3>1, WbMoves
    <3> QED
      BY <1>2, <2>1, <2>7, <3>2 DEF Starting, ReadAccepting, ReadAnswering
  <2> QED
    BY <1>2, <1>4, <2>2, <2>3, <2>4, <2>5, <2>6, <2>7
<1> QED
  BY <1>3, <1>4

LEMMA Powers ==
    ASSUME NEW s \in 0..2 PROVE 2^s \in Nat
<1>1. 2^0 = 1 /\ 2^1 = 2 /\ 2^2 = 4
  OBVIOUS
<1>2. s = 0 \/ s = 1 \/ s = 2
  OBVIOUS
<1>3. CASE s = 0
  BY <1>1, <1>3
<1>4. CASE s = 1
  BY <1>1, <1>4
<1>5. CASE s = 2
  BY <1>1, <1>5
<1> QED
  BY <1>2, <1>3, <1>4, <1>5

LEMMA AddressStep ==
    ASSUME FrontInv, AddressInv, Wb!WbTick, Axi!AxiTick, Axi!Master
    PROVE  AddressInv'
<1>1. aw'.valid => aw' \in Writes
  <2>1. \/ aw' = aw /\ aw.valid
        \/ aw' = Axi!Nothing
        \/ aw' \in Writes
    BY DEF Axi!Master
  <2> QED
    BY <2>1 DEF Axi!Nothing, AddressInv
<1>2. ar'.valid => ar' \in Reads
  <2>1. \/ ar' = ar /\ ar.valid
        \/ ar' = Axi!Nothing
        \/ ar' \in Reads
    BY DEF Axi!Master
  <2> QED
    BY <2>1 DEF Axi!Nothing, AddressInv
<1>3. current_addr' \in 0..(AddrMod - 1) /\ reg_size' \in 0..2
  <2>1. CASE Axi!TakeWrite
    BY <2>1, WiringAssumption DEF Axi!TakeWrite, Axi!Latch, AddressInv
  <2>2. CASE Axi!TakeRead
    BY <2>2, WiringAssumption DEF Axi!TakeRead, Axi!Latch, AddressInv
  <2>3. CASE \/ Axi!Request("READ_REQ_WB", "READ_WAIT_WB")
             \/ Axi!Request("WRITE_REQ_WB", "WRITE_WAIT_WB")
             \/ Axi!ReadAnswered \/ Axi!TakeData \/ Axi!WriteResponse \/ Axi!Wait
    <3>1. current_addr' = current_addr /\ reg_size' = reg_size
      BY <2>3 DEF Axi!Request, Axi!ReadAnswered, Axi!TakeData,
         Axi!WriteResponse, Axi!Wait, Axi!axiVars, Axi!burstRegs
    <3> QED
      BY <3>1 DEF AddressInv
  <2>4. CASE Axi!ReadResponse \/ Axi!WriteAnswered
    <3>1. /\ reg_size' = reg_size
          /\ \/ current_addr' = current_addr
             \/ current_addr' = (current_addr + 2^reg_size) % AddrMod
      BY <2>4 DEF Axi!ReadResponse, Axi!WriteAnswered, Axi!NextBeat,
         Axi!burstRegs
    <3>2. PICK n \in Nat : n = 2^reg_size
      BY Powers DEF AddressInv
    <3>3. current_addr \in Nat
      BY DEF AddressInv
    <3>4. (current_addr + n) % AddrMod \in 0..(AddrMod - 1)
      BY <3>3, WiringAssumption
    <3> QED
      BY <3>1, <3>2, <3>4 DEF AddressInv
  <2> QED
    BY <2>1, <2>2, <2>3, <2>4 DEF Axi!AxiTick
<1>4. DRAM_ADDRESS' \in LineAddrs
  <2>1. DRAM_ADDRESS' = DRAM_ADDRESS \/ DRAM_ADDRESS' = current_addr \div 16
    BY WbMoves
  <2>2. PICK a \in Nat : a = current_addr /\ a <= AddrMod - 1
    BY WiringAssumption DEF AddressInv
  <2>3. a \div 16 \in 0..((AddrMod - 1) \div 16)
    BY <2>2, WiringAssumption
  <2> QED
    BY <2>1, <2>2, <2>3 DEF AddressInv, LineAddrs
<1> QED
  BY <1>1, <1>2, <1>3, <1>4 DEF AddressInv

-----------------------------------------------------------------------------
(* Without a request the use of the address only runs out.                    *)
LEMMA QuietStep ==
    ASSUME delay_q \in Nat, Core!CoreTick, AddressInv,
           active_row_q \in [Banks -> Rows], req = "NONE",
           NEW d \in Int, EndsWithin(d)
    PROVE  EndsWithin(d - 1)'
<1>1. CASE state_q \in {"READ", "WRITE"}
  <2>1. /\ last_cmd_q = state_q /\ SeqGap <= delay_q /\ delay_q <= SeqGap + d
    BY <1>1 DEF EndsWithin, Core!LineInUse
  <2>2. CASE Issued = "NOP"
    <3>1. /\ state_q' = state_q /\ last_cmd_q' = last_cmd_q
          /\ delay_q' = delay_q - 1 /\ delay_q # SeqGap
      BY <1>1, <2>1, <2>2, AccessMoves
    <3>2. SeqGap <= delay_q' /\ delay_q' <= SeqGap + (d - 1)
      BY <2>1, <3>1, Parameters
    <3> QED
      BY <1>1, <2>1, <3>1, <3>2 DEF EndsWithin
  <2>3. CASE Issued # "NOP"
    <3>1. state_q' = "IDLE"
      BY <1>1, <2>3, AccessMoves
    <3> QED
      BY <3>1 DEF EndsWithin, Core!LineInUse
  <2> QED
    BY <2>2, <2>3
<1>2. CASE state_q \notin {"READ", "WRITE"}
  <2>1. state_q # "ACTIVATE" /\ ~(state_q = "PRECHARGE" /\ target_state_q # "REFRESH")
    BY <1>2 DEF EndsWithin, Core!LineInUse
  <2>2. /\ LineOf[DRAM_ADDRESS].bank \in Banks
        /\ LineOf[DRAM_ADDRESS].row \in Rows
    BY Addressed
  <2>3. ~Core!LineInUse'
    <3>1. CASE state_q = "INIT"
      BY <2>2, <3>1, StateMoves DEF Core!LineInUse
    <3>2. CASE state_q = "IDLE"
      BY <2>2, <3>2, StateMoves DEF Core!LineInUse
    <3>3. CASE state_q = "PRECHARGE"
      BY <2>1, <2>2, <3>3, StateMoves DEF Core!LineInUse
    <3>4. CASE state_q = "REFRESH"
      BY <2>2, <3>4, StateMoves DEF Core!LineInUse
    <3> QED
      BY <1>2, <2>1, <3>1, <3>2, <3>3, <3>4, ByState DEF Core!States
  <2> QED
    BY <2>3 DEF EndsWithin
<1> QED
  BY <1>1, <1>2

LEMMA EndsMonotone ==
    ASSUME delay_q \in Nat, NEW c \in Int, NEW d \in Int, c <= d, EndsWithin(c)
    PROVE  EndsWithin(d)
BY Parameters DEF EndsWithin

LEMMA EndsNever ==
    ASSUME delay_q \in Nat, NEW d \in Int, d < 0
    PROVE  EndsWithin(d) <=> ~Core!LineInUse
BY Parameters DEF EndsWithin

(* While the request is up and answered, the core at most begins to run it    *)
(* once more.                                                                *)
LEMMA AnsweringStep ==
    ASSUME delay_q \in Nat, Core!CoreTick, AddressInv,
           active_row_q \in [Banks -> Rows],
           NEW cmd \in {"READ", "WRITE"}, req = cmd, AnsweringFrom(cmd)
    PROVE  /\ EndsWithin(2)'
           /\ \/ state_q' \in {"IDLE", "PRECHARGE", "REFRESH"}
              \/ state_q' = cmd
           /\ state_q' = "PRECHARGE" => target_state_q' = "REFRESH"
           /\ UNCHANGED DRAM_ADDRESS /\ (state_q \in {"READ", "WRITE"} => Core!RowHit)
                /\ (state_q = "PRECHARGE" => delay_q # 0)
              => AnsweringFrom(cmd)'
<1>1. /\ LineOf[DRAM_ADDRESS].bank \in Banks
      /\ LineOf[DRAM_ADDRESS].row \in Rows
  BY Addressed
<1>2. CASE /\ state_q = "IDLE" /\ Core!RowHit
           /\ last_cmd_q = cmd /\ delay_q = NonSeq
  <2>1. /\ UNCHANGED <<row_open_q, active_row_q>>
        /\ \/ state_q' = "PRECHARGE" /\ target_state_q' = "REFRESH"
           \/ state_q' = cmd
    BY <1>1, <1>2, StateMoves
  <2>2. delay_q # 0
    BY <1>2, Parameters
  <2>3. last_cmd_q' = cmd /\ delay_q' = delay_q - 1
    BY <1>2, <2>2, OtherMoves
  <2>4. SeqGap <= delay_q' /\ delay_q' <= SeqGap + 2
    BY <1>2, <2>3, Parameters
  <2>5. state_q' = cmd => EndsWithin(2)'
    BY <2>3, <2>4 DEF EndsWithin
  <2>6. state_q' = "PRECHARGE" /\ target_state_q' = "REFRESH" => EndsWithin(2)'
    BY DEF EndsWithin, Core!LineInUse
  <2> QED
    BY <2>1, <2>5, <2>6 DEF AnsweringFrom
<1>3. CASE state_q = cmd /\ EndsWithin(2)
  <2>0. state_q \in {"READ", "WRITE"} /\ Core!LineInUse
    BY <1>3 DEF Core!LineInUse
  <2>1. /\ last_cmd_q = cmd /\ SeqGap <= delay_q /\ delay_q <= SeqGap + 2
    BY <1>3, <2>0 DEF EndsWithin
  <2>2. UNCHANGED <<row_open_q, active_row_q>>
    BY <2>0, AccessMoves
  <2>3. CASE Issued = "NOP"
    <3>1. /\ state_q' = state_q /\ last_cmd_q' = last_cmd_q
          /\ delay_q' = delay_q - 1 /\ delay_q # SeqGap
      BY <1>3, <2>0, <2>1, <2>3, AccessMoves
    <3>2. SeqGap <= delay_q' /\ delay_q' <= SeqGap + 2
      BY <2>1, <3>1, Parameters
    <3>3. EndsWithin(2)'
      BY <1>3, <2>1, <3>1, <3>2 DEF EndsWithin
    <3> QED
      BY <1>3, <3>1, <3>3 DEF AnsweringFrom
  <2>4. CASE Issued # "NOP"
    <3>1. /\ Issued = cmd /\ state_q' = "IDLE" /\ last_cmd_q' = Issued
          /\ delay_q' = NonSeq
      BY <1>3, <2>0, <2>4, AccessMoves
    <3>2. EndsWithin(2)'
      BY <3>1 DEF EndsWithin, Core!LineInUse
    <3>3. UNCHANGED DRAM_ADDRESS /\ Core!RowHit => Core!RowHit'
      BY <2>2 DEF Core!RowHit
    <3> QED
      BY <2>0, <3>1, <3>2, <3>3 DEF AnsweringFrom
  <2> QED
    BY <2>3, <2>4
<1>4. CASE state_q = "PRECHARGE" /\ target_state_q = "REFRESH"
  <2>1. state_q' \in {"PRECHARGE", "REFRESH"} /\ target_state_q' = "REFRESH"
    BY <1>1, <1>4, StateMoves
  <2>2. EndsWithin(2)'
    BY <2>1 DEF EndsWithin, Core!LineInUse
  <2>3. delay_q # 0 => state_q' = "PRECHARGE"
    BY <1>4, OtherMoves
  <2> QED
    BY <1>4, <2>1, <2>2, <2>3 DEF AnsweringFrom
<1> QED
  BY <1>2, <1>3, <1>4 DEF AnsweringFrom

-----------------------------------------------------------------------------
(* A cycle in which the core is out of reset.                                 *)
Running ==
    /\ IInv /\ DRAM_WDG = 0 /\ Wb!WbTick /\ Axi!AxiTick /\ Core!CoreTick
    /\ Dfi!DataTick(Issued, Payload)
    /\ IdFifo /\ write_ack_q' = (Issued = "WRITE")

LEMMA RunningFacts ==
    ASSUME Running
    PROVE  /\ delay_q \in Nat /\ active_row_q \in [Banks -> Rows]
           /\ FrontInv /\ AddressInv /\ ReadsApart /\ BeatsTimed /\ CountInv
           /\ CoreInv /\ QuietInv /\ AcceptInv /\ AnswerInv
           /\ IdFifoHasRoom
           /\ LineOf[DRAM_ADDRESS].bank \in Banks
           /\ LineOf[DRAM_ADDRESS].row \in Rows
           /\ Core!CoreTick /\ Wb!WbTick /\ Axi!AxiTick
           /\ req \in {"NONE", "READ", "WRITE"}
<1>1. /\ FrontInv /\ AddressInv /\ ReadsApart /\ BeatsTimed /\ CountInv
      /\ CoreInv /\ QuietInv /\ AcceptInv /\ AnswerInv
      /\ Core!CoreTick /\ Wb!WbTick /\ Axi!AxiTick
  BY DEF Running, IInv
<1>2. IdFifoHasRoom
  BY <1>1, RoomLeft
<1>3. req \in {"NONE", "READ", "WRITE"}
  BY <1>1, <1>2, RequestSeen DEF FrontInv
<1> QED
  BY <1>1, <1>2, <1>3, Addressed DEF CoreInv

LEMMA DataKept ==
    ASSUME Running
    PROVE  /\ ReadsApart' /\ BeatsTimed' /\ CountInv'
           /\ Ages' = Older(Ages) \cup (IF Issued = "READ" THEN {0} ELSE {})
           /\ rd_valid_q' <=> LastRd \in Ages
<1>1. /\ delay_q \in Nat /\ ReadsApart /\ BeatsTimed /\ CountInv
      /\ Core!CoreTick /\ CoreInv
  BY RunningFacts
<1>2. Dfi!Chip /\ Dfi!ReadBeats(Issued = "READ")
  BY DEF Running, Dfi!DataTick
<1>3. state_q = "INIT" => Ages = {}
  BY <1>1 DEF CoreInv
<1>4. /\ ReadsApart'
      /\ Ages' = Older(Ages) \cup (IF Issued = "READ" THEN {0} ELSE {})
  BY <1>1, <1>2, <1>3, ReadsApartStep
<1>5. PICK issue \in BOOLEAN : issue = (Issued = "READ")
  OBVIOUS
<1>6. issue => \A x \in Ages : x + 1 >= BL
  BY <1>1, <1>5, IssueSpaced
<1>7. Ages' = Older(Ages) \cup (IF issue THEN {0} ELSE {})
  BY <1>4, <1>5
<1>8. Dfi!ReadBeats(issue)
  BY <1>2, <1>5
<1>9. BeatsTimed'
  BY <1>1, <1>4, <1>6, <1>7, <1>8, BeatsTimedStep
<1>10. Ages \subseteq 0..LastRd
  BY <1>1 DEF ReadsApart
<1>11. rd_valid_q' \in BOOLEAN /\ (rd_valid_q' <=> LastRd \in Ages)
  BY <1>1, <1>8, <1>10, AnswerDue
<1>12. IdFifo /\ write_ack_q' = (Issued = "WRITE")
  BY DEF Running
<1>13. CountInv'
  BY <1>1, <1>4, <1>11, <1>12, CountStep
<1> QED
  BY <1>4, <1>9, <1>11, <1>13

(* The AXI front asks for its next access when the last one is through.       *)
LEMMA AddressKept ==
    ASSUME Running
    PROVE  Core!LineInUse' => DRAM_ADDRESS' = DRAM_ADDRESS
<1>1. CASE state_r = "IDLE" /\ Axi!wb_cyc /\ ~wb_ack_r
  <2>1. current_state \in RequestsWb
    BY <1>1, RunningFacts DEF FrontInv, Axi!wb_cyc, RequestsWb, AwaitsWb
  <2>2. EndsWithin(0)
    BY <1>1, <2>1, RunningFacts DEF QuietInv
  <2>3. req = "NONE"
    BY <1>1, RunningFacts, RequestSeen
  <2>4. EndsWithin(0 - 1)'
    BY <2>2, <2>3, RunningFacts, QuietStep
  <2>5. delay_q' \in Nat
    BY RunningFacts, AccessMoves, OtherMoves
  <2>6. ~Core!LineInUse'
    BY <2>4, <2>5, Parameters DEF EndsWithin
  <2> QED
    BY <2>6
<1>2. CASE ~(state_r = "IDLE" /\ Axi!wb_cyc /\ ~wb_ack_r)
  BY <1>2, RunningFacts, WbMoves
<1> QED
  BY <1>1, <1>2

LEMMA RowKept ==
    ASSUME Running, state_q' \in {"READ", "WRITE"}
    PROVE  Core!RowHit'
<1>1. DRAM_ADDRESS' = DRAM_ADDRESS
  BY AddressKept DEF Core!LineInUse
<1>2. CASE state_q = "IDLE"
  <2>1. Core!RowHit /\ UNCHANGED <<row_open_q, active_row_q>>
    BY <1>2, RunningFacts, StateMoves
  <2> QED
    BY <1>1, <2>1 DEF Core!RowHit
<1>3. CASE state_q = "ACTIVATE"
  <2>1. /\ LineOf[DRAM_ADDRESS].bank \in row_open_q'
        /\ active_row_q'[LineOf[DRAM_ADDRESS].bank] = LineOf[DRAM_ADDRESS].row
    BY <1>3, RunningFacts, StateMoves
  <2> QED
    BY <1>1, <2>1 DEF Core!RowHit
<1>4. CASE state_q \in {"READ", "WRITE"}
  <2>1. Core!RowHit /\ UNCHANGED <<row_open_q, active_row_q>>
    BY <1>4, RunningFacts, AccessMoves DEF CoreInv
  <2> QED
    BY <1>1, <2>1 DEF Core!RowHit
<1>5. state_q \notin {"INIT", "PRECHARGE", "REFRESH"}
  BY RunningFacts, StateMoves
<1> QED
  BY <1>2, <1>3, <1>4, <1>5, RunningFacts, ByState DEF Core!States

(* A row is opened for a request that waits to be accepted only.              *)
LEMMA ActivateForRequest ==
    ASSUME Running, state_q = "ACTIVATE"
    PROVE  /\ state_r \in ReadAccepting \cup {"WRITE_WAIT_ACCEPT"}
           /\ target_state_q \in {"READ", "WRITE"}
<1>1. ASSUME NEW d \in Nat PROVE ~EndsWithin(d)
  BY DEF EndsWithin, Core!LineInUse
<1>2. Core!LineInUse
  BY DEF Core!LineInUse
<1>3. state_r # "IDLE" /\ state_r \notin Starting /\ state_r # "WRITE_START"
  BY <1>1, <1>2, RunningFacts DEF QuietInv
<1>4. state_r \notin ReadAnswering /\ state_r # "WRITE_WAIT_ACK"
  BY RunningFacts DEF AnswerInv, AnsweringFrom
<1>5. state_r \in ReadAccepting \cup {"WRITE_WAIT_ACCEPT"}
  BY <1>3, <1>4, RunningFacts DEF FrontInv
<1> QED
  BY <1>5, RunningFacts DEF AcceptInv, Asked

LEMMA InitLeft ==
    ASSUME Running, state_q' = "INIT"
    PROVE  state_r' \in {"IDLE"} \cup Starting /\ Ages' = {}
<1>1. state_q # "ACTIVATE"
  BY RunningFacts, ActivateForRequest, StateMoves
<1>2. state_q \notin {"READ", "WRITE"}
  BY RunningFacts, AccessMoves
<1>3. state_q \notin {"IDLE", "PRECHARGE", "REFRESH"}
  BY RunningFacts, StateMoves
<1>4. state_q = "INIT"
  BY <1>1, <1>2, <1>3, RunningFacts, ByState DEF Core!States
<1>5. state_r \in {"IDLE"} \cup Starting /\ Ages = {}
  BY <1>4, RunningFacts DEF CoreInv
<1>6. state_r' \in {"IDLE"} \cup Starting
  BY <1>4, <1>5, RunningFacts, WbMoves
<1>7. Ages' = {}
  BY <1>4, <1>5, DataKept, IssuedIs DEF Older
<1> QED
  BY <1>6, <1>7

LEMMA CoreKept == ASSUME Running PROVE CoreInv'
<1>1. delay_q' \in Nat
  BY RunningFacts, AccessMoves, OtherMoves
<1>2. active_row_q' \in [Banks -> Rows]
  BY RunningFacts, StateMoves
<1>3. DRAM_WDG' = 0
  BY RunningFacts, WbMoves DEF Running
<1> QED
  BY <1>1, <1>2, <1>3, RowKept, InitLeft DEF CoreInv

LEMMA QuietKept == ASSUME Running PROVE QuietInv'
<1>0. delay_q' \in Nat
  BY RunningFacts, AccessMoves, OtherMoves
<1>1. ASSUME NEW d \in Int, EndsWithin(d), req = "NONE",
             NEW e \in Int, d - 1 <= e
      PROVE  EndsWithin(e)'
  <2>1. EndsWithin(d - 1)'
    BY <1>1, RunningFacts, QuietStep
  <2> QED
    BY <1>0, <1>1, <2>1, Parameters DEF EndsWithin
<1>2. ASSUME ~Core!LineInUse, req = "NONE" PROVE ~Core!LineInUse'
  <2>1. EndsWithin(0 - 1)
    BY <1>2 DEF EndsWithin
  <2>2. EndsWithin(0 - 1)'
    BY <1>1, <1>2, <2>1
  <2> QED
    BY <1>0, <2>2, Parameters DEF EndsWithin
<1>3. CASE state_r = "IDLE"
  <2>1. req = "NONE" /\ wb_ack_r' = FALSE
    BY <1>3, RunningFacts, RequestSeen, WbMoves
  <2>2. CASE Axi!wb_cyc /\ ~wb_ack_r
    <3>1. current_state \in RequestsWb
      BY <1>3, <2>2, RunningFacts DEF FrontInv, Axi!wb_cyc, RequestsWb, AwaitsWb
    <3>2. EndsWithin(0)
      BY <1>3, <2>2, <3>1, RunningFacts DEF QuietInv
    <3>3. EndsWithin(0 - 1)'
      BY <1>1, <2>1, <3>2
    <3>4. ~Core!LineInUse'
      BY <1>0, <3>3, Parameters DEF EndsWithin
    <3>5. state_r' \in Starting
      BY <1>3, <2>2, RunningFacts, WbMoves
    <3> QED
      BY <3>4, <3>5 DEF QuietInv, Starting
  <2>3. CASE wb_ack_r
    <3>1. EndsWithin(2)
      BY <1>3, <2>3, RunningFacts DEF QuietInv
    <3>2. EndsWithin(1)'
      BY <1>1, <2>1, <3>1
    <3>3. state_r' = "IDLE" /\ current_state' \notin RequestsWb
      BY <1>3, <2>3, RunningFacts, WbMoves, AxiMoves DEF FrontInv
    <3> QED
      BY <2>1, <3>2, <3>3 DEF QuietInv, Starting
  <2>4. CASE ~Axi!wb_cyc /\ ~wb_ack_r
    <3>1. current_state \notin RequestsWb
      BY <2>4 DEF Axi!wb_cyc, RequestsWb
    <3>2. EndsWithin(1)
      BY <1>3, <2>4, <3>1, RunningFacts DEF QuietInv
    <3>3. EndsWithin(0)' /\ EndsWithin(1)'
      BY <1>1, <2>1, <3>2
    <3>4. state_r' = "IDLE"
      BY <1>3, <2>4, RunningFacts, WbMoves
    <3>5. CASE current_state' \in RequestsWb
      BY <2>1, <3>3, <3>4, <3>5 DEF QuietInv, Starting
    <3>6. CASE current_state' \notin RequestsWb
      BY <2>1, <3>3, <3>4, <3>6 DEF QuietInv, Starting
    <3> QED
      BY <3>5, <3>6
  <2> QED
    BY <2>2, <2>3, <2>4
<1>4. CASE state_r \in Starting
  <2>1. ~Core!LineInUse /\ req = "NONE"
    BY <1>4, RunningFacts, RequestSeen DEF QuietInv
  <2>2. ~Core!LineInUse'
    BY <1>2, <2>1
  <2>3. state_r' \in ReadAccepting \/ state_r' \in Starting
    BY <1>4, RunningFacts, WbMoves
  <2> QED
    BY <2>2, <2>3 DEF QuietInv, Starting, ReadAccepting
<1>5. CASE state_r = "WRITE_START"
  <2>1. EndsWithin(2) /\ req = "NONE"
    BY <1>5, RunningFacts, RequestSeen DEF QuietInv
  <2>2. EndsWithin(2)'
    BY <1>1, <2>1
  <2>3. state_r' \in {"WRITE_START", "WRITE_WAIT_ACCEPT"}
    BY <1>5, RunningFacts, WbMoves
  <2> QED
    BY <2>2, <2>3 DEF QuietInv, Starting
<1>6. CASE state_r \in ReadAccepting \cup {"WRITE_WAIT_ACCEPT"}
  <2>1. state_r' \in ReadAccepting \cup ReadAnswering
                     \cup {"WRITE_WAIT_ACCEPT", "WRITE_WAIT_ACK"}
    BY <1>6, RunningFacts, WbMoves
  <2> QED
    BY <2>1 DEF QuietInv, Starting, ReadAccepting, ReadAnswering
<1>7. CASE state_r \in ReadAnswering \cup {"WRITE_WAIT_ACK"}
  <2>1. PICK cmd \in {"READ", "WRITE"} : req = cmd /\ AnsweringFrom(cmd)
    BY <1>7, RunningFacts, RequestSeen DEF AnswerInv
  <2>2. EndsWithin(2)'
    BY <2>1, RunningFacts, AnsweringStep
  <2>3. \/ state_r' = "IDLE" /\ wb_ack_r' = TRUE
        \/ state_r' = "WRITE_START"
        \/ state_r' = state_r
    BY <1>7, RunningFacts, WbMoves
  <2> QED
    BY <1>7, <2>2, <2>3 DEF QuietInv, Starting, ReadAnswering
<1> QED
  BY <1>3, <1>4, <1>5, <1>6, <1>7, RunningFacts DEF FrontInv

LEMMA AcceptKept == ASSUME Running PROVE AcceptInv'
<1> SUFFICES ASSUME state_r' \in ReadAccepting \cup {"WRITE_WAIT_ACCEPT"}
             PROVE  /\ state_q' \in {"READ", "WRITE"} => state_q' = Asked'
                    /\ state_q' = "ACTIVATE" => target_state_q' = Asked'
                    /\ state_q' = "PRECHARGE" =>
                         target_state_q' \in {"REFRESH", Asked'}
  BY DEF AcceptInv
<1>1. CASE state_r \in Starting \cup {"WRITE_START"}
  <2>1. state_q = "IDLE" /\ req = "NONE"
    BY <1>1, RunningFacts, RequestSeen, WbMoves
    DEF Starting, ReadAccepting
  <2>2. \/ state_q' \in {"PRECHARGE", "REFRESH"} /\ target_state_q' = "REFRESH"
        \/ state_q' = "IDLE"
    BY <2>1, RunningFacts, StateMoves
  <2> QED
    BY <2>2
<1>2. CASE state_r \in ReadAccepting \cup {"WRITE_WAIT_ACCEPT"}
  <2>1. PICK cmd \in {"READ", "WRITE"} : req = cmd /\ Asked = cmd
    BY <1>2, RunningFacts, RequestSeen
  <2>2. Asked' = cmd
    <3>1. UNCHANGED DRAM_RE
      BY <1>2, RunningFacts, WbMoves
    <3> QED
      BY <2>1, <3>1 DEF Asked
  <2>3. ~Core!Accepted
    BY <1>2, RunningFacts, WbMoves DEF ReadAccepting, ReadAnswering
  <2>4. /\ state_q \in {"READ", "WRITE"} => state_q = cmd
        /\ state_q = "ACTIVATE" => target_state_q = cmd
        /\ state_q = "PRECHARGE" => target_state_q \in {"REFRESH", cmd}
    BY <1>2, <2>1, RunningFacts DEF AcceptInv
  <2>5. CASE state_q \in {"READ", "WRITE"}
    <3>1. Issued = "NOP"
      BY <2>3 DEF Issued
    <3>2. state_q' = state_q
      BY <2>5, <3>1, RunningFacts, AccessMoves
    <3> QED
      BY <2>2, <2>4, <2>5, <3>2
  <2>6. CASE state_q = "IDLE"
    <3>1. \/ state_q' \in {"PRECHARGE", "REFRESH"} /\ target_state_q' = "REFRESH"
          \/ state_q' = cmd
          \/ state_q' \in {"PRECHARGE", "ACTIVATE"} /\ target_state_q' = cmd
      BY <2>1, <2>6, RunningFacts, StateMoves
    <3> QED
      BY <2>2, <3>1
  <2>7. CASE state_q = "ACTIVATE"
    <3>1. state_q' \in {"ACTIVATE", target_state_q} /\ target_state_q' = target_state_q
      BY <2>7, RunningFacts, StateMoves
    <3> QED
      BY <2>2, <2>4, <2>7, <3>1
  <2>8. CASE state_q = "PRECHARGE"
    <3>1. /\ state_q' \in {"PRECHARGE", IF target_state_q = "REFRESH"
                                          THEN "REFRESH" ELSE "ACTIVATE"}
          /\ target_state_q' = target_state_q
      BY <2>8, RunningFacts, StateMoves
    <3> QED
      BY <2>2, <2>4, <2>8, <3>1
  <2>9. CASE state_q \in {"INIT", "REFRESH"}
    <3>1. state_q' \in {"INIT", "IDLE", "REFRESH"}
      BY <2>9, RunningFacts, StateMoves
    <3> QED
      BY <3>1
  <2> QED
    BY <2>5, <2>6, <2>7, <2>8, <2>9, RunningFacts, ByState DEF Core!States
<1>3. state_r \in Starting \cup {"WRITE_START"} \cup ReadAccepting
                  \cup {"WRITE_WAIT_ACCEPT"}
  <2>1. state_r # "IDLE"
    BY RunningFacts, WbMoves DEF Starting, ReadAccepting
  <2>2. state_r \notin ReadAnswering
    BY RunningFacts, WbMoves DEF ReadAnswering, ReadAccepting
  <2>3. state_r # "WRITE_WAIT_ACK"
    BY RunningFacts, WbMoves DEF ReadAccepting
  <2> QED
    BY <2>1, <2>2, <2>3, RunningFacts DEF FrontInv
<1> QED
  BY <1>1, <1>2, <1>3

LEMMA AnswerKept == ASSUME Running PROVE AnswerInv'
<1>1. ASSUME Core!Accepted, NEW cmd, state_q = cmd, UNCHANGED DRAM_ADDRESS
      PROVE  AnsweringFrom(cmd)'
  <2>1. state_q \in {"READ", "WRITE"} /\ Issued = cmd /\ Issued # "NOP"
    BY <1>1 DEF Core!Accepted, Issued
  <2>2. /\ state_q' = "IDLE" /\ last_cmd_q' = Issued /\ delay_q' = NonSeq
        /\ UNCHANGED <<row_open_q, active_row_q>>
    BY <2>1, RunningFacts, AccessMoves
  <2>3. Core!RowHit'
    BY <1>1, <2>1, <2>2, RunningFacts DEF CoreInv, Core!RowHit
  <2> QED
    BY <2>1, <2>2, <2>3 DEF AnsweringFrom
<1>2. CASE state_r' \in ReadAnswering
  <2>1. CASE state_r \in ReadAccepting
    <3>1. Core!Accepted /\ UNCHANGED DRAM_ADDRESS
      BY <1>2, <2>1, RunningFacts, WbMoves DEF ReadAccepting, ReadAnswering
    <3>2. state_q = "READ"
      <4>1. Asked = "READ" /\ state_q \in {"READ", "WRITE"}
        BY <2>1, <3>1, RunningFacts, RequestSeen DEF Core!Accepted
      <4> QED
        BY <2>1, <4>1, RunningFacts DEF AcceptInv
    <3>3. AnsweringFrom("READ")'
      BY <1>1, <3>1, <3>2
    <3>4. Ages' # {}
      BY <3>1, <3>2, DataKept DEF Issued
    <3> QED
      BY <1>2, <3>3, <3>4 DEF AnswerInv, ReadAnswering
  <2>2. CASE state_r \in ReadAnswering
    <3>1. ~Answering /\ UNCHANGED DRAM_ADDRESS
      BY <1>2, <2>2, RunningFacts, WbMoves DEF ReadAnswering
    <3>2. AnsweringFrom("READ") /\ req = "READ" /\ Ages # {}
      BY <2>2, <3>1, RunningFacts, RequestSeen DEF AnswerInv, Answering
    <3>3. state_q \in {"READ", "WRITE"} => Core!RowHit
      BY RunningFacts DEF CoreInv
    <3>4. delay_q # 0
      <4>1. PICK x \in Ages : x \in 0..LastRd /\ delay_q + x >= NonSeq
        BY <3>2, RunningFacts DEF ReadsApart
      <4> QED
        BY <4>1, Parameters
    <3>5. AnsweringFrom("READ")'
      BY <3>1, <3>2, <3>3, <3>4, RunningFacts, AnsweringStep
    <3>6. Ages' # {} \/ rd_valid_q'
      BY <3>2, DataKept DEF Older
    <3> QED
      BY <1>2, <3>5, <3>6 DEF AnswerInv, ReadAnswering
  <2>3. state_r \in ReadAccepting \cup ReadAnswering
    <3>1. state_r # "IDLE" /\ state_r \notin Starting /\ state_r # "WRITE_START"
      BY <1>2, RunningFacts, WbMoves DEF Starting, ReadAccepting, ReadAnswering
    <3>2. state_r # "WRITE_WAIT_ACCEPT" /\ state_r # "WRITE_WAIT_ACK"
      BY <1>2, RunningFacts, WbMoves DEF ReadAnswering
    <3> QED
      BY <3>1, <3>2, RunningFacts DEF FrontInv
  <2> QED
    BY <2>1, <2>2, <2>3
<1>3. CASE state_r' = "WRITE_WAIT_ACK"
  <2>1. state_r # "WRITE_WAIT_ACK"
    BY <1>3, RunningFacts, WbMoves DEF AnswerInv, Answering
  <2>2. state_r = "WRITE_WAIT_ACCEPT"
    <3>1. state_r # "IDLE" /\ state_r \notin Starting /\ state_r # "WRITE_START"
      BY <1>3, RunningFacts, WbMoves DEF Starting, ReadAccepting
    <3>2. state_r \notin ReadAccepting /\ state_r \notin ReadAnswering
      BY <1>3, RunningFacts, WbMoves DEF ReadAccepting, ReadAnswering
    <3> QED
      BY <2>1, <3>1, <3>2, RunningFacts DEF FrontInv
  <2>3. Core!Accepted /\ UNCHANGED DRAM_ADDRESS
    BY <1>3, <2>2, RunningFacts, WbMoves
  <2>4. state_q = "WRITE"
    <3>1. Asked = "WRITE" /\ state_q \in {"READ", "WRITE"}
      BY <2>2, <2>3, RunningFacts, RequestSeen DEF Core!Accepted
    <3> QED
      BY <2>2, <3>1, RunningFacts DEF AcceptInv
  <2>5. AnsweringFrom("WRITE")'
    BY <1>1, <2>3, <2>4
  <2>6. write_ack_q'
    BY <2>3, <2>4 DEF Running, Issued
  <2> QED
    BY <1>3, <2>5, <2>6 DEF AnswerInv, ReadAnswering
<1> QED
  BY <1>2, <1>3 DEF AnswerInv

-----------------------------------------------------------------------------
(* The watchdog holds the core in its reset state, with no read under way.    *)
LEMMA RowZeroIs == ASSUME AddressInv PROVE Core!RowZero \in Rows
<1>1. \E r \in Rows : TRUE
  BY Addressed
<1> QED
  BY <1>1 DEF Core!RowZero

LEMMA Held ==
    ASSUME IInv, Tick, DRAM_WDG # 0
    PROVE  IInv' /\ Core!CoreReset /\ ~Core!LineInUse'
<1>1. /\ Core!CoreReset /\ Dfi!DataReset /\ id_count' = 0 /\ write_ack_q' = FALSE
      /\ Wb!WbTick /\ Axi!AxiTick /\ Axi!Master
  BY DEF Tick, CoreSide, Wb!CoreHeld, Master
<1>2. /\ FrontInv /\ AddressInv /\ ReadsApart /\ CoreInv
      /\ state_q = "INIT" /\ Ages = {} /\ state_r \in {"IDLE"} \cup Starting
  BY DEF IInv, CoreInv
<1>3. /\ state_q' = "INIT" /\ dfi'.cmd = "NOP" /\ delay_q' = 0
      /\ active_row_q' = [b \in Banks |-> Core!RowZero]
  BY <1>1 DEF Core!CoreReset, Core!SeqReset, Core!NopCommand
<1>4. /\ Dfi!Chip /\ rd_en_q' = {} /\ rd_pipe' = {} /\ dfi_rd_idx_q' = 0
      /\ rd_valid_q' = FALSE
  BY <1>1 DEF Dfi!DataReset
<1>5. Issued = "NOP"
  BY <1>2, IssuedIs
<1>6. /\ Ages' = {}
      /\ \A r \in dev_rd' : r = [data |-> r.data, age |-> r.age] /\ r.age # 0
  <2>1. dfi'.cmd = "READ" <=> Issued = "READ"
    BY <1>3, <1>5
  <2>2. /\ Ages' = Older(Ages) \cup (IF Issued = "READ" THEN {0} ELSE {})
        /\ \A r \in dev_rd' : r = [data |-> r.data, age |-> r.age] /\ r.age # 0
    BY <1>2, <1>4, <2>1, AgesStep
  <2> QED
    BY <1>2, <1>5, <2>2 DEF Older
<1>7. FrontInv' /\ AddressInv'
  BY <1>1, <1>2, FrontStep, AddressStep
<1>8. state_r' \in {"IDLE"} \cup Starting
  BY <1>1, <1>2, WbMoves
<1>9. ReadsApart'
  BY <1>6 DEF ReadsApart
<1>10. BeatsTimed'
  BY <1>4, <1>6 DEF BeatsTimed
<1>11. CountInv'
  <2>1. Cardinality(Ages') = 0
    BY <1>6, FS_EmptySet
  <2>2. ~Answering'
    BY <1>1, <1>4 DEF Answering
  <2>3. /\ id_count' \in Nat
        /\ id_count' <= Cardinality(Ages') + (IF Answering' THEN 1 ELSE 0)
    BY <1>1, <2>1
  <2>4. /\ rd_valid_q' \in BOOLEAN /\ write_ack_q' \in BOOLEAN
        /\ write_ack_q' => Ages' = {} /\ ~rd_valid_q'
    BY <1>1, <1>4
  <2> QED
    BY <2>3, <2>4 DEF CountInv
<1>12. CoreInv'
  <2>1. active_row_q' \in [Banks -> Rows]
    BY <1>2, <1>3, RowZeroIs
  <2> QED
    BY <1>3, <1>6, <1>8, <2>1 DEF CoreInv
<1>13. ~Core!LineInUse'
  BY <1>3 DEF Core!LineInUse
<1>14. QuietInv'
  BY <1>8, <1>13 DEF QuietInv, EndsWithin, Starting
<1>15. AcceptInv' /\ AnswerInv'
  BY <1>8 DEF AcceptInv, AnswerInv, Starting, ReadAccepting, ReadAnswering
<1> QED
  BY <1>1, <1>7, <1>9, <1>10, <1>11, <1>12, <1>13, <1>14, <1>15 DEF IInv

LEMMA Runs ==
    ASSUME IInv, Tick, DRAM_WDG = 0
    PROVE  Running /\ IInv'
<1>1. Running
  BY DEF Running, Tick, CoreSide, Wb!CoreHeld
<1>2. FrontInv' /\ AddressInv'
  BY <1>1, RunningFacts, FrontStep, AddressStep DEF Tick, Master
<1>3. ReadsApart' /\ BeatsTimed' /\ CountInv'
  BY <1>1, DataKept
<1>4. CoreInv' /\ QuietInv' /\ AcceptInv' /\ AnswerInv'
  BY <1>1, CoreKept, QuietKept, AcceptKept, AnswerKept
<1> QED
  BY <1>1, <1>2, <1>3, <1>4 DEF IInv

LEMMA Stutters == ASSUME IInv, UNCHANGED vars PROVE IInv'
<1>1. /\ UNCHANGED <<aw, ar, current_state, current_addr, reg_size>>
      /\ UNCHANGED <<state_r, wb_ack_r, DRAM_ADDRESS, DRAM_RE, DRAM_WE, DRAM_WDG>>
      /\ UNCHANGED <<state_q, target_state_q, row_open_q, active_row_q>>
      /\ UNCHANGED <<id_count, write_ack_q, delay_q, last_cmd_q, dfi>>
      /\ UNCHANGED <<rd_en_q, rd_pipe, dfi_rd_idx_q, rd_valid_q, dev_rd>>
  BY DEF vars, masterVars, coreSide, Axi!axiVars, Axi!burstRegs, Wb!wbVars,
     Wb!ramRegs, Core!seqVars, Core!coreVars, Dfi!dataVars
<1>2. Ages' = Ages
  BY <1>1 DEF Ages
<1>3. FrontInv' /\ AddressInv'
  BY <1>1 DEF IInv, FrontInv, AddressInv
<1>4. ReadsApart'
  BY <1>1, <1>2 DEF IInv, ReadsApart
<1>5. BeatsTimed'
  BY <1>1, <1>2 DEF IInv, BeatsTimed
<1>6. CountInv'
  BY <1>1, <1>2 DEF IInv, CountInv, Answering
<1>7. Core!LineInUse' <=> Core!LineInUse
  BY <1>1 DEF Core!LineInUse
<1>8. Core!RowHit' <=> Core!RowHit
  BY <1>1 DEF Core!RowHit
<1>9. CoreInv'
  BY <1>1, <1>2, <1>8 DEF IInv, CoreInv
<1>10. QuietInv'
  BY <1>1, <1>7 DEF IInv, QuietInv, EndsWithin
<1>11. AcceptInv'
  BY <1>1 DEF IInv, AcceptInv, Asked
<1>12. AnswerInv'
  BY <1>1, <1>2, <1>7, <1>8 DEF IInv, AnswerInv, AnsweringFrom, EndsWithin
<1> QED
  BY <1>3, <1>4, <1>5, <1>6, <1>9, <1>10, <1>11, <1>12 DEF IInv

LEMMA InitInv == Init => IInv
<1> SUFFICES ASSUME Init PROVE IInv
  OBVIOUS
<1>1. /\ aw = [valid |-> FALSE] /\ ar = [valid |-> FALSE]
      /\ current_state = "IDLE" /\ current_addr = 0 /\ reg_size = 0
  BY DEF Init, Axi!Init, Axi!AxiInit, Axi!Nothing
<1>2. /\ state_r = "IDLE" /\ wb_ack_r = FALSE /\ DRAM_RE = FALSE /\ DRAM_WE = FALSE
      /\ DRAM_ADDRESS = Wb!ZeroAddr.line
  BY DEF Init, Wb!WbInit
<1>3. /\ state_q = "INIT" /\ active_row_q = [b \in Banks |-> Core!RowZero]
      /\ delay_q = 0 /\ dfi.cmd = "NOP"
  BY DEF Init, Core!CoreInit, Core!SeqInit, Core!NopCommand
<1>4. /\ rd_en_q = {} /\ rd_pipe = {} /\ dfi_rd_idx_q = 0 /\ rd_valid_q = FALSE
      /\ dev_rd = {} /\ id_count = 0 /\ write_ack_q = FALSE
  BY DEF Init, Dfi!DataInit
<1>5. Ages = {}
  BY <1>3, <1>4 DEF Ages
<1>6. DRAM_ADDRESS \in LineAddrs
  <2>1. 0 \in LineAddrs
    BY WiringAssumption DEF LineAddrs
  <2>2. [line |-> 0, word |-> 0] \in Wb!Addr
    BY <2>1 DEF Wb!Addr
  <2>3. Wb!ZeroAddr \in Wb!Addr
    BY <2>2 DEF Wb!ZeroAddr
  <2> QED
    BY <1>2, <2>3 DEF Wb!Addr
<1>7. FrontInv
  BY <1>1, <1>2 DEF FrontInv, ReadAccepting, ReadAnswering, Starting, AwaitsWb
<1>8. AddressInv
  BY <1>1, <1>6, WiringAssumption DEF AddressInv
<1>9. ReadsApart
  BY <1>4, <1>5 DEF ReadsApart
<1>10. BeatsTimed
  BY <1>4, <1>5 DEF BeatsTimed
<1>11. CountInv
  <2>1. Cardinality(Ages) = 0
    BY <1>5, FS_EmptySet
  <2>2. id_count \in Nat /\ id_count <= Cardinality(Ages) + (IF Answering THEN 1 ELSE 0)
    BY <1>4, <2>1
  <2>3. /\ rd_valid_q \in BOOLEAN /\ write_ack_q \in BOOLEAN
        /\ write_ack_q => Ages = {} /\ ~rd_valid_q
    BY <1>4
  <2> QED
    BY <2>2, <2>3 DEF CountInv
<1>12. CoreInv
  BY <1>2, <1>3, <1>5, <1>8, RowZeroIs DEF CoreInv
<1>13. ~Core!LineInUse
  BY <1>3 DEF Core!LineInUse
<1>14. QuietInv
  BY <1>2, <1>13 DEF QuietInv, EndsWithin, Starting
<1>15. AcceptInv /\ AnswerInv
  BY <1>2 DEF AcceptInv, AnswerInv, ReadAccepting, ReadAnswering
<1> QED
  BY <1>7, <1>8, <1>9, <1>10, <1>11, <1>12, <1>14, <1>15 DEF IInv

LEMMA NextInv == IInv /\ [Next]_vars => IInv'
<1> SUFFICES ASSUME IInv, [Next]_vars PROVE IInv'
  OBVIOUS
<1>1. CASE Tick /\ DRAM_WDG # 0
  BY <1>1, Held
<1>2. CASE Tick /\ DRAM_WDG = 0
  BY <1>2, Runs
<1>3. CASE UNCHANGED vars
  BY <1>3, Stutters
<1> QED
  BY <1>1, <1>2, <1>3 DEF Next

LEMMA Invariance == Spec => []IInv
BY InitInv, NextInv, PTL DEF Spec

-----------------------------------------------------------------------------
(* The front holds its request until the acknowledge, so the core takes it   *)
(* several times over; the id fifo has room for all of it, and the request is *)
(* never hidden (ddr3_core.v, ram_req_w).                                    *)
THEOREM IdFifoCorrect == Spec => []IdFifoHasRoom
<1>1. IInv => IdFifoHasRoom
  BY RoomLeft DEF IInv
<1> QED
  BY <1>1, Invariance, PTL

(* dram_controller_wb.sv leaves ram_addr_r alone from the ACTIVATE of an      *)
(* access to its READ or WRITE, the extra runs of a held request included.   *)
THEOREM AddressStays == Spec => AddressHeld
<1>1. IInv /\ [Next]_vars =>
        [Core!LineInUse' => DRAM_ADDRESS' = DRAM_ADDRESS]_vars
  <2> SUFFICES ASSUME IInv, Tick
               PROVE  Core!LineInUse' => DRAM_ADDRESS' = DRAM_ADDRESS
    BY DEF Next
  <2>1. CASE DRAM_WDG # 0
    BY <2>1, Held
  <2>2. CASE DRAM_WDG = 0
    BY <2>2, Runs, AddressKept
  <2> QED
    BY <2>1, <2>2
<1> QED
  BY <1>1, Invariance, PTL DEF Spec, AddressHeld

(* Behind this front the core does what Ddr3Core says of it, whose requester   *)
(* may withdraw its request at any time but not move the line in use: what    *)
(* is checked and proved of the commands there holds for them here.          *)
ImplementsCore == Core!Init /\ [][Core!Next]_(Core!vars)

LEMMA RequestTyped == req \in Core!Requests
BY DEF req, Core!Requests

THEOREM CoreImplemented == Spec => ImplementsCore
<1>1. Init => Core!Init
  <2> SUFFICES ASSUME Init PROVE Core!Init
    OBVIOUS
  <2>1. AddressInv
    BY InitInv DEF IInv
  <2> QED
    BY <2>1, Addressed, RequestTyped DEF Init, Core!Init
<1>2. IInv /\ IInv' /\ [Next]_vars => [Core!Next]_(Core!vars)
  <2> SUFFICES ASSUME IInv, IInv', [Next]_vars
               PROVE  [Core!Next]_(Core!vars)
    OBVIOUS
  <2>1. ASSUME Tick PROVE Core!Next
    <3>1. Core!DeviceTick
      BY <2>1 DEF Tick, CoreSide
    <3>2. req' \in Core!Requests
      BY DEF req, Core!Requests
    <3>3. LineOf[DRAM_ADDRESS'] \in Lines
      BY WiringAssumption DEF IInv, AddressInv
    <3>4. Core!LineInUse' => DRAM_ADDRESS' = DRAM_ADDRESS
      <4>1. CASE DRAM_WDG # 0
        BY <2>1, <4>1, Held
      <4>2. CASE DRAM_WDG = 0
        BY <2>1, <4>2, Runs, AddressKept
      <4> QED
        BY <4>1, <4>2
    <3>5. Core!Requester
      BY <3>2, <3>3, <3>4 DEF Core!Requester
    <3>6. Core!CoreReset \/ Core!CoreTick
      BY <2>1 DEF Tick, CoreSide
    <3> QED
      BY <3>1, <3>5, <3>6 DEF Core!Next, Core!Tick, Core!Reset
  <2>2. ASSUME UNCHANGED vars PROVE UNCHANGED Core!vars
    <3>1. /\ UNCHANGED <<Core!seqVars, Core!deviceVars, Core!coreVars>>
          /\ UNCHANGED <<id_count, DRAM_RE, DRAM_WE, DRAM_ADDRESS>>
      BY <2>2 DEF vars, coreSide, Wb!wbVars, Wb!ramRegs
    <3>2. UNCHANGED req
      BY <3>1 DEF req, id_fifo_space_w
    <3> QED
      BY <3>1, <3>2 DEF Core!vars, Core!portVars
  <2> QED
    BY <2>1, <2>2 DEF Next
<1> QED
  BY <1>1, <1>2, Invariance, PTL DEF Spec, ImplementsCore
=============================================================================
