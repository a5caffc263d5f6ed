--------------------------- MODULE Ddr3Core_proofs ---------------------------
(***************************************************************************)
(* Proofs about Ddr3Core: every command reaches the chip with the banks in  *)
(* the state it needs, for all sets of banks, rows and lines and all timing *)
(* parameters.                                                              *)
(***************************************************************************)
EXTENDS Ddr3Core, TLAPS

(* The timer value at which the start-up sequence precharges all banks.     *)
PreAt == CHOOSE p \in DOMAIN InitSequence :
            /\ InitSequence[p] = "PRECHARGE_ALL" /\ p + Long <= StartDelay
            /\ \A t \in DOMAIN InitSequence \ {p} :
                 InitSequence[t] \in {"LOAD_MODE", "ZQCL"}

AllClosed == RowAfter = [b \in Banks |-> Closed]

(* The chip's rows, once it has executed the command on the pins, are those *)
(* of the table in bank b.                                                  *)
Agrees(b) ==
    RowAfter[b] = IF b \in row_open_q THEN active_row_q[b] ELSE Closed

(* Start-up: the table is empty, and the chip is closed once the PRECHARGE   *)
(* of all banks was due; nothing can delay that command.                     *)
StartUpInv ==
    state_q = "INIT" =>
        /\ row_open_q = {}
        /\ (refresh_q \/ refresh_timer_q < PreAt) => AllClosed
        /\ (~refresh_q /\ refresh_timer_q >= PreAt) => delay_q = 0

(* What each state knows of table and chip: they agree, but for the bank     *)
(* that ACTIVATE or PRECHARGE is changing, and for all of them while a       *)
(* PRECHARGE of all banks is pending.                                        *)
TableInv ==
    /\ state_q \in {"IDLE", "READ", "WRITE"} => \A b \in Banks : Agrees(b)
    /\ state_q \in {"READ", "WRITE"} => RowHit
    /\ state_q = "ACTIVATE" =>
         /\ target_state_q \in {"READ", "WRITE"}
         /\ RowAfter[line.bank] = Closed
         /\ \A b \in Banks \ {line.bank} : Agrees(b)
    /\ (state_q = "PRECHARGE" /\ target_state_q # "REFRESH") =>
         /\ target_state_q \in {"READ", "WRITE"}
         /\ \A b \in Banks \ {line.bank} : Agrees(b)
    /\ state_q = "REFRESH" => row_open_q = {} /\ AllClosed

RowInv == TypeOK /\ StartUpInv /\ TableInv /\ RowRule

-----------------------------------------------------------------------------
LEMMA PreAtProperty ==
    /\ PreAt \in DOMAIN InitSequence /\ InitSequence[PreAt] = "PRECHARGE_ALL"
    /\ PreAt \in Nat /\ PreAt # 0 /\ PreAt + Long <= StartDelay
    /\ \A t \in DOMAIN InitSequence \ {PreAt} :
         InitSequence[t] \in {"LOAD_MODE", "ZQCL"}
BY CoreAssumption, DeviceAssumption DEF PreAt

(* What a step leaves on the chip: the rows its command, if it was accepted, *)
(* makes of the rows there are.                                              *)
LEMMA RowAfterStep ==
    ASSUME TypeOK, DeviceTick,
           NEW cmd \in Commands, SeqTick(cmd, line)
    PROVE  /\ RowAfter \in [Banks -> Rows \cup {Closed}]
           /\ (cmd \in {"NOP", "READ", "WRITE", "REFRESH", "LOAD_MODE", "ZQCL"}
               \/ ~Accept(cmd)) => RowAfter' = RowAfter
           /\ cmd = "ACTIVE" /\ Accept(cmd) =>
                RowAfter' = [RowAfter EXCEPT ![line.bank] = line.row]
           /\ cmd = "PRECHARGE" /\ Accept(cmd) =>
                RowAfter' = [RowAfter EXCEPT ![line.bank] = Closed]
           /\ cmd = "PRECHARGE_ALL" /\ Accept(cmd) => AllClosed'
<1>1. RowAfter \in [Banks -> Rows \cup {Closed}]
  BY DeviceAssumption
  DEF RowAfter, Addressed, TypeOK, DeviceTypeOK, SeqTypeOK, DfiCommands, NopCommand
<1>2. open_row' = RowAfter
  BY DEF DeviceTick
<1>3. CASE cmd = "NOP" \/ ~Accept(cmd)
  <2>1. dfi' = NopCommand
    BY <1>3 DEF SeqTick
  <2>2. RowAfter' = RowAfter
    BY <1>1, <2>1, <1>2 DEF RowAfter, NopCommand, Addressed
  <2> QED
    BY <1>1, <2>2, <1>3 DEF Accept
<1>4. CASE cmd # "NOP" /\ Accept(cmd)
  <2>1. dfi' = [cmd |-> cmd, line |-> line]
    BY <1>4 DEF SeqTick
  <2> QED
    BY <1>1, <1>2, <1>4, <2>1 DEF RowAfter, AllClosed, Addressed
<1> QED
  BY <1>3, <1>4
-----------------------------------------------------------------------------
(* Type correctness.                                                        *)
LEMMA TypeInit == Init => TypeOK
<1> SUFFICES ASSUME Init PROVE TypeOK
  OBVIOUS
<1>1. RowZero \in Rows
  BY DeviceAssumption DEF RowZero, Init
<1>2. DeviceTypeOK
  BY DeviceAssumption DEF Init, DeviceInit, DeviceTypeOK
<1>3. SeqTypeOK
  BY DEF Init, CoreInit, SeqInit, SeqTypeOK, DfiCommands, NopCommand, Commands
<1> QED
  BY <1>1, <1>2, <1>3, CoreAssumption
  DEF Init, CoreInit, TypeOK, Requests, States

LEMMA SeqTypeStep ==
    ASSUME SeqTypeOK, line \in Lines, NEW cmd \in Commands, SeqTick(cmd, line)
    PROVE  SeqTypeOK'
<1>1. NextDelay(cmd) \in 0..63
  BY TimingAssumption
  DEF NextDelay, DelayAfter, SeqTypeOK, NonSeq, EarlyAccept, Commands
<1>2. CASE Accept(cmd) /\ cmd # "NOP"
  BY <1>1, <1>2 DEF SeqTick, SeqTypeOK, DfiCommands
<1>3. CASE ~(Accept(cmd) /\ cmd # "NOP")
  BY <1>1, <1>3 DEF SeqTick, SeqTypeOK, DfiCommands
<1> QED
  BY <1>2, <1>3

LEMMA DeviceTypeStep == TypeOK /\ DeviceTick => DeviceTypeOK'
<1> SUFFICES ASSUME TypeOK, DeviceTick PROVE DeviceTypeOK'
  OBVIOUS
<1>1. RowAfter \in [Banks -> Rows \cup {Closed}]
  BY DeviceAssumption
  DEF RowAfter, Addressed, TypeOK, DeviceTypeOK, SeqTypeOK, DfiCommands,
      NopCommand
<1>2. SinceAfter \in [Timed -> 1..Long]
  BY DeviceAssumption DEF SinceAfter, TypeOK, DeviceTypeOK
<1> QED
  BY <1>1, <1>2 DEF DeviceTick, DeviceTypeOK

(* The state machine and its command stay within their types.               *)
LEMMA CoreTypeStep ==
    ASSUME TypeOK, CoreTick
    PROVE  /\ SeqTypeOK' /\ state_q' \in States
           /\ target_state_q' \in {"IDLE", "READ", "WRITE", "REFRESH"}
           /\ row_open_q' \subseteq Banks /\ active_row_q' \in [Banks -> Rows]
<1> USE DEF TypeOK, States, Requests, Commands
<1>a. line.bank \in Banks /\ line.row \in Rows
  BY DeviceAssumption
<1>b. ASSUME NEW cmd \in Commands, NEW next \in States,
             NEW target \in {"IDLE", "READ", "WRITE", "REFRESH"},
             Drive(cmd, next, target)
      PROVE  /\ SeqTypeOK' /\ state_q' \in States
             /\ target_state_q' \in {"IDLE", "READ", "WRITE", "REFRESH"}
  <2>1. SeqTypeOK'
    BY <1>b, SeqTypeStep DEF Drive
  <2> QED
    BY <1>b, <2>1 DEF Drive
<1>1. CASE StartUp
  <2>1. \A t \in DOMAIN InitSequence : InitSequence[t] \in Commands
    BY PreAtProperty
  <2> QED
    BY <1>1, <1>b, <2>1 DEF StartUp
<1>2. CASE IdleRefresh
  BY <1>2, <1>b DEF IdleRefresh
<1>3. CASE IdleAccess
  BY <1>3, <1>b DEF IdleAccess
<1>4. CASE IdleWait
  BY <1>4, <1>b DEF IdleWait
<1>5. CASE Activate
  BY <1>5, <1>a, <1>b DEF Activate
<1>6. CASE ReadWrite
  BY <1>6, <1>b DEF ReadWrite
<1>7. CASE PrechargeAll
  BY <1>7, <1>b DEF PrechargeAll
<1>8. CASE PrechargeBank
  BY <1>8, <1>b DEF PrechargeBank
<1>9. CASE Refresh
  BY <1>9, <1>b DEF Refresh
<1> QED
  BY <1>1, <1>2, <1>3, <1>4, <1>5, <1>6, <1>7, <1>8, <1>9 DEF CoreTick

LEMMA TypeStep == TypeOK /\ [Next]_vars => TypeOK'
<1> SUFFICES ASSUME TypeOK, [Next]_vars PROVE TypeOK'
  OBVIOUS
<1>1. CASE Tick
  <2>1. refresh_timer_q' \in Nat /\ refresh_q' \in BOOLEAN
    BY <1>1, CoreAssumption DEF Tick, CoreTick, RefreshTimer, TypeOK
  <2>2. req' \in Requests /\ line' \in Lines
    BY <1>1 DEF Tick, Requester
  <2> QED
    BY <1>1, <2>1, <2>2, CoreTypeStep, DeviceTypeStep DEF Tick, TypeOK
<1>2. CASE Reset
  <2>1. RowZero \in Rows
    BY DeviceAssumption DEF RowZero, TypeOK
  <2>2. SeqTypeOK'
    BY <1>2 DEF Reset, CoreReset, SeqReset, SeqTypeOK, Commands, DfiCommands
  <2>3. DeviceTypeOK'
    BY <1>2, DeviceTypeStep DEF Reset
  <2> QED
    BY <1>2, <2>1, <2>2, <2>3, CoreAssumption
    DEF Reset, CoreReset, Requester, TypeOK, States
<1>3. CASE UNCHANGED vars
  BY <1>3 DEF vars, seqVars, deviceVars, portVars, coreVars, TypeOK, SeqTypeOK,
              DeviceTypeOK
<1> QED
  BY <1>1, <1>2, <1>3 DEF Next

(* Every reachable state of the core, the sequencer and the chip is well     *)
(* typed; in particular the delay counter fits its six bits.                 *)
THEOREM TypeCorrect == Spec => []TypeOK
<1>1. Init => TypeOK
  BY TypeInit
<1>2. TypeOK /\ [Next]_vars => TypeOK'
  BY TypeStep
<1> QED
  BY <1>1, <1>2, PTL DEF Spec

-----------------------------------------------------------------------------
(* Every command finds its row.                                             *)
LEMMA RowInvInit == Init => RowInv
<1> SUFFICES ASSUME Init PROVE RowInv
  OBVIOUS
<1>1. TypeOK
  BY TypeInit
<1>2. StartUpInv
  BY PreAtProperty, DeviceAssumption, CoreAssumption
  DEF Init, CoreInit, SeqInit, StartUpInv
<1>3. TableInv
  BY DEF Init, CoreInit, TableInv
<1>4. RowRule
  BY DEF Init, CoreInit, SeqInit, NopCommand, RowRule
<1> QED
  BY <1>1, <1>2, <1>3, <1>4 DEF RowInv

(* A command that the sequencer accepts finds its row if the rows the chip   *)
(* will have by then allow it.                                               *)
LEMMA RowRuleStep ==
    ASSUME TypeOK, DeviceTick, NEW cmd \in Commands, SeqTick(cmd, line),
           cmd = "ACTIVE" => RowAfter[line.bank] = Closed,
           cmd \in {"READ", "WRITE"} => RowAfter[line.bank] = line.row,
           cmd = "REFRESH" => AllClosed
    PROVE  RowRule'
<1>1. open_row' = RowAfter
  BY DEF DeviceTick
<1>2. CASE Accept(cmd) /\ cmd # "NOP"
  <2>1. dfi' = [cmd |-> cmd, line |-> line]
    BY <1>2 DEF SeqTick
  <2> QED
    BY <1>1, <2>1 DEF RowRule, AllClosed
<1>3. CASE ~(Accept(cmd) /\ cmd # "NOP")
  BY <1>3 DEF SeqTick, NopCommand, RowRule
<1> QED
  BY <1>2, <1>3

LEMMA RowInvTick == RowInv /\ Tick => RowInv'
<1> SUFFICES ASSUME RowInv, Tick PROVE RowInv'
  OBVIOUS
<1>t. TypeOK /\ StartUpInv /\ TableInv /\ DeviceTick /\ CoreTick /\ Requester
  BY DEF RowInv, Tick
<1>t2. TypeOK'
  BY <1>t, TypeStep DEF Next
<1>l. /\ line.bank \in Banks /\ line.row \in Rows
      /\ line' \in Lines /\ line'.bank \in Banks /\ line'.row \in Rows
  BY <1>t, <1>t2, DeviceAssumption DEF TypeOK
<1>u. LineInUse' => line' = line
  BY <1>t DEF Requester
<1> USE DEF Commands
<1> SUFFICES StartUpInv' /\ TableInv' /\ RowRule'
  BY <1>t2 DEF RowInv
<1>1. CASE StartUp
  <2> DEFINE cmd == IF refresh_timer_q \in DOMAIN InitSequence
                      THEN InitSequence[refresh_timer_q] ELSE "NOP"
  <2>1. cmd \in {"NOP", "LOAD_MODE", "ZQCL", "PRECHARGE_ALL"}
    BY PreAtProperty
  <2>2. refresh_timer_q = PreAt => cmd = "PRECHARGE_ALL"
    BY PreAtProperty
  <2>3. cmd = "PRECHARGE_ALL" => refresh_timer_q = PreAt
    BY PreAtProperty
  <2>4. Drive(cmd, IF refresh_q THEN "IDLE" ELSE "INIT", target_state_q)
    BY <1>1 DEF StartUp
  <2> HIDE DEF cmd
  <2>5. SeqTick(cmd, line)
    BY <2>4 DEF Drive
  <2>6. AllClosed \/ ((cmd = "PRECHARGE_ALL") /\ Accept(cmd)) => AllClosed'
    BY <1>t, <2>1, <2>5, RowAfterStep DEF AllClosed
  <2>7. refresh_timer_q \in Nat
    BY <1>t DEF TypeOK
  <2>8. StartUpInv'
    BY <1>t, <1>1, <2>1, <2>2, <2>3, <2>4, <2>5, <2>6, <2>7, PreAtProperty
    DEF StartUp, StartUpInv, CoreTick, RefreshTimer, SeqTick, NextDelay,
        DelayAfter, Accept, Drive
  <2>9. TableInv'
      BY <1>t, <1>1, <2>4, <2>6, <2>7, <2>8, PreAtProperty
    DEF StartUp, StartUpInv, TableInv, Drive, Agrees, AllClosed
  <2>10. RowRule'
    BY <1>t, <2>1, <2>5, RowRuleStep
  <2> QED
    BY <2>8, <2>9, <2>10
<1>2. CASE IdleRefresh
  <2>1. SeqTick("NOP", line)
    BY <1>2 DEF IdleRefresh, Drive
  <2>2. RowAfter' = RowAfter
    BY <1>t, <2>1, RowAfterStep
  <2>3. RowRule'
    BY <1>t, <2>1, RowRuleStep
  <2>4. /\ target_state_q' = "REFRESH" /\ row_open_q' = row_open_q
        /\ state_q' = IF row_open_q # {} THEN "PRECHARGE" ELSE "REFRESH"
    BY <1>2 DEF IdleRefresh, Drive, Accept
  <2>5. row_open_q = {} => AllClosed'
    <3>1. RowAfter = [b \in Banks |-> RowAfter[b]]
      BY DEF RowAfter
    <3> QED
      BY <1>t, <1>2, <2>2, <3>1 DEF IdleRefresh, TableInv, Agrees, AllClosed
  <2> QED
    BY <2>3, <2>4, <2>5 DEF StartUpInv, TableInv
<1>3. CASE IdleAccess
  <2>1. SeqTick("NOP", line) /\ Accept("NOP")
    BY <1>3 DEF IdleAccess, Drive, Accept
  <2>2. RowAfter' = RowAfter
    BY <1>t, <2>1, RowAfterStep
  <2>3. RowRule'
    BY <1>t, <2>1, RowRuleStep
  <2>4. /\ UNCHANGED <<row_open_q, active_row_q>>
        /\ \A b \in Banks : Agrees(b)
        /\ req \in {"READ", "WRITE"}
    BY <1>t, <1>3 DEF IdleAccess, TableInv, TypeOK, Requests
  <2>5. \A b \in Banks : Agrees(b)'
    BY <2>2, <2>4 DEF Agrees
  <2>6. CASE RowHit
    <3>1. state_q' = req
      BY <1>3, <2>1, <2>6 DEF IdleAccess, Drive
    <3>2. RowHit'
      BY <1>u, <2>4, <2>6, <3>1 DEF RowHit, LineInUse
    <3> QED
      BY <2>3, <2>4, <2>5, <3>1, <3>2 DEF StartUpInv, TableInv
  <2>7. CASE ~RowHit /\ line.bank \in row_open_q
    <3>1. state_q' = "PRECHARGE" /\ target_state_q' = req
      BY <1>3, <2>1, <2>7 DEF IdleAccess, Drive
    <3> QED
      BY <2>3, <2>4, <2>5, <3>1 DEF StartUpInv, TableInv
  <2>8. CASE line.bank \notin row_open_q
    <3>1. state_q' = "ACTIVATE" /\ target_state_q' = req
      BY <1>3, <2>1, <2>8 DEF IdleAccess, Drive, RowHit
    <3>2. line' = line
      BY <1>u, <3>1 DEF LineInUse
    <3>3. RowAfter'[line'.bank] = Closed
      BY <1>l, <2>2, <2>4, <2>8, <3>2 DEF Agrees
    <3> QED
      BY <2>3, <2>4, <2>5, <3>1, <3>3 DEF StartUpInv, TableInv
  <2> QED
    BY <2>6, <2>7, <2>8 DEF RowHit
<1>4. CASE IdleWait
  <2>1. SeqTick("NOP", line)
    BY <1>4 DEF IdleWait, Drive
  <2>2. RowAfter' = RowAfter
    BY <1>t, <2>1, RowAfterStep
  <2>3. RowRule'
    BY <1>t, <2>1, RowRuleStep
  <2>4. StartUpInv' /\ TableInv'
    BY <1>t, <1>4, <2>2 DEF IdleWait, Drive, Accept, StartUpInv, TableInv, Agrees
  <2> QED
    BY <2>3, <2>4
<1>5. CASE Activate
  <2>1. SeqTick("ACTIVE", line)
    BY <1>5 DEF Activate, Drive
  <2>2. RowRule'
    BY <1>t, <1>5, <2>1, RowRuleStep DEF Activate, TableInv
  <2>3. state_q' = "ACTIVATE" \/ state_q' \in {"READ", "WRITE"}
    BY <1>t, <1>5 DEF Activate, Drive, TableInv
  <2>4. line' = line
    BY <1>u, <2>3 DEF LineInUse
  <2>5. CASE Accept("ACTIVE")
    <3>1. RowAfter' = [RowAfter EXCEPT ![line.bank] = line.row]
      BY <1>t, <2>1, <2>5, RowAfterStep
    <3>2. state_q' \in {"READ", "WRITE"}
      BY <1>t, <1>5, <2>5 DEF Activate, Drive, TableInv
    <3>3. \A b \in Banks : Agrees(b)'
      BY <1>t, <1>5, <1>l, <2>1, <3>1, RowAfterStep
      DEF Activate, TableInv, Agrees, TypeOK
    <3>4. RowHit'
      BY <1>t, <1>5, <1>l, <2>4 DEF Activate, RowHit, TypeOK
    <3> QED
      BY <2>2, <3>2, <3>3, <3>4 DEF StartUpInv, TableInv
  <2>6. CASE ~Accept("ACTIVE")
    <3>1. RowAfter' = RowAfter
      BY <1>t, <2>1, <2>6, RowAfterStep
    <3>2. UNCHANGED <<state_q, target_state_q>>
      BY <1>5, <2>6 DEF Activate, Drive
    <3>3. \A b \in Banks \ {line.bank} : Agrees(b)'
      BY <1>t, <1>5, <3>1 DEF Activate, TableInv, Agrees, TypeOK
    <3> QED
      BY <1>t, <1>5, <2>2, <2>4, <3>1, <3>2, <3>3
      DEF Activate, StartUpInv, TableInv
  <2> QED
    BY <2>5, <2>6
<1>6. CASE ReadWrite
  <2>1. SeqTick(state_q, line)
    BY <1>6 DEF ReadWrite, Drive
  <2>2. RowAfter' = RowAfter
    BY <1>t, <1>6, <2>1, RowAfterStep DEF ReadWrite
  <2>3. RowAfter[line.bank] = line.row
    BY <1>t, <1>6, <1>l DEF ReadWrite, TableInv, Agrees, RowHit
  <2>4. RowRule'
    BY <1>t, <1>6, <2>1, <2>3, RowRuleStep DEF ReadWrite
  <2>5. \A b \in Banks : Agrees(b)'
    BY <1>t, <1>6, <2>2 DEF ReadWrite, TableInv, Agrees
  <2>6. state_q' \in {"READ", "WRITE"} => RowHit'
    BY <1>t, <1>6, <1>u DEF ReadWrite, TableInv, RowHit, LineInUse
  <2>7. state_q' \in {"IDLE", "READ", "WRITE"}
    BY <1>6 DEF ReadWrite, Drive
  <2> QED
    BY <2>4, <2>5, <2>6, <2>7 DEF StartUpInv, TableInv
<1>7. CASE PrechargeAll
  <2>1. SeqTick("PRECHARGE_ALL", line)
    BY <1>7 DEF PrechargeAll, Drive
  <2>2. RowRule'
    BY <1>t, <2>1, RowRuleStep
  <2>3. CASE Accept("PRECHARGE_ALL")
    <3>1. AllClosed'
      BY <1>t, <2>1, <2>3, RowAfterStep
    <3> QED
      BY <1>7, <2>2, <2>3, <3>1
      DEF PrechargeAll, Drive, StartUpInv, TableInv
  <2>4. CASE ~Accept("PRECHARGE_ALL")
    BY <1>7, <2>2, <2>4 DEF PrechargeAll, Drive, StartUpInv, TableInv
  <2> QED
    BY <2>3, <2>4
<1>8. CASE PrechargeBank
  <2>1. SeqTick("PRECHARGE", line)
    BY <1>8 DEF PrechargeBank, Drive
  <2>2. RowRule'
    BY <1>t, <2>1, RowRuleStep
  <2>3. /\ target_state_q \in {"READ", "WRITE"} /\ target_state_q' = target_state_q
        /\ state_q' \in {"PRECHARGE", "ACTIVATE"}
    BY <1>t, <1>8 DEF PrechargeBank, Drive, TableInv
  <2>4. line' = line
    BY <1>u, <2>3 DEF LineInUse
  <2>5. \A b \in Banks \ {line.bank} : Agrees(b)'
    BY <1>t, <1>8, <2>1, RowAfterStep
    DEF PrechargeBank, TableInv, Agrees, TypeOK
  <2>6. state_q' = "ACTIVATE" => RowAfter'[line.bank] = Closed
    BY <1>t, <1>8, <1>l, <2>1, RowAfterStep DEF PrechargeBank, Drive
  <2> QED
    BY <2>2, <2>3, <2>4, <2>5, <2>6 DEF StartUpInv, TableInv
<1>9. CASE Refresh
  <2>1. SeqTick("REFRESH", line)
    BY <1>9 DEF Refresh, Drive
  <2>2. RowAfter' = RowAfter
    BY <1>t, <2>1, RowAfterStep
  <2>3. RowRule'
    BY <1>t, <1>9, <2>1, RowRuleStep DEF Refresh, TableInv
  <2> QED
    BY <1>t, <1>9, <2>2, <2>3
    DEF Refresh, Drive, StartUpInv, TableInv, AllClosed, Agrees
<1> QED
  BY <1>t, <1>1, <1>2, <1>3, <1>4, <1>5, <1>6, <1>7, <1>8, <1>9 DEF CoreTick

LEMMA RowInvReset == RowInv /\ Reset => RowInv'
<1> SUFFICES ASSUME RowInv, Reset PROVE RowInv'
  OBVIOUS
<1>1. TypeOK'
  BY TypeStep DEF RowInv, Next
<1>2. StartUpInv'
  BY PreAtProperty, DeviceAssumption, CoreAssumption
  DEF Reset, CoreReset, SeqReset, StartUpInv
<1>3. TableInv' /\ RowRule'
  BY DEF Reset, CoreReset, SeqReset, TableInv, RowRule, NopCommand
<1> QED
  BY <1>1, <1>2, <1>3 DEF RowInv

LEMMA RowInvStep == RowInv /\ [Next]_vars => RowInv'
<1>1. RowInv /\ UNCHANGED vars => RowInv'
  <2> SUFFICES ASSUME RowInv, UNCHANGED vars PROVE RowInv'
    OBVIOUS
  <2>1. TypeOK'
    BY TypeStep DEF RowInv
  <2> QED
    BY <2>1 DEF RowInv, vars, seqVars, deviceVars, portVars, coreVars,
      StartUpInv, TableInv, RowRule, Agrees, AllClosed, RowAfter, Addressed,
      RowHit
<1> QED
  BY <1>1, RowInvTick, RowInvReset DEF Next

(* For any number of banks, rows and lines, any timing parameters and any    *)
(* requester that holds the address while it is in use, through refreshes    *)
(* and resets: no READ or WRITE ever reaches a bank whose open row is not    *)
(* the addressed one, no ACTIVE an open bank, no REFRESH an open chip.       *)
THEOREM RowsCorrect == Spec => []CommandsFindTheirRow
<1>1. RowInv => CommandsFindTheirRow
  BY DEF RowInv, CommandsFindTheirRow
<1> QED
  BY RowInvInit, RowInvStep, <1>1, PTL DEF Spec

-----------------------------------------------------------------------------
(* Every command keeps its distance.  FullDelay(k) is the delay the command  *)
(* k loads into the counter: the longest distance it asks of a later one.    *)
FullDelay(k) ==
    CASE k = "ACTIVE" -> TRCD [] k = "PRECHARGE" -> TRP
      [] k = "REFRESH" -> TRFC [] k \in {"READ", "WRITE"} -> NonSeq

(* The last command's distance so far and the delay counter add up to more   *)
(* than its full delay; all other commands are already that far in the past. *)
DelayInv ==
    \A k \in Timed :
        IF k = Kind(last_cmd_q)
          THEN \/ SinceAfter[k] + delay_q > FullDelay(k)
               \/ delay_q = 0 /\ SinceAfter[k] >= FullDelay(k)
          ELSE SinceAfter[k] >= FullDelay(k)

(* After a reset nothing is known of the past, but the timer keeps the first *)
(* command that needs a distance, the PRECHARGE of all banks, away.          *)
Settling == state_q = "INIT" /\ ~refresh_q /\ refresh_timer_q >= PreAt

DistanceInv ==
    /\ SpacingRule
    /\ Settling =>
         \A k \in Timed : SinceAfter[k] + refresh_timer_q - PreAt >= Long
    /\ ~Settling => DelayInv

LEMMA FullDelayType ==
    ASSUME NEW k \in Timed
    PROVE  FullDelay(k) \in Nat /\ FullDelay(k) <= Long
BY TimingAssumption, DeviceAssumption DEF FullDelay, Timed, NonSeq

LEMMA SinceAfterStep ==
    ASSUME TypeOK, DeviceTick, NEW cmd \in Commands, SeqTick(cmd, line),
           NEW k \in Timed
    PROVE  /\ SinceAfter[k] \in 1..Long
           /\ Accept(cmd) /\ Kind(cmd) = k => SinceAfter'[k] = 1
           /\ ~(Accept(cmd) /\ Kind(cmd) = k) =>
                SinceAfter'[k] = IF SinceAfter[k] < Long THEN SinceAfter[k] + 1
                                 ELSE Long
<1>1. SinceAfter[k] \in 1..Long
  BY DeviceAssumption DEF SinceAfter, TypeOK, DeviceTypeOK
<1>2. since' = SinceAfter
  BY DEF DeviceTick
<1>3. dfi'.cmd = IF Accept(cmd) /\ cmd # "NOP" THEN cmd ELSE "NOP"
  BY DEF SeqTick, NopCommand
<1> QED
  BY <1>1, <1>2, <1>3 DEF SinceAfter, Kind, Timed

(* The delay counter does its work: a step of the sequencer, with whatever   *)
(* command on its input, keeps the invariant and the distances.              *)
LEMMA DelayStep ==
    ASSUME TypeOK, DelayInv, DeviceTick, NEW cmd \in Commands,
           SeqTick(cmd, line)
    PROVE  DelayInv' /\ SpacingRule'
<1>d. delay_q \in Nat /\ NonSeq \in Nat /\ SeqGap \in Nat
      /\ BL \in Nat /\ BL <= NonSeq /\ SeqGap + BL = NonSeq + 1
  BY TimingAssumption DEF NonSeq, SeqGap, TypeOK, SeqTypeOK
<1>s. since' = SinceAfter
  BY DEF DeviceTick
<1>1. CASE Accept(cmd) /\ cmd # "NOP"
  <2>1. dfi' = [cmd |-> cmd, line |-> line] /\ last_cmd_q' = cmd
    BY <1>1 DEF SeqTick
  <2>2. CASE delay_q = 0
    <3>1. delay_q' = DelayAfter(cmd)
      BY <2>2 DEF SeqTick, NextDelay
    <3>2. \A k \in Timed : SinceAfter[k] >= FullDelay(k)
      BY <2>2, SinceAfterStep, FullDelayType DEF DelayInv
    <3>3. DelayInv'
      <4> SUFFICES ASSUME NEW k \in Timed
                   PROVE  IF k = Kind(cmd)
                            THEN SinceAfter'[k] + delay_q' > FullDelay(k)
                            ELSE SinceAfter'[k] >= FullDelay(k)
        BY <2>1 DEF DelayInv, FullDelay
      <4>1. CASE k = Kind(cmd)
        <5>1. delay_q' = FullDelay(k)
          BY <3>1, <4>1 DEF DelayAfter, FullDelay, Kind, Timed, Commands
        <5> QED
          BY <1>1, <4>1, <5>1, SinceAfterStep, FullDelayType
      <4>2. CASE k # Kind(cmd)
        BY <4>2, <3>2, SinceAfterStep, FullDelayType, DeviceAssumption
      <4> QED
        BY <4>1, <4>2
    <3>4. SpacingRule'
      <4> SUFFICES ASSUME NEW k \in Timed, Kind(cmd) \in Timed
                   PROVE  SinceAfter[k] >= Spacing(k, Kind(cmd))
        BY <1>s, <2>1 DEF SpacingRule
      <4>1. Spacing(k, Kind(cmd)) \in Nat /\ Spacing(k, Kind(cmd)) <= FullDelay(k)
        BY <1>d, TimingAssumption DEF Spacing, FullDelay, Timed
      <4> QED
        BY <3>2, <4>1, SinceAfterStep, FullDelayType
    <3> QED
      BY <3>3, <3>4
  <2>3. CASE delay_q # 0 /\ EarlyAccept(cmd)
    <3>1. /\ cmd \in {"READ", "WRITE"} /\ last_cmd_q = cmd /\ Kind(cmd) = cmd
          /\ delay_q = SeqGap /\ delay_q' = NonSeq /\ FullDelay(cmd) = NonSeq
          /\ cmd \in Timed
      BY <2>3 DEF EarlyAccept, SeqTick, NextDelay, Kind, FullDelay, Timed
    <3>2. DelayInv'
      <4> SUFFICES ASSUME NEW k \in Timed
                   PROVE  IF k = cmd
                            THEN SinceAfter'[k] + delay_q' > FullDelay(k)
                            ELSE SinceAfter'[k] >= FullDelay(k)
        BY <2>1, <3>1 DEF DelayInv, FullDelay
      <4>1. CASE k = cmd
        BY <1>1, <1>d, <3>1, <4>1, SinceAfterStep
      <4>2. CASE k # cmd
        <5>1. SinceAfter[k] >= FullDelay(k)
          BY <3>1, <4>2 DEF DelayInv
        <5> QED
          BY <3>1, <4>2, <5>1, SinceAfterStep, FullDelayType, DeviceAssumption
      <4> QED
        BY <4>1, <4>2
    <3>3. SpacingRule'
      <4> SUFFICES ASSUME NEW k \in Timed
                   PROVE  SinceAfter[k] >= Spacing(k, cmd)
        BY <1>s, <2>1, <3>1 DEF SpacingRule
      <4>1. CASE k = cmd
        <5>1. Spacing(k, cmd) = BL
          BY <3>1, <4>1 DEF Spacing
        <5>2. SinceAfter[k] + SeqGap > NonSeq
          BY <1>d, <2>3, <3>1, <4>1 DEF DelayInv
        <5> QED
          BY <1>d, <5>1, <5>2, SinceAfterStep
      <4>2. CASE k # cmd
        <5>1. SinceAfter[k] >= FullDelay(k)
          BY <3>1, <4>2 DEF DelayInv
        <5>2. Spacing(k, cmd) = FullDelay(k)
          BY <3>1, <4>2 DEF Spacing, FullDelay, Timed
        <5> QED
          BY <5>1, <5>2
      <4> QED
        BY <4>1, <4>2
    <3> QED
      BY <3>2, <3>3
  <2> QED
    BY <1>1, <2>2, <2>3 DEF Accept
<1>2. CASE ~(Accept(cmd) /\ cmd # "NOP")
  <2>1. dfi' = NopCommand /\ last_cmd_q' = last_cmd_q
    BY <1>2 DEF SeqTick
  <2>2. SpacingRule'
    BY <2>1 DEF SpacingRule, NopCommand, Kind, Timed
  <2>3. delay_q' = IF delay_q = 0 THEN 0 ELSE delay_q - 1
    BY <1>2 DEF SeqTick, NextDelay, Accept, DelayAfter, EarlyAccept
  <2>4. \A k \in Timed :
          /\ SinceAfter[k] \in 1..Long
          /\ SinceAfter'[k] = IF SinceAfter[k] < Long THEN SinceAfter[k] + 1
                              ELSE Long
    BY <1>2, SinceAfterStep DEF Kind, Timed
  <2>5. DelayInv'
    <3> SUFFICES ASSUME NEW k \in Timed
                 PROVE  IF k = Kind(last_cmd_q)
                          THEN \/ SinceAfter'[k] + delay_q' > FullDelay(k)
                               \/ delay_q' = 0 /\ SinceAfter'[k] >= FullDelay(k)
                          ELSE SinceAfter'[k] >= FullDelay(k)
      BY <2>1 DEF DelayInv, FullDelay
    <3>1. FullDelay(k) \in Nat /\ FullDelay(k) <= Long
      BY FullDelayType
    <3> QED
      BY <1>d, <2>3, <2>4, <3>1, DeviceAssumption DEF DelayInv
  <2> QED
    BY <2>2, <2>5
<1> QED
  BY <1>1, <1>2

(* Whatever the state machine does, it drives one command; the start-up      *)
(* sequence drives the one that is due.                                      *)
StartUpCommand ==
    IF refresh_timer_q \in DOMAIN InitSequence
      THEN InitSequence[refresh_timer_q] ELSE "NOP"

LEMMA StartUpCommandProperty ==
    /\ StartUpCommand \in {"NOP", "LOAD_MODE", "ZQCL", "PRECHARGE_ALL"}
    /\ StartUpCommand = "PRECHARGE_ALL" <=> refresh_timer_q = PreAt
BY PreAtProperty DEF StartUpCommand

LEMMA CommandDriven ==
    ASSUME TypeOK, CoreTick
    PROVE  \E cmd \in Commands :
              /\ SeqTick(cmd, line)
              /\ state_q = "INIT" => cmd = StartUpCommand
<1> USE DEF Commands, Drive
<1>1. CASE StartUp
  <2>1. SeqTick(StartUpCommand, line)
    BY <1>1 DEF StartUp, StartUpCommand
  <2> QED
    BY <2>1, StartUpCommandProperty
<1>2. CASE IdleRefresh \/ IdleAccess \/ IdleWait
  BY <1>2 DEF IdleRefresh, IdleAccess, IdleWait
<1>3. CASE Activate \/ ReadWrite
  BY <1>3 DEF Activate, ReadWrite
<1>4. CASE PrechargeAll \/ PrechargeBank \/ Refresh
  BY <1>4 DEF PrechargeAll, PrechargeBank, Refresh
<1> QED
  BY <1>1, <1>2, <1>3, <1>4 DEF CoreTick

LEMMA DistanceInit == Init => DistanceInv
<1> SUFFICES ASSUME Init PROVE DistanceInv
  OBVIOUS
<1>1. TypeOK
  BY TypeInit
<1>2. dfi.cmd = "NOP" /\ Settling /\ refresh_timer_q = StartDelay
  BY <1>1, PreAtProperty, CoreAssumption, DeviceAssumption
  DEF Init, CoreInit, SeqInit, NopCommand, Settling
<1>3. SpacingRule
  BY <1>2 DEF SpacingRule, Kind, Timed
<1>4. \A k \in Timed : SinceAfter[k] = Long
  BY <1>2, DeviceAssumption DEF Init, DeviceInit, SinceAfter, Kind, Timed
<1>5. \A k \in Timed : SinceAfter[k] + refresh_timer_q - PreAt >= Long
  BY <1>2, <1>4, PreAtProperty, CoreAssumption, DeviceAssumption
<1> QED
  BY <1>2, <1>3, <1>5 DEF DistanceInv

LEMMA DistanceTick == RowInv /\ DistanceInv /\ Tick => DistanceInv'
<1> SUFFICES ASSUME RowInv, DistanceInv, Tick
             PROVE  DistanceInv'
  OBVIOUS
<1>1. TypeOK /\ StartUpInv
  BY DEF RowInv
<1>2. CoreTick /\ DeviceTick /\ RefreshTimer
  BY DEF Tick, CoreTick
<1>3. PICK cmd \in Commands :
        /\ SeqTick(cmd, line)
        /\ state_q = "INIT" => cmd = StartUpCommand
  BY <1>1, <1>2, CommandDriven
<1>n. /\ refresh_timer_q \in Nat /\ PreAt \in Nat
      /\ StartDelay \in Nat /\ Long \in Nat
      /\ Long >= 1
  BY <1>1, PreAtProperty, CoreAssumption, DeviceAssumption DEF TypeOK
<1>4. CASE Settling /\ refresh_timer_q > PreAt
  <2>1. cmd \in {"NOP", "LOAD_MODE", "ZQCL"} /\ Kind(cmd) \notin Timed
    BY <1>n, <1>3, <1>4, StartUpCommandProperty DEF Settling, Kind, Timed
  <2>2. refresh_timer_q' = refresh_timer_q - 1 /\ ~refresh_q'
    BY <1>n, <1>2, <1>4 DEF RefreshTimer, Settling
  <2>3. Settling'
    BY <1>2, <1>4, <1>n, <2>2
    DEF Settling, CoreTick, StartUp, Drive, IdleRefresh, IdleAccess, IdleWait,
        Activate, ReadWrite, PrechargeAll, PrechargeBank, Refresh
  <2>4. \A k \in Timed : SinceAfter'[k] + refresh_timer_q' - PreAt >= Long
    <3> SUFFICES ASSUME NEW k \in Timed
                 PROVE  SinceAfter'[k] + refresh_timer_q' - PreAt >= Long
      OBVIOUS
    <3>1. /\ SinceAfter[k] \in 1..Long
          /\ SinceAfter'[k] = IF SinceAfter[k] < Long THEN SinceAfter[k] + 1
                              ELSE Long
      BY <1>1, <1>2, <1>3, <2>1, SinceAfterStep
    <3>2. SinceAfter[k] + refresh_timer_q - PreAt >= Long
      BY <1>4 DEF DistanceInv
    <3> QED
      BY <1>n, <1>4, <2>2, <3>1, <3>2
  <2>5. SpacingRule'
    BY <1>3, <2>1 DEF SeqTick, SpacingRule, Kind, NopCommand, Timed
  <2> QED
    BY <2>3, <2>4, <2>5 DEF DistanceInv
<1>5. CASE ~(Settling /\ refresh_timer_q > PreAt)
  <2>1. DelayInv
    <3>1. CASE Settling
      <4>1. refresh_timer_q = PreAt
        BY <1>n, <1>5, <3>1 DEF Settling
      <4>2. \A k \in Timed : SinceAfter[k] >= FullDelay(k)
        BY <1>1, <1>2, <1>3, <1>n, <3>1, <4>1, SinceAfterStep, FullDelayType
        DEF DistanceInv
      <4>3. delay_q = 0
        BY <1>1, <3>1 DEF StartUpInv, Settling
      <4> QED
        BY <4>2, <4>3 DEF DelayInv
    <3> QED
      BY <3>1 DEF DistanceInv
  <2>2. DelayInv' /\ SpacingRule'
    BY <1>1, <1>2, <1>3, <2>1, DelayStep
  <2>3. ~Settling'
    <3>1. state_q' = "INIT" => state_q = "INIT"
      BY <1>1, <1>2 DEF CoreTick, StartUp, Drive, IdleRefresh, IdleAccess, IdleWait,
        Activate, ReadWrite, PrechargeAll, PrechargeBank, Refresh, TypeOK,
        States, Requests, Accept, SeqTypeOK
    <3> QED
      BY <1>5, <1>2, <1>n, <3>1, PreAtProperty DEF Settling, RefreshTimer
  <2> QED
    BY <2>2, <2>3 DEF DistanceInv
<1> QED
  BY <1>4, <1>5

LEMMA DistanceReset == RowInv /\ DistanceInv /\ Reset => DistanceInv'
<1> SUFFICES ASSUME RowInv, Reset PROVE DistanceInv'
  OBVIOUS
<1>1. TypeOK' /\ PreAt \in Nat /\ PreAt + Long <= StartDelay
  BY TypeStep, PreAtProperty DEF RowInv, Next
<1>2. /\ dfi' = NopCommand /\ Settling' /\ refresh_timer_q' = StartDelay
  BY <1>1, CoreAssumption, DeviceAssumption
  DEF Reset, CoreReset, SeqReset, Settling
<1>3. SpacingRule'
  BY <1>2 DEF SpacingRule, NopCommand, Kind, Timed
<1>4. \A k \in Timed : SinceAfter'[k] \in 1..Long
  BY <1>1, DeviceAssumption DEF SinceAfter, TypeOK, DeviceTypeOK
<1> QED
  BY <1>1, <1>2, <1>3, <1>4, CoreAssumption, DeviceAssumption DEF DistanceInv

(* For all timing parameters that fit the six-bit delay counter, and through *)
(* resets at any time: each command arrives at the                           *)
(* chip the required number of cycles after every earlier one.               *)
THEOREM DistancesCorrect == Spec => []CommandsKeepDistance
<1> DEFINE DInv == RowInv /\ DistanceInv
<1>1. Init => DInv
  BY RowInvInit, DistanceInit
<1>2. DInv /\ [Next]_vars => DInv'
  <2>1. DInv /\ UNCHANGED vars => DistanceInv'
    BY DEF DistanceInv, vars, seqVars, deviceVars, portVars, coreVars,
      SpacingRule, Settling, DelayInv, SinceAfter
  <2> QED
    BY <2>1, RowInvStep, DistanceTick, DistanceReset DEF Next
<1>3. DInv => CommandsKeepDistance
  BY DEF DistanceInv, CommandsKeepDistance
<1> QED
  BY <1>1, <1>2, <1>3, PTL DEF Spec

-----------------------------------------------------------------------------
(* A refresh is pending from the cycle after the timer ran out to the cycle  *)
(* that takes the REFRESH command.                                           *)
Pending == refresh_q \/ state_q = "REFRESH"

(* The delay counter and n more cycles fit into what is left of the period.  *)
TimeLeft(n) == delay_q + n <= refresh_timer_q

(* There is time for what the state machine has to do before a pending       *)
(* refresh: each state waits for the delay counter and leaves it with the    *)
(* delay of its own command.                                                 *)
InTime ==
    /\ state_q = "REFRESH" => TimeLeft(1)
    /\ state_q = "PRECHARGE" /\ target_state_q = "REFRESH" => TimeLeft(TRP + 2)
    /\ state_q = "IDLE" => TimeLeft(TRP + 3)
    /\ state_q = "INIT" => TimeLeft(2 * TRP + 4)
    /\ state_q \in {"READ", "WRITE"} => TimeLeft(NonSeq + TRP + 4)
    /\ state_q = "ACTIVATE" => TimeLeft(TRCD + NonSeq + TRP + 5)
    /\ state_q = "PRECHARGE" /\ target_state_q # "REFRESH" =>
         TimeLeft(TRCD + NonSeq + 2 * TRP + 6)

RefreshInv ==
    /\ \E d \in {TRCD, TRP, TRFC, NonSeq} : delay_q <= d
    /\ state_q = "PRECHARGE" /\ target_state_q = "REFRESH" => refresh_q
    /\ Pending => InTime

(* What a clock edge does to the delay counter: it counts down while the     *)
(* command has to wait, and takes the delay of an accepted command.          *)
LEMMA DelayCounted ==
    ASSUME SeqTypeOK, NEW cmd \in Commands, SeqTick(cmd, line)
    PROVE  /\ ~Accept(cmd) \/ cmd = "NOP" =>
                delay_q' = IF delay_q = 0 THEN 0 ELSE delay_q - 1
           /\ Accept(cmd) /\ cmd # "NOP" => delay_q' = DelayAfter(cmd)
           /\ ~Accept(cmd) => delay_q # 0
           /\ cmd \notin {"READ", "WRITE"} /\ cmd # "NOP" /\ Accept(cmd) =>
                delay_q = 0
BY DEF SeqTick, NextDelay, Accept, EarlyAccept, DelayAfter, SeqTypeOK, Commands

LEMMA DelayBounded ==
    ASSUME SeqTypeOK, NEW cmd \in Commands, SeqTick(cmd, line),
           \E d \in {TRCD, TRP, TRFC, NonSeq} : delay_q <= d
    PROVE  \E d \in {TRCD, TRP, TRFC, NonSeq} : delay_q' <= d
<1>1. /\ TRCD \in Nat /\ TRP \in Nat /\ TRFC \in Nat /\ NonSeq \in Nat
      /\ delay_q \in Nat
  BY TimingAssumption DEF NonSeq, SeqTypeOK
<1>2. PICK d \in {TRCD, TRP, TRFC, NonSeq} : delay_q <= d
  OBVIOUS
<1>3. CASE ~Accept(cmd) \/ cmd = "NOP"
  BY <1>1, <1>2, <1>3, DelayCounted
<1>4. CASE Accept(cmd) /\ cmd # "NOP"
  <2>1. DelayAfter(cmd) \in {0, TRCD, TRP, TRFC, NonSeq}
    BY DEF DelayAfter, Commands
  <2> QED
    BY <1>1, <1>4, <2>1, DelayCounted
<1> QED
  BY <1>3, <1>4

(* A period that covers the longest way to a refresh covers every shorter one. *)
LEMMA PeriodCovers ==
    ASSUME NEW d \in Nat, NEW e \in Nat, NEW n \in Nat, NEW a \in Nat,
           NEW p \in Nat, NEW r \in Nat, e <= d, d + n + a + 2 * p + 6 <= r
    PROVE  /\ e + 1 <= r /\ e + (p + 2) <= r /\ e + (p + 3) <= r
           /\ e + (2 * p + 4) <= r /\ e + (n + p + 4) <= r
           /\ e + (a + n + p + 5) <= r /\ e + (a + n + 2 * p + 6) <= r
OBVIOUS

LEMMA RefreshInit == Init => RefreshInv
<1> SUFFICES ASSUME Init PROVE RefreshInv
  OBVIOUS
<1>1. delay_q = 0 /\ refresh_q = FALSE /\ state_q = "INIT" /\ 0 <= TRCD
  BY TimingAssumption DEF Init, CoreInit, SeqInit
<1> QED
  BY <1>1 DEF RefreshInv, Pending

LEMMA RefreshTick == RowInv /\ RefreshInv /\ Tick => RefreshInv'
<1> SUFFICES ASSUME RowInv, RefreshInv, Tick PROVE RefreshInv'
  OBVIOUS
<1>t. TypeOK /\ SeqTypeOK /\ StartUpInv /\ TableInv /\ CoreTick /\ RefreshTimer
  BY DEF RowInv, TypeOK, Tick, CoreTick
<1>n. /\ TRCD \in Nat /\ TRP \in Nat /\ TRFC \in Nat /\ NonSeq \in Nat
      /\ delay_q \in Nat /\ refresh_timer_q \in Nat /\ RefreshCycles \in Nat
      /\ refresh_q \in BOOLEAN
  BY <1>t, TimingAssumption, CoreAssumption DEF NonSeq, TypeOK, SeqTypeOK
<1>r. /\ refresh_timer_q' = IF refresh_timer_q = 0 THEN RefreshCycles
                            ELSE refresh_timer_q - 1
      /\ refresh_q' = \/ refresh_timer_q = 0
                      \/ refresh_q /\ state_q # "REFRESH"
  BY <1>t DEF RefreshTimer
<1>c. PICK cmd \in Commands :
        /\ SeqTick(cmd, line)
        /\ state_q = "INIT" => cmd = StartUpCommand
  BY <1>t, CommandDriven
<1>1. \E d \in {TRCD, TRP, TRFC, NonSeq} : delay_q' <= d
  BY <1>t, <1>c, DelayBounded DEF RefreshInv
<1>2. /\ state_q' \in States /\ delay_q' \in Nat
      /\ target_state_q' \in {"IDLE", "READ", "WRITE", "REFRESH"}
  BY <1>t, CoreTypeStep DEF SeqTypeOK
(* Whatever state a refresh finds, the period is long enough for it.         *)
<1>3. CASE refresh_timer_q = 0
  <2>1. refresh_q' /\ refresh_timer_q' = RefreshCycles
    BY <1>r, <1>3
  <2>2. PICK d \in {TRCD, TRP, TRFC, NonSeq} : delay_q' <= d
    BY <1>1
  <2>3. d + NonSeq + TRCD + 2 * TRP + 6 <= RefreshCycles
    BY RefreshAssumption
  <2>4. d \in Nat
    BY <1>n
  <2>5. /\ TimeLeft(1)' /\ TimeLeft(TRP + 2)' /\ TimeLeft(TRP + 3)'
        /\ TimeLeft(2 * TRP + 4)' /\ TimeLeft(NonSeq + TRP + 4)'
        /\ TimeLeft(TRCD + NonSeq + TRP + 5)'
        /\ TimeLeft(TRCD + NonSeq + 2 * TRP + 6)'
    BY <1>n, <1>2, <2>1, <2>2, <2>3, <2>4, PeriodCovers DEF TimeLeft
  <2>6. InTime'
    BY <2>5 DEF InTime, TimeLeft
  <2> QED
    BY <1>1, <2>1, <2>6 DEF RefreshInv
<1> USE DEF Commands, Drive
<1>4. CASE refresh_timer_q # 0
  <2>r. /\ refresh_timer_q' = refresh_timer_q - 1
        /\ refresh_q' = (refresh_q /\ state_q # "REFRESH")
    BY <1>r, <1>4
  <2>p. /\ Pending => InTime
        /\ state_q = "PRECHARGE" /\ target_state_q = "REFRESH" => refresh_q
    BY DEF RefreshInv
  <2> SUFFICES /\ (state_q' = "PRECHARGE" /\ target_state_q' = "REFRESH") => refresh_q'
               /\ Pending' => InTime'
    BY <1>1 DEF RefreshInv
  <2>1. CASE StartUp
    BY <1>n, <1>t, <1>2, <2>1, <2>r, <2>p, StartUpCommandProperty, DelayCounted
    DEF StartUp, StartUpCommand, Pending, InTime, TimeLeft, DelayAfter
  <2>2. CASE IdleRefresh
    <3>1. SeqTick("NOP", line) /\ Accept("NOP")
      BY <2>2 DEF IdleRefresh, Accept
    <3>2. delay_q' = IF delay_q = 0 THEN 0 ELSE delay_q - 1
      BY <1>t, <3>1, DelayCounted
    <3>3. /\ refresh_q /\ state_q = "IDLE" /\ target_state_q' = "REFRESH"
          /\ state_q' \in {"PRECHARGE", "REFRESH"}
      BY <2>2, <3>1 DEF IdleRefresh
    <3>4. TimeLeft(TRP + 3)
      BY <2>p, <3>3 DEF Pending, InTime
    <3>5. TimeLeft(1)' /\ TimeLeft(TRP + 2)'
      BY <1>n, <1>2, <2>r, <3>2, <3>4 DEF TimeLeft
    <3> QED
      BY <2>r, <3>3, <3>5 DEF Pending, InTime, TimeLeft
  <2>3. CASE IdleAccess \/ IdleWait
    <3>1. ~refresh_q /\ state_q' # "REFRESH"
      BY <1>t, <2>3 DEF IdleAccess, IdleWait, TypeOK, Requests, Accept
    <3>2. state_q' = "PRECHARGE" => target_state_q' # "REFRESH"
      BY <1>t, <2>3 DEF IdleAccess, IdleWait, TypeOK, Requests, Accept
    <3> QED
      BY <2>r, <3>1, <3>2 DEF Pending
  <2>4. CASE Activate
    <3>1. SeqTick("ACTIVE", line)
      BY <2>4 DEF Activate
    <3> QED
      BY <1>n, <1>t, <1>2, <2>4, <2>r, <2>p, <3>1, DelayCounted
      DEF Activate, Pending, InTime, TimeLeft, TableInv, DelayAfter
  <2>5. CASE ReadWrite
    <3>1. SeqTick(state_q, line)
      BY <2>5 DEF ReadWrite
    <3> QED
      BY <1>n, <1>t, <1>2, <2>5, <2>r, <2>p, <3>1, DelayCounted
      DEF ReadWrite, Pending, InTime, TimeLeft, DelayAfter
  <2>6. CASE PrechargeAll
    <3>1. SeqTick("PRECHARGE_ALL", line)
      BY <2>6 DEF PrechargeAll
    <3>2. refresh_q /\ TimeLeft(TRP + 2)
      BY <2>6, <2>p DEF PrechargeAll, Pending, InTime
    <3>3. CASE Accept("PRECHARGE_ALL")
      <4>1. /\ state_q' = "REFRESH" /\ delay_q = 0 /\ delay_q' = TRP
        BY <1>t, <2>6, <3>1, <3>3, DelayCounted DEF PrechargeAll, DelayAfter
      <4>2. TimeLeft(1)'
        BY <1>n, <2>r, <3>2, <4>1 DEF TimeLeft
      <4> QED
        BY <4>1, <4>2 DEF InTime
    <3>4. CASE ~Accept("PRECHARGE_ALL")
      <4>1. /\ state_q' = "PRECHARGE" /\ target_state_q' = "REFRESH"
            /\ delay_q # 0 /\ delay_q' = delay_q - 1 /\ refresh_q'
        BY <1>t, <2>6, <2>r, <3>1, <3>2, <3>4, DelayCounted DEF PrechargeAll
      <4>2. TimeLeft(TRP + 2)'
        BY <1>n, <2>r, <3>2, <4>1 DEF TimeLeft
      <4> QED
        BY <4>1, <4>2 DEF InTime
    <3> QED
      BY <3>3, <3>4
  <2>7. CASE PrechargeBank
    <3>1. SeqTick("PRECHARGE", line)
      BY <2>7 DEF PrechargeBank
    <3> QED
      BY <1>n, <1>t, <1>2, <2>7, <2>r, <2>p, <3>1, DelayCounted
      DEF PrechargeBank, Pending, InTime, TimeLeft, TableInv, DelayAfter
  <2>8. CASE Refresh
    <3>1. SeqTick("REFRESH", line)
      BY <2>8 DEF Refresh
    <3>2. TimeLeft(1) /\ ~refresh_q'
      BY <2>8, <2>p, <2>r DEF Refresh, Pending, InTime
    <3>3. CASE Accept("REFRESH")
      BY <2>8, <3>2, <3>3 DEF Refresh, Pending
    <3>4. CASE ~Accept("REFRESH")
      <4>1. state_q' = "REFRESH" /\ delay_q # 0 /\ delay_q' = delay_q - 1
        BY <1>t, <2>8, <3>1, <3>4, DelayCounted DEF Refresh
      <4>2. TimeLeft(1)'
        BY <1>n, <2>r, <3>2, <4>1 DEF TimeLeft
      <4> QED
        BY <4>1, <4>2 DEF InTime
    <3> QED
      BY <3>3, <3>4
  <2> QED
    BY <1>t, <2>1, <2>2, <2>3, <2>4, <2>5, <2>6, <2>7, <2>8 DEF CoreTick
<1> QED
  BY <1>3, <1>4

LEMMA RefreshReset == Reset => RefreshInv'
<1> SUFFICES ASSUME Reset PROVE RefreshInv'
  OBVIOUS
<1>1. delay_q' = 0 /\ refresh_q' = FALSE /\ state_q' = "INIT" /\ 0 <= TRCD
  BY TimingAssumption DEF Reset, CoreReset, SeqReset
<1> QED
  BY <1>1 DEF RefreshInv, Pending

(* Whatever is under way when the timer asks for a refresh, and whatever the *)
(* requester does, the refresh is done before the timer asks for the next.   *)
THEOREM RefreshesServed == Spec => []NoRefreshLost
<1> DEFINE Inv == RowInv /\ RefreshInv
<1>1. Init => Inv
  BY RowInvInit, RefreshInit
<1>2. Inv /\ [Next]_vars => Inv'
  <2>1. RefreshInv /\ UNCHANGED vars => RefreshInv'
    <3> SUFFICES ASSUME RefreshInv, UNCHANGED vars PROVE RefreshInv'
      OBVIOUS
    <3>1. /\ UNCHANGED <<delay_q, refresh_q, refresh_timer_q>>
          /\ UNCHANGED <<state_q, target_state_q>>
      BY DEF vars, seqVars, coreVars
    <3>2. InTime' = InTime
      BY <3>1 DEF InTime, TimeLeft
    <3> QED
      BY <3>1, <3>2 DEF RefreshInv, Pending
  <2> QED
    BY <2>1, RowInvStep, RefreshTick, RefreshReset DEF Next
<1>3. Inv => NoRefreshLost
  <2> SUFFICES ASSUME Inv, refresh_timer_q = 0, Pending PROVE FALSE
    BY DEF NoRefreshLost, Pending
  <2>1. InTime /\ TypeOK
    BY DEF RefreshInv, RowInv
  <2> QED
    BY <2>1, TimingAssumption
    DEF InTime, TimeLeft, TypeOK, SeqTypeOK, States, NonSeq
<1> QED
  BY <1>1, <1>2, <1>3, PTL DEF Spec
=============================================================================
