---------------------------- MODULE DramWbMemory ----------------------------
(***************************************************************************)
(* DramControllerWb between a Wishbone master, the UART loader and a DRAM    *)
(* core that keeps its contract: it accepts a request once, at any time      *)
(* while the request is up, and acknowledges it once, in some later cycle,   *)
(* with the line as it is then.  (Module DramSystem puts the real core       *)
(* there.)  wmem is a history variable: the words as the writes that were    *)
(* finished left them.                                                      *)
(***************************************************************************)
EXTENDS DramControllerWb

CONSTANTS
    Addrs, Dats, \* the addresses masters use, the words they write
    UartWords    \* how many words the loader sends at most (a bound)

ASSUME WbMemoryAssumption ==
    /\ Addrs \subseteq Addr /\ Dats \subseteq Word /\ UartWords \in Nat
    /\ Bytes # {}

VARIABLES
    cells,      \* the contract core: contents of the lines
    taken,      \* the contract core: a request is accepted and unanswered
    sent,       \* how many words the loader has sent
    wmem

vars == <<wb, uart, ram, wbVars, cells, taken, sent, wmem>>

NoReq == [cyc |-> FALSE]
WbReqs == [cyc : {TRUE}, we : {FALSE}, adr : Addrs]
            \cup [cyc : {TRUE}, we : {TRUE}, adr : Addrs, dat : Dats,
                  sel : SUBSET Lanes]
NoUart == [we |-> FALSE]
NoRam == [ready |-> FALSE, accept |-> FALSE, ack |-> FALSE, data |-> ZeroLine]

Init ==
    /\ WbInit /\ wb = NoReq /\ uart = NoUart /\ ram = NoRam
    /\ cells = [l \in LineAddrs |-> ZeroLine] /\ taken = FALSE /\ sent = 0
    /\ wmem = [a \in Addr |-> ZeroWord]

(* The AXI side holds its request until the acknowledge and then drops it    *)
(* for a cycle at least.                                                    *)
Master ==
    IF wb.cyc THEN wb' = IF wb_ack_r THEN NoReq ELSE wb
              ELSE wb' \in WbReqs \cup {NoReq}

Loader ==
    \/ uart' = NoUart /\ UNCHANGED sent
    \/ /\ sent < UartWords /\ sent' = sent + 1
       /\ \E a \in Addrs, d \in Dats : uart' = [we |-> TRUE, adr |-> a, dat |-> d]

(* ram_ready is looked at in these states only.                              *)
Starts == {"READ_START", "WRITE_RMW_START", "WRITE_START",
           "UART_WRITE_RMW_START", "UART_WRITE_START"}

Core ==
    /\ taken' = (ram.accept \/ (taken /\ ~ram.ack))
    /\ cells' = IF ram.accept /\ DRAM_WE
                  THEN [cells EXCEPT ![DRAM_ADDRESS] = DRAM_DATA_WRITE]
                  ELSE cells
    /\ \E ready, accept, ack \in BOOLEAN :
         /\ ready => DRAM_WDG' = 0 /\ state_r' \in Starts
         /\ accept => ~taken' /\ (DRAM_RE' \/ DRAM_WE')
         /\ ack => taken'
         /\ ram' = [ready |-> ready, accept |-> accept, ack |-> ack,
                    data |-> IF ack THEN cells'[DRAM_ADDRESS'] ELSE ZeroLine]

Finished ==
    IF ~ram.ack THEN UNCHANGED wmem
    ELSE CASE state_r = "WRITE_WAIT_ACK" ->
                wmem' = [wmem EXCEPT ![wb_adr_r] =
                  [b \in Lanes |-> IF b \in wb_sel_r THEN wb_dat_r[b] ELSE @[b]]]
           [] state_r = "UART_WRITE_WAIT_ACK" ->
                wmem' = [wmem EXCEPT ![uart_adr_r] = uart_dat_r]
           [] OTHER -> UNCHANGED wmem

Tick == WbTick /\ Master /\ Loader /\ Core /\ Finished

Next == Tick

(* The clock ticks, and the core does not put a request off for ever.        *)
Spec ==
    /\ Init /\ [][Next]_vars
    /\ WF_vars(Tick /\ ram'.ready) /\ WF_vars(Tick /\ ram'.accept)
    /\ WF_vars(Tick /\ ram'.ack) /\ WF_vars(Tick)

-----------------------------------------------------------------------------
(* Whenever the machine is back in IDLE the lines hold exactly what the       *)
(* finished writes left: a read-modify-write for either port replaces the     *)
(* strobed bytes of one word and no other byte of the line.                  *)
WritesTouchTheirBytesOnly ==
    state_r = "IDLE" => \A a \in Addr : cells[a.line][a.word] = wmem[a]

(* The front is a memory of words: each request is acknowledged at most once, *)
(* a write in the cycle in which it takes effect, a read with what the memory *)
(* holds in that cycle, and between requests only the loader changes it.     *)
WordMem == INSTANCE WordMemory
             WITH request <- wb, ack <- wb_ack_r, data <- wb_read_data_r,
                  words <- wmem, Requests <- WbReqs
ImplementsWordMemory == WordMem!Spec

(* A request on the bus is acknowledged, whatever the loader does before.     *)
RequestsAnswered == wb.cyc ~> wb_ack_r
=============================================================================
