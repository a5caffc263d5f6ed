------------------------- MODULE DramWbMemory_proofs -------------------------
(***************************************************************************)
(* Proofs about DramWbMemory: the read-modify-writes of both ports replace   *)
(* the bytes they are meant to and no others, and the front as a whole is a  *)
(* WordMemory, for all addresses, data, strobes and loader words.            *)
(***************************************************************************)
EXTENDS DramWbMemory, TLAPS

ReadStates == {"READ_START", "READ_WAIT_ACCEPT", "READ_WAIT_ACK"}
WriteStates == {"WRITE_RMW_START", "WRITE_RMW_WAIT_ACCEPT",
                "WRITE_RMW_WAIT_ACK", "WRITE_START", "WRITE_WAIT_ACCEPT",
                "WRITE_WAIT_ACK"}
UartStates == {"UART_WRITE_RMW_START", "UART_WRITE_RMW_WAIT_ACCEPT",
               "UART_WRITE_RMW_WAIT_ACK", "UART_WRITE_START",
               "UART_WRITE_WAIT_ACCEPT", "UART_WRITE_WAIT_ACK"}

(* The states by what they do with the core: a read or a write is requested, *)
(* it has not been accepted, it has been; a merged line is ready, it is in    *)
(* the core.                                                                *)
WaitAccepts == {"READ_WAIT_ACCEPT", "WRITE_RMW_WAIT_ACCEPT",
                "WRITE_WAIT_ACCEPT", "UART_WRITE_RMW_WAIT_ACCEPT",
                "UART_WRITE_WAIT_ACCEPT"}
WaitAcks == {"READ_WAIT_ACK", "WRITE_RMW_WAIT_ACK", "WRITE_WAIT_ACK",
             "UART_WRITE_RMW_WAIT_ACK", "UART_WRITE_WAIT_ACK"}
Writing == {"WRITE_WAIT_ACCEPT", "WRITE_WAIT_ACK", "UART_WRITE_WAIT_ACCEPT",
            "UART_WRITE_WAIT_ACK"}
Reading == (WaitAccepts \cup WaitAcks) \ Writing
Merged == {"WRITE_START", "WRITE_WAIT_ACCEPT", "UART_WRITE_START",
           "UART_WRITE_WAIT_ACCEPT"}
Stored == {"WRITE_WAIT_ACK", "UART_WRITE_WAIT_ACK"}

(* What the machine is about: the registers of the port it serves.           *)
Adr == IF state_r \in UartStates THEN uart_adr_r ELSE wb_adr_r
Dat == IF state_r \in UartStates THEN uart_dat_r ELSE wb_dat_r
Sel == IF state_r \in UartStates THEN Lanes ELSE wb_sel_r

Replace(old, dat, sel) == [b \in Lanes |-> IF b \in sel THEN dat[b] ELSE old[b]]

TypeInv ==
    /\ state_r \in {"IDLE"} \cup ReadStates \cup WriteStates \cup UartStates
    /\ wb \in WbReqs \cup {NoReq}
    /\ uart \in [we : {TRUE}, adr : Addrs, dat : Dats] \cup {NoUart}
    /\ wb_ack_r \in BOOLEAN /\ taken \in BOOLEAN
    /\ cells \in [LineAddrs -> Line] /\ wmem \in [Addr -> Word]

(* The request lines and what the core makes of them follow from the state:  *)
(* a request is accepted and acknowledged in the state that waits for it.    *)
PortInv ==
    /\ DRAM_RE <=> state_r \in Reading
    /\ DRAM_WE <=> state_r \in Writing
    /\ taken <=> state_r \in WaitAcks
    /\ ram.accept => state_r \in WaitAccepts
    /\ ram.ack => state_r \in WaitAcks /\ ram.data = cells[DRAM_ADDRESS]

(* An acknowledge answers the request on the bus: it comes only while one is  *)
(* up, for its address, and a read gets the word as the finished writes left  *)
(* it; a UART write that ran before or meanwhile is never taken for it.       *)
AckAnswersTheRequest ==
    wb_ack_r =>
        /\ wb.cyc /\ wb_adr_r = wb.adr
        /\ IF wb.we THEN wb_dat_r = wb.dat /\ wb_sel_r = wb.sel
                    ELSE wb_read_data_r = wmem[wb.adr]

(* The registers hold the request on the bus or the word of the loader.      *)
RequestInv ==
    /\ state_r \in ReadStates \cup WriteStates \cup UartStates =>
         Adr \in Addr /\ DRAM_ADDRESS = Adr.line
    /\ state_r \in WriteStates \cup UartStates => Dat \in Word
    /\ state_r \in ReadStates => wb.cyc /\ ~wb.we /\ wb_adr_r = wb.adr
    /\ state_r \in WriteStates =>
         /\ wb.cyc /\ wb.we
         /\ wb_adr_r = wb.adr /\ wb_dat_r = wb.dat /\ wb_sel_r = wb.sel
    /\ wb_ack_r => state_r = "IDLE" /\ AckAnswersTheRequest

(* The lines hold what the finished writes left, but for the word of a write *)
(* that the core has taken and the front has not finished; the line that     *)
(* waits to be written differs from the core's in that word only.            *)
MemoryInv ==
    /\ state_r \in Merged =>
         DRAM_DATA_WRITE = Merge(cells[DRAM_ADDRESS], Adr.word, Dat, Sel)
    /\ \A a \in Addr :
         cells[a.line][a.word] =
            IF state_r \in Stored /\ a = Adr THEN Replace(wmem[a], Dat, Sel)
            ELSE wmem[a]

IInv == TypeInv /\ PortInv /\ RequestInv /\ MemoryInv

-----------------------------------------------------------------------------
LEMMA ZeroTyped == ZeroWord \in Word /\ ZeroLine \in Line
BY WbMemoryAssumption DEF ZeroWord, ZeroLine, Word, Line

LEMMA InitInv == Init => IInv
<1> SUFFICES ASSUME Init PROVE IInv
  OBVIOUS
<1>1. TypeInv
  BY ZeroTyped DEF Init, WbInit, TypeInv, NoUart
<1>2. PortInv
  BY DEF Init, WbInit, PortInv, NoRam, Reading, Writing, WaitAccepts, WaitAcks
<1>3. RequestInv
  BY DEF Init, WbInit, RequestInv, ReadStates, WriteStates, UartStates
<1>4. MemoryInv
  BY DEF Init, WbInit, MemoryInv, Merged, Stored, ZeroLine, Addr
<1> QED
  BY <1>1, <1>2, <1>3, <1>4 DEF IInv

(* What the core does in a cycle, read off its outputs.                      *)
LEMMA CoreStep ==
    ASSUME Core
    PROVE  /\ taken' = (ram.accept \/ (taken /\ ~ram.ack))
           /\ ram'.accept => ~taken' /\ (DRAM_RE' \/ DRAM_WE')
           /\ ram'.ack => taken' /\ ram'.data = cells'[DRAM_ADDRESS']
BY DEF Core

LEMMA PortStep == TypeInv /\ PortInv /\ WbTick /\ Core => PortInv'
<1> SUFFICES ASSUME TypeInv, PortInv, WbTick, Core PROVE PortInv'
  OBVIOUS
<1>1. /\ DRAM_RE' <=> state_r' \in Reading
      /\ DRAM_WE' <=> state_r' \in Writing
      /\ taken' <=> state_r' \in WaitAcks
  <2> USE CoreStep DEF PortInv, Reading, Writing, WaitAccepts, WaitAcks
  <2>1. CASE IdleUart \/ IdleWb \/ IdleNothing
    BY <2>1 DEF IdleUart, IdleWb, IdleNothing
  <2>2. CASE WbRead
    BY <2>2 DEF WbRead, Start, WaitAccept, StillWaiting, ReadAck, ramRegs
  <2>3. CASE WbWrite
    BY <2>3 DEF WbWrite, Start, WaitAccept, StillWaiting, RmwAck, WriteAck, ramRegs
  <2>4. CASE UartWrite
    BY <2>4 DEF UartWrite, Start, WaitAccept, StillWaiting, RmwAck, WriteAck, ramRegs
  <2> QED
    BY <2>1, <2>2, <2>3, <2>4 DEF WbTick
<1> QED
  BY <1>1, CoreStep DEF PortInv, Reading, Writing, WaitAccepts, WaitAcks

(* The bus while the machine is at work: the master holds its request.       *)
LEMMA BusHeld ==
    ASSUME TypeInv, RequestInv, Master
    PROVE  /\ state_r # "IDLE" => (wb.cyc => wb' = wb)
           /\ wb.cyc /\ ~wb_ack_r => wb' = wb
           /\ wb' \in WbReqs \cup {NoReq}
BY DEF TypeInv, RequestInv, Master

LEMMA RequestTyped ==
    ASSUME TypeInv
    PROVE  /\ wb.cyc => wb.adr \in Addr
           /\ wb.cyc /\ wb.we => wb.dat \in Word /\ wb.sel \subseteq Lanes
           /\ uart.we => uart.adr \in Addr /\ uart.dat \in Word
<1>1. uart.we => uart.adr \in Addr /\ uart.dat \in Word
  <2>1. CASE uart = NoUart
    BY <2>1 DEF NoUart
  <2>2. CASE uart \in [we : {TRUE}, adr : Addrs, dat : Dats]
    BY <2>2, WbMemoryAssumption
  <2> QED
    BY <2>1, <2>2 DEF TypeInv
<1>2. wb \in WbReqs \cup {NoReq}
  BY DEF TypeInv
<1>3. CASE wb = NoReq
  BY <1>1, <1>3 DEF NoReq
<1>4. CASE wb \in [cyc : {TRUE}, we : {FALSE}, adr : Addrs]
  BY <1>1, <1>4, WbMemoryAssumption
<1>5. CASE wb \in [cyc : {TRUE}, we : {TRUE}, adr : Addrs, dat : Dats,
                   sel : SUBSET Lanes]
  BY <1>1, <1>5, WbMemoryAssumption
<1> QED
  BY <1>2, <1>3, <1>4, <1>5 DEF WbReqs

LEMMA RequestStep ==
    ASSUME TypeInv, PortInv, RequestInv, MemoryInv, WbTick, Master, Finished
    PROVE  RequestInv'
<1> USE DEF ReadStates, WriteStates, UartStates
<1>1. CASE IdleUart
  BY <1>1, RequestTyped DEF IdleUart, RequestInv, Adr, Dat
<1>2. CASE IdleWb
  <2>1. wb' = wb
    BY <1>2, BusHeld DEF IdleWb, TypeInv
  <2> QED
    BY <1>2, <2>1, RequestTyped DEF IdleWb, RequestInv, Adr, Dat
<1>3. CASE IdleNothing
  BY <1>3 DEF IdleNothing, RequestInv, Adr, Dat
<1>w. CASE WbRead \/ WbWrite
  <2>1. wb' = wb
    BY <1>w, BusHeld
    DEF WbRead, WbWrite, Start, WaitAccept, StillWaiting, ReadAck, RmwAck,
        WriteAck, RequestInv
  <2>2. /\ DRAM_ADDRESS' = DRAM_ADDRESS
        /\ UNCHANGED wbReqRegs
        /\ state_r \in ReadStates => state_r' \in ReadStates \cup {"IDLE"}
        /\ state_r \in WriteStates => state_r' \in WriteStates \cup {"IDLE"}
        /\ state_r \in ReadStates \cup WriteStates
    BY <1>w
    DEF WbRead, WbWrite, Start, WaitAccept, StillWaiting, ReadAck, RmwAck,
        WriteAck, ramRegs, wbReqRegs
  <2>3. /\ state_r' \in ReadStates => state_r \in ReadStates
        /\ state_r' \in WriteStates => state_r \in WriteStates
        /\ state_r' \in ReadStates \cup WriteStates => Adr' = Adr /\ Dat' = Dat
    BY <2>2 DEF Adr, Dat, wbReqRegs
  <2>4. CASE ReadAck
    <3>1. wb_read_data_r' = cells[DRAM_ADDRESS][wb_adr_r.word]
      BY <2>4 DEF ReadAck, PortInv
    <3>2. Adr = wb_adr_r /\ wb_adr_r \in Addr /\ DRAM_ADDRESS = wb_adr_r.line
      BY <2>4 DEF ReadAck, RequestInv, Adr
    <3>3. wb_read_data_r' = wmem[wb_adr_r]
      BY <2>4, <3>1, <3>2 DEF ReadAck, MemoryInv, Stored
    <3>4. wmem' = wmem
      BY <2>4 DEF ReadAck, Finished
    <3>5. wb.cyc /\ ~wb.we /\ wb_adr_r = wb.adr
      BY <2>4 DEF ReadAck, RequestInv
    <3> QED
      BY <2>1, <2>2, <2>4, <3>3, <3>4, <3>5
      DEF ReadAck, RequestInv, AckAnswersTheRequest, wbReqRegs
  <2>5. CASE WriteAck("WRITE_WAIT_ACK")
    BY <2>1, <2>2, <2>5
    DEF WriteAck, RequestInv, AckAnswersTheRequest, wbReqRegs
  <2>6. CASE ~ReadAck /\ ~WriteAck("WRITE_WAIT_ACK")
    <3>1. ~wb_ack_r'
      BY <1>w, <2>6
      DEF WbRead, WbWrite, Start, WaitAccept, StillWaiting, RmwAck
    <3> QED
      BY <2>1, <2>2, <2>3, <3>1 DEF RequestInv, wbReqRegs
  <2> QED
    BY <2>4, <2>5, <2>6
<1>6. CASE UartWrite
  <2>1. /\ DRAM_ADDRESS' = DRAM_ADDRESS /\ UNCHANGED uartRegs
        /\ state_r \in UartStates /\ state_r' \in UartStates \cup {"IDLE"}
        /\ ~wb_ack_r'
    BY <1>6
    DEF UartWrite, Start, WaitAccept, StillWaiting, RmwAck, WriteAck, ramRegs
  <2> QED
    BY <2>1 DEF RequestInv, uartRegs, Adr, Dat
<1> QED
  BY <1>1, <1>2, <1>3, <1>w, <1>6 DEF WbTick
(* A word of a line, after the line was merged or stored.                    *)
LEMMA MergeProperty ==
    ASSUME NEW line \in Line, NEW word \in Words, NEW dat, NEW sel, NEW v \in Words
    PROVE  Merge(line, word, dat, sel)[v] =
             IF v = word THEN Replace(line[word], dat, sel) ELSE line[v]
BY DEF Merge, Replace, Line

LEMMA ReplaceTyped ==
    ASSUME NEW old \in Word, NEW dat \in Word, NEW sel
    PROVE  Replace(old, dat, sel) \in Word
BY DEF Replace, Word

LEMMA MergeTyped ==
    ASSUME NEW line \in Line, NEW word \in Words, NEW dat \in Word, NEW sel
    PROVE  Merge(line, word, dat, sel) \in Line
BY DEF Merge, Line, Word

LEMMA TypeStep ==
    ASSUME IInv, Tick PROVE TypeInv'
<1>1. state_r' \in {"IDLE"} \cup ReadStates \cup WriteStates \cup UartStates
      /\ wb_ack_r' \in BOOLEAN
  <2> USE DEF ReadStates, WriteStates, UartStates
  <2>1. CASE IdleUart \/ IdleWb \/ IdleNothing
    BY <2>1 DEF IdleUart, IdleWb, IdleNothing, IInv, TypeInv
  <2>2. CASE WbRead
    BY <2>2 DEF WbRead, Start, WaitAccept, StillWaiting, ReadAck
  <2>3. CASE WbWrite
    BY <2>3 DEF WbWrite, Start, WaitAccept, StillWaiting, RmwAck, WriteAck
  <2>4. CASE UartWrite
    BY <2>4 DEF UartWrite, Start, WaitAccept, StillWaiting, RmwAck, WriteAck
  <2> QED
    BY <2>1, <2>2, <2>3, <2>4 DEF Tick, WbTick
<1>2. wb' \in WbReqs \cup {NoReq}
  BY BusHeld DEF IInv, Tick
<1>3. uart' \in [we : {TRUE}, adr : Addrs, dat : Dats] \cup {NoUart}
  <2>1. CASE uart' = NoUart
    BY <2>1
  <2>2. CASE \E a \in Addrs, d \in Dats : uart' = [we |-> TRUE, adr |-> a, dat |-> d]
    BY <2>2
  <2> QED
    BY <2>1, <2>2 DEF Tick, Loader
<1>4. taken' \in BOOLEAN
  BY DEF Tick, Core
<1>5. cells' \in [LineAddrs -> Line]
  <2>1. CASE ram.accept /\ DRAM_WE
    <3>1. state_r \in Merged /\ state_r \in WriteStates \cup UartStates
      BY <2>1 DEF IInv, PortInv, WaitAccepts, Writing, Merged, WriteStates, UartStates
    <3>2. Adr \in Addr /\ Dat \in Word /\ DRAM_ADDRESS = Adr.line
      BY <3>1 DEF IInv, RequestInv
    <3>3. DRAM_DATA_WRITE \in Line
      BY <3>1, <3>2, MergeTyped DEF IInv, MemoryInv, TypeInv, Addr
    <3> QED
      BY <2>1, <3>2, <3>3 DEF Tick, Core, IInv, TypeInv
  <2>2. CASE ~(ram.accept /\ DRAM_WE)
    BY <2>2 DEF Tick, Core, IInv, TypeInv
  <2> QED
    BY <2>1, <2>2
<1>6. wmem' \in [Addr -> Word]
  <2>1. CASE ram.ack /\ state_r = "WRITE_WAIT_ACK"
    <3>1. wb_adr_r \in Addr /\ wb_dat_r \in Word
      BY <2>1 DEF IInv, RequestInv, WriteStates, UartStates, Adr, Dat
    <3>2. wmem' = [wmem EXCEPT ![wb_adr_r] = Replace(wmem[wb_adr_r], wb_dat_r, wb_sel_r)]
      BY <2>1 DEF Tick, Finished, Replace
    <3> QED
      BY <3>1, <3>2, ReplaceTyped DEF IInv, TypeInv
  <2>2. CASE ram.ack /\ state_r = "UART_WRITE_WAIT_ACK"
    <3>1. uart_adr_r \in Addr /\ uart_dat_r \in Word
      BY <2>2 DEF IInv, RequestInv, WriteStates, UartStates, Adr, Dat
    <3> QED
      BY <2>2, <3>1 DEF Tick, Finished, IInv, TypeInv
  <2>3. CASE ~ram.ack \/ state_r \notin Stored
    BY <2>3 DEF Tick, Finished, IInv, TypeInv, Stored
  <2> QED
    BY <2>1, <2>2, <2>3 DEF Stored
<1> QED
  BY <1>1, <1>2, <1>3, <1>4, <1>5, <1>6 DEF TypeInv

-----------------------------------------------------------------------------
(* What a step does to the registers of the machine, as far as the memory is *)
(* concerned.                                                               *)
LEMMA MergedStep ==
    ASSUME IInv, Tick, state_r' \in Merged
    PROVE  /\ Adr' = Adr /\ Dat' = Dat /\ Sel' = Sel
           /\ DRAM_ADDRESS' = DRAM_ADDRESS
           /\ \/ /\ state_r \in Merged /\ ~ram.accept
                 /\ DRAM_DATA_WRITE' = DRAM_DATA_WRITE
              \/ /\ ram.ack /\ ~ram.accept
                 /\ DRAM_DATA_WRITE' = Merge(cells[DRAM_ADDRESS], Adr.word, Dat, Sel)
           /\ state_r \notin Stored
<1> USE DEF Merged, Stored
<1>1. WbWrite \/ UartWrite
  BY DEF Tick, WbTick, IdleUart, IdleWb, IdleNothing, WbRead, Start, WaitAccept,
     StillWaiting, ReadAck
<1>2. CASE WbWrite
  BY <1>2 DEF WbWrite, Start, WaitAccept, StillWaiting, RmwAck, WriteAck,
     ramRegs, wbReqRegs, uartRegs, Adr, Dat, Sel, UartStates, IInv, PortInv,
     WaitAccepts
<1>3. CASE UartWrite
  BY <1>3 DEF UartWrite, Start, WaitAccept, StillWaiting, RmwAck, WriteAck,
     ramRegs, wbReqRegs, uartRegs, Adr, Dat, Sel, UartStates, IInv, PortInv,
     WaitAccepts
<1> QED
  BY <1>1, <1>2, <1>3

(* The steps that matter to the contents: a write ends, it goes on, the core *)
(* takes it, or none of these.                                              *)
LEMMA StoredStep ==
    ASSUME IInv, Tick
    PROVE  /\ state_r \in Stored =>
                /\ ~ram.accept
                /\ IF ram.ack THEN state_r' = "IDLE"
                   ELSE state_r' = state_r /\ Adr' = Adr /\ Dat' = Dat /\ Sel' = Sel
           /\ ram.accept /\ DRAM_WE =>
                /\ state_r \in Merged /\ state_r' \in Stored
                /\ Adr' = Adr /\ Dat' = Dat /\ Sel' = Sel
           /\ state_r \notin Stored /\ ~(ram.accept /\ DRAM_WE) =>
                state_r' \notin Stored
<1> USE DEF Stored, Merged, IInv, PortInv, WaitAccepts, Writing
<1>1. CASE IdleUart \/ IdleWb \/ IdleNothing \/ WbRead
  BY <1>1 DEF IdleUart, IdleWb, IdleNothing, WbRead, Start, WaitAccept,
     StillWaiting, ReadAck
<1>2. CASE WbWrite
  BY <1>2 DEF WbWrite, Start, WaitAccept, StillWaiting, RmwAck, WriteAck,
     ramRegs, wbReqRegs, uartRegs, Adr, Dat, Sel, UartStates
<1>3. CASE UartWrite
  BY <1>3 DEF UartWrite, Start, WaitAccept, StillWaiting, RmwAck, WriteAck,
     ramRegs, wbReqRegs, uartRegs, Adr, Dat, Sel, UartStates
<1> QED
  BY <1>1, <1>2, <1>3 DEF Tick, WbTick

LEMMA MemoryStep ==
    ASSUME IInv, Tick PROVE MemoryInv'
<1>1. ASSUME state_r' \in Merged
      PROVE  DRAM_DATA_WRITE' = Merge(cells'[DRAM_ADDRESS'], Adr'.word, Dat', Sel')
  <2>1. cells' = cells
    BY <1>1, MergedStep DEF Tick, Core
  <2> QED
    BY <1>1, <2>1, MergedStep DEF IInv, MemoryInv
<1>2. ASSUME NEW a \in Addr
      PROVE  cells'[a.line][a.word] =
               IF state_r' \in Stored /\ a = Adr' THEN Replace(wmem'[a], Dat', Sel')
               ELSE wmem'[a]
  <2>t. a.line \in LineAddrs /\ a.word \in Words /\ cells[a.line] \in Line
    BY DEF Addr, IInv, TypeInv
  <2>1. CASE state_r \in Stored /\ ram.ack
    <3>1. cells' = cells /\ state_r' = "IDLE"
      BY <2>1, StoredStep DEF Tick, Core
    <3>2. Adr \in Addr /\ Dat \in Word
      BY <2>1 DEF Stored, IInv, RequestInv, WriteStates, UartStates
    <3>3. wmem' = [wmem EXCEPT ![Adr] = Replace(wmem[Adr], Dat, Sel)]
      <4>1. CASE state_r = "WRITE_WAIT_ACK"
        BY <2>1, <4>1 DEF Tick, Finished, Adr, Dat, Sel, UartStates, Replace
      <4>2. CASE state_r = "UART_WRITE_WAIT_ACK"
        <5>1. Replace(wmem[Adr], Dat, Sel) = uart_dat_r
          BY <3>2, <4>2 DEF Adr, Dat, Sel, UartStates, Replace, Word
        <5> QED
          BY <2>1, <4>2, <5>1 DEF Tick, Finished, Adr, UartStates
      <4> QED
        BY <2>1, <4>1, <4>2 DEF Stored
    <3> QED
      BY <2>1, <3>1, <3>2, <3>3 DEF IInv, MemoryInv, TypeInv, Stored
  <2>2. CASE state_r \in Stored /\ ~ram.ack
    <3>1. cells' = cells /\ wmem' = wmem
      BY <2>2, StoredStep DEF Tick, Core, Finished
    <3> QED
      BY <2>2, <3>1, StoredStep DEF IInv, MemoryInv
  <2>3. CASE ram.accept /\ DRAM_WE
    <3>1. state_r \in Merged /\ state_r \notin Stored /\ ~ram.ack
      BY <2>3, StoredStep DEF Merged, Stored, IInv, PortInv, WaitAcks
    <3>2. Adr \in Addr /\ Dat \in Word /\ DRAM_ADDRESS = Adr.line
      BY <3>1 DEF IInv, RequestInv, Merged, WriteStates, UartStates
    <3>3. wmem' = wmem
      BY <3>1 DEF Tick, Finished
    <3>4. cells' = [cells EXCEPT ![Adr.line] =
                      Merge(cells[Adr.line], Adr.word, Dat, Sel)]
      BY <2>3, <3>1, <3>2 DEF Tick, Core, IInv, MemoryInv
    <3>5. Adr.line \in LineAddrs /\ Adr.word \in Words /\ cells[Adr.line] \in Line
      BY <3>2 DEF Addr, IInv, TypeInv
    <3>6. cells'[a.line][a.word] =
            IF a.line = Adr.line /\ a.word = Adr.word
              THEN Replace(cells[a.line][a.word], Dat, Sel)
              ELSE cells[a.line][a.word]
      BY <2>t, <3>4, <3>5, MergeProperty DEF IInv, TypeInv
    <3>7. a = Adr <=> a.line = Adr.line /\ a.word = Adr.word
      BY <3>2 DEF Addr
    <3> QED
      BY <2>3, <3>1, <3>3, <3>6, <3>7, StoredStep DEF IInv, MemoryInv
  <2>4. CASE state_r \notin Stored /\ ~(ram.accept /\ DRAM_WE)
    <3>1. cells' = cells /\ wmem' = wmem
      BY <2>4 DEF Tick, Core, Finished, Stored
    <3> QED
      BY <2>4, <3>1, StoredStep DEF IInv, MemoryInv
  <2> QED
    BY <2>1, <2>2, <2>3, <2>4, StoredStep
<1> QED
  BY <1>1, <1>2 DEF MemoryInv

LEMMA StepInv == IInv /\ [Next]_vars => IInv'
<1>1. ASSUME IInv, Tick PROVE IInv'
  BY <1>1, TypeStep, PortStep, RequestStep, MemoryStep DEF IInv, Tick
<1>2. ASSUME IInv, UNCHANGED vars PROVE IInv'
  <2> USE <1>2 DEF IInv, vars, wbVars, wbReqRegs, uartRegs, ramRegs
  <2>1. TypeInv' /\ PortInv'
    BY DEF TypeInv, PortInv
  <2>2. RequestInv'
    BY DEF RequestInv, Adr, Dat, AckAnswersTheRequest
  <2>3. MemoryInv'
    BY DEF MemoryInv, Adr, Dat, Sel
  <2> QED
    BY <2>1, <2>2, <2>3
<1> QED
  BY <1>1, <1>2 DEF Next

(* For all lines, words, lanes and data, any requests of the master, any      *)
(* words of the loader at any time and any delays of the core: when the       *)
(* front is idle, each byte holds what the last finished write that strobed   *)
(* it put there.                                                            *)
THEOREM WritesCorrect == Spec => []WritesTouchTheirBytesOnly
<1>1. IInv => WritesTouchTheirBytesOnly
  BY DEF IInv, MemoryInv, WritesTouchTheirBytesOnly, Stored
<1> QED
  BY InitInv, StepInv, <1>1, PTL DEF Spec

-----------------------------------------------------------------------------
(* The refinement.  An acknowledged step is a Read or a Write of WordMemory,  *)
(* the end of a loader word a Load, everything else is Quiet.                *)
LEMMA PortRefined ==
    ASSUME IInv, Master
    PROVE  WordMem!Port
<1>1. wb.cyc <=> wb # NoReq
  <2>1. ASSUME wb \in WbReqs PROVE wb.cyc /\ wb # NoReq
    <3>1. wb.cyc = TRUE
      BY <2>1 DEF WbReqs
    <3> QED
      BY <3>1 DEF NoReq
  <2> QED
    BY <2>1 DEF IInv, TypeInv, NoReq
<1> QED
  BY <1>1 DEF Master, WordMem!Port

LEMMA StepRefined ==
    ASSUME IInv, Tick
    PROVE  WordMem!Next
<1>p. WordMem!Port
  BY PortRefined DEF Tick
<1>1. CASE ReadAck
  <2>1. wb.cyc /\ wb # NoReq /\ ~wb.we /\ ~wb_ack_r
    BY <1>1 DEF ReadAck, IInv, RequestInv, ReadStates, NoReq
  <2>2. wb_ack_r' /\ wb_read_data_r' = wmem[wb.adr] /\ wmem' = wmem
    <3>1. Adr = wb.adr /\ wb.adr \in Addr /\ DRAM_ADDRESS = Adr.line
          /\ wb_adr_r = wb.adr
      BY <1>1 DEF ReadAck, IInv, RequestInv, ReadStates, UartStates, Adr
    <3> QED
      BY <1>1, <3>1 DEF ReadAck, Tick, Finished, IInv, PortInv, MemoryInv, Stored
  <2>3. WordMem!Read
    BY <1>1, <2>1, <2>2 DEF WordMem!Read, ReadAck
  <2> QED
    BY <1>p, <2>3 DEF WordMem!Next
<1>2. CASE WriteAck("WRITE_WAIT_ACK")
  <2>1. /\ wb.cyc /\ wb # NoReq /\ wb.we /\ ~wb_ack_r
        /\ wb_adr_r = wb.adr /\ wb_dat_r = wb.dat /\ wb_sel_r = wb.sel
    BY <1>2 DEF WriteAck, IInv, RequestInv, WriteStates, NoReq
  <2>2. WordMem!Write
    BY <1>2, <2>1 DEF WordMem!Write, WriteAck, Tick, Finished
  <2> QED
    BY <1>p, <2>2 DEF WordMem!Next
<1>3. CASE WriteAck("UART_WRITE_WAIT_ACK")
  <2>1. uart_adr_r \in Addr /\ uart_dat_r \in Word
    BY <1>3 DEF WriteAck, IInv, RequestInv, UartStates, Adr, Dat
  <2>2. WordMem!Load
    BY <1>3, <2>1 DEF WordMem!Load, WriteAck, Tick, Finished
  <2> QED
    BY <1>p, <2>2 DEF WordMem!Next
<1>4. CASE ~ReadAck /\ ~WriteAck("WRITE_WAIT_ACK")
           /\ ~WriteAck("UART_WRITE_WAIT_ACK")
  <2>1. ~wb_ack_r' /\ ~(ram.ack /\ state_r \in Stored)
    BY <1>4
    DEF Tick, WbTick, IdleUart, IdleWb, IdleNothing, WbRead, WbWrite, UartWrite,
        Start, WaitAccept, StillWaiting, RmwAck, Stored
  <2>2. wb_ack_r' \in BOOLEAN
    BY TypeStep DEF TypeInv
  <2>3. WordMem!Quiet
    BY <2>1, <2>2 DEF WordMem!Quiet, Tick, Finished, Stored
  <2> QED
    BY <1>p, <2>3 DEF WordMem!Next
<1> QED
  BY <1>1, <1>2, <1>3, <1>4

(* For all lines, words, lanes, data, masters and loaders, and any core that  *)
(* accepts and acknowledges each request once, the front is a WordMemory.    *)
THEOREM WordMemoryImplemented == Spec => ImplementsWordMemory
<1>1. Init => WordMem!Init
  BY ZeroTyped DEF Init, WbInit, WordMem!Init
<1>2. IInv /\ [Next]_vars => [WordMem!Next]_(WordMem!wordVars)
  BY StepRefined DEF Next, vars, wbVars, WordMem!wordVars
<1> QED
  BY <1>1, <1>2, InitInv, StepInv, PTL
  DEF Spec, ImplementsWordMemory, WordMem!Spec
=============================================================================
