---------------------------- MODULE ImageLoading ----------------------------
(***************************************************************************)
(* The loader at work: ProgLoader, a host that runs the scripts of tools/,   *)
(* the CPU, and the Wishbone front of the DRAM (DramControllerWb) over a     *)
(* core that answers in bounded time, with the resets of secure_soc.sv.      *)
(*                                                                         *)
(* The host sends the bytes of a message at line speed, may pause a while    *)
(* in it, and waits for at least Pause cycles before the next message.       *)
(* cur, unserved, stored are history variables.                             *)
(***************************************************************************)
EXTENDS ProgLoader, Sequences

S == INSTANCE SequencesExt

CONSTANTS
    Messages,    \* what the host sends
    Done,        \* the bytes 'done'
    ByteGap,     \* cycles from one byte to the next at line speed, 542
    Stalls,      \* how long the host may pause in a message (a bound)
    Pause,       \* cycles between messages
    MaxMessages, \* how many messages are sent (a bound)
    CpuWrites,   \* [adr, dat] of the stores of the program that runs
    CpuReads,    \* what the program reads in the DRAM
    LineWords,   \* words of a line of DRAM, 4
    Latency,     \* cycles in which the DRAM core accepts or acknowledges
    StartUp      \* cycles in which it does not after a reset, 40000

ASSUME ByteGap \in Nat \ {0} /\ Stalls \in Nat /\ Pause \in Nat \ {0}
       /\ WordMod = Byte ^ WordLen /\ SeqMod = Byte ^ PROG_SEQ_LENGTH
       /\ MaxMessages \in Nat /\ LineWords \in Nat \ {0} /\ Latency \in Nat

VARIABLES
    todo,        \* bytes of the message that are still to be sent
    cur,         \* the message being sent, or sent last
    unserved,    \* cur has not yet reset the SoC
    quiet,       \* cycles since the last byte, up to Pause
    stalled, sent,
    wb, port,    \* Wishbone and DRAM core ports of the front
    state_r, wb_ack_r, wb_read_data_r, wb_adr_r, wb_dat_r, wb_sel_r,
    uart_adr_r, uart_dat_r, DRAM_ADDRESS, DRAM_DATA_WRITE, DRAM_RE, DRAM_WE,
    DRAM_WDG,
    cells, taken, since,
    stored       \* addresses of the RAM that the CPU wrote last

hostVars == <<todo, cur, unserved, quiet, stalled, sent>>

DramLines == 0 .. WordMod \div (LineWords * WordLen) - 1

(* uart_dram_write_addr_i and _data_i, as the front takes an address apart.   *)
DramAddress(a) == [line |-> a \div (LineWords * WordLen),
                   word |-> (a \div WordLen) % LineWords]
DramWord(w) == [lane \in {0} |-> w]
Uart == [we |-> dram_prog_inst_valid, adr |-> DramAddress(dram_prog_addr),
         dat |-> DramWord(dram_prog_instruction)]

Front == INSTANCE DramControllerWb
           WITH LineAddrs <- DramLines,
                Words <- 0 .. LineWords - 1, Lanes <- {0}, Bytes <- Words,
                WdgStart <- StartUp, uart <- Uart, ram <- port

vars == <<uart_do, cpu, loaderVars, hostVars, wb, port, Front!wbVars, cells,
          taken, since, stored>>

(* secure_soc.sv: the reset of the CPU (line 125) and of the DRAM (line 874). *)
cpuRuns == system_reset_o /\ ~dram_mode_o
dramRuns == system_reset_o \/ dram_mode_o

-----------------------------------------------------------------------------
(* What the scripts write.  tail: uart_send_data.py counts 'done' as the last *)
(* word of the image, the other scripts send it after the image.             *)
BytesOf(n, len) == [i \in 1 .. len |-> (n \div Byte ^ (len - i)) % Byte]
WordBytes(words) == S!FlattenSeq([i \in DOMAIN words |-> BytesOf(words[i], WordLen)])
MessageBytes(m) ==
    CASE m.kind = "program" ->
           BytesOf(PROGRAM_SEQUENCE, PROG_SEQ_LENGTH)
             \o BytesOf(Len(m.words), WordLen) \o WordBytes(m.words)
             \o (IF m.tail THEN Done ELSE <<>>)
      [] m.kind = "dram" ->
           BytesOf(DRAMWRITE_SEQUENCE, PROG_SEQ_LENGTH)
             \o BytesOf(Len(m.words), WordLen) \o BytesOf(m.adr, WordLen)
             \o WordBytes(m.words) \o Done
      [] m.kind = "reset" -> BytesOf(RESET_SEQUENCE, PROG_SEQ_LENGTH)

PowerOn == [kind |-> "power on"]

NoReq == [cyc |-> FALSE]
NoStore == [we |-> FALSE]
IdlePort == [ready |-> FALSE, accept |-> FALSE, ack |-> FALSE,
             data |-> Front!ZeroLine]

Init ==
    /\ LoaderInit /\ uart_do = NoByte /\ cpu = NoStore
    /\ todo = <<>> /\ cur = PowerOn /\ unserved = FALSE
    /\ quiet = 0 /\ stalled = 0 /\ sent = 0
    /\ Front!WbInit /\ wb = NoReq /\ port = IdlePort
    /\ cells = [l \in DramLines |-> Front!ZeroLine]
    /\ taken = FALSE /\ since = 0 /\ stored = {}

-----------------------------------------------------------------------------
(* simpleuart holds a byte until a cycle in which it is read.                *)
Receiver(byte) ==
    uart_do' = IF byte # NoByte THEN byte
               ELSE IF ram_prog_rd_en THEN NoByte ELSE uart_do

Served == unserved' = (unserved /\ system_reset_o')

BeginMessage ==
    /\ todo = <<>> /\ quiet = Pause /\ sent < MaxMessages
    /\ \E m \in Messages :
         cur' = m /\ todo' = MessageBytes(m)
    /\ unserved' = TRUE /\ stalled' = 0 /\ sent' = sent + 1
    /\ UNCHANGED quiet /\ Receiver(NoByte)

SendByte ==
    /\ todo # <<>> /\ quiet >= ByteGap - 1
    /\ Receiver(Head(todo))
    /\ todo' = Tail(todo) /\ quiet' = 0
    /\ UNCHANGED <<cur, stalled, sent>> /\ Served

HostWaits ==
    /\ \/ todo = <<>> /\ UNCHANGED stalled
       \/ todo # <<>> /\ quiet < ByteGap - 1 /\ UNCHANGED stalled
       \/ /\ todo # <<>> /\ quiet >= ByteGap - 1
          /\ stalled < Stalls /\ stalled' = stalled + 1
    /\ quiet' = IF quiet < Pause THEN quiet + 1 ELSE quiet
    /\ UNCHANGED <<todo, cur, sent>> /\ Served /\ Receiver(NoByte)

Host == BeginMessage \/ SendByte \/ HostWaits

(* The CPU stores into the RAM and reads the DRAM while it is not in reset.   *)
(* The AXI front holds a request until it is acknowledged, also when the CPU  *)
(* that made it is in reset.                                                *)
Cpu ==
    /\ \/ cpu' = NoStore
       \/ cpuRuns' /\ \E w \in CpuWrites : cpu' = [we |-> TRUE, adr |-> w.adr, dat |-> w.dat]
    /\ IF wb.cyc THEN wb' = IF wb_ack_r \/ ~dramRuns' THEN NoReq ELSE wb
       ELSE \/ wb' = NoReq
            \/ cpuRuns' /\ \E a \in CpuReads :
                 wb' = [cyc |-> TRUE, we |-> FALSE, adr |-> DramAddress(a)]

(* The Wishbone front is reset at the edge after the signal falls, the core   *)
(* by the watchdog, an edge later; the AXI front at once, which is why the    *)
(* request in Cpu comes down with the signal.                                *)
DramFront == IF dramRuns THEN Front!WbTick ELSE Front!WbReset

(* Contract of the DRAM core, as in DramWbMemory, with a bound on the time.   *)
Busy == DRAM_WDG # 0
DramCore ==
    /\ taken' = (~Busy /\ (port.accept \/ (taken /\ ~port.ack)))
    /\ cells' = IF port.accept /\ DRAM_WE
                  THEN [cells EXCEPT ![DRAM_ADDRESS] = DRAM_DATA_WRITE] ELSE cells
    /\ since' = IF port.accept \/ port.ack \/ port.ready \/ Busy \/ state_r = "IDLE"
                  THEN 0 ELSE IF since < Latency THEN since + 1 ELSE since
    /\ \E answer \in BOOLEAN :
         LET asked == DRAM_RE' \/ DRAM_WE'
             mayStart == state_r' \in {"READ_START", "UART_WRITE_RMW_START",
                                       "UART_WRITE_START"} /\ DRAM_WDG' = 0
         IN /\ since' = Latency => answer
            /\ port' = [ready |-> answer /\ mayStart,
                        accept |-> answer /\ asked /\ ~taken',
                        ack |-> answer /\ taken',
                        data |-> IF answer /\ taken' THEN cells'[DRAM_ADDRESS']
                                 ELSE Front!ZeroLine]

Stored ==
    stored' = IF boot_in_progress THEN stored \ {boot_rom_addr}
              ELSE IF prog_mode /\ prog_inst_valid THEN stored \ {prog_addr}
              ELSE IF cpu.we THEN stored \cup {cpu.adr} ELSE stored

Tick == LoaderTick /\ Host /\ Cpu /\ DramFront /\ DramCore /\ Stored

Next == Tick
Spec == Init /\ [][Next]_vars /\ WF_vars(Tick)

-----------------------------------------------------------------------------
(* When the SoC comes out of reset the RAM holds what the last message asked  *)
(* for, whatever was loaded before: the program from address 0 on, but for    *)
(* words that the program before it, which is not stopped (secure_soc.sv:125), *)
(* stored over after they had come; or the boot image, without exception.    *)
SocStartsWithWhatWasSent ==
    [][~system_reset_o /\ system_reset_o' =>
         CASE cur.kind = "program" ->
                \A i \in DOMAIN cur.words :
                   i - 1 \in stored' \/ mem'[i - 1] = cur.words[i]
           [] cur.kind \in {"reset", "power on"} -> mem' = BootImage
           [] cur.kind = "dram" -> TRUE]_vars

(* Only the boot copy, the CPU's own stores and the words of the program      *)
(* being sent change the RAM: bytes of a start sequence, a length, 'done' or  *)
(* a DRAM image never get there, and no store of the CPU is redirected.      *)
NoForeignWordsInRam ==
    [][\A a \in DOMAIN mem : mem'[a] # mem[a] =>
         \/ boot_in_progress /\ mem'[a] = BootImage[a]
         \/ cpu.we /\ cpu.adr = a /\ mem'[a] = cpu.dat
         \/ /\ cur.kind = "program" /\ a + 1 \in DOMAIN cur.words
            /\ mem'[a] = cur.words[a + 1]]_vars

(* When the host has been silent for Pause cycles its message has taken       *)
(* effect: the loader was not out of step with the frames.                   *)
MessagesTakeEffect == todo = <<>> /\ quiet = Pause => ~unserved

(* uart_send_by_chunks.py:68 "Send all .hex files from BUILD_DIR over UART.":  *)
(* each of them is loaded before the next is sent.                           *)
EveryImageIsLoaded ==
    todo = <<>> /\ quiet = Pause /\ cur.kind = "program" => ~unserved

InDram(m, i) ==
    LET a == DramAddress((m.adr + (i - 1) * WordLen) % WordMod)
    IN cells[a.line][a.word] = DramWord(m.words[i])

(* When the SoC is reset after a DRAM image every word of it but the last is  *)
(* in the DRAM, at its address: no word came while the front was busy with     *)
(* the word before or with a read.                                          *)
EarlierWordsInDram ==
    ~dram_prog_sys_rst_n => \A i \in 1 .. Len(cur.words) - 1 : InDram(cur, i)

(* uart_send_data_to_dram.py:89 "Done Programming": all words are there.      *)
DramImageComplete ==
    ~dram_prog_sys_rst_n => \A i \in DOMAIN cur.words : InDram(cur, i)
=============================================================================
