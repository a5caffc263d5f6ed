----------------------------- MODULE Ddr3DfiData -----------------------------
(***************************************************************************)
(* The data side of the DFI sequencer (ddr3_dfi_seq.v), the read-enable     *)
(* pipeline of the PHY (ddr3_dfi_phy.sv) and the chip's cells.              *)
(*                                                                         *)
(* Commands and data meet again only by counting cycles: a WRITE's line     *)
(* waits in a fifo whose accept output nobody looks at, shift registers      *)
(* time the data beats of writes and the capture window of reads, and free-  *)
(* running beat counters cut the beats into lines.  Nothing ties a beat to   *)
(* its command; that the beats still line up is what the module is checked   *)
(* for.                                                                     *)
(***************************************************************************)
EXTENDS Ddr3Device, Sequences, FiniteSets

CONSTANTS
    RL,          \* DDR_READ_LATENCY
    PhyRdLat,    \* TPHY_RDLAT of the PHY instance
    FifoDepth,   \* depth of the write fifo
    Data,        \* contents of a line
    Masked,      \* a write payload with every byte masked (inport_wr_i = 0)
    Garbage      \* what the chip stores or returns when beats are missing

ASSUME DataAssumption ==
    /\ WL > 0 /\ RL \in Nat \ {0} /\ PhyRdLat \in Nat
    /\ FifoDepth \in Nat \ {0}
    /\ Masked \notin Data /\ Garbage \notin Data /\ Masked # Garbage
    /\ \A l \in Lines : [l EXCEPT !.row = l.row] = l    \* lines are records

(* The write fifo is deep enough for the WRITEs that burst spacing lets in    *)
(* before the first of them is out (7 <= 12 in the code).                    *)
ASSUME FifoAssumption == WL + BL - 1 <= BL * (FifoDepth - 1)

VARIABLES
    wfifo,        \* u_write_fifo: payloads, oldest first
    wr_en_q,      \* the set bits of the shift register wr_en_q
    dfi_wr_idx_q, \* beat counter of the write data
    wr_beat,      \* dfi_wrdata_q, dfi_wrdata_mask_q and dfi_wrdata_en_q
    rd_en_q,      \* the set bits of the shift register rd_en_q
    rd_pipe,      \* dfi_rddata_en_q followed by the PHY's shift register
    dfi_rd_idx_q, \* beat counter of the read data
    rd_data_q,    \* the last BL beats captured
    rd_valid_q,   \* rddata_valid_o
    cells,        \* the chip: contents of its lines
    dev_wr,       \* the chip: WRITEs waiting for their data, with their age
    dev_rd        \* the chip: READs on their way out, with their age

dataVars == <<wfifo, wr_en_q, dfi_wr_idx_q, wr_beat, rd_en_q, rd_pipe,
              dfi_rd_idx_q, rd_data_q, rd_valid_q, cells, dev_wr, dev_rd>>

NoBeat == [data |-> Garbage, beat |-> BL]
(* Age, in cycles after the command was on the pins, of the first beat.     *)
WrAge == WL
RdAge == RL + 1 + PhyRdLat

Shift(bits) == {i - 1 : i \in bits \ {0}}

(* A fault for the mutants: a burst is loaded one cycle late.                *)
LoadLate(bits, lat) == Shift(bits \cap 0..lat) \cup (lat + 1 .. lat + BL)

(* {{BL ones}, bits[lat:1]}: a burst is loaded above what is still leaving. *)
Load(bits, lat) == Shift(bits \cap 0..lat) \cup (lat .. lat + BL - 1)

WriteBeatDue == 0 \in wr_en_q
ReadBeatDue == 0 \in rd_pipe

DataInit ==
    /\ wfifo = << >> /\ wr_en_q = {} /\ dfi_wr_idx_q = 0 /\ wr_beat = NoBeat
    /\ rd_en_q = {} /\ rd_pipe = {} /\ dfi_rd_idx_q = 0
    /\ rd_data_q = [k \in 1..BL |-> NoBeat] /\ rd_valid_q = FALSE
    /\ dev_wr = {} /\ dev_rd = {}
    /\ cells \in [Lines -> Data]

-----------------------------------------------------------------------------
(* Faults for the mutants: the last beat is counted one too far; the pop      *)
(* comes with the first beat.                                                *)
WriteFifoNeverPops(push, payload) ==
    LET pop == WriteBeatDue /\ dfi_wr_idx_q = BL
        rest == IF pop /\ wfifo # << >> THEN Tail(wfifo) ELSE wfifo
    IN  wfifo' = IF push /\ Len(wfifo) # FifoDepth THEN Append(rest, payload)
                 ELSE rest
WriteFifoPopsFirst(push, payload) ==
    LET pop == WriteBeatDue /\ dfi_wr_idx_q = 0
        rest == IF pop /\ wfifo # << >> THEN Tail(wfifo) ELSE wfifo
    IN  wfifo' = IF push /\ Len(wfifo) # FifoDepth THEN Append(rest, payload)
                 ELSE rest

(* The write fifo pushes an accepted WRITE unless it is full and pops with   *)
(* the last beat of a burst.                                                 *)
WriteFifo(push, payload) ==
    LET pop == WriteBeatDue /\ dfi_wr_idx_q = BL - 1
        rest == IF pop /\ wfifo # << >> THEN Tail(wfifo) ELSE wfifo
    IN  wfifo' = IF push /\ Len(wfifo) # FifoDepth THEN Append(rest, payload)
                 ELSE rest

WriteBeats(push) ==
    /\ wr_en_q' = IF push THEN Load(wr_en_q, WL - 1) ELSE Shift(wr_en_q)
    /\ IF WriteBeatDue
         THEN /\ wr_beat' = [data |-> IF wfifo = << >> THEN Garbage
                                      ELSE Head(wfifo),
                             beat |-> dfi_wr_idx_q]
              /\ dfi_wr_idx_q' = (dfi_wr_idx_q + 1) % BL
         ELSE wr_beat' = NoBeat /\ UNCHANGED dfi_wr_idx_q

(* The beat on the chip's data pins, as the PHY delivers it.                 *)
ReadBus ==
    LET out == {r \in dev_rd : r.age >= RdAge}
    IN  IF Cardinality(out) # 1 THEN NoBeat
        ELSE LET r == CHOOSE r \in out : TRUE
             IN  [data |-> r.data, beat |-> r.age - RdAge]

(* A fault for the mutants: the last beat of a read is counted one too far.  *)
ReadBeatsNeverValid(issue) ==
    /\ rd_en_q' = IF issue THEN Load(rd_en_q, RL - 1) ELSE Shift(rd_en_q)
    /\ rd_pipe' = Shift(rd_pipe) \cup (IF 0 \in rd_en_q THEN {PhyRdLat + 1}
                                       ELSE {})
    /\ rd_valid_q' = (ReadBeatDue /\ dfi_rd_idx_q = BL)
    /\ IF ReadBeatDue
         THEN /\ rd_data_q' = Append(Tail(rd_data_q), ReadBus)
              /\ dfi_rd_idx_q' = (dfi_rd_idx_q + 1) % BL
         ELSE UNCHANGED <<rd_data_q, dfi_rd_idx_q>>

ReadBeats(issue) ==
    /\ rd_en_q' = IF issue THEN Load(rd_en_q, RL - 1) ELSE Shift(rd_en_q)
    /\ rd_pipe' = Shift(rd_pipe) \cup (IF 0 \in rd_en_q THEN {PhyRdLat + 1}
                                       ELSE {})
    /\ rd_valid_q' = (ReadBeatDue /\ dfi_rd_idx_q = BL - 1)
    /\ IF ReadBeatDue
         THEN /\ rd_data_q' = Append(Tail(rd_data_q), ReadBus)
              /\ dfi_rd_idx_q' = (dfi_rd_idx_q + 1) % BL
         ELSE UNCHANGED <<rd_data_q, dfi_rd_idx_q>>

(* The line a READ or WRITE on the pins really gets: the row its bank has    *)
(* open, which is none of Lines if the bank is closed.                       *)
Target == [dfi.line EXCEPT !.row = open_row[dfi.line.bank]]

Older(ops, last) == {[o EXCEPT !.age = @ + 1] : o \in {x \in ops : x.age < last}}

Chip ==
    LET lastWr == WrAge + BL - 1
        done == {w \in dev_wr : w.age = lastWr}
        stored == IF wr_beat.beat = BL - 1 THEN wr_beat.data ELSE Garbage
    IN  /\ dev_wr' = Older(dev_wr, lastWr) \cup
                       (IF dfi.cmd = "WRITE" THEN {[line |-> Target, age |-> 1]}
                        ELSE {})
        /\ dev_rd' = Older(dev_rd, RdAge + BL - 1) \cup
                       (IF dfi.cmd # "READ" THEN {}
                        ELSE {[data |-> IF Target \in Lines THEN cells[Target]
                                        ELSE Garbage, age |-> 1]})
        /\ cells' = [l \in Lines |->
                       IF stored # Masked /\ \E w \in done : w.line = l
                         THEN stored ELSE cells[l]]

(* One clock edge: issued is the command accepted in this cycle, or "NOP",   *)
(* and payload what inport_write_data_i and inport_wr_i hold.                *)
DataTick(issued, payload) ==
    /\ WriteFifo(issued = "WRITE", payload)
    /\ WriteBeats(issued = "WRITE")
    /\ ReadBeats(issued = "READ")
    /\ Chip

(* rst_i clears the sequencer and the PHY, not the chip.                     *)
DataReset ==
    /\ wfifo' = << >> /\ wr_en_q' = {} /\ dfi_wr_idx_q' = 0 /\ wr_beat' = NoBeat
    /\ rd_en_q' = {} /\ rd_pipe' = {} /\ dfi_rd_idx_q' = 0
    /\ rd_data_q' = [k \in 1..BL |-> NoBeat] /\ rd_valid_q' = FALSE
    /\ Chip

(* ram_read_data_w when it is valid: the line the captured beats make up.    *)
Whole == \A k \in 1..BL : rd_data_q[k] = [rd_data_q[1] EXCEPT !.beat = k - 1]
ReadData == IF Whole THEN rd_data_q[1].data ELSE Garbage
=============================================================================
