---------------------------- MODULE DramAxiMemory ----------------------------
(***************************************************************************)
(* DramControllerAxi between an AXI4 master and a Wishbone memory that       *)
(* acknowledges each access once, at least a cycle after it came up (what    *)
(* DramWbMemory shows of dram_controller_wb.sv).  rq, wq and expected are    *)
(* history variables: the bursts the slave has accepted, and the words as    *)
(* the data it has accepted should leave them.                              *)
(***************************************************************************)
EXTENDS DramControllerAxi, Sequences

CONSTANTS
    Reads,       \* the bursts the master reads
    Writes,      \* the bursts it writes
    Lanes, Bytes,
    Strobes,     \* the write strobes it uses
    InitMemory,  \* what the words hold at first
    Serial       \* the master never offers a write and a read at once

Words == 0..((AddrMod - 1) \div 4)
Data == [Lanes -> Bytes]

(* No WRAP bursts, and none that leaves the memory.                          *)
ASSUME MasterAssumption ==
    /\ Strobes \subseteq SUBSET Lanes
    /\ InitMemory \in [Words -> Data] /\ ZeroData \in Data
    /\ \A r \in Reads \cup Writes :
         /\ r \in [valid : {TRUE}, id : Nat, addr : 0..(AddrMod - 1),
                    len : 0..255, size : 0..2, burst : {"FIXED", "INCR"}]
         /\ r.burst = "INCR" => r.addr + r.len * 2^r.size < AddrMod
    /\ Serial \in BOOLEAN

VARIABLES
    wleft,       \* beats of the offered or accepted write still to be offered
    rq, wq,      \* accepted bursts, with the number of beats done
    memory,      \* behind the Wishbone port
    expected

vars == <<aw, w, ar, bready, rready, wb_ack, wb_dat_r, axiVars,
          wleft, rq, wq, memory, expected>>

Nothing == [valid |-> FALSE]

(* The byte address of a beat, as AXI4 defines it.                           *)
BeatAddr(burst, beat) ==
    IF burst.burst = "INCR" THEN burst.addr + beat * 2^burst.size ELSE burst.addr

Strobed(old, new, strb) == [b \in Lanes |-> IF b \in strb THEN new[b] ELSE old[b]]

Init ==
    /\ AxiInit
    /\ aw = Nothing /\ w = Nothing /\ ar = Nothing
    /\ bready = FALSE /\ rready = FALSE
    /\ wb_ack = FALSE /\ wb_dat_r = ZeroData
    /\ wleft = 0 /\ rq = << >> /\ wq = << >>
    /\ memory = InitMemory /\ expected = InitMemory

(* The master holds an offer until it is taken and has one write and one     *)
(* read under way at most.  bready and rready are looked at with bvalid and   *)
(* rvalid only, and left FALSE otherwise.                                    *)
Master ==
    /\ IF aw.valid /\ ~awready THEN aw' = aw
       ELSE \/ aw' = Nothing
            \/ wq' = << >> /\ wleft = 0 /\ ~w.valid /\ aw' \in Writes
    /\ IF ar.valid /\ ~arready THEN ar' = ar
       ELSE ar' = Nothing \/ (rq' = << >> /\ ar' \in Reads)
    /\ Serial => ~(aw'.valid /\ ar'.valid)
    /\ IF w.valid /\ ~wready THEN w' = w
       ELSE \/ w' = Nothing
            \/ /\ wleft > 0
               /\ w' \in [valid : {TRUE}, data : Data, strb : Strobes]
    /\ wleft' = IF aw'.valid /\ aw' # aw THEN aw'.len + 1
                ELSE IF w'.valid /\ (wready \/ ~w.valid) THEN wleft - 1 ELSE wleft
    /\ bready' \in {FALSE, bvalid'} /\ rready' \in {FALSE, rvalid'}

(* The Wishbone memory: an access that was not acknowledged yet may be.      *)
Memory ==
    LET a == current_addr \div 4
    IN  \/ wb_ack' = FALSE /\ wb_dat_r' = ZeroData /\ UNCHANGED memory
        \/ /\ wb_cyc /\ ~wb_ack
           /\ wb_ack' = TRUE
           /\ wb_dat_r' = IF is_write THEN ZeroData ELSE memory[a]
           /\ memory' = IF is_write
                THEN [memory EXCEPT ![a] = Strobed(@, wb_dat_w, wb_sel)]
                ELSE memory

Accepted(offer) == <<[burst |-> offer, done |-> 0]>>
Advance(q) == <<[q[1] EXCEPT !.done = @ + 1]>>

History ==
    /\ rq' = IF ar.valid /\ arready THEN Accepted(ar)
             ELSE IF ~(rvalid /\ rready) \/ rq = << >> THEN rq
             ELSE IF rlast THEN << >> ELSE Advance(rq)
    /\ wq' = IF aw.valid /\ awready THEN Accepted(aw)
             ELSE IF bvalid /\ bready THEN << >>
             ELSE IF w.valid /\ wready THEN Advance(wq) ELSE wq
    /\ expected' =
         IF w.valid /\ wready
           THEN [expected EXCEPT ![BeatAddr(wq[1].burst, wq[1].done) \div 4] =
                   Strobed(@, w.data, w.strb)]
           ELSE expected

Tick == AxiTick /\ Memory /\ History /\ Master

Next == Tick

(* The clock ticks, the master takes answers and sends the data it owes, and *)
(* the memory acknowledges.                                                  *)
Spec ==
    /\ Init /\ [][Next]_vars
    /\ WF_vars(Tick /\ rready') /\ WF_vars(Tick /\ bready')
    /\ WF_vars(Tick /\ w'.valid) /\ WF_vars(Tick /\ wb_ack') /\ WF_vars(Tick)

-----------------------------------------------------------------------------
(* Every R beat belongs to an accepted read: it has its id, it carries the    *)
(* word at the address AXI4 gives that beat with every write accepted before  *)
(* the read, and rlast marks the len+1st beat and no other.                  *)
ReadBeatsFitTheirBurst ==
    rvalid =>
        /\ rq # << >>
        /\ LET burst == rq[1].burst
           IN  /\ reg_id = burst.id
               /\ reg_rdata = expected[BeatAddr(burst, rq[1].done) \div 4]
               /\ rlast = (rq[1].done = burst.len)

(* A write is answered when all its beats, and no others, have reached the   *)
(* memory at the addresses AXI4 gives them, under their strobes.             *)
AnsweredWritesAreDone ==
    bvalid =>
        /\ wq # << >> /\ reg_id = wq[1].burst.id
        /\ wq[1].done = wq[1].burst.len + 1
        /\ memory = expected

(* Every read address the slave accepts is answered: "Full AXI4 Slave         *)
(* Interface" (dram_controller_axi.sv:15).                                   *)
AcceptedReadsAnswered == (rq # << >>) ~> (rvalid /\ rlast)

(* So is every write address.                                                *)
AcceptedWritesAnswered == (wq # << >>) ~> bvalid
=============================================================================
