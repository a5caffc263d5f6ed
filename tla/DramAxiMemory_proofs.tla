------------------------- MODULE DramAxiMemory_proofs -------------------------
(***************************************************************************)
(* Proofs about DramAxiMemory: each beat of a read and each answer of a write *)
(* belongs to an accepted burst, for all bursts of both kinds up to 256 beats, *)
(* all data and strobes, and masters that offer a read and a write at once    *)
(* as well as those that do not (the beats and answers that come are right;  *)
(* that one is missing is what the run dram_axi_both shows).                 *)
(***************************************************************************)
EXTENDS DramAxiMemory, TLAPS

ReadStates == {"READ_REQ_WB", "READ_WAIT_WB", "READ_RESP_AXI"}
OnBus == {"WRITE_REQ_WB", "WRITE_WAIT_WB"}
WriteStates == {"WRITE_WAIT_DATA", "WRITE_RESP_AXI"} \cup OnBus

Offers(S) == S \cup {Nothing}
Queues(S) == {<< >>} \cup {<<[burst |-> b, done |-> n]>> : b \in S, n \in Nat}

TypeInv ==
    /\ current_state \in {"IDLE"} \cup ReadStates \cup WriteStates
    /\ aw \in Offers(Writes) /\ ar \in Offers(Reads)
    /\ w \in Offers([valid : {TRUE}, data : Data, strb : Strobes])
    /\ wb_ack \in BOOLEAN
    /\ rq \in Queues(Reads) /\ wq \in Queues(Writes)
    /\ memory \in [Words -> Data] /\ expected \in [Words -> Data]

(* The registers hold what is left of the burst: beat_count beats are over.   *)
Latched(burst) ==
    /\ reg_id = burst.id /\ reg_len = burst.len
    /\ reg_size = burst.size /\ reg_burst = burst.burst

AtBeat(burst) ==
    /\ Latched(burst)
    /\ beat_count \in 0..reg_len /\ current_addr = BeatAddr(burst, beat_count)

(* The accepted bursts and the machine: a read is under way in the states of  *)
(* a read, a write in those of a write and only there.                       *)
BurstInv ==
    /\ ar.valid => rq = << >>
    /\ current_state \in ReadStates =>
         /\ rq # << >> /\ AtBeat(rq[1].burst) /\ rq[1].done = beat_count
         /\ ~is_write
    /\ current_state \notin WriteStates => wq = << >>
    /\ aw.valid => wq = << >>
    /\ current_state \in WriteStates => wq # << >> /\ is_write
    /\ current_state = "WRITE_WAIT_DATA" =>
         AtBeat(wq[1].burst) /\ wq[1].done = beat_count
    /\ current_state \in OnBus =>
         AtBeat(wq[1].burst) /\ wq[1].done = beat_count + 1
    /\ current_state = "WRITE_RESP_AXI" =>
         Latched(wq[1].burst) /\ wq[1].done = wq[1].burst.len + 1

(* The memory lags behind the accepted data by the beat that is on the bus   *)
(* and not acknowledged.                                                    *)
MemoryInv ==
    /\ wb_ack => current_state \in {"READ_WAIT_WB", "WRITE_WAIT_WB"}
    /\ expected = IF current_state \in OnBus /\ ~wb_ack
                    THEN [memory EXCEPT ![current_addr \div 4] =
                            Strobed(@, wb_dat_w, wb_sel)]
                    ELSE memory
    /\ current_state = "READ_WAIT_WB" /\ wb_ack =>
         wb_dat_r = memory[current_addr \div 4]
    /\ current_state = "READ_RESP_AXI" =>
         reg_rdata = memory[current_addr \div 4]

IInv == TypeInv /\ BurstInv /\ MemoryInv

-----------------------------------------------------------------------------
(* Bursts and their addresses.                                              *)
LEMMA PowerTyped == ASSUME NEW s \in 0..2 PROVE 2^s \in Nat
<1>1. 2^0 = 1 /\ 2^1 = 2 /\ 2^2 = 4
  OBVIOUS
<1>2. s = 0 \/ s = 1 \/ s = 2
  OBVIOUS
<1>3. CASE s = 0
  BY <1>1, <1>3
<1>4. CASE s = 1
  BY <1>1, <1>4
<1>5. CASE s = 2
  BY <1>1, <1>5
<1> QED
  BY <1>2, <1>3, <1>4, <1>5

Bursts == Reads \cup Writes

LEMMA BurstTyped ==
    ASSUME NEW r \in Bursts
    PROVE  /\ r.valid /\ r.id \in Nat /\ r.addr \in 0..(AddrMod - 1)
           /\ r.len \in 0..255 /\ 2^r.size \in Nat
           /\ r.burst \in {"FIXED", "INCR"}
           /\ r.burst = "INCR" => r.addr + r.len * 2^r.size < AddrMod
           /\ r # Nothing
<1>1. /\ r \in [valid : {TRUE}, id : Nat, addr : 0..(AddrMod - 1),
                len : 0..255, size : 0..2, burst : {"FIXED", "INCR"}]
      /\ r.burst = "INCR" => r.addr + r.len * 2^r.size < AddrMod
  BY MasterAssumption DEF Bursts
<1>2. r.valid = TRUE
  BY <1>1
<1>3. r # Nothing
  BY <1>2 DEF Nothing
<1> QED
  BY <1>1, <1>3, PowerTyped

LEMMA Monotone ==
    ASSUME NEW s \in Nat, NEW l \in Nat, NEW b \in 0..l
    PROVE  b * s \in Nat /\ b * s <= l * s /\ (b + 1) * s = b * s + s
<1>1. b * s \in Nat /\ (b + 1) * s = b * s + s
  OBVIOUS
<1>2. l - b \in Nat /\ (l - b) * s >= 0
  OBVIOUS
<1> QED
  BY <1>1, <1>2

(* The address of a beat is in the memory, and the next one is a step away.   *)
LEMMA BeatInMemory ==
    ASSUME NEW r \in Bursts, NEW b \in 0..r.len
    PROVE  /\ BeatAddr(r, b) \in 0..(AddrMod - 1)
           /\ BeatAddr(r, b) \div 4 \in Words
           /\ b < r.len =>
                BeatAddr(r, b + 1) =
                   IF r.burst = "INCR" THEN (BeatAddr(r, b) + 2^r.size) % AddrMod
                   ELSE BeatAddr(r, b)
<1> DEFINE s == 2^r.size
<1>0. /\ r.addr \in 0..(AddrMod - 1) /\ r.len \in 0..255 /\ s \in Nat
      /\ r.burst = "INCR" => r.addr + r.len * s < AddrMod
      /\ AddrMod \in Nat \ {0}
  BY BurstTyped, AddrModAssumption
<1> HIDE DEF s
<1>1. b * s \in Nat /\ b * s <= r.len * s /\ (b + 1) * s = b * s + s
      /\ r.len * s \in Nat
  BY <1>0, Monotone
<1>2. BeatAddr(r, b) \in 0..(AddrMod - 1)
  <2>1. BeatAddr(r, b) = IF r.burst = "INCR" THEN r.addr + b * s ELSE r.addr
    BY DEF BeatAddr, s
  <2> QED
    BY <1>0, <1>1, <2>1
<1>3. BeatAddr(r, b) \div 4 \in Words
  BY <1>0, <1>2 DEF Words
<1>4. ASSUME b < r.len, r.burst = "INCR"
      PROVE  BeatAddr(r, b + 1) = (BeatAddr(r, b) + s) % AddrMod
  <2>1. (b + 1) * s <= r.len * s
    BY <1>0, <1>4, Monotone
  <2>2. BeatAddr(r, b + 1) = BeatAddr(r, b) + s
    BY <1>0, <1>1, <1>4 DEF BeatAddr, s
  <2>3. BeatAddr(r, b + 1) \in 0..(AddrMod - 1)
    BY <1>0, <1>1, <1>4, <2>1 DEF BeatAddr, s
  <2> QED
    BY <1>0, <2>2, <2>3
<1>5. r.burst # "INCR" => BeatAddr(r, b + 1) = BeatAddr(r, b)
  BY DEF BeatAddr
<1> QED
  BY <1>2, <1>3, <1>4, <1>5 DEF s

LEMMA StrobedTyped ==
    ASSUME NEW old \in Data, NEW new \in Data, NEW strb
    PROVE  Strobed(old, new, strb) \in Data
BY DEF Strobed, Data

LEMMA InitInv == Init => IInv
<1> SUFFICES ASSUME Init PROVE IInv
  OBVIOUS
<1> USE DEF Init, AxiInit
<1>1. TypeInv
  <2>1. aw \in Offers(Writes) /\ ar \in Offers(Reads)
        /\ w \in Offers([valid : {TRUE}, data : Data, strb : Strobes])
    BY DEF Offers
  <2>2. rq \in Queues(Reads) /\ wq \in Queues(Writes)
    BY DEF Queues
  <2> QED
    BY <2>1, <2>2, MasterAssumption DEF TypeInv
<1>2. BurstInv
  BY DEF BurstInv, ReadStates, WriteStates, OnBus, Nothing
<1>3. MemoryInv
  BY DEF MemoryInv, OnBus
<1> QED
  BY <1>1, <1>2, <1>3 DEF IInv

(* The queues of one burst.                                                  *)
LEMMA QueueProperty ==
    ASSUME NEW S, NEW q \in Queues(S), q # << >>
    PROVE  /\ q[1].burst \in S /\ q[1].done \in Nat
           /\ Advance(q) \in Queues(S) /\ Advance(q) # << >>
           /\ Advance(q)[1].burst = q[1].burst
           /\ Advance(q)[1].done = q[1].done + 1
<1>1. PICK b \in S, n \in Nat : q = <<[burst |-> b, done |-> n]>>
  BY DEF Queues
<1>2. Advance(q) = <<[burst |-> b, done |-> n + 1]>>
  BY <1>1 DEF Advance
<1>3. Advance(q) \in Queues(S)
  <2>1. n + 1 \in Nat
    BY <1>1
  <2>2. \E c \in S, m \in Nat : Advance(q) = <<[burst |-> c, done |-> m]>>
    BY <1>2, <2>1
  <2> QED
    BY <2>2 DEF Queues
<1> QED
  BY <1>1, <1>2, <1>3

LEMMA AcceptedProperty ==
    ASSUME NEW S, NEW b \in S
    PROVE  /\ Accepted(b) \in Queues(S) /\ Accepted(b) # << >>
           /\ Accepted(b)[1].burst = b /\ Accepted(b)[1].done = 0
<1>1. Accepted(b) = <<[burst |-> b, done |-> 0]>>
  BY DEF Accepted
<1>2. Accepted(b) \in Queues(S)
  BY <1>1 DEF Queues
<1> QED
  BY <1>1, <1>2

(* An offer that is there has the fields of its channel.                     *)
LEMMA OfferProperty ==
    ASSUME TypeInv
    PROVE  /\ aw.valid => aw \in Writes
           /\ ar.valid => ar \in Reads
           /\ w.valid => w.data \in Data
<1>1. aw.valid => aw \in Writes
  BY DEF TypeInv, Offers, Nothing
<1>2. ar.valid => ar \in Reads
  BY DEF TypeInv, Offers, Nothing
<1>3. w.valid => w.data \in Data
  <2>1. CASE w = Nothing
    BY <2>1 DEF Nothing
  <2>2. CASE w \in [valid : {TRUE}, data : Data, strb : Strobes]
    BY <2>2
  <2> QED
    BY <2>1, <2>2 DEF TypeInv, Offers
<1> QED
  BY <1>1, <1>2, <1>3

(* What the history does in each kind of step.                               *)
LEMMA ReadQueueStep ==
    ASSUME IInv, Tick
    PROVE  /\ rq' \in Queues(Reads)
           /\ TakeRead => rq' = Accepted(ar)
           /\ current_state \in ReadStates =>
                rq' = IF ~(rvalid /\ rready) THEN rq
                      ELSE IF rlast THEN << >> ELSE Advance(rq)
           /\ ~ar.valid /\ rq = << >> => rq' = << >>
<1>1. ar.valid => ar \in Reads /\ rq = << >>
  BY OfferProperty DEF IInv, BurstInv
<1>2. current_state \in ReadStates => ~arready /\ rq # << >>
  BY DEF IInv, BurstInv, ReadStates, arready
<1>3. rq \in Queues(Reads) /\ << >> \in Queues(Reads)
  BY DEF IInv, TypeInv, Queues
<1>4. rq' \in Queues(Reads)
  BY <1>1, <1>3, QueueProperty, AcceptedProperty DEF Tick, History
<1>5. TakeRead => ar.valid /\ arready
  BY DEF TakeRead, arready
<1> QED
  BY <1>1, <1>2, <1>4, <1>5 DEF Tick, History

LEMMA WriteQueueStep ==
    ASSUME IInv, Tick
    PROVE  /\ wq' \in Queues(Writes)
           /\ TakeWrite => wq' = Accepted(aw)
           /\ current_state = "WRITE_WAIT_DATA" =>
                wq' = IF w.valid THEN Advance(wq) ELSE wq
           /\ current_state \in OnBus => wq' = wq
           /\ current_state = "WRITE_RESP_AXI" =>
                wq' = IF bready THEN << >> ELSE wq
           /\ current_state \notin WriteStates /\ ~TakeWrite => wq' = << >>
<1>1. aw.valid => aw \in Writes /\ wq = << >>
  BY OfferProperty DEF IInv, BurstInv
<1>2. current_state \in WriteStates => ~awready /\ wq # << >>
  BY DEF IInv, BurstInv, WriteStates, OnBus, awready
<1>3. wq \in Queues(Writes) /\ << >> \in Queues(Writes)
  BY DEF IInv, TypeInv, Queues
<1>4. wready => wq # << >>
  BY <1>2 DEF wready, WriteStates
<1>5. wq' \in Queues(Writes)
  BY <1>1, <1>3, <1>4, QueueProperty, AcceptedProperty DEF Tick, History
<1>6. TakeWrite => aw.valid /\ awready
  BY DEF TakeWrite, awready
<1>7. current_state \notin WriteStates /\ ~TakeWrite =>
        ~(aw.valid /\ awready) /\ wq = << >> /\ ~wready /\ ~bvalid
  <2>1. current_state = "IDLE" /\ aw.valid => TakeWrite
    BY DEF Tick, AxiTick, TakeWrite, TakeRead, Request, ReadAnswered, ReadResponse,
       TakeData, WriteAnswered, WriteResponse, Wait, rvalid, wready, bvalid
  <2> QED
    BY <2>1 DEF awready, wready, bvalid, WriteStates, IInv, BurstInv
<1> QED
  BY <1>2, <1>5, <1>6, <1>7
  DEF Tick, History, wready, bvalid, WriteStates, OnBus

-----------------------------------------------------------------------------
LEMMA OffersStep ==
    ASSUME IInv, Tick
    PROVE  /\ aw' \in Offers(Writes) /\ ar' \in Offers(Reads)
           /\ w' \in Offers([valid : {TRUE}, data : Data, strb : Strobes])
           /\ ar'.valid => rq' = << >>
           /\ aw'.valid => wq' = << >>
<1> USE DEF Tick, Master
<1>1. aw' \in Offers(Writes) /\ ar' \in Offers(Reads)
  BY DEF Offers, IInv, TypeInv
<1>2. w' \in Offers([valid : {TRUE}, data : Data, strb : Strobes])
  BY DEF Offers, IInv, TypeInv
<1>3. ASSUME ar'.valid PROVE rq' = << >>
  <2>1. CASE ar.valid /\ ~arready
    <3>1. rq = << >>
      BY <2>1 DEF IInv, BurstInv
    <3> QED
      BY <2>1, <3>1 DEF History
  <2>2. CASE ~(ar.valid /\ ~arready)
    BY <1>3, <2>2 DEF Nothing
  <2> QED
    BY <2>1, <2>2
<1>4. ASSUME aw'.valid PROVE wq' = << >>
  <2>1. CASE aw.valid /\ ~awready
    <3>1. wq = << >> /\ current_state \notin WriteStates
      BY <2>1 DEF IInv, BurstInv
    <3>2. ~wready /\ ~bvalid
      BY <3>1 DEF wready, bvalid, WriteStates
    <3> QED
      BY <2>1, <3>1, <3>2 DEF History
  <2>2. CASE ~(aw.valid /\ ~awready)
    BY <1>4, <2>2 DEF Nothing
  <2> QED
    BY <2>1, <2>2
<1> QED
  BY <1>1, <1>2, <1>3, <1>4

(* The words stay words: an access is at an address of its burst.            *)
LEMMA ContentsStep ==
    ASSUME IInv, Tick
    PROVE  /\ memory' \in [Words -> Data] /\ expected' \in [Words -> Data]
           /\ wb_ack' \in BOOLEAN
<1>1. wb_ack' \in BOOLEAN
  BY DEF Tick, Memory
<1>2. memory' \in [Words -> Data]
  <2>1. CASE memory' = memory
    BY <2>1 DEF IInv, TypeInv
  <2>2. CASE memory' # memory
    <3>1. /\ wb_cyc /\ ~wb_ack /\ is_write
          /\ memory' = [memory EXCEPT ![current_addr \div 4] =
                          Strobed(@, wb_dat_w, wb_sel)]
      BY <2>2 DEF Tick, Memory
    <3>2. current_state \in OnBus
      BY <3>1 DEF wb_cyc, IInv, BurstInv, ReadStates, OnBus
    <3>3. memory' = expected
      BY <3>1, <3>2 DEF IInv, MemoryInv
    <3> QED
      BY <3>3 DEF IInv, TypeInv
  <2> QED
    BY <2>1, <2>2
<1>3. expected' \in [Words -> Data]
  <2>1. CASE w.valid /\ wready
    <3>1. wq \in Queues(Writes) /\ wq # << >> /\ wq[1].done \in 0..wq[1].burst.len
      BY <2>1 DEF wready, IInv, BurstInv, TypeInv, WriteStates, AtBeat, Latched
    <3>2. wq[1].burst \in Bursts
      BY <3>1, QueueProperty DEF Bursts
    <3>3. BeatAddr(wq[1].burst, wq[1].done) \div 4 \in Words
      BY <3>1, <3>2, BeatInMemory
    <3>4. w.data \in Data
      BY <2>1, OfferProperty DEF IInv
    <3> DEFINE a == BeatAddr(wq[1].burst, wq[1].done) \div 4
    <3>5. expected' = [expected EXCEPT ![a] = Strobed(expected[a], w.data, w.strb)]
      BY <2>1 DEF Tick, History
    <3>6. Strobed(expected[a], w.data, w.strb) \in Data
      BY <3>3, <3>4, StrobedTyped DEF IInv, TypeInv
    <3> QED
      BY <3>3, <3>5, <3>6 DEF IInv, TypeInv
  <2>2. CASE ~(w.valid /\ wready)
    BY <2>2 DEF Tick, History, IInv, TypeInv
  <2> QED
    BY <2>1, <2>2
<1> QED
  BY <1>1, <1>2, <1>3

LEMMA TypeStep == ASSUME IInv, Tick PROVE TypeInv'
<1>1. current_state' \in {"IDLE"} \cup ReadStates \cup WriteStates
  BY DEF Tick, AxiTick, TakeWrite, TakeRead, Request, ReadAnswered, ReadResponse,
     TakeData, WriteAnswered, WriteResponse, Wait, axiVars, IInv, TypeInv,
     ReadStates, WriteStates, OnBus
<1> QED
  BY <1>1, OffersStep, ContentsStep, ReadQueueStep, WriteQueueStep DEF TypeInv

-----------------------------------------------------------------------------
(* The machine follows its burst.                                           *)
LEMMA NextBeatStep ==
    ASSUME NEW r \in Bursts, AtBeat(r), NextBeat, ~rlast,
           UNCHANGED burstRegs
    PROVE  AtBeat(r)' /\ beat_count' = beat_count + 1
<1>1. /\ reg_len = r.len /\ reg_size = r.size /\ reg_burst = r.burst
      /\ beat_count \in 0..r.len /\ beat_count # r.len
      /\ current_addr = BeatAddr(r, beat_count)
  BY DEF AtBeat, Latched, rlast
<1>2. r.len \in 0..255
  BY BurstTyped
<1>3. beat_count' = beat_count + 1 /\ beat_count < r.len
  BY <1>1, <1>2 DEF NextBeat
<1>4. current_addr' = BeatAddr(r, beat_count + 1)
  BY <1>1, <1>3, BeatInMemory DEF NextBeat
<1> QED
  BY <1>1, <1>2, <1>3, <1>4 DEF AtBeat, Latched, burstRegs

LEMMA LatchStep ==
    ASSUME NEW r \in Bursts, NEW write, Latch(r, write)
    PROVE  AtBeat(r)' /\ beat_count' = 0 /\ is_write' = write
<1>1. BeatAddr(r, 0) = r.addr /\ 0 \in 0..r.len
  <2>1. 0 * 2^r.size = 0 /\ r.addr \in Nat /\ r.len \in 0..255
    BY BurstTyped
  <2> QED
    BY <2>1 DEF BeatAddr
<1> QED
  BY <1>1 DEF Latch, AtBeat, Latched

LEMMA BurstStep == ASSUME IInv, Tick PROVE BurstInv'
<1>p. PICK R, W, a, r : R = rq[1].burst /\ W = wq[1].burst /\ a = aw /\ r = ar
  OBVIOUS
<1> USE DEF ReadStates, WriteStates, OnBus
<1>o. /\ ar'.valid => rq' = << >>
      /\ aw'.valid => wq' = << >>
  BY OffersStep
<1>r. current_state \in ReadStates =>
        R \in Bursts /\ rq \in Queues(Reads) /\ rq # << >>
  BY <1>p, QueueProperty DEF IInv, TypeInv, BurstInv, Bursts
<1>w. current_state \in WriteStates =>
        W \in Bursts /\ wq \in Queues(Writes) /\ wq # << >>
  BY <1>p, QueueProperty DEF IInv, TypeInv, BurstInv, Bursts
<1>1. CASE TakeWrite
  <2>1. a \in Bursts /\ a \in Writes
    BY <1>1, <1>p, OfferProperty DEF TakeWrite, IInv, Bursts
  <2>2. /\ wq' = Accepted(a) /\ wq' # << >>
        /\ wq'[1].burst = a /\ wq'[1].done = 0
    BY <1>1, <1>p, <2>1, WriteQueueStep, AcceptedProperty
  <2>3. AtBeat(a)' /\ beat_count' = 0 /\ is_write'
    <3>1. Latch(a, TRUE)
      BY <1>1, <1>p DEF TakeWrite
    <3>2. AtBeat(a)' /\ beat_count' = 0 /\ is_write' = TRUE
      BY <2>1, <3>1, LatchStep
    <3> QED
      BY <3>2
  <2>4. current_state' = "WRITE_WAIT_DATA"
    BY <1>1 DEF TakeWrite
  <2> QED
    BY <1>o, <2>2, <2>3, <2>4 DEF BurstInv, AtBeat, Latched
<1>2. CASE TakeRead
  <2>1. r \in Bursts /\ r \in Reads
    BY <1>2, <1>p, OfferProperty DEF TakeRead, IInv, Bursts
  <2>2. /\ rq' = Accepted(r) /\ rq' # << >>
        /\ rq'[1].burst = r /\ rq'[1].done = 0
    BY <1>2, <1>p, <2>1, ReadQueueStep, AcceptedProperty
  <2>3. AtBeat(r)' /\ beat_count' = 0 /\ ~is_write'
    BY <1>2, <1>p, <2>1, LatchStep DEF TakeRead
  <2>4. current_state' = "READ_REQ_WB" /\ current_state = "IDLE" /\ ~TakeWrite
    BY <1>2 DEF TakeRead, TakeWrite
  <2>5. wq' = << >>
    BY <2>4, WriteQueueStep
  <2> QED
    BY <1>o, <2>2, <2>3, <2>4, <2>5 DEF BurstInv, AtBeat, Latched
<1>3. CASE \/ Request("READ_REQ_WB", "READ_WAIT_WB") \/ ReadAnswered
           \/ Wait /\ current_state \in ReadStates
  <2>1. /\ current_state \in ReadStates /\ current_state' \in ReadStates
        /\ ~(rvalid /\ rready) /\ UNCHANGED <<burstRegs, current_addr, beat_count>>
    BY <1>3 DEF Request, ReadAnswered, Wait, rvalid, wready, bvalid, axiVars
  <2>2. rq' = rq
    BY <2>1, ReadQueueStep
  <2>3. wq' = << >>
    BY <2>1, WriteQueueStep DEF TakeWrite
  <2> QED
    BY <1>o, <2>1, <2>2, <2>3
    DEF BurstInv, IInv, AtBeat, Latched, burstRegs
<1>4. CASE ReadResponse
  <2>1. current_state = "READ_RESP_AXI" /\ UNCHANGED burstRegs
    BY <1>4 DEF ReadResponse, rvalid
  <2>2. wq' = << >>
    BY <2>1, WriteQueueStep DEF TakeWrite
  <2>3. CASE rlast
    BY <1>4, <1>o, <2>2, <2>3 DEF ReadResponse, BurstInv
  <2>4. CASE ~rlast
    <3>1. rq' = Advance(rq)
      BY <1>4, <2>1, <2>4, ReadQueueStep DEF ReadResponse
    <3>2. /\ rq' # << >> /\ rq'[1].burst = R /\ rq'[1].done = beat_count + 1
      BY <1>p, <1>r, <2>1, <3>1, QueueProperty DEF IInv, BurstInv
    <3>3. AtBeat(R)' /\ beat_count' = beat_count + 1
      <4>1. AtBeat(R) /\ NextBeat
        BY <1>p, <1>4, <2>1 DEF IInv, BurstInv, ReadResponse
      <4> QED
        BY <1>r, <2>1, <2>4, <4>1, NextBeatStep
    <3>4. ~is_write' /\ current_state' = "READ_REQ_WB"
      BY <1>4, <2>1, <2>4 DEF ReadResponse, IInv, BurstInv, burstRegs
    <3> QED
      BY <1>o, <2>2, <3>2, <3>3, <3>4 DEF BurstInv, AtBeat, Latched
  <2> QED
    BY <2>3, <2>4
<1>5. CASE TakeData
  <2>1. /\ current_state = "WRITE_WAIT_DATA" /\ w.valid
        /\ current_state' = "WRITE_REQ_WB"
        /\ UNCHANGED <<burstRegs, current_addr, beat_count>>
    BY <1>5 DEF TakeData, wready
  <2>2. wq' = Advance(wq)
    BY <2>1, WriteQueueStep
  <2>3. wq' # << >> /\ wq'[1].burst = W /\ wq'[1].done = beat_count + 1
    BY <1>p, <1>w, <2>1, <2>2, QueueProperty DEF IInv, BurstInv
  <2> QED
    BY <1>o, <1>p, <2>1, <2>3 DEF BurstInv, IInv, AtBeat, Latched, burstRegs
<1>6. CASE \/ Request("WRITE_REQ_WB", "WRITE_WAIT_WB")
           \/ Wait /\ current_state \in WriteStates
  <2>1. /\ current_state \in WriteStates
        /\ UNCHANGED <<burstRegs, current_addr, beat_count>>
        /\ wq' = wq
        /\ \/ current_state' = current_state
           \/ current_state \in OnBus /\ current_state' \in OnBus
    BY <1>6, WriteQueueStep DEF Request, Wait, axiVars, wready, bvalid, rvalid
  <2> QED
    BY <1>o, <2>1 DEF BurstInv, IInv, AtBeat, Latched, burstRegs
<1>7. CASE WriteAnswered
  <2>1. /\ current_state = "WRITE_WAIT_WB" /\ wq' = wq /\ UNCHANGED burstRegs
        /\ AtBeat(W) /\ NextBeat /\ is_write /\ wq # << >>
        /\ wq[1].done = beat_count + 1
    BY <1>p, <1>7, WriteQueueStep DEF WriteAnswered, IInv, BurstInv
  <2>2. CASE rlast
    <3>1. wq[1].done = W.len + 1 /\ Latched(W)'
      BY <2>1, <2>2 DEF rlast, AtBeat, Latched, burstRegs
    <3> QED
      BY <1>7, <1>o, <1>p, <2>1, <2>2, <3>1 DEF WriteAnswered, BurstInv, burstRegs, Latched
  <2>3. CASE ~rlast
    <3>1. AtBeat(W)' /\ beat_count' = beat_count + 1
      BY <1>w, <2>1, <2>3, NextBeatStep
    <3> QED
      BY <1>7, <1>o, <1>p, <2>1, <2>3, <3>1
      DEF WriteAnswered, BurstInv, burstRegs, AtBeat, Latched
  <2> QED
    BY <2>2, <2>3
<1>8. CASE WriteResponse
  <2>1. wq' = << >> /\ current_state' = "IDLE"
    BY <1>8, WriteQueueStep DEF WriteResponse, bvalid
  <2> QED
    BY <1>o, <2>1 DEF BurstInv
<1>9. CASE Wait /\ current_state = "IDLE"
  <2>1. current_state' = "IDLE" /\ wq' = << >>
    BY <1>9, WriteQueueStep DEF Wait, axiVars, TakeWrite
  <2> QED
    BY <1>o, <2>1 DEF BurstInv
<1> QED
  BY <1>1, <1>2, <1>3, <1>4, <1>5, <1>6, <1>7, <1>8, <1>9
  DEF Tick, AxiTick, IInv, TypeInv

-----------------------------------------------------------------------------
(* The memory: data is expected when the front takes it and in the memory    *)
(* when the access is acknowledged.                                         *)
LEMMA MemoryAccess ==
    ASSUME IInv, Tick
    PROVE  \/ ~wb_ack' /\ memory' = memory
           \/ /\ wb_ack' /\ wb_cyc /\ ~wb_ack
              /\ current_state \in OnBus => memory' = expected
              /\ current_state \notin OnBus =>
                   memory' = memory /\ wb_dat_r' = memory[current_addr \div 4]
<1>1. CASE wb_ack' = FALSE /\ UNCHANGED memory
  BY <1>1
<1>2. CASE /\ wb_cyc /\ ~wb_ack
           /\ wb_ack' = TRUE
           /\ wb_dat_r' = IF is_write THEN ZeroData ELSE memory[current_addr \div 4]
           /\ memory' = IF is_write
                THEN [memory EXCEPT ![current_addr \div 4] =
                        Strobed(@, wb_dat_w, wb_sel)]
                ELSE memory
  <2>1. current_state \in OnBus => is_write
    BY DEF OnBus, WriteStates, IInv, BurstInv
  <2>2. current_state \notin OnBus => ~is_write
    BY <1>2 DEF wb_cyc, OnBus, ReadStates, IInv, BurstInv
  <2> QED
    BY <1>2, <2>1, <2>2 DEF IInv, MemoryInv
<1> QED
  BY <1>1, <1>2 DEF Tick, Memory

LEMMA MemoryStep == ASSUME IInv, Tick PROVE MemoryInv'
<1> USE DEF OnBus
<1>e. ~(w.valid /\ wready) => expected' = expected
  BY DEF Tick, History
<1>m. MemoryInv
  BY DEF IInv
<1>1. CASE TakeWrite \/ TakeRead \/ WriteResponse \/ (Wait /\ current_state = "IDLE")
  <2>1. /\ current_state \in {"IDLE", "WRITE_RESP_AXI"}
        /\ current_state' \in {"IDLE", "WRITE_WAIT_DATA", "READ_REQ_WB"}
    BY <1>1 DEF TakeWrite, TakeRead, WriteResponse, bvalid, Wait, axiVars
  <2>2. ~wb_ack' /\ memory' = memory /\ expected' = expected
    BY <2>1, <1>e, MemoryAccess DEF wb_cyc, wready
  <2> QED
    BY <1>m, <2>1, <2>2 DEF MemoryInv
<1>2. CASE \/ Request("READ_REQ_WB", "READ_WAIT_WB")
           \/ Wait /\ current_state = "READ_WAIT_WB"
  <2>1. /\ current_state \in {"READ_REQ_WB", "READ_WAIT_WB"}
        /\ current_state' = "READ_WAIT_WB" /\ current_addr' = current_addr
    BY <1>2 DEF Request, Wait, axiVars
  <2>2. memory' = memory /\ expected' = expected
        /\ (wb_ack' => wb_dat_r' = memory[current_addr \div 4])
    BY <2>1, <1>e, MemoryAccess DEF wready
  <2> QED
    BY <1>m, <2>1, <2>2 DEF MemoryInv
<1>3. CASE ReadAnswered
  <2>1. /\ current_state = "READ_WAIT_WB" /\ wb_ack
        /\ current_state' = "READ_RESP_AXI" /\ current_addr' = current_addr
        /\ reg_rdata' = wb_dat_r
    BY <1>3 DEF ReadAnswered
  <2>2. ~wb_ack' /\ memory' = memory /\ expected' = expected
    BY <2>1, <1>e, MemoryAccess DEF wready
  <2> QED
    BY <1>m, <2>1, <2>2 DEF MemoryInv
<1>4. CASE ReadResponse
  <2>1. current_state = "READ_RESP_AXI" /\ current_state' \in {"IDLE", "READ_REQ_WB"}
    BY <1>4 DEF ReadResponse, rvalid
  <2>2. ~wb_ack' /\ memory' = memory /\ expected' = expected
    BY <2>1, <1>e, MemoryAccess DEF wready, wb_cyc
  <2> QED
    BY <1>m, <2>1, <2>2 DEF MemoryInv
<1>5. CASE Wait /\ current_state \in {"READ_RESP_AXI", "WRITE_WAIT_DATA",
                                      "WRITE_RESP_AXI"}
  <2>1. /\ current_state' = current_state /\ current_addr' = current_addr
        /\ reg_rdata' = reg_rdata /\ ~(w.valid /\ wready)
    BY <1>5 DEF Wait, axiVars, dataRegs, wready, rvalid, bvalid
  <2>2. ~wb_ack' /\ memory' = memory /\ expected' = expected
    BY <1>5, <2>1, <1>e, MemoryAccess DEF wb_cyc
  <2> QED
    BY <1>5, <1>m, <2>1, <2>2 DEF MemoryInv
<1>6. CASE TakeData
  <2>1. /\ current_state = "WRITE_WAIT_DATA" /\ w.valid /\ wready
        /\ current_state' = "WRITE_REQ_WB" /\ current_addr' = current_addr
        /\ wb_dat_w' = w.data /\ wb_sel' = w.strb
    BY <1>6 DEF TakeData, wready
  <2>2. ~wb_ack' /\ memory' = memory
    BY <2>1, MemoryAccess DEF wb_cyc
  <2>3. BeatAddr(wq[1].burst, wq[1].done) = current_addr
    BY <2>1 DEF IInv, BurstInv, AtBeat
  <2>4. expected' = [expected EXCEPT ![current_addr \div 4] =
                       Strobed(@, w.data, w.strb)]
    BY <2>1, <2>3 DEF Tick, History
  <2> QED
    BY <1>m, <2>1, <2>2, <2>4 DEF MemoryInv
<1>7. CASE \/ Request("WRITE_REQ_WB", "WRITE_WAIT_WB")
           \/ Wait /\ current_state = "WRITE_WAIT_WB"
  <2>1. /\ current_state \in {"WRITE_REQ_WB", "WRITE_WAIT_WB"} /\ ~wb_ack
        /\ current_state' = "WRITE_WAIT_WB" /\ current_addr' = current_addr
        /\ wb_dat_w' = wb_dat_w /\ wb_sel' = wb_sel
    BY <1>7, <1>m
    DEF Request, Wait, axiVars, dataRegs, MemoryInv, rvalid, wready, bvalid
  <2>2. expected' = expected
    BY <2>1, <1>e DEF wready
  <2>3. CASE wb_ack'
    BY <1>m, <2>1, <2>2, <2>3, MemoryAccess DEF MemoryInv
  <2>4. CASE ~wb_ack'
    BY <1>m, <2>1, <2>2, <2>4, MemoryAccess DEF MemoryInv
  <2> QED
    BY <2>3, <2>4
<1>8. CASE WriteAnswered
  <2>1. /\ current_state = "WRITE_WAIT_WB" /\ wb_ack
        /\ current_state' \in {"WRITE_RESP_AXI", "WRITE_WAIT_DATA"}
    BY <1>8 DEF WriteAnswered
  <2>2. ~wb_ack' /\ memory' = memory /\ expected' = expected
    BY <2>1, <1>e, MemoryAccess DEF wready
  <2> QED
    BY <1>m, <2>1, <2>2 DEF MemoryInv
<1>9. Wait => current_state \in {"IDLE", "READ_WAIT_WB", "WRITE_WAIT_WB",
                "READ_RESP_AXI", "WRITE_WAIT_DATA", "WRITE_RESP_AXI"}
  BY DEF Wait, rvalid, wready, bvalid
<1> QED
  BY <1>1, <1>2, <1>3, <1>4, <1>5, <1>6, <1>7, <1>8, <1>9 DEF Tick, AxiTick

LEMMA StepInv == IInv /\ [Next]_vars => IInv'
<1>1. ASSUME IInv, Tick PROVE IInv'
  BY <1>1, TypeStep, BurstStep, MemoryStep DEF IInv
<1>2. ASSUME IInv, UNCHANGED vars PROVE IInv'
  <2> USE <1>2 DEF IInv, vars, axiVars, burstRegs, dataRegs
  <2>1. TypeInv'
    BY DEF TypeInv
  <2>2. BurstInv'
    BY DEF BurstInv, AtBeat, Latched
  <2>3. MemoryInv'
    BY DEF MemoryInv
  <2> QED
    BY <2>1, <2>2, <2>3
<1> QED
  BY <1>1, <1>2 DEF Next

(* For all bursts that stay in the memory, all data and strobes, and whatever *)
(* the master offers at once: each R beat has the id of its burst, the word   *)
(* AXI4 gives that beat, and rlast on the last beat only.                    *)
THEOREM ReadBeatsCorrect == Spec => []ReadBeatsFitTheirBurst
<1>1. IInv => ReadBeatsFitTheirBurst
  <2> SUFFICES ASSUME IInv, rvalid PROVE ReadBeatsFitTheirBurst
    BY DEF ReadBeatsFitTheirBurst
  <2>1. /\ rq # << >> /\ AtBeat(rq[1].burst) /\ rq[1].done = beat_count
        /\ memory = expected /\ reg_rdata = memory[current_addr \div 4]
    BY DEF rvalid, IInv, BurstInv, MemoryInv, ReadStates, OnBus
  <2> QED
    BY <2>1 DEF ReadBeatsFitTheirBurst, AtBeat, Latched, rlast
<1> QED
  BY InitInv, StepInv, <1>1, PTL DEF Spec

(* For the same: a write is answered with its id, after exactly its beats,    *)
(* when all accepted data is in the memory.                                  *)
THEOREM WriteAnswersCorrect == Spec => []AnsweredWritesAreDone
<1>1. IInv => AnsweredWritesAreDone
  BY DEF AnsweredWritesAreDone, bvalid, IInv, BurstInv, MemoryInv, WriteStates,
     OnBus, Latched
<1> QED
  BY InitInv, StepInv, <1>1, PTL DEF Spec

-----------------------------------------------------------------------------
(* A master that never offers both addresses at once never loses a read.     *)
ReadsUnderWay == rq # << >> => current_state \in ReadStates

SerialInv == ~(aw.valid /\ ar.valid) /\ ReadsUnderWay

LEMMA SerialStep ==
    ASSUME Serial, IInv, SerialInv, Tick PROVE SerialInv'
<1>1. ~(aw'.valid /\ ar'.valid)
  BY DEF Tick, Master
<1>2. CASE current_state \in ReadStates
  <2>1. current_state' \in ReadStates \/ (ReadResponse /\ rlast)
    BY <1>2
    DEF Tick, AxiTick, TakeWrite, TakeRead, Request, ReadAnswered, ReadResponse,
        TakeData, WriteAnswered, WriteResponse, Wait, axiVars, ReadStates,
        rvalid, wready, bvalid
  <2>2. ReadResponse /\ rlast => rq' = << >>
    BY <1>2, ReadQueueStep DEF ReadResponse
  <2> QED
    BY <1>1, <2>1, <2>2 DEF SerialInv, ReadsUnderWay
<1>3. CASE current_state \notin ReadStates /\ ~ar.valid
  <2>1. rq = << >>
    BY <1>3 DEF SerialInv, ReadsUnderWay
  <2>2. rq' = << >>
    BY <1>3, <2>1, ReadQueueStep
  <2> QED
    BY <1>1, <2>2 DEF SerialInv, ReadsUnderWay
<1>4. CASE current_state \notin ReadStates /\ ar.valid
  <2>1. ~aw.valid /\ rq = << >>
    BY <1>4 DEF SerialInv, IInv, BurstInv
  <2>2. CASE TakeRead
    BY <1>1, <2>2 DEF TakeRead, ReadStates, SerialInv, ReadsUnderWay
  <2>3. CASE ~TakeRead
    <3>1. current_state # "IDLE"
      BY <1>4, <2>1, <2>3
      DEF Tick, AxiTick, TakeWrite, TakeRead, Request, ReadAnswered, ReadResponse,
          TakeData, WriteAnswered, WriteResponse, Wait, rvalid, wready, bvalid
    <3>2. rq' = << >>
      BY <2>1, <3>1 DEF Tick, History, arready
    <3> QED
      BY <1>1, <3>2 DEF SerialInv, ReadsUnderWay
  <2> QED
    BY <2>2, <2>3
<1> QED
  BY <1>2, <1>3, <1>4

(* For all bursts and data, and a master that does not offer a read and a     *)
(* write in one cycle: an accepted read keeps the machine until its last beat *)
(* has been taken.  This is the safety half of AcceptedReadsAnswered; without *)
(* the premise the run dram_axi_both shows a read that is forgotten.         *)
THEOREM NoReadForgotten == ASSUME Serial PROVE Spec => []ReadsUnderWay
<1>1. Init => SerialInv
  BY DEF Init, SerialInv, ReadsUnderWay, Nothing
<1>2. IInv /\ SerialInv /\ [Next]_vars => SerialInv'
  <2>1. ASSUME SerialInv, UNCHANGED vars PROVE SerialInv'
    BY <2>1 DEF SerialInv, ReadsUnderWay, vars, axiVars
  <2> QED
    BY <2>1, SerialStep DEF Next
<1>3. SerialInv => ReadsUnderWay
  BY DEF SerialInv
<1> QED
  BY InitInv, StepInv, <1>1, <1>2, <1>3, PTL DEF Spec
=============================================================================
