------------------------ MODULE Ddr3DataPath_proofs ------------------------
(***************************************************************************)
(* Proofs about Ddr3DataPath: beats and commands, which only meet by         *)
(* counting cycles, never lose each other, and the data path implements the  *)
(* line memory, for all sets of lines and data and all timing parameters.    *)
(***************************************************************************)
EXTENDS Ddr3DataPath, FiniteSetTheorems, TLAPS

(* The age at which the chip has the last beat of a write, or puts the last  *)
(* beat of a read on its pins; ages count from the cycle the command is on   *)
(* the pins.                                                                 *)
LastWr == WrAge + BL - 1
LastRd == RdAge + BL - 1

Payloads == Data \cup {Masked}
Writes == [line : Lines, data : Payloads, age : 0..LastWr]
Reads == [data : Data, age : 0..LastRd]

-----------------------------------------------------------------------------
(* The writes under way, oldest first: ws[i] is the i-th of n writes that    *)
(* are accepted and not yet in the cells.                                    *)

(* Writes are accepted BL cycles apart: no other command is accepted before  *)
(* the last of them is done, and a further write only when the delay counter *)
(* says that BL cycles have passed.                                          *)
BurstsApart(n, ws) ==
    \A i, j \in 1..n : i < j => ws[i].age - ws[j].age >= BL * (j - i)

WritesApart(n, ws) ==
    /\ BurstsApart(n, ws)
    /\ \A i \in 1..n : last_cmd_q = "WRITE" /\ delay_q + ws[i].age >= NonSeq

(* The chip knows the lines of the writes, but for the one on the pins.      *)
WritesAtChip(n, ws) ==
    /\ \A w \in dev_wr : \E i \in 1..n :
         ws[i].age >= 1 /\ w = [line |-> ws[i].line, age |-> ws[i].age]
    /\ \A i \in 1..n : ws[i].age >= 1 =>
         [line |-> ws[i].line, age |-> ws[i].age] \in dev_wr
    /\ dfi.cmd = "WRITE" <=> \E i \in 1..n : ws[i].age = 0
    /\ \A i \in 1..n : ws[i].age = 0 => dfi.line = ws[i].line

(* The fifo knows their data, but for the one whose last beat is out.        *)
Finishing(n, ws) == IF n > 0 /\ ws[1].age = LastWr THEN 1 ELSE 0

WritesInFifo(n, ws) ==
    /\ wfifo \in Seq(Payloads) /\ Len(wfifo) = n - Finishing(n, ws)
    /\ \A i \in 1..Len(wfifo) : wfifo[i] = ws[i + Finishing(n, ws)].data

(* The shift register and the beat counter know when their beats are due.    *)
WriteBeatsTimed(n, ws) ==
    /\ wr_en_q = {k \in 0..LastWr - 1 : \E i \in 1..n :
                    WL - 1 <= k + ws[i].age /\ k + ws[i].age <= LastWr - 1}
    /\ \A i \in 1..n : WL <= ws[i].age =>
         wr_beat = [data |-> ws[i].data, beat |-> ws[i].age - WL]
    /\ (\A i \in 1..n : ws[i].age < WL) => wr_beat = NoBeat
    /\ \A i \in 1..n : WL <= ws[i].age /\ ws[i].age < LastWr =>
         dfi_wr_idx_q = ws[i].age - WL + 1
    /\ (\A i \in 1..n : ws[i].age < WL \/ ws[i].age = LastWr) =>
         dfi_wr_idx_q = 0

(* mem is what the cells hold once all writes under way are done.            *)
Changes(w, l) == w.line = l /\ w.data # Masked

WritesToMemory(n, ws) ==
    \A l \in Lines :
        \/ /\ mem[l] = cells[l]
           /\ \A i \in 1..n : ~Changes(ws[i], l)
        \/ \E i \in 1..n :
             /\ Changes(ws[i], l) /\ mem[l] = ws[i].data
             /\ \A j \in 1..n : j > i => ~Changes(ws[j], l)

WriteInv(n, ws) ==
    /\ WritesApart(n, ws) /\ WritesAtChip(n, ws) /\ WritesInFifo(n, ws)
    /\ WriteBeatsTimed(n, ws) /\ WritesToMemory(n, ws)

-----------------------------------------------------------------------------
(* The reads under way, oldest first: rs[i] is the i-th of n reads that are   *)
(* accepted and not yet answered.                                            *)
ReadsApart(n, rs) ==
    /\ \A i, j \in 1..n : i < j => rs[i].age - rs[j].age >= BL
    /\ \A i \in 1..n : \/ rs[i].age >= NonSeq
                       \/ last_cmd_q = "READ" /\ delay_q + rs[i].age >= NonSeq

ReadsAtChip(n, rs) ==
    /\ \A r \in dev_rd : \E i \in 1..n : rs[i].age >= 1 /\ r = rs[i]
    /\ \A i \in 1..n : rs[i].age >= 1 => rs[i] \in dev_rd
    /\ dfi.cmd = "READ" <=> \E i \in 1..n : rs[i].age = 0
    /\ \A i \in 1..n : rs[i].age = 0 => cells[dfi.line] = rs[i].data

ReadsOwed(n, rs) ==
    /\ due \in Seq(Data) /\ Len(due) = n
    /\ \A i \in 1..n : due[i] = rs[i].data

ReadBeatsTimed(n, rs) ==
    /\ rd_en_q = {k \in 0..RL + BL - 2 : \E i \in 1..n :
                    RL - 1 <= k + rs[i].age /\ k + rs[i].age <= RL + BL - 2}
    /\ rd_pipe = {k \in 0..PhyRdLat + 1 : \E i \in 1..n :
                    RdAge <= k + rs[i].age /\ k + rs[i].age <= LastRd}
    /\ \A i \in 1..n : RdAge <= rs[i].age => dfi_rd_idx_q = rs[i].age - RdAge
    /\ (\A i \in 1..n : rs[i].age < RdAge) => dfi_rd_idx_q = 0

(* The beats of a read that have been captured are the last ones captured.   *)
ReadBeatsCaptured(n, rs) ==
    /\ Len(rd_data_q) = BL
    /\ \A i \in 1..n : RdAge < rs[i].age =>
         \A k \in 0..BL - 1 : k < rs[i].age - RdAge =>
            rd_data_q[BL - (rs[i].age - RdAge) + 1 + k] =
               [data |-> rs[i].data, beat |-> k]

ReadInv(n, rs) ==
    /\ ReadsApart(n, rs) /\ ReadsAtChip(n, rs) /\ ReadsOwed(n, rs)
    /\ ReadBeatsTimed(n, rs) /\ ReadBeatsCaptured(n, rs)

-----------------------------------------------------------------------------
(* A READ or WRITE on the pins finds its row.                                *)
TypeInv ==
    /\ SeqTypeOK
    /\ dfi.cmd \in {"READ", "WRITE"} =>
         open_row[dfi.line.bank] = dfi.line.row
    /\ mem \in [Lines -> Data] /\ cells \in [Lines -> Data]
    /\ rd_data_q \in Seq([data : Payloads \cup {Garbage}, beat : 0..BL])

IInv ==
    /\ TypeInv
    /\ \E n \in Nat : \E ws \in [1..n -> Writes] : WriteInv(n, ws)
    /\ \E n \in Nat : \E rs \in [1..n -> Reads] : ReadInv(n, rs)

-----------------------------------------------------------------------------
(* The parameters are numbers of the expected size.                          *)
LEMMA Parameters ==
    /\ WL \in Nat /\ WL >= 1 /\ BL \in Nat /\ BL >= 1 /\ RL \in Nat /\ RL >= 1
    /\ PhyRdLat \in Nat /\ FifoDepth \in Nat /\ FifoDepth >= 1
    /\ NonSeq \in Nat /\ SeqGap \in Nat
    /\ SeqGap + BL = NonSeq + 1 /\ SeqGap # 0
    /\ LastWr \in Nat /\ LastWr = WL + BL - 1 /\ LastWr < NonSeq
    /\ RdAge \in Nat /\ RdAge = RL + 1 + PhyRdLat
    /\ LastRd \in Nat /\ LastRd = RdAge + BL - 1
    /\ WrAge = WL
BY TimingAssumption, DataAssumption
DEF NonSeq, SeqGap, LastWr, WrAge, LastRd, RdAge

LEMMA BurstLengths ==
    ASSUME NEW k \in Int PROVE BL * (k + 1) = BL * k + BL
BY Parameters

(* What the sequencer does with a command: issued is what it takes.          *)
LEMMA CommandTaken ==
    ASSUME SeqTypeOK, NEW cmd \in Commands, NEW line \in Lines,
           SeqTick(cmd, line),
           NEW issued, issued = IF Accept(cmd) THEN cmd ELSE "NOP"
    PROVE  /\ issued \in Commands /\ delay_q \in Nat /\ delay_q' \in Nat
           /\ issued = "NOP" =>
                /\ last_cmd_q' = last_cmd_q /\ dfi' = NopCommand
                /\ delay_q' = IF delay_q = 0 THEN 0 ELSE delay_q - 1
           /\ issued # "NOP" =>
                /\ last_cmd_q' = issued /\ dfi' = [cmd |-> issued, line |-> line]
                /\ \/ delay_q = 0
                   \/ /\ issued \in {"READ", "WRITE"}
                      /\ last_cmd_q = issued /\ delay_q = SeqGap
           /\ issued \in {"READ", "WRITE"} => delay_q' = NonSeq
           /\ SeqTypeOK'
<1>1. NextDelay(cmd) \in 0..63
  BY TimingAssumption
  DEF NextDelay, DelayAfter, SeqTypeOK, NonSeq, EarlyAccept, Commands
<1>2. delay_q \in Nat /\ delay_q' \in Nat /\ issued \in Commands
  BY <1>1 DEF SeqTick, SeqTypeOK, Commands
<1>3. issued = "NOP" => delay_q' = IF delay_q = 0 THEN 0 ELSE delay_q - 1
  BY <1>2 DEF SeqTick, NextDelay, Accept, EarlyAccept, DelayAfter
<1>4. issued \in {"READ", "WRITE"} => delay_q' = NonSeq
  BY <1>2 DEF SeqTick, NextDelay, Accept, EarlyAccept, DelayAfter
<1>5. SeqTypeOK'
  BY <1>1 DEF SeqTick, SeqTypeOK, DfiCommands
<1> QED
  BY <1>2, <1>3, <1>4, <1>5 DEF SeqTick, Accept, EarlyAccept, SeqTypeOK

(* No command but a WRITE is taken while writes are under way, and that only *)
(* once the last of them is BL - 1 cycles old.                               *)
LEMMA NextWrite ==
    ASSUME SeqTypeOK, NEW cmd \in Commands, NEW line \in Lines,
           SeqTick(cmd, line),
           NEW issued, issued = IF Accept(cmd) THEN cmd ELSE "NOP",
           issued # "NOP",
           NEW n \in Nat, NEW ws \in [1..n -> Writes], WritesApart(n, ws)
    PROVE  \A i \in 1..n : issued = "WRITE" /\ ws[i].age + 1 >= BL
<1> SUFFICES ASSUME NEW i \in 1..n
             PROVE  issued = "WRITE" /\ ws[i].age + 1 >= BL
  OBVIOUS
<1>1. ws[i].age \in 0..LastWr
  BY DEF Writes
<1>2. last_cmd_q = "WRITE" /\ delay_q + ws[i].age >= NonSeq
  BY DEF WritesApart
<1>3. delay_q # 0
  BY <1>1, <1>2, Parameters
<1> QED
  BY <1>1, <1>2, <1>3, Parameters, CommandTaken

(* Only the oldest write can have its last beat out, and the beats of two     *)
(* writes do not meet.                                                       *)
LEMMA WritesSpread ==
    ASSUME NEW n \in Nat, NEW ws \in [1..n -> Writes], BurstsApart(n, ws)
    PROVE  /\ \A i, j \in 1..n : i < j => ws[i].age >= ws[j].age + BL
           /\ \A i \in 1..n : ws[i].age = LastWr => i = 1
           /\ \A i \in 1..n : ws[i].age \in 0..LastWr
           /\ \A i, j \in 1..n : ws[i].age >= WL /\ ws[j].age >= WL => i = j
<1>1. \A i \in 1..n : ws[i].age \in 0..LastWr
  BY DEF Writes
<1>2. ASSUME NEW i \in 1..n, NEW j \in 1..n, i < j
      PROVE  ws[i].age >= ws[j].age + BL
  <2>1. ws[i].age - ws[j].age >= BL * (j - i)
    BY <1>2 DEF BurstsApart
  <2>2. BL * (j - i) >= BL
    <3>1. PICK k \in Nat : j - i = k + 1
      BY <1>2
    <3>2. BL * k \in Nat
      BY Parameters
    <3> QED
      BY <3>1, <3>2, BurstLengths, Parameters
  <2>3. BL * (j - i) \in Int
    BY Parameters
  <2>4. ws[i].age \in Int /\ ws[j].age \in Int /\ BL \in Int
    BY <1>1, Parameters
  <2>5. \A a, b, c, d \in Int : a - b >= c /\ c >= d => a >= b + d
    OBVIOUS
  <2> QED
    BY <2>1, <2>2, <2>3, <2>4, <2>5
<1>3. ASSUME NEW i \in 1..n, ws[i].age = LastWr PROVE i = 1
  BY <1>1, <1>2, <1>3, Parameters
<1>4. ASSUME NEW i \in 1..n, NEW j \in 1..n,
             ws[i].age >= WL, ws[j].age >= WL, i < j
      PROVE  FALSE
  BY <1>1, <1>2, <1>4, Parameters
<1> QED
  BY <1>1, <1>2, <1>3, <1>4

(* Shift registers and beat counters one cycle on.                           *)
LEMMA ShiftIs ==
    ASSUME NEW bits \in SUBSET Nat, NEW k \in Nat
    PROVE  k \in Shift(bits) <=> k + 1 \in bits
<1>1. k \in Shift(bits) => k + 1 \in bits
  <2> SUFFICES ASSUME NEW i \in bits \ {0}, k = i - 1 PROVE k + 1 \in bits
    BY DEF Shift
  <2>1. k + 1 = i
    OBVIOUS
  <2> QED
    BY <2>1
<1>2. k + 1 \in bits => k \in Shift(bits)
  <2> SUFFICES ASSUME k + 1 \in bits PROVE k \in Shift(bits)
    OBVIOUS
  <2>1. k + 1 \in bits \ {0} /\ k = (k + 1) - 1
    OBVIOUS
  <2> QED
    BY <2>1 DEF Shift
<1> QED
  BY <1>1, <1>2

LEMMA ShiftType ==
    ASSUME NEW bits \in SUBSET Nat PROVE Shift(bits) \subseteq Nat
BY DEF Shift

LEMMA BeatCount ==
    ASSUME NEW b \in 0..BL - 1
    PROVE  (b + 1) % BL = IF b = BL - 1 THEN 0 ELSE b + 1
BY Parameters

(* The queue one cycle on: the writes that are not finished are one cycle     *)
(* older, and a WRITE that was taken is behind them.                         *)
Advanced(n, ws, push, line, payload, m, vs) ==
    LET f == Finishing(n, ws)
    IN  /\ m = n - f + (IF push THEN 1 ELSE 0)
        /\ \A i \in 1..n - f :
             /\ vs[i].line = ws[i + f].line /\ vs[i].data = ws[i + f].data
             /\ vs[i].age = ws[i + f].age + 1
        /\ push => vs[m] = [line |-> line, data |-> payload, age |-> 0]

LEMMA FinishingFacts ==
    ASSUME NEW n \in Nat, NEW ws \in [1..n -> Writes], BurstsApart(n, ws),
           NEW f, f = Finishing(n, ws)
    PROVE  /\ f \in {0, 1} /\ f <= n /\ n - f \in Nat
           /\ \A i \in 1..n - f : i + f \in 1..n /\ ws[i + f].age \in 0..LastWr - 1
           /\ \A i \in 1..n : ws[i].age = LastWr <=> (i = 1 /\ f = 1)
<1>1. f \in {0, 1} /\ f <= n /\ n - f \in Nat
  BY DEF Finishing
<1>2. ASSUME NEW i \in 1..n
      PROVE  ws[i].age = LastWr <=> (i = 1 /\ f = 1)
  BY WritesSpread DEF Finishing
<1>3. ASSUME NEW i \in 1..n - f
      PROVE  i + f \in 1..n /\ ws[i + f].age \in 0..LastWr - 1
  <2>1. i + f \in 1..n /\ (i + f = 1 => f = 0)
    BY <1>1
  <2>2. ws[i + f].age # LastWr /\ ws[i + f].age \in 0..LastWr
    BY <1>2, <2>1, WritesSpread
  <2> QED
    BY <2>1, <2>2, Parameters
<1> QED
  BY <1>1, <1>2, <1>3

LEMMA AdvancedExists ==
    ASSUME NEW n \in Nat, NEW ws \in [1..n -> Writes], BurstsApart(n, ws),
           NEW push \in BOOLEAN, NEW line \in Lines, NEW payload \in Payloads
    PROVE  \E m \in Nat : \E vs \in [1..m -> Writes] :
              Advanced(n, ws, push, line, payload, m, vs)
<1>1. PICK f : f = Finishing(n, ws)
  OBVIOUS
<1>2. /\ f \in {0, 1} /\ n - f \in Nat
      /\ \A i \in 1..n - f : i + f \in 1..n /\ ws[i + f].age \in 0..LastWr - 1
  BY <1>1, FinishingFacts
<1>3. PICK m \in Nat : m = n - f + (IF push THEN 1 ELSE 0)
  BY <1>2
<1> DEFINE W(i) == IF i <= n - f
                     THEN [line |-> ws[i + f].line, data |-> ws[i + f].data,
                           age |-> ws[i + f].age + 1]
                     ELSE [line |-> line, data |-> payload, age |-> 0]
<1>4. ASSUME NEW i \in 1..m PROVE W(i) \in Writes
  <2>1. CASE i <= n - f
    <3>0. i \in 1..n - f
      BY <1>2, <2>1
    <3>1. i + f \in 1..n /\ ws[i + f].age \in 0..LastWr - 1
      BY <1>2, <3>0
    <3>2. ws[i + f].age + 1 \in 0..LastWr
      BY <3>1, Parameters
    <3> QED
      BY <2>1, <3>1, <3>2 DEF Writes
  <2>2. CASE ~(i <= n - f)
    BY <2>2, Parameters DEF Writes
  <2> QED
    BY <2>1, <2>2
<1>5. PICK vs : vs = [i \in 1..m |-> W(i)]
  OBVIOUS
<1>6. vs \in [1..m -> Writes]
  BY <1>4, <1>5
<1>7. \A i \in 1..m : vs[i] = W(i)
  BY <1>5
<1>8. Advanced(n, ws, push, line, payload, m, vs)
  <2>1. ASSUME NEW i \in 1..n - f
        PROVE  /\ vs[i].line = ws[i + f].line /\ vs[i].data = ws[i + f].data
               /\ vs[i].age = ws[i + f].age + 1
    <3>1. i \in 1..m /\ i <= n - f
      BY <1>2, <1>3
    <3>2. vs[i] = [line |-> ws[i + f].line, data |-> ws[i + f].data,
                   age |-> ws[i + f].age + 1]
      BY <1>7, <3>1
    <3> QED
      BY <3>2
  <2>2. ASSUME push PROVE vs[m] = [line |-> line, data |-> payload, age |-> 0]
    <3>1. m \in 1..m /\ ~(m <= n - f)
      BY <1>2, <1>3, <2>2
    <3> QED
      BY <1>7, <3>1
  <2> QED
    BY <1>1, <1>3, <2>1, <2>2 DEF Advanced
<1> QED
  BY <1>6, <1>8

(* The write whose beats are on their way is the oldest one not finished, and *)
(* it is the head of the fifo.                                               *)
LEMMA WriteDue ==
    ASSUME NEW n \in Nat, NEW ws \in [1..n -> Writes], WriteInv(n, ws),
           NEW f, f = Finishing(n, ws)
    PROVE  /\ WriteBeatDue <=> (n - f >= 1 /\ ws[1 + f].age >= WL - 1)
           /\ WriteBeatDue => /\ dfi_wr_idx_q = ws[1 + f].age - WL + 1
                              /\ Len(wfifo) >= 1 /\ wfifo[1] = ws[1 + f].data
           /\ \A i \in 1..n :
                WL - 1 <= ws[i].age /\ ws[i].age < LastWr => i = 1 + f
<1>1. /\ f \in {0, 1} /\ f <= n /\ n - f \in Nat
      /\ \A i \in 1..n : ws[i].age = LastWr <=> (i = 1 /\ f = 1)
      /\ \A i \in 1..n : ws[i].age \in 0..LastWr
      /\ \A i \in 1..n : ws[i].age \in Int
      /\ \A i, j \in 1..n : i < j => ws[i].age >= ws[j].age + BL
  <2>1. BurstsApart(n, ws)
    BY DEF WriteInv, WritesApart
  <2>2. /\ \A i \in 1..n : ws[i].age \in 0..LastWr
        /\ \A i, j \in 1..n : i < j => ws[i].age >= ws[j].age + BL
    BY <2>1, WritesSpread
  <2>3. \A i \in 1..n : ws[i].age \in Int
    BY <2>2, Parameters
  <2>4. /\ f \in {0, 1} /\ f <= n /\ n - f \in Nat
        /\ \A i \in 1..n : ws[i].age = LastWr <=> (i = 1 /\ f = 1)
    BY <2>1, FinishingFacts
  <2> QED
    BY <2>2, <2>3, <2>4
<1>2. ASSUME NEW i \in 1..n, WL - 1 <= ws[i].age, ws[i].age < LastWr
      PROVE  i = 1 + f
  <2> SUFFICES ASSUME i # 1 + f PROVE FALSE
    OBVIOUS
  <2>1. 1 + f \in 1..n /\ 1 + f < i
    BY <1>1, <1>2, Parameters
  <2>2. ws[1 + f].age >= ws[i].age + BL
    BY <1>1, <2>1
  <2>3. ws[1 + f].age = LastWr
    <3>1. ws[1 + f].age \in 0..LastWr /\ ws[1 + f].age \in Int /\ ws[i].age \in Int
      BY <1>1, <2>1
    <3>2. PICK a \in Int : a = ws[1 + f].age
      BY <3>1
    <3>3. PICK b \in Int : b = ws[i].age
      BY <3>1
    <3>4. a \in 0..LastWr /\ WL - 1 <= b /\ a >= b + BL
      BY <1>2, <2>2, <3>1, <3>2, <3>3
    <3>5. a = LastWr
      BY <3>4, Parameters
    <3> QED
      BY <3>2, <3>5
  <2> QED
    BY <1>1, <2>1, <2>3
<1>3. n - f >= 1 => 1 + f \in 1..n /\ ws[1 + f].age < LastWr
  <2> SUFFICES ASSUME n - f >= 1
               PROVE  1 + f \in 1..n /\ ws[1 + f].age < LastWr
    OBVIOUS
  <2>1. 1 + f \in 1..n /\ ~(1 + f = 1 /\ f = 1)
    BY <1>1
  <2>2. ws[1 + f].age # LastWr /\ ws[1 + f].age \in 0..LastWr
    BY <1>1, <2>1
  <2> QED
    BY <2>1, <2>2, Parameters
<1>4. WriteBeatDue <=> \E i \in 1..n : WL - 1 <= ws[i].age /\ ws[i].age < LastWr
  <2>1. 0 \in 0..LastWr - 1 /\ LastWr \in Int
    BY Parameters
  <2>2. WriteBeatDue <=> \E i \in 1..n :
           WL - 1 <= 0 + ws[i].age /\ 0 + ws[i].age <= LastWr - 1
    BY <2>1 DEF WriteInv, WriteBeatsTimed, WriteBeatDue
  <2>3. \A i \in 1..n : /\ 0 + ws[i].age = ws[i].age
                        /\ ws[i].age <= LastWr - 1 <=> ws[i].age < LastWr
    BY <1>1, <2>1
  <2> QED
    BY <2>2, <2>3
<1>5. WriteBeatDue <=> (n - f >= 1 /\ ws[1 + f].age >= WL - 1)
  <2>1. ASSUME WriteBeatDue PROVE n - f >= 1 /\ ws[1 + f].age >= WL - 1
    <3>1. PICK i \in 1..n : WL - 1 <= ws[i].age /\ ws[i].age < LastWr
      BY <1>4, <2>1
    <3>2. i = 1 + f
      BY <1>2, <3>1
    <3> QED
      BY <1>1, <3>1, <3>2, Parameters
  <2>2. ASSUME n - f >= 1, ws[1 + f].age >= WL - 1 PROVE WriteBeatDue
    BY <1>1, <1>3, <1>4, <2>2, Parameters
  <2> QED
    BY <2>1, <2>2
<1>6. ASSUME WriteBeatDue
      PROVE  /\ dfi_wr_idx_q = ws[1 + f].age - WL + 1
             /\ Len(wfifo) >= 1 /\ wfifo[1] = ws[1 + f].data
  <2>1. n - f >= 1 /\ ws[1 + f].age >= WL - 1 /\ 1 + f \in 1..n
    BY <1>3, <1>5, <1>6
  <2>2. Len(wfifo) >= 1 /\ wfifo[1] = ws[1 + f].data
    BY <1>1, <2>1 DEF WriteInv, WritesInFifo
  <2>3. ws[1 + f].age \in Int /\ WL \in Int
    BY <1>1, <2>1, Parameters
  <2>4. ASSUME ws[1 + f].age >= WL
        PROVE  dfi_wr_idx_q = ws[1 + f].age - WL + 1
    BY <1>3, <2>1, <2>4 DEF WriteInv, WriteBeatsTimed
  <2>5. ASSUME ws[1 + f].age < WL
        PROVE  dfi_wr_idx_q = ws[1 + f].age - WL + 1
    <3>1. ws[1 + f].age = WL - 1
      BY <2>1, <2>3, <2>5
    <3>2. ASSUME NEW i \in 1..n PROVE ws[i].age < WL \/ ws[i].age = LastWr
      BY <1>1, <1>2, <2>1, <2>5, Parameters
    <3>3. dfi_wr_idx_q = 0
      BY <3>2 DEF WriteInv, WriteBeatsTimed
    <3> QED
      BY <3>1, <3>3, Parameters
  <2>6. ws[1 + f].age >= WL \/ ws[1 + f].age < WL
    BY <2>3
  <2> QED
    BY <2>2, <2>4, <2>5, <2>6
<1> QED
  BY <1>1, <1>2, <1>5, <1>6, Parameters

(* So few writes fit into the time that the fifo takes.                      *)
LEMMA BurstsMonotone ==
    ASSUME NEW a \in Int, NEW b \in Int, BL * a < BL * b PROVE a < b
<1> SUFFICES ASSUME a >= b PROVE FALSE
  OBVIOUS
<1>1. PICK k \in Nat : a = b + k
  OBVIOUS
<1>2. BL * a = BL * b + BL * k /\ BL * k >= 0
  BY <1>1, Parameters
<1>3. BL * a \in Int /\ BL * b \in Int /\ BL * k \in Int
  BY Parameters
<1> QED
  BY <1>2, <1>3

LEMMA FifoRoom ==
    ASSUME NEW n \in Nat, NEW ws \in [1..n -> Writes], WriteInv(n, ws)
    PROVE  Len(wfifo) < FifoDepth
<1>1. PICK f : f = Finishing(n, ws)
  OBVIOUS
<1>2. /\ f \in {0, 1} /\ n - f \in Nat /\ Len(wfifo) = n - f
      /\ \A i \in 1..n : ws[i].age \in 0..LastWr
      /\ \A i \in 1..n - f : i + f \in 1..n /\ ws[i + f].age \in 0..LastWr - 1
  BY <1>1, FinishingFacts, WritesSpread DEF WriteInv, WritesApart, WritesInFifo
<1>3. CASE n - f = 0
  BY <1>2, <1>3, Parameters
<1>4. CASE n - f >= 1
  <2>1. /\ 1 + f \in 1..n /\ n \in 1..n
        /\ ws[1 + f].age \in 0..LastWr - 1 /\ ws[n].age \in 0..LastWr
        /\ n - (1 + f) \in Int
    BY <1>2, <1>4
  <2>2. BL * (n - (1 + f)) <= LastWr - 1
    <3>1. CASE n = 1 + f
      <4>1. BL * (n - (1 + f)) = 0
        BY <3>1, <2>1, Parameters
      <4> QED
        BY <2>1, <4>1, Parameters
    <3>2. CASE 1 + f < n
      <4>1. ws[1 + f].age - ws[n].age >= BL * (n - (1 + f))
        BY <2>1, <3>2 DEF WriteInv, WritesApart, BurstsApart
      <4>2. BL * (n - (1 + f)) \in Int
        BY <2>1, Parameters
      <4>3. \A a, b, c, d \in Int : /\ a \in 0..d - 1 /\ b \in 0..d /\ a - b >= c
                                    => c <= d - 1
        OBVIOUS
      <4> QED
        BY <2>1, <4>1, <4>2, <4>3, Parameters
    <3> QED
      BY <2>1, <3>1, <3>2, <1>2
  <2>3. BL * (n - (1 + f)) < BL * (FifoDepth - 1)
    <3>1. BL * (n - (1 + f)) \in Int /\ BL * (FifoDepth - 1) \in Int
      BY <2>1, Parameters
    <3> QED
      BY <2>2, <3>1, FifoAssumption, Parameters
  <2>4. n - (1 + f) < FifoDepth - 1
    <3>1. FifoDepth - 1 \in Int
      BY Parameters
    <3> QED
      BY <2>1, <2>3, <3>1, BurstsMonotone
  <2> QED
    BY <1>2, <2>4, Parameters
<1> QED
  BY <1>2, <1>3, <1>4

(* A READ or WRITE on the pins gets the line it is for.                      *)
LEMMA TargetIsLine ==
    ASSUME TypeInv, dfi.cmd \in {"READ", "WRITE"}
    PROVE  dfi.line \in Lines /\ Target = dfi.line
<1>1. dfi.line \in Lines
  BY DEF TypeInv, SeqTypeOK, DfiCommands, NopCommand
<1>2. Target = [dfi.line EXCEPT !.row = dfi.line.row]
  BY DEF TypeInv, Target
<1> QED
  BY <1>1, <1>2, DataAssumption

(* The chip stores the data of a write with its last beat, in the right line. *)
LEMMA CellsNext ==
    ASSUME NEW n \in Nat, NEW ws \in [1..n -> Writes], WriteInv(n, ws), Chip,
           NEW f, f = Finishing(n, ws)
    PROVE  \A l \in Lines :
              cells'[l] = IF f = 1 /\ Changes(ws[1], l) THEN ws[1].data
                          ELSE cells[l]
<1> SUFFICES ASSUME NEW l \in Lines
             PROVE  cells'[l] = IF f = 1 /\ Changes(ws[1], l) THEN ws[1].data
                                ELSE cells[l]
  OBVIOUS
<1>g. /\ f \in {0, 1} /\ f <= n
      /\ \A i \in 1..n : ws[i].age = LastWr <=> (i = 1 /\ f = 1)
  BY FinishingFacts DEF WriteInv, WritesApart
<1>w. WritesAtChip(n, ws) /\ WriteBeatsTimed(n, ws)
  BY DEF WriteInv
<1> DEFINE done == {w \in dev_wr : w.age = LastWr}
           stored == IF wr_beat.beat = BL - 1 THEN wr_beat.data ELSE Garbage
<1>1. cells'[l] = IF stored # Masked /\ \E w \in done : w.line = l
                    THEN stored ELSE cells[l]
  BY DEF Chip, LastWr
<1>2. CASE f = 1
  <2>1. 1 \in 1..n /\ ws[1].age = LastWr /\ ws[1].age >= 1
    BY <1>g, <1>2, Parameters
  <2>2. wr_beat = [data |-> ws[1].data, beat |-> ws[1].age - WL]
    BY <1>w, <2>1, Parameters DEF WriteBeatsTimed
  <2>3. stored = ws[1].data
    BY <2>1, <2>2, Parameters
  <2>4. (\E w \in done : w.line = l) <=> ws[1].line = l
    <3>1. [line |-> ws[1].line, age |-> ws[1].age] \in dev_wr
      BY <1>w, <2>1 DEF WritesAtChip
    <3>2. [line |-> ws[1].line, age |-> ws[1].age] \in done
      BY <2>1, <3>1
    <3>3. ASSUME NEW w \in done PROVE w.line = ws[1].line
      <4>1. PICK i \in 1..n : w = [line |-> ws[i].line, age |-> ws[i].age]
        BY <1>w DEF WritesAtChip
      <4>2. ws[i].age = LastWr
        BY <4>1
      <4> QED
        BY <1>g, <4>1, <4>2
    <3> QED
      BY <3>2, <3>3
  <2> HIDE DEF done, stored
  <2> QED
    BY <1>1, <1>2, <2>3, <2>4 DEF Changes
<1>3. CASE f = 0
  <2>1. \A w \in done : FALSE
    <3> SUFFICES ASSUME NEW w \in done PROVE FALSE
      OBVIOUS
    <3>1. PICK i \in 1..n : w = [line |-> ws[i].line, age |-> ws[i].age]
      BY <1>w DEF WritesAtChip
    <3>2. ws[i].age = LastWr
      BY <3>1
    <3> QED
      BY <1>g, <1>3, <3>2
  <2> HIDE DEF done, stored
  <2> QED
    BY <1>1, <1>3, <2>1
<1> QED
  BY <1>g, <1>2, <1>3

(* A clock edge moves the queue of writes on by one cycle.                    *)
LEMMA WriteStep ==
    ASSUME TypeInv, NEW n \in Nat, NEW ws \in [1..n -> Writes], WriteInv(n, ws),
           NEW cmd \in Commands, NEW line \in Lines, NEW payload \in Payloads,
           Tick(cmd, line, payload)
    PROVE  \E m \in Nat : \E vs \in [1..m -> Writes] : WriteInv(m, vs)'
<1>i. PICK issued : issued = IF Accept(cmd) THEN cmd ELSE "NOP"
  OBVIOUS
<1>t. /\ Offered(cmd, line) /\ SeqTick(cmd, line) /\ DeviceTick
      /\ DataTick(issued, payload) /\ History(issued, line, payload)
  BY <1>i DEF Tick
<1>c. /\ issued \in Commands /\ delay_q \in Nat /\ delay_q' \in Nat
      /\ issued = "NOP" =>
           /\ last_cmd_q' = last_cmd_q /\ dfi' = NopCommand
           /\ delay_q' = IF delay_q = 0 THEN 0 ELSE delay_q - 1
      /\ issued # "NOP" =>
           /\ last_cmd_q' = issued /\ dfi' = [cmd |-> issued, line |-> line]
      /\ issued \in {"READ", "WRITE"} => delay_q' = NonSeq
  BY <1>i, <1>t, CommandTaken DEF TypeInv
<1>w. /\ WritesApart(n, ws) /\ WritesAtChip(n, ws) /\ WritesInFifo(n, ws)
      /\ WriteBeatsTimed(n, ws) /\ WritesToMemory(n, ws)
  BY DEF WriteInv
<1>p. issued # "NOP" => \A i \in 1..n : issued = "WRITE" /\ ws[i].age + 1 >= BL
  <2> SUFFICES ASSUME issued # "NOP"
               PROVE  \A i \in 1..n : issued = "WRITE" /\ ws[i].age + 1 >= BL
    OBVIOUS
  <2>1. SeqTypeOK
    BY DEF TypeInv
  <2> QED
    BY <1>i, <1>t, <1>w, <2>1, NextWrite
<1>f. PICK f : f = Finishing(n, ws)
  OBVIOUS
<1>g. /\ f \in {0, 1} /\ f <= n /\ n - f \in Nat
      /\ \A i \in 1..n - f : i + f \in 1..n /\ ws[i + f].age \in 0..LastWr - 1
      /\ \A i \in 1..n : ws[i].age = LastWr <=> (i = 1 /\ f = 1)
  BY <1>f, <1>w, FinishingFacts DEF WritesApart
<1>e. PICK m \in Nat : \E vs \in [1..m -> Writes] :
        Advanced(n, ws, issued = "WRITE", line, payload, m, vs)
  BY <1>w, AdvancedExists DEF WritesApart
<1>v. PICK vs \in [1..m -> Writes] :
        Advanced(n, ws, issued = "WRITE", line, payload, m, vs)
  BY <1>e
<1>o. /\ m = n - f + (IF issued = "WRITE" THEN 1 ELSE 0)
      /\ \A i \in 1..n - f :
           /\ vs[i].line = ws[i + f].line /\ vs[i].data = ws[i + f].data
           /\ vs[i].age = ws[i + f].age + 1
      /\ issued = "WRITE" =>
           vs[m] = [line |-> line, data |-> payload, age |-> 0]
  BY <1>f, <1>v DEF Advanced
<1>d. /\ \A i \in 1..m : i \in 1..n - f \/ (issued = "WRITE" /\ i = m)
      /\ \A i \in 1..n - f : i \in 1..m
      /\ issued = "WRITE" => m \in 1..m /\ m = n - f + 1
  BY <1>g, <1>o
<1>a. /\ \A i \in 1..m : vs[i].age \in 0..LastWr
      /\ \A i \in 1..n : ws[i].age \in 0..LastWr
  BY DEF Writes
<1>z. /\ \A i \in 1..n : ws[i].age \in Int
      /\ \A i \in 1..m : vs[i].age \in Int
  BY <1>a, Parameters
<1>0. BurstsApart(m, vs)
  <2>1. ASSUME NEW i \in 1..m, NEW j \in 1..m, i < j
        PROVE  vs[i].age - vs[j].age >= BL * (j - i)
    <3>1. CASE j \in 1..n - f
      <4>1. i \in 1..n - f /\ i + f < j + f /\ (j + f) - (i + f) = j - i
        BY <1>g, <2>1, <3>1
      <4>2. ws[i + f].age - ws[j + f].age >= BL * ((j + f) - (i + f))
        BY <1>g, <1>w, <3>1, <4>1 DEF WritesApart, BurstsApart
      <4>3. /\ ws[i + f].age \in Int /\ ws[j + f].age \in Int
            /\ vs[i].age = ws[i + f].age + 1 /\ vs[j].age = ws[j + f].age + 1
        BY <1>g, <1>o, <1>z, <3>1, <4>1
      <4>4. \A a, b \in Int : (a + 1) - (b + 1) = a - b
        OBVIOUS
      <4> QED
        BY <4>1, <4>2, <4>3, <4>4
    <3>2. CASE issued = "WRITE" /\ j = m
      <4>1. PICK k \in Nat : k = n - f - i /\ k + 1 = j - i /\ i \in 1..n - f
        BY <1>g, <1>d, <2>1, <3>2
      <4>2. ws[i + f].age >= BL * k + ws[n].age
        <5>1. i + f \in 1..n /\ n \in 1..n /\ n - (i + f) = k
          BY <1>g, <4>1
        <5>2. CASE i + f = n
          <6>1. BL * k = 0
            BY <5>1, <5>2, Parameters
          <6> QED
            BY <1>z, <5>1, <5>2, <6>1
        <5>3. CASE i + f < n
          <6>1. ws[i + f].age - ws[n].age >= BL * k
            BY <1>w, <5>1, <5>3 DEF WritesApart, BurstsApart
          <6>2. ws[i + f].age \in Int /\ ws[n].age \in Int /\ BL * k \in Int
            BY <1>a, <5>1, Parameters
          <6>3. \A a, b, c \in Int : a - b >= c => a >= c + b
            OBVIOUS
          <6> QED
            BY <6>1, <6>2, <6>3
        <5> QED
          BY <5>1, <5>2, <5>3
      <4>3. /\ ws[n].age + 1 >= BL /\ ws[n].age \in Int
            /\ ws[i + f].age \in Int /\ BL * k \in Int /\ BL \in Int
        BY <1>a, <1>g, <1>p, <3>2, <4>1, Parameters
      <4>4. vs[i].age = ws[i + f].age + 1 /\ vs[j].age = 0
        BY <1>o, <3>2, <4>1
      <4>5. \A a, b, c, d \in Int :
               a >= c + b /\ b + 1 >= d => (a + 1) - 0 >= c + d
        OBVIOUS
      <4>6. BL * (j - i) = BL * k + BL
        BY <4>1, BurstLengths
      <4> QED
        BY <4>2, <4>3, <4>4, <4>5, <4>6
    <3> QED
      BY <1>d, <2>1, <3>1, <3>2
  <2> QED
    BY <2>1 DEF BurstsApart
<1>1. WritesApart(m, vs)'
  <2>2. ASSUME NEW i \in 1..m
        PROVE  last_cmd_q' = "WRITE" /\ delay_q' + vs[i].age >= NonSeq
    <3>1. CASE i \in 1..n - f
      <4>1. /\ i + f \in 1..n /\ ws[i + f].age \in 0..LastWr - 1
            /\ vs[i].age = ws[i + f].age + 1
        BY <1>g, <1>o, <3>1
      <4>2. last_cmd_q = "WRITE" /\ delay_q + ws[i + f].age >= NonSeq
        BY <1>w, <4>1 DEF WritesApart
      <4>3. last_cmd_q' = "WRITE"
        BY <1>c, <1>p, <4>1, <4>2
      <4>4. CASE issued = "NOP"
        BY <1>c, <4>1, <4>2, <4>4, Parameters
      <4>5. CASE issued # "NOP"
        BY <1>c, <1>p, <4>1, <4>5, Parameters
      <4> QED
        BY <4>3, <4>4, <4>5
    <3>2. CASE issued = "WRITE" /\ i = m
      BY <1>c, <1>o, <3>2, Parameters
    <3> QED
      BY <1>d, <3>1, <3>2
  <2> QED
    BY <1>0, <2>2 DEF WritesApart, BurstsApart
<1>2. WritesAtChip(m, vs)'
  <2>c. dev_wr' = Older(dev_wr, LastWr) \cup
                    (IF dfi.cmd = "WRITE" THEN {[line |-> Target, age |-> 1]}
                     ELSE {})
    BY <1>t DEF DataTick, Chip, LastWr
  <2>w. /\ \A w \in dev_wr : \E i \in 1..n :
             ws[i].age >= 1 /\ w = [line |-> ws[i].line, age |-> ws[i].age]
        /\ \A i \in 1..n : ws[i].age >= 1 =>
             [line |-> ws[i].line, age |-> ws[i].age] \in dev_wr
        /\ dfi.cmd = "WRITE" <=> \E i \in 1..n : ws[i].age = 0
        /\ \A i \in 1..n : ws[i].age = 0 => dfi.line = ws[i].line
    BY <1>w DEF WritesAtChip
  <2>s. \A i \in 1..n : ws[i].age # LastWr =>
           /\ i - f \in 1..n - f /\ i - f \in 1..m
           /\ vs[i - f].line = ws[i].line /\ vs[i - f].age = ws[i].age + 1
    <3> SUFFICES ASSUME NEW i \in 1..n, ws[i].age # LastWr
                 PROVE  /\ i - f \in 1..n - f /\ i - f \in 1..m
                        /\ vs[i - f].line = ws[i].line
                        /\ vs[i - f].age = ws[i].age + 1
      OBVIOUS
    <3>1. i - f \in 1..n - f /\ (i - f) + f = i
      BY <1>g
    <3> QED
      BY <1>d, <1>o, <3>1
  <2>1. ASSUME NEW w \in dev_wr'
        PROVE  \E i \in 1..m :
                 vs[i].age >= 1 /\ w = [line |-> vs[i].line, age |-> vs[i].age]
    <3>1. CASE w \in Older(dev_wr, LastWr)
      <4>1. PICK x \in dev_wr : x.age < LastWr /\ w = [x EXCEPT !.age = @ + 1]
        BY <3>1 DEF Older
      <4>2. PICK i \in 1..n :
              ws[i].age >= 1 /\ x = [line |-> ws[i].line, age |-> ws[i].age]
        BY <2>w
      <4>3. w = [line |-> ws[i].line, age |-> ws[i].age + 1]
        BY <4>1, <4>2
      <4>4. x.age = ws[i].age
        BY <4>2
      <4>5. ws[i].age < LastWr /\ ws[i].age \in Int /\ ws[i].age >= 1
        BY <1>z, <4>1, <4>2, <4>4
      <4>6. ws[i].age # LastWr /\ ws[i].age + 1 >= 1
        BY <4>5, Parameters
      <4> QED
        BY <2>s, <4>3, <4>6
    <3>2. CASE dfi.cmd = "WRITE" /\ w = [line |-> Target, age |-> 1]
      <4>1. PICK i \in 1..n : ws[i].age = 0 /\ dfi.line = ws[i].line
        BY <2>w, <3>2
      <4>2. Target = ws[i].line
        BY <3>2, <4>1, TargetIsLine
      <4>3. /\ i - f \in 1..m /\ vs[i - f].line = ws[i].line
            /\ vs[i - f].age = 1
        BY <2>s, <4>1, Parameters
      <4> QED
        BY <3>2, <4>2, <4>3
    <3> QED
      BY <2>c, <2>1, <3>1, <3>2
  <2>2. ASSUME NEW i \in 1..m, vs[i].age >= 1
        PROVE  [line |-> vs[i].line, age |-> vs[i].age] \in dev_wr'
    <3>1. i \in 1..n - f
      BY <1>d, <1>o, <2>2
    <3>2. /\ i + f \in 1..n /\ ws[i + f].age \in 0..LastWr - 1
          /\ vs[i].line = ws[i + f].line /\ vs[i].age = ws[i + f].age + 1
      BY <1>g, <1>o, <3>1
    <3>3. CASE ws[i + f].age = 0
      <4>1. dfi.cmd = "WRITE" /\ dfi.line = ws[i + f].line
        BY <2>w, <3>2, <3>3
      <4>2. Target = vs[i].line /\ vs[i].age = 1
        BY <3>2, <3>3, <4>1, TargetIsLine
      <4> QED
        BY <2>c, <4>1, <4>2
    <3>4. CASE ws[i + f].age >= 1
      <4>1. PICK x : x = [line |-> ws[i + f].line, age |-> ws[i + f].age]
        OBVIOUS
      <4>2. x \in dev_wr /\ x.age < LastWr
        BY <2>w, <3>2, <3>4, <4>1, Parameters
      <4>3. [x EXCEPT !.age = @ + 1] =
              [line |-> vs[i].line, age |-> vs[i].age]
        BY <3>2, <4>1
      <4> QED
        BY <2>c, <4>2, <4>3 DEF Older
    <3> QED
      BY <3>2, <3>3, <3>4, Parameters
  <2>3. dfi'.cmd = "WRITE" <=> issued = "WRITE"
    BY <1>c DEF NopCommand
  <2>4. \A i \in 1..m : vs[i].age = 0 <=> (issued = "WRITE" /\ i = m)
    <3> SUFFICES ASSUME NEW i \in 1..m
                 PROVE  vs[i].age = 0 <=> (issued = "WRITE" /\ i = m)
      OBVIOUS
    <3>1. CASE i \in 1..n - f
      <4>1. i + f \in 1..n /\ vs[i].age = ws[i + f].age + 1
        BY <1>g, <1>o, <3>1
      <4>2. ws[i + f].age \in Nat
        BY <1>a, <4>1, Parameters
      <4>3. ~(issued = "WRITE" /\ i = m)
        BY <1>g, <1>d, <3>1
      <4> QED
        BY <4>1, <4>2, <4>3
    <3>2. CASE issued = "WRITE" /\ i = m
      BY <1>o, <3>2
    <3> QED
      BY <1>d, <3>1, <3>2
  <2>5. \A i \in 1..m : vs[i].age = 0 => dfi'.line = vs[i].line
    BY <1>c, <1>o, <2>4
  <2>6. dfi'.cmd = "WRITE" <=> \E i \in 1..m : vs[i].age = 0
    BY <1>d, <2>3, <2>4
  <2> QED
    BY <2>1, <2>2, <2>5, <2>6 DEF WritesAtChip
<1>r. /\ WriteBeatDue <=> (n - f >= 1 /\ ws[1 + f].age >= WL - 1)
      /\ WriteBeatDue => /\ dfi_wr_idx_q = ws[1 + f].age - WL + 1
                         /\ Len(wfifo) >= 1 /\ wfifo[1] = ws[1 + f].data
      /\ \A i \in 1..n :
           WL - 1 <= ws[i].age /\ ws[i].age < LastWr => i = 1 + f
  BY <1>f, WriteDue
<1>h. PICK g : g = Finishing(m, vs)
  OBVIOUS
<1>k. /\ g \in {0, 1}
      /\ g = 1 <=> (n - f >= 1 /\ ws[1 + f].age = LastWr - 1)
      /\ g = 1 => vs[1].age = LastWr /\ m >= 1
      /\ g = 0 => \A i \in 1..m : vs[i].age # LastWr
  <2>1. /\ g \in {0, 1} /\ g <= m
        /\ \A i \in 1..m : vs[i].age = LastWr <=> (i = 1 /\ g = 1)
    BY <1>0, <1>h, FinishingFacts
  <2>2. g = 1 <=> m >= 1 /\ vs[1].age = LastWr
    BY <1>h DEF Finishing
  <2>3. ASSUME n - f >= 1
        PROVE  /\ m >= 1 /\ vs[1].age = ws[1 + f].age + 1
               /\ ws[1 + f].age \in Int
    <3>1. 1 \in 1..n - f
      BY <1>g, <2>3
    <3>2. 1 \in 1..m
      BY <1>d, <3>1
    <3> QED
      BY <1>g, <1>o, <1>z, <3>1, <3>2
  <2>4. ASSUME ~(n - f >= 1), m >= 1 PROVE vs[1].age = 0
    <3>1. issued = "WRITE" /\ m = 1
      BY <1>g, <1>o, <2>4
    <3> QED
      BY <1>o, <3>1
  <2>5. g = 1 <=> (n - f >= 1 /\ ws[1 + f].age = LastWr - 1)
    <3>1. CASE n - f >= 1
      BY <2>2, <2>3, <3>1, Parameters
    <3>2. CASE ~(n - f >= 1)
      BY <2>2, <2>4, <3>2, Parameters
    <3> QED
      BY <3>1, <3>2
  <2> QED
    BY <2>1, <2>2, <2>5
<1>3. WritesInFifo(m, vs)'
  <2>1. wfifo \in Seq(Payloads) /\ Len(wfifo) = n - f /\ Len(wfifo) < FifoDepth
    BY <1>f, <1>w, FifoRoom DEF WritesInFifo
  <2>2. \A i \in 1..n - f : wfifo[i] = ws[i + f].data
    BY <1>f, <1>w DEF WritesInFifo
  <2>3. (WriteBeatDue /\ dfi_wr_idx_q = BL - 1) <=> g = 1
    <3>1. CASE n - f = 0
      BY <1>k, <1>r, <3>1
    <3>2. CASE n - f >= 1
      <4>1. 1 + f \in 1..n /\ ws[1 + f].age \in Int
        BY <1>g, <1>z, <3>2
      <4>2. WriteBeatDue => (dfi_wr_idx_q = BL - 1 <=> ws[1 + f].age = LastWr - 1)
        <5>1. PICK a \in Int : a = ws[1 + f].age
          BY <4>1
        <5>2. WriteBeatDue => dfi_wr_idx_q = a - WL + 1
          BY <1>r, <5>1
        <5>3. a - WL + 1 = BL - 1 <=> a = LastWr - 1
          BY Parameters
        <5> QED
          BY <5>1, <5>2, <5>3
      <4>3. ASSUME ws[1 + f].age = LastWr - 1 PROVE WriteBeatDue
        <5>1. ws[1 + f].age >= WL - 1
          BY <4>1, <4>3, Parameters
        <5> QED
          BY <1>r, <3>2, <5>1
      <4> QED
        BY <1>k, <3>2, <4>2, <4>3
    <3> QED
      BY <1>g, <3>1, <3>2
  <2>4. PICK rest : rest = IF g = 1 THEN Tail(wfifo) ELSE wfifo
    OBVIOUS
  <2>5. /\ rest \in Seq(Payloads) /\ Len(rest) = n - f - g
        /\ \A i \in 1..n - f - g : rest[i] = ws[i + g + f].data
    <3>1. CASE g = 0
      BY <1>g, <2>1, <2>2, <2>4, <3>1
    <3>2. CASE g = 1
      <4>1. n - f >= 1 /\ wfifo # << >>
        BY <1>k, <2>1, <3>2
      <4>2. /\ rest \in Seq(Payloads) /\ Len(rest) = n - f - 1
            /\ \A i \in 1..n - f - 1 : rest[i] = wfifo[i + 1]
        BY <1>g, <2>1, <2>4, <3>2, <4>1
      <4>3. \A i \in 1..n - f - 1 : /\ i + 1 \in 1..n - f
                                    /\ wfifo[i + 1] = ws[(i + 1) + f].data
        BY <1>g, <2>2
      <4> QED
        BY <3>2, <4>2, <4>3
    <3> QED
      BY <1>k, <3>1, <3>2
  <2>6. wfifo' = IF issued = "WRITE" THEN Append(rest, payload) ELSE rest
    <3>1. g = 1 => wfifo # << >>
      BY <1>k, <2>1
    <3> QED
      BY <1>t, <2>1, <2>3, <2>4, <3>1 DEF DataTick, WriteFifo
  <2>7. \A i \in 1..n - f - g : /\ i + g \in 1..n - f
                                /\ rest[i] = vs[i + g].data
    <3> SUFFICES ASSUME NEW i \in 1..n - f - g
                 PROVE  i + g \in 1..n - f /\ rest[i] = vs[i + g].data
      OBVIOUS
    <3>1. i + g \in 1..n - f
      BY <1>g, <1>k
    <3>2. vs[i + g].data = ws[i + g + f].data
      BY <1>o, <3>1
    <3> QED
      BY <2>5, <3>1, <3>2
  <2>8. CASE issued = "WRITE"
    <3>1. m = n - f + 1 /\ vs[m].data = payload
      BY <1>o, <2>8
    <3>2. /\ wfifo' \in Seq(Payloads) /\ Len(wfifo') = m - g
          /\ \A i \in 1..n - f - g : wfifo'[i] = rest[i]
          /\ wfifo'[n - f - g + 1] = payload
      BY <1>g, <1>k, <2>5, <2>6, <2>8, <3>1
    <3>3. \A i \in 1..m - g : wfifo'[i] = vs[i + g].data
      <4> SUFFICES ASSUME NEW i \in 1..m - g PROVE wfifo'[i] = vs[i + g].data
        OBVIOUS
      <4>1. CASE i \in 1..n - f - g
        BY <2>7, <3>2, <4>1
      <4>2. CASE i = n - f - g + 1
        <5>1. i + g = m
          BY <1>g, <1>k, <3>1, <4>2
        <5> QED
          BY <3>1, <3>2, <4>2, <5>1
      <4>3. m - g = n - f - g + 1 /\ n - f - g \in Nat
        BY <1>g, <1>k, <3>1
      <4>4. i \in 1..n - f - g \/ i = n - f - g + 1
        BY <4>3
      <4> QED
        BY <4>1, <4>2, <4>4
    <3> QED
      BY <1>h, <3>2, <3>3 DEF WritesInFifo, Finishing
  <2>9. CASE issued # "WRITE"
    <3>1. m - g = n - f - g
      BY <1>g, <1>k, <1>o, <2>9
    <3>2. /\ wfifo' \in Seq(Payloads) /\ Len(wfifo') = m - g
          /\ \A i \in 1..m - g : wfifo'[i] = vs[i + g].data
      BY <2>5, <2>6, <2>7, <2>9, <3>1
    <3> QED
      BY <1>h, <3>2 DEF WritesInFifo, Finishing
  <2> QED
    BY <2>8, <2>9
<1>4. WriteBeatsTimed(m, vs)'
  <2>e. wr_en_q = {k \in 0..LastWr - 1 : \E i \in 1..n :
                    WL - 1 <= k + ws[i].age /\ k + ws[i].age <= LastWr - 1}
    BY <1>w DEF WriteBeatsTimed
  <2>n. wr_en_q \in SUBSET Nat
    BY <2>e, Parameters
  <2>o. ASSUME NEW k \in Nat
        PROVE  k + 1 \in wr_en_q <=>
                 \E i \in 1..n - f : WL - 1 <= k + vs[i].age
                                    /\ k + vs[i].age <= LastWr - 1
    <3>1. ASSUME k + 1 \in wr_en_q
          PROVE  \E i \in 1..n - f : WL - 1 <= k + vs[i].age
                                     /\ k + vs[i].age <= LastWr - 1
      <4>1. PICK i \in 1..n : /\ WL - 1 <= (k + 1) + ws[i].age
                              /\ (k + 1) + ws[i].age <= LastWr - 1
        BY <2>e, <3>1
      <4>2. ws[i].age # LastWr
        BY <1>z, <4>1, Parameters
      <4>3. i - f \in 1..n - f /\ (i - f) + f = i
        BY <1>g, <4>2
      <4>4. vs[i - f].age = ws[i].age + 1
        BY <1>o, <4>3
      <4>5. k + vs[i - f].age = (k + 1) + ws[i].age
        BY <1>z, <4>4
      <4> QED
        BY <4>1, <4>3, <4>5
    <3>2. ASSUME NEW i \in 1..n - f, WL - 1 <= k + vs[i].age,
                 k + vs[i].age <= LastWr - 1
          PROVE  k + 1 \in wr_en_q
      <4>1. /\ i + f \in 1..n /\ vs[i].age = ws[i + f].age + 1
            /\ ws[i + f].age \in Nat
        BY <1>g, <1>o, Parameters
      <4>2. k + vs[i].age = (k + 1) + ws[i + f].age
        BY <4>1
      <4>3. k + 1 \in 0..LastWr - 1
        BY <3>2, <4>1, <4>2, Parameters
      <4> QED
        BY <2>e, <3>2, <4>1, <4>2, <4>3
    <3> QED
      BY <3>1, <3>2
  <2>1. wr_en_q' = {k \in 0..LastWr - 1 : \E i \in 1..m :
                     WL - 1 <= k + vs[i].age /\ k + vs[i].age <= LastWr - 1}
    <3>1. CASE issued = "WRITE"
      <4>1. wr_en_q \subseteq 0..WL - 1
        <5> SUFFICES ASSUME NEW k \in wr_en_q PROVE k \in 0..WL - 1
          OBVIOUS
        <5>1. PICK i \in 1..n : k + ws[i].age <= LastWr - 1
          BY <2>e
        <5>2. ws[i].age + 1 >= BL /\ ws[i].age \in Int /\ k \in Nat
          BY <1>p, <1>z, <2>n, <3>1
        <5> QED
          BY <5>1, <5>2, Parameters
      <4>2. wr_en_q' = Shift(wr_en_q) \cup (WL - 1 .. WL - 1 + BL - 1)
        <5>1. wr_en_q \cap (0..WL - 1) = wr_en_q
          BY <4>1
        <5> QED
          BY <1>t, <3>1, <5>1 DEF DataTick, WriteBeats, Load
      <4>3. vs[m].age = 0 /\ m \in 1..m
        BY <1>d, <1>o, <3>1
      <4>4. ASSUME NEW k \in wr_en_q'
            PROVE  k \in 0..LastWr - 1 /\ \E i \in 1..m :
                     WL - 1 <= k + vs[i].age /\ k + vs[i].age <= LastWr - 1
        <5>1. CASE k \in Shift(wr_en_q)
          <6>1. k \in Nat /\ k + 1 \in wr_en_q
            BY <2>n, <5>1, ShiftIs, ShiftType
          <6>2. k \in 0..LastWr - 1
            BY <2>e, <6>1, Parameters
          <6> QED
            BY <1>d, <2>o, <6>1, <6>2
        <5>2. CASE k \in WL - 1 .. WL - 1 + BL - 1
          BY <4>3, <5>2, Parameters
        <5> QED
          BY <4>2, <4>4, <5>1, <5>2
      <4>5. ASSUME NEW k \in 0..LastWr - 1, NEW i \in 1..m,
                   WL - 1 <= k + vs[i].age, k + vs[i].age <= LastWr - 1
            PROVE  k \in wr_en_q'
        <5>1. CASE i \in 1..n - f
          <6>1. k \in Nat
            BY Parameters
          <6>2. k + 1 \in wr_en_q
            BY <2>o, <4>5, <5>1, <6>1
          <6>3. k \in Shift(wr_en_q)
            BY <2>n, <6>1, <6>2, ShiftIs
          <6> QED
            BY <4>2, <6>3
        <5>2. CASE i = m
          BY <4>2, <4>3, <4>5, <5>2, Parameters
        <5> QED
          BY <1>d, <5>1, <5>2
      <4> QED
        BY <4>4, <4>5
    <3>2. CASE issued # "WRITE"
      <4>1. wr_en_q' = Shift(wr_en_q)
        BY <1>t, <3>2 DEF DataTick, WriteBeats
      <4>2. ASSUME NEW k \in wr_en_q'
            PROVE  k \in 0..LastWr - 1 /\ \E i \in 1..m :
                     WL - 1 <= k + vs[i].age /\ k + vs[i].age <= LastWr - 1
        <5>1. k \in Nat /\ k + 1 \in wr_en_q
          BY <2>n, <4>1, ShiftIs, ShiftType
        <5>2. k \in 0..LastWr - 1
          BY <2>e, <5>1, Parameters
        <5> QED
          BY <1>d, <2>o, <5>1, <5>2
      <4>3. ASSUME NEW k \in 0..LastWr - 1, NEW i \in 1..m,
                   WL - 1 <= k + vs[i].age, k + vs[i].age <= LastWr - 1
            PROVE  k \in wr_en_q'
        <5>1. k \in Nat /\ i \in 1..n - f
          BY <1>d, <3>2, Parameters
        <5>2. k + 1 \in wr_en_q
          BY <2>o, <4>3, <5>1
        <5>3. k \in Shift(wr_en_q)
          BY <2>n, <5>1, <5>2, ShiftIs
        <5> QED
          BY <4>1, <5>3
      <4> QED
        BY <4>2, <4>3
    <3> QED
      BY <3>1, <3>2
  <2>d. ASSUME WriteBeatDue
        PROVE  /\ 1 \in 1..m /\ WL <= vs[1].age
               /\ vs[1].data = ws[1 + f].data /\ vs[1].age = ws[1 + f].age + 1
               /\ ws[1 + f].age \in WL - 1 .. LastWr - 1
    <3>1. n - f >= 1 /\ ws[1 + f].age >= WL - 1 /\ 1 \in 1..n - f
      BY <1>g, <1>r, <2>d
    <3>2. ws[1 + f].age \in 0..LastWr - 1
      BY <1>g, <3>1
    <3>3. 1 \in 1..m /\ vs[1].data = ws[1 + f].data /\ vs[1].age = ws[1 + f].age + 1
      BY <1>d, <1>o, <3>1
    <3> QED
      BY <3>1, <3>2, <3>3, Parameters
  <2>i. ASSUME NEW i \in 1..m, WL <= vs[i].age
        PROVE  i = 1 /\ WriteBeatDue
    <3>1. i \in 1..n - f
      BY <1>d, <1>o, <2>i, Parameters
    <3>2. /\ i + f \in 1..n /\ vs[i].age = ws[i + f].age + 1
          /\ ws[i + f].age \in 0..LastWr - 1
      BY <1>g, <1>o, <3>1
    <3>3. WL - 1 <= ws[i + f].age /\ ws[i + f].age < LastWr
      BY <2>i, <3>2, Parameters
    <3>4. i + f = 1 + f
      BY <1>r, <3>2, <3>3
    <3>5. i = 1
      BY <1>g, <3>1, <3>4
    <3>6. n - f >= 1 /\ ws[1 + f].age >= WL - 1
      BY <1>g, <3>1, <3>3, <3>5
    <3> QED
      BY <1>r, <3>5, <3>6
  <2>b. ASSUME WriteBeatDue
        PROVE  /\ wr_beat' = [data |-> vs[1].data, beat |-> vs[1].age - WL]
               /\ dfi_wr_idx_q' = IF vs[1].age = LastWr THEN 0
                                  ELSE vs[1].age - WL + 1
    <3>1. /\ dfi_wr_idx_q = ws[1 + f].age - WL + 1
          /\ Len(wfifo) >= 1 /\ wfifo[1] = vs[1].data
      BY <1>r, <2>b, <2>d
    <3>2. wfifo # << >> /\ Head(wfifo) = wfifo[1]
      BY <1>w, <3>1 DEF WritesInFifo
    <3>3. /\ wr_beat' = [data |-> vs[1].data, beat |-> dfi_wr_idx_q]
          /\ dfi_wr_idx_q' = (dfi_wr_idx_q + 1) % BL
      BY <1>t, <2>b, <3>1, <3>2 DEF DataTick, WriteBeats
    <3>4. /\ dfi_wr_idx_q = vs[1].age - WL /\ dfi_wr_idx_q \in 0..BL - 1
          /\ dfi_wr_idx_q = BL - 1 <=> vs[1].age = LastWr
          /\ dfi_wr_idx_q + 1 = vs[1].age - WL + 1
      <4>1. PICK a \in WL - 1 .. LastWr - 1 : a = ws[1 + f].age
        BY <2>b, <2>d
      <4>2. vs[1].age = a + 1 /\ dfi_wr_idx_q = a - WL + 1
        BY <2>b, <2>d, <3>1, <4>1
      <4> QED
        BY <4>2, Parameters
    <3> QED
      BY <3>3, <3>4, BeatCount
  <2>c. ASSUME ~WriteBeatDue
        PROVE  wr_beat' = NoBeat /\ dfi_wr_idx_q' = dfi_wr_idx_q
    BY <1>t, <2>c DEF DataTick, WriteBeats
  <2>2. ASSUME NEW i \in 1..m, WL <= vs[i].age
        PROVE  wr_beat' = [data |-> vs[i].data, beat |-> vs[i].age - WL]
    BY <2>2, <2>b, <2>i
  <2>3. ASSUME \A i \in 1..m : vs[i].age < WL PROVE wr_beat' = NoBeat
    <3>1. ~WriteBeatDue
      BY <1>z, <2>3, <2>d, Parameters
    <3> QED
      BY <2>c, <3>1
  <2>4. ASSUME NEW i \in 1..m, WL <= vs[i].age, vs[i].age < LastWr
        PROVE  dfi_wr_idx_q' = vs[i].age - WL + 1
    <3>1. i = 1 /\ WriteBeatDue /\ vs[i].age # LastWr
      BY <1>z, <2>4, <2>i, Parameters
    <3> QED
      BY <2>b, <3>1
  <2>5. ASSUME \A i \in 1..m : vs[i].age < WL \/ vs[i].age = LastWr
        PROVE  dfi_wr_idx_q' = 0
    <3>1. CASE WriteBeatDue
      <4>1. vs[1].age = LastWr
        BY <1>z, <2>5, <2>d, <3>1, Parameters
      <4> QED
        BY <2>b, <3>1, <4>1
    <3>2. CASE ~WriteBeatDue
      <4>1. ASSUME NEW i \in 1..n PROVE ws[i].age < WL \/ ws[i].age = LastWr
        <5> SUFFICES ASSUME WL <= ws[i].age, ws[i].age < LastWr PROVE FALSE
          BY <1>a, <1>z, Parameters
        <5>1. WL - 1 <= ws[i].age
          BY <1>z, Parameters
        <5>2. i = 1 + f /\ n - f >= 1
          BY <1>g, <1>r, <5>1
        <5> QED
          BY <1>r, <3>2, <5>1, <5>2
      <4>2. dfi_wr_idx_q = 0
        BY <1>w, <4>1 DEF WriteBeatsTimed
      <4> QED
        BY <2>c, <3>2, <4>2
    <3> QED
      BY <3>1, <3>2
  <2> QED
    BY <2>1, <2>2, <2>3, <2>4, <2>5 DEF WriteBeatsTimed, NoBeat
<1>5. WritesToMemory(m, vs)'
  <2> SUFFICES ASSUME NEW l \in Lines
               PROVE  \/ /\ mem'[l] = cells'[l]
                         /\ \A i \in 1..m : ~Changes(vs[i], l)
                      \/ \E i \in 1..m :
                           /\ Changes(vs[i], l) /\ mem'[l] = vs[i].data
                           /\ \A j \in 1..m : j > i => ~Changes(vs[j], l)
    BY DEF WritesToMemory
  <2>1. mem'[l] = IF issued = "WRITE" /\ payload # Masked /\ l = line
                    THEN payload ELSE mem[l]
    BY <1>t DEF History, TypeInv
  <2>2. cells'[l] = IF f = 1 /\ Changes(ws[1], l) THEN ws[1].data ELSE cells[l]
    BY <1>f, <1>t, CellsNext DEF DataTick
  <2>3. \A i \in 1..n - f : Changes(vs[i], l) <=> Changes(ws[i + f], l)
    BY <1>o DEF Changes
  <2>4. CASE issued = "WRITE" /\ payload # Masked /\ l = line
    <3>1. m \in 1..m /\ Changes(vs[m], l) /\ mem'[l] = vs[m].data
      BY <1>d, <1>o, <2>1, <2>4 DEF Changes
    <3> QED
      BY <3>1
  <2>5. CASE ~(issued = "WRITE" /\ payload # Masked /\ l = line)
    <3>1. mem'[l] = mem[l]
      BY <2>1, <2>5
    <3>2. issued = "WRITE" => ~Changes(vs[m], l)
      BY <1>o, <2>5 DEF Changes
    <3>3. CASE /\ mem[l] = cells[l]
               /\ \A i \in 1..n : ~Changes(ws[i], l)
      <4>1. \A i \in 1..m : ~Changes(vs[i], l)
        BY <1>d, <1>g, <2>3, <3>2, <3>3
      <4>2. f = 1 => ~Changes(ws[1], l)
        BY <1>g, <3>3
      <4> QED
        BY <2>2, <3>1, <3>3, <4>1, <4>2
    <3>4. ASSUME NEW i \in 1..n, Changes(ws[i], l), mem[l] = ws[i].data,
                 \A j \in 1..n : j > i => ~Changes(ws[j], l)
          PROVE  \/ /\ mem'[l] = cells'[l]
                    /\ \A k \in 1..m : ~Changes(vs[k], l)
                 \/ \E k \in 1..m :
                      /\ Changes(vs[k], l) /\ mem'[l] = vs[k].data
                      /\ \A j \in 1..m : j > k => ~Changes(vs[j], l)
      <4>1. CASE i = 1 /\ f = 1
        <5>1. cells'[l] = mem'[l]
          BY <2>2, <3>1, <3>4, <4>1
        <5>2. ASSUME NEW k \in 1..n - f PROVE ~Changes(vs[k], l)
          <6>1. k + f \in 1..n /\ k + f > i
            BY <1>g, <4>1
          <6> QED
            BY <2>3, <3>4, <6>1
        <5> QED
          BY <1>d, <3>2, <5>1, <5>2
      <4>2. CASE ~(i = 1 /\ f = 1)
        <5>1. /\ i - f \in 1..n - f /\ (i - f) + f = i
          BY <1>g, <4>2
        <5>2. i - f \in 1..m /\ Changes(vs[i - f], l) /\ mem'[l] = vs[i - f].data
          BY <1>d, <1>o, <2>3, <3>1, <3>4, <5>1
        <5>3. ASSUME NEW j \in 1..m, j > i - f PROVE ~Changes(vs[j], l)
          <6>1. CASE j \in 1..n - f
            <7>1. j + f \in 1..n /\ j + f > i
              BY <1>g, <5>3, <6>1
            <7> QED
              BY <2>3, <3>4, <6>1, <7>1
          <6>2. CASE issued = "WRITE" /\ j = m
            BY <3>2, <6>2
          <6> QED
            BY <1>d, <6>1, <6>2
        <5> QED
          BY <5>2, <5>3
      <4> QED
        BY <4>1, <4>2
    <3>5. \/ /\ mem[l] = cells[l]
             /\ \A i \in 1..n : ~Changes(ws[i], l)
          \/ \E i \in 1..n :
               /\ Changes(ws[i], l) /\ mem[l] = ws[i].data
               /\ \A j \in 1..n : j > i => ~Changes(ws[j], l)
      BY <1>w DEF WritesToMemory
    <3> QED
      BY <3>3, <3>4, <3>5
  <2> QED
    BY <2>4, <2>5
<1> QED
  BY <1>1, <1>2, <1>3, <1>4, <1>5 DEF WriteInv

-----------------------------------------------------------------------------
(* Reads are spread like writes: only the oldest can be on its way to the     *)
(* PHY's output.                                                             *)
Answered(n, rs) == IF n > 0 /\ rs[1].age = LastRd THEN 1 ELSE 0

LEMMA ReadsSpread ==
    ASSUME NEW n \in Nat, NEW rs \in [1..n -> Reads], ReadsApart(n, rs),
           NEW f, f = Answered(n, rs)
    PROVE  /\ \A i \in 1..n : rs[i].age \in 0..LastRd /\ rs[i].age \in Int
           /\ \A i, j \in 1..n : i < j => rs[i].age >= rs[j].age + BL
           /\ \A i \in 1..n : rs[i].age >= RdAge => i = 1
           /\ f \in {0, 1} /\ f <= n /\ n - f \in Nat
           /\ \A i \in 1..n : rs[i].age = LastRd <=> (i = 1 /\ f = 1)
           /\ \A i \in 1..n - f : i + f \in 1..n /\ rs[i + f].age \in 0..LastRd - 1
<1>1. \A i \in 1..n : rs[i].age \in 0..LastRd /\ rs[i].age \in Int
  BY Parameters DEF Reads
<1>2. ASSUME NEW i \in 1..n, NEW j \in 1..n, i < j
      PROVE  rs[i].age >= rs[j].age + BL
  <2>1. rs[i].age - rs[j].age >= BL
    BY <1>2 DEF ReadsApart
  <2>2. \A a, b, c \in Int : a - b >= c => a >= b + c
    OBVIOUS
  <2> QED
    BY <1>1, <2>1, <2>2, Parameters
<1>3. ASSUME NEW i \in 1..n, rs[i].age >= RdAge PROVE i = 1
  <2> SUFFICES ASSUME i # 1 PROVE FALSE
    OBVIOUS
  <2>1. 1 \in 1..n /\ 1 < i
    OBVIOUS
  <2>2. rs[1].age >= rs[i].age + BL /\ rs[1].age \in 0..LastRd
    BY <1>1, <1>2, <2>1
  <2> QED
    BY <1>1, <1>3, <2>2, Parameters
<1>4. f \in {0, 1} /\ f <= n /\ n - f \in Nat
  BY DEF Answered
<1>5. ASSUME NEW i \in 1..n PROVE rs[i].age = LastRd <=> (i = 1 /\ f = 1)
  BY <1>1, <1>3, Parameters DEF Answered
<1>6. ASSUME NEW i \in 1..n - f
      PROVE  i + f \in 1..n /\ rs[i + f].age \in 0..LastRd - 1
  <2>1. i + f \in 1..n /\ (i + f = 1 => f = 0)
    BY <1>4
  <2>2. rs[i + f].age # LastRd /\ rs[i + f].age \in 0..LastRd
    BY <1>1, <1>5, <2>1
  <2> QED
    BY <2>1, <2>2, Parameters
<1> QED
  BY <1>1, <1>2, <1>3, <1>4, <1>5, <1>6

(* What the PHY delivers is the next beat of the oldest read, and the capture *)
(* window is open exactly then.                                              *)
LEMMA ReadDue ==
    ASSUME NEW n \in Nat, NEW rs \in [1..n -> Reads], ReadInv(n, rs)
    PROVE  /\ ReadBeatDue <=> (n >= 1 /\ rs[1].age >= RdAge)
           /\ ReadBeatDue =>
                /\ 1 \in 1..n /\ dfi_rd_idx_q = rs[1].age - RdAge
                /\ rs[1].age \in RdAge..LastRd /\ rs[1].data \in Data
                /\ ReadBus = [data |-> rs[1].data, beat |-> rs[1].age - RdAge]
           /\ ~ReadBeatDue => dfi_rd_idx_q = 0
<1>1. /\ \A i \in 1..n : rs[i].age \in 0..LastRd /\ rs[i].age \in Int
      /\ \A i \in 1..n : rs[i].age >= RdAge => i = 1
  BY ReadsSpread DEF ReadInv
<1>2. ReadBeatDue <=> \E i \in 1..n : RdAge <= rs[i].age
  <2>1. 0 \in 0..PhyRdLat + 1 /\ LastRd \in Int
    BY Parameters
  <2>2. ReadBeatDue <=> \E i \in 1..n :
           RdAge <= 0 + rs[i].age /\ 0 + rs[i].age <= LastRd
    BY <2>1 DEF ReadInv, ReadBeatsTimed, ReadBeatDue
  <2>3. \A i \in 1..n : 0 + rs[i].age = rs[i].age /\ rs[i].age <= LastRd
    BY <1>1, <2>1
  <2> QED
    BY <2>2, <2>3
<1>3. ReadBeatDue <=> (n >= 1 /\ rs[1].age >= RdAge)
  <2>1. n >= 1 => 1 \in 1..n
    OBVIOUS
  <2>2. \A i \in 1..n : RdAge <= rs[i].age <=> rs[i].age >= RdAge
    BY <1>1, Parameters
  <2> QED
    BY <1>1, <1>2, <2>1, <2>2
<1>4. ASSUME ReadBeatDue
      PROVE  /\ 1 \in 1..n /\ dfi_rd_idx_q = rs[1].age - RdAge
             /\ rs[1].age \in RdAge..LastRd /\ rs[1].data \in Data
             /\ ReadBus = [data |-> rs[1].data, beat |-> rs[1].age - RdAge]
  <2>1. 1 \in 1..n /\ rs[1].age \in RdAge..LastRd /\ rs[1].age >= 1
    BY <1>1, <1>3, <1>4, Parameters
  <2>2. RdAge <= rs[1].age /\ dfi_rd_idx_q = rs[1].age - RdAge
    BY <1>1, <2>1, Parameters DEF ReadInv, ReadBeatsTimed
  <2>3. {r \in dev_rd : r.age >= RdAge} = {rs[1]}
    <3>1. rs[1] \in dev_rd
      BY <2>1 DEF ReadInv, ReadsAtChip
    <3>2. ASSUME NEW r \in dev_rd, r.age >= RdAge PROVE r = rs[1]
      BY <1>1, <3>2 DEF ReadInv, ReadsAtChip
    <3>3. rs[1].age >= RdAge
      BY <1>3, <1>4
    <3> QED
      BY <3>1, <3>2, <3>3
  <2>4. Cardinality({rs[1]}) = 1
    BY FS_Singleton
  <2>5. (CHOOSE r \in {rs[1]} : TRUE) = rs[1]
    OBVIOUS
  <2>6. ReadBus = [data |-> rs[1].data, beat |-> rs[1].age - RdAge]
    BY <2>3, <2>4, <2>5 DEF ReadBus
  <2>7. rs[1].data \in Data
    BY <2>1 DEF Reads
  <2> QED
    BY <2>1, <2>2, <2>6, <2>7
<1>5. ASSUME ~ReadBeatDue PROVE dfi_rd_idx_q = 0
  <2>1. \A i \in 1..n : rs[i].age < RdAge
    BY <1>1, <1>2, <1>5, Parameters
  <2> QED
    BY <2>1 DEF ReadInv, ReadBeatsTimed
<1> QED
  BY <1>3, <1>4, <1>5

-----------------------------------------------------------------------------
(* Types, and the row under a READ or WRITE, over a clock edge.              *)
LEMMA TypeStep ==
    ASSUME TypeInv, NEW n \in Nat, NEW ws \in [1..n -> Writes], WriteInv(n, ws),
           NEW k \in Nat, NEW rs \in [1..k -> Reads], ReadInv(k, rs),
           NEW cmd \in Commands, NEW line \in Lines, NEW payload \in Payloads,
           Tick(cmd, line, payload)
    PROVE  TypeInv'
<1>i. PICK issued : issued = IF Accept(cmd) THEN cmd ELSE "NOP"
  OBVIOUS
<1>t. /\ Offered(cmd, line) /\ SeqTick(cmd, line) /\ DeviceTick
      /\ DataTick(issued, payload) /\ History(issued, line, payload)
  BY <1>i DEF Tick
<1>c. /\ SeqTypeOK'
      /\ issued = "NOP" => dfi' = NopCommand
      /\ issued # "NOP" => dfi' = [cmd |-> issued, line |-> line]
  BY <1>i, <1>t, CommandTaken DEF TypeInv
<1>1. dfi'.cmd \in {"READ", "WRITE"} =>
         open_row'[dfi'.line.bank] = dfi'.line.row
  <2> SUFFICES ASSUME dfi'.cmd \in {"READ", "WRITE"}
               PROVE  open_row'[dfi'.line.bank] = dfi'.line.row
    OBVIOUS
  <2>1. issued # "NOP"
    BY <1>c DEF NopCommand
  <2>2. dfi'.line = line /\ issued = cmd /\ cmd \in {"READ", "WRITE"}
    BY <1>c, <1>i, <2>1
  <2>3. RowAfter[line.bank] = line.row
    BY <1>t, <2>2 DEF Offered
  <2> QED
    BY <1>t, <2>2, <2>3 DEF DeviceTick
<1>2. mem' \in [Lines -> Data]
  BY <1>t DEF History, TypeInv, Payloads
<1>3. cells' \in [Lines -> Data]
  <2>1. PICK f : f = Finishing(n, ws)
    OBVIOUS
  <2>2. \A l \in Lines : cells'[l] = IF f = 1 /\ Changes(ws[1], l)
                                       THEN ws[1].data ELSE cells[l]
    BY <1>t, <2>1, CellsNext DEF DataTick
  <2>3. \A l \in Lines : f = 1 /\ Changes(ws[1], l) => ws[1].data \in Data
    <3>1. f = 1 => 1 \in 1..n
      BY <2>1 DEF Finishing
    <3> QED
      BY <3>1 DEF Writes, Payloads, Changes
  <2>4. \A l \in Lines : cells'[l] \in Data
    BY <2>2, <2>3 DEF TypeInv
  <2>5. cells' = [l \in Lines |-> cells'[l]]
    BY <1>t DEF DataTick, Chip
  <2> QED
    BY <2>4, <2>5
<1>4. rd_data_q' \in Seq([data : Payloads \cup {Garbage}, beat : 0..BL])
  <2>1. CASE ~ReadBeatDue
    BY <1>t, <2>1 DEF DataTick, ReadBeats, TypeInv
  <2>2. CASE ReadBeatDue
    <3>1. ReadBus \in [data : Payloads \cup {Garbage}, beat : 0..BL]
      <4>1. /\ ReadBus = [data |-> rs[1].data, beat |-> rs[1].age - RdAge]
            /\ rs[1].data \in Data /\ rs[1].age \in RdAge..LastRd
        BY <2>2, ReadDue
      <4>2. rs[1].age - RdAge \in 0..BL
        BY <4>1, Parameters
      <4> QED
        BY <4>1, <4>2 DEF Payloads
    <3>2. rd_data_q # << >>
      BY Parameters DEF ReadInv, ReadBeatsCaptured
    <3>3. rd_data_q' = Append(Tail(rd_data_q), ReadBus)
      BY <1>t, <2>2 DEF DataTick, ReadBeats
    <3> QED
      BY <3>1, <3>2, <3>3 DEF TypeInv
  <2> QED
    BY <2>1, <2>2
<1> QED
  BY <1>c, <1>1, <1>2, <1>3, <1>4 DEF TypeInv

(* The queue of reads one cycle on.                                          *)
ReadsAdvanced(n, rs, push, data, m, vs) ==
    LET f == Answered(n, rs)
    IN  /\ m = n - f + (IF push THEN 1 ELSE 0)
        /\ \A i \in 1..n - f : /\ vs[i].data = rs[i + f].data
                               /\ vs[i].age = rs[i + f].age + 1
        /\ push => vs[m] = [data |-> data, age |-> 0]

LEMMA ReadsAdvancedExist ==
    ASSUME NEW n \in Nat, NEW rs \in [1..n -> Reads], ReadsApart(n, rs),
           NEW push \in BOOLEAN, NEW data \in Data
    PROVE  \E m \in Nat : \E vs \in [1..m -> Reads] :
              ReadsAdvanced(n, rs, push, data, m, vs)
<1>1. PICK f : f = Answered(n, rs)
  OBVIOUS
<1>2. /\ f \in {0, 1} /\ n - f \in Nat
      /\ \A i \in 1..n - f : i + f \in 1..n /\ rs[i + f].age \in 0..LastRd - 1
  BY <1>1, ReadsSpread
<1>3. PICK m \in Nat : m = n - f + (IF push THEN 1 ELSE 0)
  BY <1>2
<1> DEFINE W(i) == IF i <= n - f
                     THEN [data |-> rs[i + f].data, age |-> rs[i + f].age + 1]
                     ELSE [data |-> data, age |-> 0]
<1>4. ASSUME NEW i \in 1..m PROVE W(i) \in Reads
  <2>1. CASE i <= n - f
    <3>0. i \in 1..n - f
      BY <1>2, <2>1
    <3>1. i + f \in 1..n /\ rs[i + f].age \in 0..LastRd - 1
      BY <1>2, <3>0
    <3>2. rs[i + f].age + 1 \in 0..LastRd
      BY <3>1, Parameters
    <3> QED
      BY <2>1, <3>1, <3>2 DEF Reads
  <2>2. CASE ~(i <= n - f)
    BY <2>2, Parameters DEF Reads
  <2> QED
    BY <2>1, <2>2
<1>5. PICK vs : vs = [i \in 1..m |-> W(i)]
  OBVIOUS
<1>6. vs \in [1..m -> Reads]
  BY <1>4, <1>5
<1>7. \A i \in 1..m : vs[i] = W(i)
  BY <1>5
<1>8. ReadsAdvanced(n, rs, push, data, m, vs)
  <2>1. ASSUME NEW i \in 1..n - f
        PROVE  vs[i].data = rs[i + f].data /\ vs[i].age = rs[i + f].age + 1
    <3>1. i \in 1..m /\ i <= n - f
      BY <1>2, <1>3
    <3>2. vs[i] = [data |-> rs[i + f].data, age |-> rs[i + f].age + 1]
      BY <1>7, <3>1
    <3> QED
      BY <3>2
  <2>2. ASSUME push PROVE vs[m] = [data |-> data, age |-> 0]
    <3>1. m \in 1..m /\ ~(m <= n - f)
      BY <1>2, <1>3, <2>2
    <3> QED
      BY <1>7, <3>1
  <2> QED
    BY <1>1, <1>3, <2>1, <2>2 DEF ReadsAdvanced
<1> QED
  BY <1>6, <1>8

(* A command is taken only when every read under way is BL - 1 cycles old,    *)
(* and a READ only when no write is under way.                               *)
LEMMA NextRead ==
    ASSUME TypeInv, NEW cmd \in Commands, NEW line \in Lines,
           SeqTick(cmd, line),
           NEW issued, issued = IF Accept(cmd) THEN cmd ELSE "NOP",
           NEW n \in Nat, NEW rs \in [1..n -> Reads], ReadsApart(n, rs),
           NEW k \in Nat, NEW ws \in [1..k -> Writes], WriteInv(k, ws)
    PROVE  /\ issued # "NOP" => \A i \in 1..n :
                /\ rs[i].age + 1 >= BL
                /\ rs[i].age >= NonSeq \/ issued = "READ"
           /\ issued = "READ" =>
                /\ Finishing(k, ws) = 0
                /\ \A l \in Lines : mem[l] = cells[l]
<1>0. SeqTypeOK
  BY DEF TypeInv
<1>1. ASSUME issued # "NOP", NEW i \in 1..n
      PROVE  rs[i].age + 1 >= BL /\ (rs[i].age >= NonSeq \/ issued = "READ")
  <2>1. rs[i].age \in Nat
    BY Parameters DEF Reads
  <2>2. \/ delay_q = 0
        \/ issued = last_cmd_q /\ delay_q = SeqGap
    BY <1>0, <1>1, CommandTaken
  <2>3. rs[i].age >= NonSeq \/ (last_cmd_q = "READ" /\ delay_q + rs[i].age >= NonSeq)
    BY DEF ReadsApart
  <2>4. NonSeq >= BL
    BY TimingAssumption DEF NonSeq
  <2> QED
    BY <2>1, <2>2, <2>3, <2>4, Parameters
<1>2. ASSUME issued = "READ"
      PROVE  Finishing(k, ws) = 0 /\ \A l \in Lines : mem[l] = cells[l]
  <2>1. \A i \in 1..k : issued = "WRITE" /\ ws[i].age + 1 >= BL
    BY <1>0, <1>2, NextWrite DEF WriteInv
  <2>2. k = 0
    BY <1>2, <2>1
  <2> QED
    BY <2>2 DEF WriteInv, WritesToMemory, Finishing
<1> QED
  BY <1>1, <1>2

(* What a clock edge does with the answers: the oldest read is answered with  *)
(* its last beat, and the line the requester then sees is its data.          *)
LEMMA AnswerStep ==
    ASSUME TypeInv, NEW n \in Nat, NEW rs \in [1..n -> Reads], ReadInv(n, rs),
           NEW issued, ReadBeats(issued),
           NEW f, f = Answered(n, rs)
    PROVE  /\ rd_valid_q' = (f = 1)
           /\ f = 1 => n >= 1 /\ ReadData' = rs[1].data
           /\ ReadBeatDue =>
                /\ Len(rd_data_q') = BL
                /\ \A j \in 1..BL - 1 : rd_data_q'[j] = rd_data_q[j + 1]
                /\ rd_data_q'[BL] = [data |-> rs[1].data,
                                     beat |-> rs[1].age - RdAge]
                /\ dfi_rd_idx_q' = IF f = 1 THEN 0 ELSE rs[1].age - RdAge + 1
           /\ ~ReadBeatDue => UNCHANGED <<rd_data_q, dfi_rd_idx_q>>
<1>1. /\ f \in {0, 1} /\ f <= n
      /\ \A i \in 1..n : rs[i].age = LastRd <=> (i = 1 /\ f = 1)
      /\ \A i \in 1..n : rs[i].age \in 0..LastRd /\ rs[i].age \in Int
  BY ReadsSpread DEF ReadInv
<1>2. /\ ReadBeatDue <=> (n >= 1 /\ rs[1].age >= RdAge)
      /\ ReadBeatDue =>
           /\ 1 \in 1..n /\ dfi_rd_idx_q = rs[1].age - RdAge
           /\ rs[1].age \in RdAge..LastRd /\ rs[1].data \in Data
           /\ ReadBus = [data |-> rs[1].data, beat |-> rs[1].age - RdAge]
  BY ReadDue
<1>3. f = 1 => n >= 1 /\ 1 \in 1..n /\ rs[1].age = LastRd /\ ReadBeatDue
  <2> SUFFICES ASSUME f = 1
               PROVE  n >= 1 /\ 1 \in 1..n /\ rs[1].age = LastRd /\ ReadBeatDue
    OBVIOUS
  <2>1. n >= 1 /\ 1 \in 1..n /\ rs[1].age = LastRd
    BY <1>1
  <2>2. rs[1].age >= RdAge
    BY <2>1, Parameters
  <2> QED
    BY <1>2, <2>1, <2>2
<1>4. ASSUME ReadBeatDue
      PROVE  /\ dfi_rd_idx_q \in 0..BL - 1
             /\ dfi_rd_idx_q = BL - 1 <=> f = 1
  <2>1. PICK a \in RdAge..LastRd : a = rs[1].age
    BY <1>2, <1>4
  <2>2. dfi_rd_idx_q = a - RdAge
    BY <1>2, <1>4, <2>1
  <2>3. a = LastRd <=> f = 1
    BY <1>1, <1>2, <1>4, <2>1
  <2> QED
    BY <2>2, <2>3, Parameters
<1>5. rd_valid_q' = (f = 1)
  BY <1>3, <1>4 DEF ReadBeats
<1>6. ASSUME ReadBeatDue
      PROVE  /\ Len(rd_data_q') = BL
             /\ \A j \in 1..BL - 1 : rd_data_q'[j] = rd_data_q[j + 1]
             /\ rd_data_q'[BL] = [data |-> rs[1].data,
                                  beat |-> rs[1].age - RdAge]
             /\ dfi_rd_idx_q' = IF f = 1 THEN 0 ELSE rs[1].age - RdAge + 1
  <2>1. PICK bus : bus = [data |-> rs[1].data, beat |-> rs[1].age - RdAge]
    OBVIOUS
  <2>2. /\ rd_data_q' = Append(Tail(rd_data_q), bus)
        /\ dfi_rd_idx_q' = (dfi_rd_idx_q + 1) % BL
    BY <1>2, <1>6, <2>1 DEF ReadBeats
  <2>3. dfi_rd_idx_q' = IF f = 1 THEN 0 ELSE rs[1].age - RdAge + 1
    BY <1>2, <1>4, <1>6, <2>2, BeatCount
  <2>4. PICK S : rd_data_q \in Seq(S)
    BY DEF TypeInv
  <2>5. Len(rd_data_q) = BL /\ BL \in Nat /\ BL >= 1
    BY Parameters DEF ReadInv, ReadBeatsCaptured
  <2>6. PICK tl : tl = Tail(rd_data_q)
    OBVIOUS
  <2>7. /\ tl \in Seq(S) /\ Len(tl) = BL - 1
        /\ \A j \in 1..BL - 1 : tl[j] = rd_data_q[j + 1]
    BY <2>4, <2>5, <2>6
  <2>8. /\ Len(Append(tl, bus)) = BL /\ Append(tl, bus)[BL] = bus
        /\ \A j \in 1..BL - 1 : Append(tl, bus)[j] = tl[j]
    BY <2>5, <2>7
  <2> QED
    BY <2>1, <2>2, <2>3, <2>6, <2>7, <2>8
<1>7. ASSUME f = 1 PROVE ReadData' = rs[1].data
  <2>1. ReadBeatDue /\ rs[1].age = LastRd /\ 1 \in 1..n
    BY <1>3, <1>7
  <2>2. ASSUME NEW j \in 1..BL
        PROVE  rd_data_q'[j] = [data |-> rs[1].data, beat |-> j - 1]
    <3>1. LastRd - RdAge = BL - 1
      BY Parameters
    <3>2. CASE j = BL
      BY <1>6, <2>1, <3>1, <3>2
    <3>3. CASE j < BL
      <4>1. j \in 1..BL - 1 /\ BL >= 2
        BY <3>3, Parameters
      <4>2. RdAge < rs[1].age /\ j - 1 \in 0..BL - 1 /\ j - 1 < LastRd - RdAge
        BY <2>1, <3>1, <4>1, Parameters
      <4>3. rd_data_q[BL - (rs[1].age - RdAge) + 1 + (j - 1)] =
               [data |-> rs[1].data, beat |-> j - 1]
        BY <2>1, <4>2 DEF ReadInv, ReadBeatsCaptured
      <4>4. BL - (LastRd - RdAge) + 1 + (j - 1) = j + 1
        BY <3>1, <4>1, Parameters
      <4> QED
        BY <1>6, <2>1, <4>1, <4>3, <4>4
    <3> QED
      BY <3>2, <3>3, Parameters
  <2>3. 1 \in 1..BL
    BY Parameters
  <2>4. rd_data_q'[1] = [data |-> rs[1].data, beat |-> 0]
    BY <2>2, <2>3
  <2>5. Whole'
    <3>1. ASSUME NEW j \in 1..BL
          PROVE  [rd_data_q'[1] EXCEPT !.beat = j - 1] =
                    [data |-> rs[1].data, beat |-> j - 1]
      <4>1. PICK e : e = [data |-> rs[1].data, beat |-> 0]
        OBVIOUS
      <4>2. [e EXCEPT !.beat = j - 1] = [data |-> rs[1].data, beat |-> j - 1]
        BY <4>1
      <4> QED
        BY <2>4, <4>1, <4>2
    <3> QED
      BY <2>2, <3>1 DEF Whole
  <2> QED
    BY <2>4, <2>5 DEF ReadData
<1>8. ~ReadBeatDue => UNCHANGED <<rd_data_q, dfi_rd_idx_q>>
  BY DEF ReadBeats
<1> QED
  BY <1>3, <1>5, <1>6, <1>7, <1>8

(* A clock edge moves the queue of reads on by one cycle.                     *)
LEMMA ReadStep ==
    ASSUME TypeInv, NEW k \in Nat, NEW ws \in [1..k -> Writes], WriteInv(k, ws),
           NEW n \in Nat, NEW rs \in [1..n -> Reads], ReadInv(n, rs),
           NEW cmd \in Commands, NEW line \in Lines, NEW payload \in Payloads,
           Tick(cmd, line, payload)
    PROVE  \E m \in Nat : \E vs \in [1..m -> Reads] : ReadInv(m, vs)'
<1>i. PICK issued : issued = IF Accept(cmd) THEN cmd ELSE "NOP"
  OBVIOUS
<1>t. /\ SeqTick(cmd, line) /\ ReadBeats(issued = "READ") /\ Chip
      /\ History(issued, line, payload)
  BY <1>i DEF Tick, DataTick
<1>c. /\ issued \in Commands /\ delay_q \in Nat /\ delay_q' \in Nat
      /\ issued = "NOP" =>
           /\ last_cmd_q' = last_cmd_q /\ dfi' = NopCommand
           /\ delay_q' = IF delay_q = 0 THEN 0 ELSE delay_q - 1
      /\ issued # "NOP" =>
           /\ last_cmd_q' = issued /\ dfi' = [cmd |-> issued, line |-> line]
      /\ issued \in {"READ", "WRITE"} => delay_q' = NonSeq
  BY <1>i, <1>t, CommandTaken DEF TypeInv
<1>w. /\ ReadsApart(n, rs) /\ ReadsAtChip(n, rs) /\ ReadsOwed(n, rs)
      /\ ReadBeatsTimed(n, rs) /\ ReadBeatsCaptured(n, rs)
  BY DEF ReadInv
<1>p. /\ issued # "NOP" => \A i \in 1..n :
           /\ rs[i].age + 1 >= BL
           /\ rs[i].age >= NonSeq \/ issued = "READ"
      /\ issued = "READ" => /\ Finishing(k, ws) = 0
                            /\ \A l \in Lines : mem[l] = cells[l]
  BY <1>i, <1>t, <1>w, NextRead
<1>l. mem[line] \in Data
  BY DEF TypeInv
<1>f. PICK f : f = Answered(n, rs)
  OBVIOUS
<1>g. /\ f \in {0, 1} /\ f <= n /\ n - f \in Nat
      /\ \A i \in 1..n - f : i + f \in 1..n /\ rs[i + f].age \in 0..LastRd - 1
      /\ \A i \in 1..n : rs[i].age = LastRd <=> (i = 1 /\ f = 1)
      /\ \A i \in 1..n : rs[i].age >= RdAge => i = 1
      /\ \A i, j \in 1..n : i < j => rs[i].age >= rs[j].age + BL
  <2>1. ReadsApart(n, rs)
    BY <1>w
  <2>2. /\ f \in {0, 1} /\ f <= n /\ n - f \in Nat
        /\ \A i \in 1..n : rs[i].age >= RdAge => i = 1
    BY <1>f, <2>1, ReadsSpread
  <2>3. \A i, j \in 1..n : i < j => rs[i].age >= rs[j].age + BL
    BY <1>f, <2>1, ReadsSpread
  <2>4. \A i \in 1..n - f : i + f \in 1..n /\ rs[i + f].age \in 0..LastRd - 1
    BY <1>f, <2>1, ReadsSpread
  <2>5. \A i \in 1..n : rs[i].age = LastRd <=> (i = 1 /\ f = 1)
    BY <1>f, <2>1, ReadsSpread
  <2> QED
    BY <2>2, <2>3, <2>4, <2>5
<1>e. PICK m \in Nat : \E vs \in [1..m -> Reads] :
        ReadsAdvanced(n, rs, issued = "READ", mem[line], m, vs)
  BY <1>l, <1>w, ReadsAdvancedExist
<1>v. PICK vs \in [1..m -> Reads] :
        ReadsAdvanced(n, rs, issued = "READ", mem[line], m, vs)
  BY <1>e
<1>o. /\ m = n - f + (IF issued = "READ" THEN 1 ELSE 0)
      /\ \A i \in 1..n - f :
           vs[i].data = rs[i + f].data /\ vs[i].age = rs[i + f].age + 1
      /\ issued = "READ" => vs[m] = [data |-> mem[line], age |-> 0]
  BY <1>f, <1>v DEF ReadsAdvanced
<1>d. /\ \A i \in 1..m : i \in 1..n - f \/ (issued = "READ" /\ i = m)
      /\ \A i \in 1..n - f : i \in 1..m
      /\ issued = "READ" => m \in 1..m /\ m = n - f + 1
  BY <1>g, <1>o
<1>a. /\ \A i \in 1..m : vs[i].age \in 0..LastRd /\ vs[i].data \in Data
      /\ \A i \in 1..n : rs[i].age \in 0..LastRd /\ rs[i].data \in Data
  BY DEF Reads
<1>z. /\ \A i \in 1..n : rs[i].age \in Int
      /\ \A i \in 1..m : vs[i].age \in Int
  BY <1>a, Parameters
<1>s. \A i \in 1..n : rs[i].age # LastRd =>
         /\ i - f \in 1..n - f /\ i - f \in 1..m
         /\ vs[i - f].data = rs[i].data /\ vs[i - f].age = rs[i].age + 1
  <2> SUFFICES ASSUME NEW i \in 1..n, rs[i].age # LastRd
               PROVE  /\ i - f \in 1..n - f /\ i - f \in 1..m
                      /\ vs[i - f].data = rs[i].data
                      /\ vs[i - f].age = rs[i].age + 1
    OBVIOUS
  <2>1. i - f \in 1..n - f /\ (i - f) + f = i
    BY <1>g
  <2> QED
    BY <1>d, <1>o, <2>1
<1>u. \A i \in 1..m : vs[i].age = 0 <=> (issued = "READ" /\ i = m)
  <2> SUFFICES ASSUME NEW i \in 1..m
               PROVE  vs[i].age = 0 <=> (issued = "READ" /\ i = m)
    OBVIOUS
  <2>1. CASE i \in 1..n - f
    <3>1. i + f \in 1..n /\ vs[i].age = rs[i + f].age + 1
      BY <1>g, <1>o, <2>1
    <3>2. rs[i + f].age \in Nat
      BY <1>a, <3>1, Parameters
    <3>3. ~(issued = "READ" /\ i = m)
      BY <1>g, <1>d, <2>1
    <3> QED
      BY <3>1, <3>2, <3>3
  <2>2. CASE issued = "READ" /\ i = m
    BY <1>o, <2>2
  <2> QED
    BY <1>d, <2>1, <2>2
<1>1. ReadsApart(m, vs)'
  <2>1. ASSUME NEW i \in 1..m, NEW j \in 1..m, i < j
        PROVE  vs[i].age - vs[j].age >= BL
    <3>1. i \in 1..n - f /\ i + f \in 1..n
      <4>1. j <= n - f \/ j = n - f + 1
        BY <1>d, <2>1
      <4>2. i \in 1..n - f
        BY <1>g, <2>1, <4>1
      <4> QED
        BY <1>g, <4>2
    <3>2. vs[i].age = rs[i + f].age + 1 /\ rs[i + f].age \in Int
      BY <1>o, <1>z, <3>1
    <3>3. CASE j \in 1..n - f
      <4>1. j + f \in 1..n /\ i + f < j + f
        BY <1>g, <2>1, <3>3
      <4>2. rs[i + f].age - rs[j + f].age >= BL
        BY <1>w, <3>1, <4>1 DEF ReadsApart
      <4>3. vs[j].age = rs[j + f].age + 1 /\ rs[j + f].age \in Int
        BY <1>o, <1>z, <3>3, <4>1
      <4>4. \A a, b \in Int : (a + 1) - (b + 1) = a - b
        OBVIOUS
      <4> QED
        BY <3>2, <4>2, <4>3, <4>4
    <3>4. CASE issued = "READ" /\ j = m
      <4>1. rs[i + f].age + 1 >= BL /\ vs[j].age = 0
        BY <1>o, <1>p, <3>1, <3>4
      <4> QED
        BY <3>2, <4>1, Parameters
    <3> QED
      BY <1>d, <3>3, <3>4
  <2>2. ASSUME NEW i \in 1..m
        PROVE  \/ vs[i].age >= NonSeq
               \/ last_cmd_q' = "READ" /\ delay_q' + vs[i].age >= NonSeq
    <3>1. CASE i \in 1..n - f
      <4>1. /\ i + f \in 1..n /\ rs[i + f].age \in Nat
            /\ vs[i].age = rs[i + f].age + 1
        BY <1>a, <1>g, <1>o, <3>1, Parameters
      <4>2. PICK a \in Nat : a = rs[i + f].age
        BY <4>1
      <4>3. \/ a >= NonSeq
            \/ last_cmd_q = "READ" /\ delay_q + a >= NonSeq
        BY <1>w, <4>1, <4>2 DEF ReadsApart
      <4>4. CASE issued = "NOP"
        <5>1. /\ last_cmd_q' = last_cmd_q /\ delay_q \in Nat
              /\ delay_q' = IF delay_q = 0 THEN 0 ELSE delay_q - 1
          BY <1>c, <4>4
        <5>2. delay_q' + (a + 1) >= delay_q + a /\ delay_q' \in Nat
          BY <5>1
        <5>3. vs[i].age = a + 1 /\ NonSeq \in Nat
          BY <4>1, <4>2, Parameters
        <5> QED
          BY <4>3, <5>1, <5>2, <5>3
      <4>5. CASE issued # "NOP"
        <5>1. a >= NonSeq \/ issued = "READ"
          BY <1>p, <4>1, <4>2, <4>5
        <5>2. issued = "READ" => last_cmd_q' = "READ" /\ delay_q' = NonSeq
          BY <1>c
        <5>3. vs[i].age = a + 1 /\ NonSeq \in Nat
          BY <4>1, <4>2, Parameters
        <5> QED
          BY <5>1, <5>2, <5>3
      <4> QED
        BY <4>4, <4>5
    <3>2. CASE issued = "READ" /\ i = m
      BY <1>c, <1>o, <3>2, Parameters
    <3> QED
      BY <1>d, <3>1, <3>2
  <2> QED
    BY <2>1, <2>2 DEF ReadsApart
<1>2. ReadsAtChip(m, vs)'
  <2>w. /\ \A r \in dev_rd : \E i \in 1..n : rs[i].age >= 1 /\ r = rs[i]
        /\ \A i \in 1..n : rs[i].age >= 1 => rs[i] \in dev_rd
        /\ dfi.cmd = "READ" <=> \E i \in 1..n : rs[i].age = 0
        /\ \A i \in 1..n : rs[i].age = 0 => cells[dfi.line] = rs[i].data
    BY <1>w DEF ReadsAtChip
  <2>c. dev_rd' = Older(dev_rd, LastRd) \cup
                    (IF dfi.cmd # "READ" THEN {}
                     ELSE {[data |-> IF Target \in Lines THEN cells[Target]
                                     ELSE Garbage, age |-> 1]})
    BY <1>t DEF Chip, LastRd
  <2>r. /\ \A i \in 1..m : vs[i] = [data |-> vs[i].data, age |-> vs[i].age]
        /\ \A i \in 1..n : rs[i] = [data |-> rs[i].data, age |-> rs[i].age]
    BY DEF Reads
  <2>o. \A i \in 1..n : [rs[i] EXCEPT !.age = @ + 1] =
                           [data |-> rs[i].data, age |-> rs[i].age + 1]
    BY DEF Reads
  <2>1. ASSUME NEW r \in dev_rd'
        PROVE  \E i \in 1..m : vs[i].age >= 1 /\ r = vs[i]
    <3>1. CASE r \in Older(dev_rd, LastRd)
      <4>1. PICK x \in dev_rd : x.age < LastRd /\ r = [x EXCEPT !.age = @ + 1]
        BY <3>1 DEF Older
      <4>2. PICK i \in 1..n : rs[i].age >= 1 /\ x = rs[i]
        BY <2>w
      <4>3. r = [data |-> rs[i].data, age |-> rs[i].age + 1]
        BY <2>o, <4>1, <4>2
      <4>4. rs[i].age # LastRd /\ rs[i].age + 1 >= 1
        <5>1. rs[i].age < LastRd /\ rs[i].age >= 1 /\ rs[i].age \in Int
          BY <1>z, <4>1, <4>2
        <5> QED
          BY <5>1, Parameters
      <4> QED
        BY <1>s, <2>r, <4>3, <4>4
    <3>2. CASE /\ dfi.cmd = "READ"
               /\ r = [data |-> IF Target \in Lines THEN cells[Target]
                                ELSE Garbage, age |-> 1]
      <4>1. PICK i \in 1..n : rs[i].age = 0 /\ cells[dfi.line] = rs[i].data
        BY <2>w, <3>2
      <4>2. r = [data |-> rs[i].data, age |-> 1]
        BY <3>2, <4>1, TargetIsLine
      <4>3. /\ i - f \in 1..m /\ vs[i - f].data = rs[i].data
            /\ vs[i - f].age = 1
        <5>1. rs[i].age # LastRd
          <6>1. LastRd # 0
            BY Parameters
          <6> QED
            BY <4>1, <6>1
        <5> QED
          BY <1>s, <4>1, <5>1
      <4> QED
        BY <2>r, <4>2, <4>3
    <3> QED
      BY <2>c, <2>1, <3>1, <3>2
  <2>2. ASSUME NEW i \in 1..m, vs[i].age >= 1 PROVE vs[i] \in dev_rd'
    <3>1. i \in 1..n - f
      BY <1>d, <1>o, <2>2
    <3>2. /\ i + f \in 1..n /\ rs[i + f].age \in 0..LastRd - 1
          /\ vs[i].data = rs[i + f].data /\ vs[i].age = rs[i + f].age + 1
      BY <1>g, <1>o, <3>1
    <3>3. CASE rs[i + f].age = 0
      <4>1. dfi.cmd = "READ" /\ cells[dfi.line] = rs[i + f].data
        BY <2>w, <3>2, <3>3
      <4>2. Target \in Lines /\ cells[Target] = vs[i].data /\ vs[i].age = 1
        BY <3>2, <3>3, <4>1, TargetIsLine
      <4> QED
        BY <2>c, <2>r, <4>1, <4>2
    <3>4. CASE rs[i + f].age >= 1
      <4>1. rs[i + f] \in dev_rd /\ rs[i + f].age < LastRd
        BY <2>w, <3>2, <3>4, Parameters
      <4>2. [rs[i + f] EXCEPT !.age = @ + 1] = vs[i]
        BY <2>o, <2>r, <3>2
      <4> QED
        BY <2>c, <4>1, <4>2 DEF Older
    <3> QED
      BY <3>2, <3>3, <3>4, Parameters
  <2>3. dfi'.cmd = "READ" <=> issued = "READ"
    BY <1>c DEF NopCommand
  <2>4. dfi'.cmd = "READ" <=> \E i \in 1..m : vs[i].age = 0
    BY <1>d, <1>u, <2>3
  <2>5. ASSUME NEW i \in 1..m, vs[i].age = 0
        PROVE  cells'[dfi'.line] = vs[i].data
    <3>1. issued = "READ" /\ vs[i].data = mem[line] /\ dfi'.line = line
      BY <1>c, <1>o, <1>u, <2>5
    <3>2. cells'[line] = cells[line]
      BY <1>p, <1>t, <3>1, CellsNext
    <3> QED
      BY <1>p, <3>1, <3>2
  <2> QED
    BY <2>1, <2>2, <2>4, <2>5 DEF ReadsAtChip
<1>q. /\ rd_valid_q' = (f = 1)
      /\ ReadBeatDue =>
           /\ Len(rd_data_q') = BL
           /\ \A j \in 1..BL - 1 : rd_data_q'[j] = rd_data_q[j + 1]
           /\ rd_data_q'[BL] = [data |-> rs[1].data,
                                beat |-> rs[1].age - RdAge]
           /\ dfi_rd_idx_q' = IF f = 1 THEN 0 ELSE rs[1].age - RdAge + 1
      /\ ~ReadBeatDue => UNCHANGED <<rd_data_q, dfi_rd_idx_q>>
  BY <1>f, <1>t, AnswerStep
<1>3. ReadsOwed(m, vs)'
  <2>1. /\ due \in Seq(Data) /\ Len(due) = n
        /\ \A i \in 1..n : due[i] = rs[i].data
    BY <1>w DEF ReadsOwed
  <2>2. PICK rest : rest = IF rd_valid_q' /\ due # << >> THEN Tail(due) ELSE due
    OBVIOUS
  <2>3. /\ rest \in Seq(Data) /\ Len(rest) = n - f
        /\ \A i \in 1..n - f : rest[i] = vs[i].data
    <3>1. rest = IF f = 1 THEN Tail(due) ELSE due
      <4>1. rd_valid_q' = (f = 1)
        BY <1>q
      <4>2. rd_valid_q' => f = 1
        BY <4>1, Zenon
      <4>3. f = 1 => rd_valid_q' /\ n >= 1
        BY <1>g, <4>1
      <4>4. n >= 1 => due # << >>
        BY <2>1
      <4> QED
        BY <2>2, <4>2, <4>3, <4>4
    <3>2. /\ rest \in Seq(Data) /\ Len(rest) = n - f
          /\ \A i \in 1..n - f : rest[i] = due[i + f]
      <4>1. CASE f = 0
        BY <2>1, <3>1, <4>1
      <4>2. CASE f = 1
        <5>1. due # << >> /\ rest = Tail(due) /\ n >= 1
          BY <1>g, <2>1, <3>1, <4>2
        <5>2. /\ rest \in Seq(Data) /\ Len(rest) = n - 1
              /\ \A i \in 1..n - 1 : rest[i] = due[i + 1]
          BY <2>1, <5>1
        <5> QED
          BY <4>2, <5>2
      <4> QED
        BY <1>g, <4>1, <4>2
    <3>3. ASSUME NEW i \in 1..n - f PROVE rest[i] = vs[i].data
      <4>1. rest[i] = due[i + f] /\ i + f \in 1..n
        BY <1>g, <3>2
      <4>2. due[i + f] = rs[i + f].data /\ vs[i].data = rs[i + f].data
        BY <1>o, <2>1, <4>1
      <4> QED
        BY <4>1, <4>2
    <3> QED
      BY <3>2, <3>3
  <2>4. due' = IF issued = "READ" THEN Append(rest, mem[line]) ELSE rest
    BY <1>t, <2>2 DEF History
  <2>5. CASE issued = "READ"
    <3>1. vs[m].data = mem[line] /\ m = n - f + 1
      BY <1>d, <1>o, <2>5
    <3>2. /\ due' \in Seq(Data) /\ Len(due') = m
          /\ \A i \in 1..n - f : due'[i] = rest[i]
          /\ due'[m] = mem[line]
      BY <1>l, <2>3, <2>4, <2>5, <3>1
    <3> QED
      BY <1>d, <2>3, <3>1, <3>2 DEF ReadsOwed
  <2>6. CASE issued # "READ"
    <3>1. due' = rest /\ m = n - f
      BY <1>g, <1>o, <2>4, <2>6
    <3> QED
      BY <2>3, <3>1 DEF ReadsOwed
  <2> QED
    BY <2>5, <2>6
<1>r. /\ ReadBeatDue <=> (n >= 1 /\ rs[1].age >= RdAge)
      /\ ReadBeatDue => 1 \in 1..n /\ rs[1].age \in RdAge..LastRd
      /\ ~ReadBeatDue => dfi_rd_idx_q = 0
  BY ReadDue
<1>4. ReadBeatsTimed(m, vs)'
  <2>e. /\ rd_en_q = {j \in 0..RL + BL - 2 : \E i \in 1..n :
                        RL - 1 <= j + rs[i].age /\ j + rs[i].age <= RL + BL - 2}
        /\ rd_pipe = {j \in 0..PhyRdLat + 1 : \E i \in 1..n :
                        RdAge <= j + rs[i].age /\ j + rs[i].age <= LastRd}
    BY <1>w DEF ReadBeatsTimed
  <2>n. rd_en_q \in SUBSET Nat /\ rd_pipe \in SUBSET Nat
    BY <2>e, Parameters
  <2>o. ASSUME NEW j \in Nat, NEW lo \in Int, NEW hi \in Int,
               hi < j + 1 + LastRd
        PROVE  (\E i \in 1..n : lo <= (j + 1) + rs[i].age
                                /\ (j + 1) + rs[i].age <= hi)
               <=> (\E i \in 1..n - f : lo <= j + vs[i].age
                                        /\ j + vs[i].age <= hi)
    <3>0. \A a \in Int : j + (a + 1) = (j + 1) + a
      OBVIOUS
    <3>1. ASSUME NEW i \in 1..n, lo <= (j + 1) + rs[i].age,
                 (j + 1) + rs[i].age <= hi
          PROVE  \E x \in 1..n - f : lo <= j + vs[x].age /\ j + vs[x].age <= hi
      <4>1. rs[i].age # LastRd /\ rs[i].age \in Int
        BY <1>z, <2>o, <3>1, Parameters
      <4>2. i - f \in 1..n - f /\ vs[i - f].age = rs[i].age + 1
        BY <1>s, <4>1
      <4>3. j + vs[i - f].age = (j + 1) + rs[i].age
        BY <3>0, <4>1, <4>2
      <4> QED
        BY <3>1, <4>2, <4>3
    <3>2. ASSUME NEW i \in 1..n - f, lo <= j + vs[i].age, j + vs[i].age <= hi
          PROVE  \E x \in 1..n : /\ lo <= (j + 1) + rs[x].age
                                 /\ (j + 1) + rs[x].age <= hi
      <4>1. i + f \in 1..n /\ vs[i].age = rs[i + f].age + 1
        BY <1>g, <1>o
      <4>2. rs[i + f].age \in Int
        BY <1>z, <4>1
      <4>3. j + vs[i].age = (j + 1) + rs[i + f].age
        BY <3>0, <4>1, <4>2
      <4> QED
        BY <3>2, <4>1, <4>3
    <3> QED
      BY <3>1, <3>2
  <2>a. ASSUME NEW j \in Nat
        PROVE  j + 1 \in rd_en_q <=>
                 \E i \in 1..n - f : RL - 1 <= j + vs[i].age
                                     /\ j + vs[i].age <= RL + BL - 2
    <3>1. RL + BL - 2 \in Int /\ RL - 1 \in Int /\ RL + BL - 2 < j + 1 + LastRd
      BY Parameters
    <3>2. ASSUME NEW i \in 1..n, (j + 1) + rs[i].age <= RL + BL - 2
          PROVE  j + 1 \in 0..RL + BL - 2
      <4>1. rs[i].age \in Nat
        BY <1>a, Parameters
      <4> QED
        BY <3>2, <4>1, Parameters
    <3>3. j + 1 \in rd_en_q <=>
            \E i \in 1..n : RL - 1 <= (j + 1) + rs[i].age
                            /\ (j + 1) + rs[i].age <= RL + BL - 2
      BY <2>e, <3>2
    <3> QED
      BY <2>o, <3>1, <3>3
  <2>1. rd_en_q' = {j \in 0..RL + BL - 2 : \E i \in 1..m :
                      RL - 1 <= j + vs[i].age /\ j + vs[i].age <= RL + BL - 2}
    <3>1. CASE issued = "READ"
      <4>1. rd_en_q \subseteq 0..RL - 1
        <5> SUFFICES ASSUME NEW j \in rd_en_q PROVE j \in 0..RL - 1
          OBVIOUS
        <5>1. PICK i \in 1..n : j + rs[i].age <= RL + BL - 2
          BY <2>e
        <5>2. rs[i].age + 1 >= BL /\ rs[i].age \in Int /\ j \in Nat
          BY <1>p, <1>z, <2>n, <3>1
        <5> QED
          BY <5>1, <5>2, Parameters
      <4>2. rd_en_q' = Shift(rd_en_q) \cup (RL - 1 .. RL - 1 + BL - 1)
        <5>1. rd_en_q \cap (0..RL - 1) = rd_en_q
          BY <4>1
        <5> QED
          BY <1>t, <3>1, <5>1 DEF ReadBeats, Load
      <4>3. vs[m].age = 0 /\ m \in 1..m
        BY <1>d, <1>o, <3>1
      <4>4. ASSUME NEW j \in rd_en_q'
            PROVE  j \in 0..RL + BL - 2 /\ \E i \in 1..m :
                     RL - 1 <= j + vs[i].age /\ j + vs[i].age <= RL + BL - 2
        <5>1. CASE j \in Shift(rd_en_q)
          <6>1. j \in Nat /\ j + 1 \in rd_en_q
            BY <2>n, <5>1, ShiftIs, ShiftType
          <6>2. j \in 0..RL + BL - 2
            BY <2>e, <6>1, Parameters
          <6> QED
            BY <1>d, <2>a, <6>1, <6>2
        <5>2. CASE j \in RL - 1 .. RL - 1 + BL - 1
          BY <4>3, <5>2, Parameters
        <5> QED
          BY <4>2, <4>4, <5>1, <5>2
      <4>5. ASSUME NEW j \in 0..RL + BL - 2, NEW i \in 1..m,
                   RL - 1 <= j + vs[i].age, j + vs[i].age <= RL + BL - 2
            PROVE  j \in rd_en_q'
        <5>1. CASE i \in 1..n - f
          <6>1. j \in Nat
            BY Parameters
          <6>2. j + 1 \in rd_en_q
            BY <2>a, <4>5, <5>1, <6>1
          <6>3. j \in Shift(rd_en_q)
            BY <2>n, <6>1, <6>2, ShiftIs
          <6> QED
            BY <4>2, <6>3
        <5>2. CASE i = m
          BY <4>2, <4>3, <4>5, <5>2, Parameters
        <5> QED
          BY <1>d, <5>1, <5>2
      <4> QED
        BY <4>4, <4>5
    <3>2. CASE issued # "READ"
      <4>1. rd_en_q' = Shift(rd_en_q)
        BY <1>t, <3>2 DEF ReadBeats
      <4>2. ASSUME NEW j \in rd_en_q'
            PROVE  j \in 0..RL + BL - 2 /\ \E i \in 1..m :
                     RL - 1 <= j + vs[i].age /\ j + vs[i].age <= RL + BL - 2
        <5>1. j \in Nat /\ j + 1 \in rd_en_q
          BY <2>n, <4>1, ShiftIs, ShiftType
        <5>2. j \in 0..RL + BL - 2
          BY <2>e, <5>1, Parameters
        <5> QED
          BY <1>d, <2>a, <5>1, <5>2
      <4>3. ASSUME NEW j \in 0..RL + BL - 2, NEW i \in 1..m,
                   RL - 1 <= j + vs[i].age, j + vs[i].age <= RL + BL - 2
            PROVE  j \in rd_en_q'
        <5>1. j \in Nat /\ i \in 1..n - f
          BY <1>d, <3>2, Parameters
        <5>2. j + 1 \in rd_en_q
          BY <2>a, <4>3, <5>1
        <5>3. j \in Shift(rd_en_q)
          BY <2>n, <5>1, <5>2, ShiftIs
        <5> QED
          BY <4>1, <5>3
      <4> QED
        BY <4>2, <4>3
    <3> QED
      BY <3>1, <3>2
  <2>b. ASSUME NEW j \in 0..PhyRdLat + 1
        PROVE  (\E i \in 1..n : RdAge <= (j + 1) + rs[i].age
                                /\ (j + 1) + rs[i].age <= LastRd)
               <=> (\E i \in 1..m : RdAge <= j + vs[i].age
                                    /\ j + vs[i].age <= LastRd)
    <3>1. j \in Nat /\ RdAge \in Int /\ LastRd \in Int /\ LastRd < j + 1 + LastRd
      BY Parameters
    <3>2. ASSUME NEW i \in 1..m, RdAge <= j + vs[i].age PROVE i \in 1..n - f
      <4>1. RdAge > j
        BY Parameters
      <4>2. vs[i].age # 0
        BY <3>1, <3>2, <4>1
      <4> QED
        BY <1>d, <1>u, <4>2
    <3>3. (\E i \in 1..m : RdAge <= j + vs[i].age /\ j + vs[i].age <= LastRd)
          <=> (\E i \in 1..n - f : RdAge <= j + vs[i].age
                                   /\ j + vs[i].age <= LastRd)
      BY <1>d, <3>2
    <3> QED
      BY <2>o, <3>1, <3>3
  <2>f. 0 \in rd_en_q <=> \E i \in 1..n :
           RdAge <= (PhyRdLat + 1 + 1) + rs[i].age
           /\ (PhyRdLat + 1 + 1) + rs[i].age <= LastRd
    <3>1. 0 \in 0..RL + BL - 2
      BY Parameters
    <3>2. 0 \in rd_en_q <=> \E i \in 1..n :
             RL - 1 <= 0 + rs[i].age /\ 0 + rs[i].age <= RL + BL - 2
      BY <2>e, <3>1
    <3>3. ASSUME NEW i \in 1..n
          PROVE  (RL - 1 <= 0 + rs[i].age /\ 0 + rs[i].age <= RL + BL - 2)
                 <=> (RdAge <= (PhyRdLat + 1 + 1) + rs[i].age
                      /\ (PhyRdLat + 1 + 1) + rs[i].age <= LastRd)
      <4>1. PICK a \in Int : a = rs[i].age
        BY <1>z
      <4>2. (RL - 1 <= 0 + a /\ 0 + a <= RL + BL - 2)
            <=> (RdAge <= (PhyRdLat + 1 + 1) + a
                 /\ (PhyRdLat + 1 + 1) + a <= LastRd)
        BY Parameters
      <4> QED
        BY <4>1, <4>2
    <3> QED
      BY <3>2, <3>3
  <2>2. rd_pipe' = {j \in 0..PhyRdLat + 1 : \E i \in 1..m :
                      RdAge <= j + vs[i].age /\ j + vs[i].age <= LastRd}
    <3>1. rd_pipe' = Shift(rd_pipe) \cup (IF 0 \in rd_en_q THEN {PhyRdLat + 1}
                                          ELSE {})
      BY <1>t DEF ReadBeats
    <3>2. ASSUME NEW j \in 0..PhyRdLat
          PROVE  j \in Shift(rd_pipe) <=> \E i \in 1..m :
                    RdAge <= j + vs[i].age /\ j + vs[i].age <= LastRd
      <4>1. j \in Nat /\ j \in 0..PhyRdLat + 1 /\ j + 1 \in 0..PhyRdLat + 1
        BY Parameters
      <4>2. j \in Shift(rd_pipe) <=> j + 1 \in rd_pipe
        BY <2>n, <4>1, ShiftIs
      <4> QED
        BY <2>b, <2>e, <4>1, <4>2
    <3>3. PhyRdLat + 1 \in 0..PhyRdLat + 1 /\ PhyRdLat + 1 \in Nat
      BY Parameters
    <3>4. PhyRdLat + 1 \notin Shift(rd_pipe)
      <4>1. PhyRdLat + 1 + 1 \notin rd_pipe
        BY <2>e, Parameters
      <4> QED
        BY <2>n, <3>3, <4>1, ShiftIs
    <3>5. 0 \in rd_en_q <=> \E i \in 1..m :
             RdAge <= (PhyRdLat + 1) + vs[i].age
             /\ (PhyRdLat + 1) + vs[i].age <= LastRd
      BY <2>b, <2>f, <3>3
    <3>6. Shift(rd_pipe) \subseteq 0..PhyRdLat
      <4> SUFFICES ASSUME NEW j \in Shift(rd_pipe) PROVE j \in 0..PhyRdLat
        OBVIOUS
      <4>1. j \in Nat /\ j + 1 \in rd_pipe
        BY <2>n, ShiftIs, ShiftType
      <4> QED
        BY <2>e, <4>1, Parameters
    <3>7. \A j \in 0..PhyRdLat + 1 : j \in 0..PhyRdLat \/ j = PhyRdLat + 1
      BY Parameters
    <3>8. 0..PhyRdLat \subseteq 0..PhyRdLat + 1
      BY Parameters
    <3>9. ASSUME NEW j
          PROVE  j \in rd_pipe' <=>
                   /\ j \in 0..PhyRdLat + 1
                   /\ \E i \in 1..m : RdAge <= j + vs[i].age
                                      /\ j + vs[i].age <= LastRd
      <4>1. CASE j \in 0..PhyRdLat
        <5>1. j # PhyRdLat + 1
          BY <4>1, Parameters
        <5> QED
          BY <3>1, <3>2, <3>8, <4>1, <5>1
      <4>2. CASE j = PhyRdLat + 1
        BY <3>1, <3>3, <3>4, <3>5, <4>2
      <4>3. CASE j \notin 0..PhyRdLat + 1
        BY <3>1, <3>3, <3>6, <3>8, <4>3
      <4> QED
        BY <3>7, <4>1, <4>2, <4>3
    <3> QED
      BY <3>9
  <2>3. ASSUME NEW i \in 1..m, RdAge <= vs[i].age
        PROVE  dfi_rd_idx_q' = vs[i].age - RdAge
    <3>1. i \in 1..n - f
      <4>1. vs[i].age # 0
        BY <2>3, Parameters
      <4> QED
        BY <1>d, <1>u, <4>1
    <3>2. /\ i + f \in 1..n /\ vs[i].age = rs[i + f].age + 1
          /\ rs[i + f].age \in 0..LastRd - 1
      BY <1>g, <1>o, <3>1
    <3>3. CASE rs[i + f].age >= RdAge
      <4>1. i + f = 1 /\ i = 1 /\ f = 0
        BY <1>g, <3>1, <3>2, <3>3
      <4>2. ReadBeatDue
        BY <1>r, <3>2, <3>3, <4>1
      <4>3. dfi_rd_idx_q' = rs[1].age - RdAge + 1
        BY <1>q, <4>1, <4>2
      <4>4. rs[1].age \in Int /\ vs[i].age = rs[1].age + 1
        BY <1>z, <3>2, <4>1
      <4> QED
        BY <4>3, <4>4, Parameters
    <3>4. CASE rs[i + f].age < RdAge
      <4>1. vs[i].age = RdAge /\ rs[i + f].age = RdAge - 1
        BY <2>3, <3>2, <3>4, Parameters
      <4>2. CASE ~ReadBeatDue
        <5>1. dfi_rd_idx_q' = 0
          BY <1>q, <1>r, <4>2
        <5> QED
          BY <4>1, <5>1, Parameters
      <4>3. CASE ReadBeatDue
        <5>1. 1 \in 1..n /\ rs[1].age \in RdAge..LastRd /\ rs[1].age \in Int
          BY <1>r, <1>z, <4>3
        <5>2. i + f # 1 /\ 1 < i + f
          BY <3>2, <4>1, <5>1, Parameters
        <5>3. rs[1].age >= rs[i + f].age + BL
          BY <1>g, <3>2, <5>1, <5>2
        <5>4. rs[1].age = LastRd
          BY <4>1, <5>1, <5>3, Parameters
        <5>5. f = 1
          BY <1>g, <5>1, <5>4
        <5> QED
          BY <1>q, <4>1, <4>3, <5>5, Parameters
      <4> QED
        BY <4>2, <4>3
    <3> QED
      BY <3>2, <3>3, <3>4, Parameters
  <2>4. ASSUME \A i \in 1..m : vs[i].age < RdAge PROVE dfi_rd_idx_q' = 0
    <3>1. CASE ~ReadBeatDue
      BY <1>q, <1>r, <3>1
    <3>2. CASE ReadBeatDue
      <4>1. 1 \in 1..n /\ rs[1].age \in RdAge..LastRd
        BY <1>r, <3>2
      <4>2. f # 0
        <5> SUFFICES ASSUME f = 0 PROVE FALSE
          OBVIOUS
        <5>1. 1 \in 1..n - f /\ 1 + f = 1
          BY <1>g, <4>1
        <5>2. 1 \in 1..m /\ vs[1].age = rs[1].age + 1
          BY <1>d, <1>o, <5>1
        <5> QED
          BY <2>4, <4>1, <5>2, Parameters
      <4> QED
        BY <1>g, <1>q, <3>2, <4>2
    <3> QED
      BY <3>1, <3>2
  <2> QED
    BY <2>1, <2>2, <2>3, <2>4 DEF ReadBeatsTimed
<1>5. ReadBeatsCaptured(m, vs)'
  <2>1. Len(rd_data_q') = BL
    BY <1>q, <1>w DEF ReadBeatsCaptured
  <2>2. ASSUME NEW i \in 1..m, RdAge < vs[i].age,
               NEW j \in 0..BL - 1, j < vs[i].age - RdAge
        PROVE  rd_data_q'[BL - (vs[i].age - RdAge) + 1 + j] =
                  [data |-> vs[i].data, beat |-> j]
    <3>1. i \in 1..n - f
      <4>1. vs[i].age # 0
        BY <2>2, Parameters
      <4> QED
        BY <1>d, <1>u, <4>1
    <3>2. /\ i + f \in 1..n /\ vs[i].age = rs[i + f].age + 1
          /\ vs[i].data = rs[i + f].data /\ rs[i + f].age \in 0..LastRd - 1
      BY <1>g, <1>o, <3>1
    <3>3. rs[i + f].age >= RdAge
      BY <2>2, <3>2, Parameters
    <3>4. i + f = 1 /\ i = 1 /\ f = 0
      BY <1>g, <3>1, <3>2, <3>3
    <3>5. ReadBeatDue
      BY <1>r, <3>2, <3>3, <3>4
    <3>6. PICK a \in RdAge..LastRd - 1 : a = rs[1].age
      BY <3>2, <3>3, <3>4, Parameters
    <3>7. vs[i].age = a + 1 /\ vs[i].data = rs[1].data /\ 1 \in 1..n
      BY <3>2, <3>4, <3>6
    <3>w. PICK v : v = vs[i].age
      OBVIOUS
    <3>x. PICK x : x = BL - (v - RdAge) + 1 + j
      OBVIOUS
    <3>y. x = BL - (a + 1 - RdAge) + 1 + j
      <4>1. v = a + 1 /\ v \in Int /\ a \in Int /\ RdAge \in Int
        BY <3>7, <3>w, Parameters
      <4>2. v - RdAge = a + 1 - RdAge
        BY <4>1
      <4> QED
        BY <3>x, <4>2
    <3>8. ASSUME j = a - RdAge
          PROVE  rd_data_q'[x] = [data |-> vs[i].data, beat |-> j]
      <4>1. x = BL
        BY <3>8, <3>y, Parameters
      <4>2. rd_data_q'[BL] = [data |-> rs[1].data, beat |-> a - RdAge]
        BY <1>q, <3>5, <3>6
      <4> QED
        BY <3>7, <3>8, <4>1, <4>2
    <3>9. ASSUME j < a - RdAge
          PROVE  rd_data_q'[x] = [data |-> vs[i].data, beat |-> j]
      <4>2. x \in 1..BL - 1 /\ x + 1 = BL - (a - RdAge) + 1 + j
        BY <3>9, <3>y, Parameters
      <4>3. RdAge < rs[1].age /\ j < rs[1].age - RdAge
        BY <3>6, <3>9, Parameters
      <4>4. rd_data_q[BL - (rs[1].age - RdAge) + 1 + j] =
               [data |-> rs[1].data, beat |-> j]
        BY <1>w, <3>7, <4>3 DEF ReadBeatsCaptured
      <4>5. rd_data_q'[x] = rd_data_q[x + 1]
        BY <1>q, <3>5, <4>2
      <4> QED
        BY <3>6, <3>7, <4>2, <4>4, <4>5
    <3>10. j = a - RdAge \/ j < a - RdAge
      BY <2>2, <3>7, Parameters
    <3> QED
      BY <3>w, <3>x, <3>8, <3>9, <3>10
  <2> QED
    BY <2>1, <2>2 DEF ReadBeatsCaptured
<1> QED
  BY <1>1, <1>2, <1>3, <1>4, <1>5 DEF ReadInv

-----------------------------------------------------------------------------
LEMMA InitInv == Init => IInv
<1> SUFFICES ASSUME Init PROVE IInv
  OBVIOUS
<1>1. 1..0 = {} /\ 0 \in Nat
  OBVIOUS
<1>2. PICK none : none = [i \in 1..0 |-> 0]
  OBVIOUS
<1>3. none \in [1..0 -> Writes] /\ none \in [1..0 -> Reads]
  BY <1>1, <1>2
<1>4. /\ delay_q = 0 /\ last_cmd_q = "NOP" /\ dfi = NopCommand
      /\ wfifo = << >> /\ wr_en_q = {} /\ dfi_wr_idx_q = 0 /\ wr_beat = NoBeat
      /\ rd_en_q = {} /\ rd_pipe = {} /\ dfi_rd_idx_q = 0
      /\ rd_data_q = [k \in 1..BL |-> NoBeat]
      /\ dev_wr = {} /\ dev_rd = {} /\ cells \in [Lines -> Data]
      /\ mem = cells /\ due = << >>
  BY DEF Init, SeqInit, DataInit
<1>5. TypeInv
  <2>1. SeqTypeOK
    BY <1>4 DEF SeqTypeOK, Commands, DfiCommands
  <2>2. ~(dfi.cmd \in {"READ", "WRITE"})
    BY <1>4 DEF NopCommand
  <2>3. NoBeat \in [data : Payloads \cup {Garbage}, beat : 0..BL]
    BY Parameters DEF NoBeat
  <2>4. rd_data_q \in Seq([data : Payloads \cup {Garbage}, beat : 0..BL])
    BY <1>4, <2>3, Parameters
  <2> QED
    BY <1>4, <2>1, <2>2, <2>4 DEF TypeInv
<1>6. WriteInv(0, none)
  <2>1. WritesApart(0, none)
    BY <1>1 DEF WritesApart, BurstsApart
  <2>2. WritesAtChip(0, none)
    BY <1>1, <1>4 DEF WritesAtChip, NopCommand
  <2>3. WritesInFifo(0, none)
    BY <1>4 DEF WritesInFifo, Finishing
  <2>4. WriteBeatsTimed(0, none)
    BY <1>1, <1>4 DEF WriteBeatsTimed
  <2>5. WritesToMemory(0, none)
    BY <1>1, <1>4 DEF WritesToMemory
  <2> QED
    BY <2>1, <2>2, <2>3, <2>4, <2>5 DEF WriteInv
<1>7. ReadInv(0, none)
  <2>1. ReadsApart(0, none)
    BY <1>1 DEF ReadsApart
  <2>2. ReadsAtChip(0, none)
    BY <1>1, <1>4 DEF ReadsAtChip, NopCommand
  <2>3. ReadsOwed(0, none)
    BY <1>1, <1>4 DEF ReadsOwed
  <2>4. ReadBeatsTimed(0, none)
    BY <1>1, <1>4 DEF ReadBeatsTimed
  <2>5. ReadBeatsCaptured(0, none)
    BY <1>1, <1>4, Parameters DEF ReadBeatsCaptured
  <2> QED
    BY <2>1, <2>2, <2>3, <2>4, <2>5 DEF ReadInv
<1> QED
  BY <1>1, <1>3, <1>5, <1>6, <1>7 DEF IInv

LEMMA NextInv == IInv /\ [Next]_vars => IInv'
<1> SUFFICES ASSUME IInv, [Next]_vars PROVE IInv'
  OBVIOUS
<1>t. TypeInv
  BY DEF IInv
<1>a. PICK n \in Nat : \E ws \in [1..n -> Writes] : WriteInv(n, ws)
  BY DEF IInv
<1>w. PICK ws \in [1..n -> Writes] : WriteInv(n, ws)
  BY <1>a
<1>b. PICK k \in Nat : \E rs \in [1..k -> Reads] : ReadInv(k, rs)
  BY DEF IInv
<1>r. PICK rs \in [1..k -> Reads] : ReadInv(k, rs)
  BY <1>b
<1>1. ASSUME NEW cmd \in Commands, NEW line \in Lines,
             NEW payload \in Data \cup {Masked}, Tick(cmd, line, payload)
      PROVE  IInv'
  <2>1. payload \in Payloads
    BY DEF Payloads
  <2>2. TypeInv'
    BY <1>1, <1>t, <1>w, <1>r, <2>1, TypeStep
  <2>3. \E m \in Nat : \E vs \in [1..m -> Writes] : WriteInv(m, vs)'
    BY <1>1, <1>t, <1>w, <2>1, WriteStep
  <2>4. \E m \in Nat : \E vs \in [1..m -> Reads] : ReadInv(m, vs)'
    BY <1>1, <1>t, <1>w, <1>r, <2>1, ReadStep
  <2> QED
    BY <2>2, <2>3, <2>4 DEF IInv
<1>2. CASE UNCHANGED vars
  <2>1. /\ UNCHANGED seqVars /\ UNCHANGED deviceVars /\ UNCHANGED dataVars
        /\ mem' = mem /\ due' = due
    BY <1>2 DEF vars
  <2>2. TypeInv'
    BY <1>t, <2>1
    DEF TypeInv, SeqTypeOK, seqVars, deviceVars, dataVars
  <2>3. WriteInv(n, ws)'
    <3>1. WritesApart(n, ws)' /\ WritesAtChip(n, ws)' /\ WritesInFifo(n, ws)'
      BY <1>w, <2>1
      DEF WriteInv, WritesApart, WritesAtChip, WritesInFifo, seqVars, dataVars
    <3>2. WriteBeatsTimed(n, ws)'
      BY <1>w, <2>1 DEF WriteInv, WriteBeatsTimed, dataVars
    <3>3. WritesToMemory(n, ws)'
      BY <1>w, <2>1 DEF WriteInv, WritesToMemory, dataVars
    <3> QED
      BY <3>1, <3>2, <3>3 DEF WriteInv
  <2>4. ReadInv(k, rs)'
    <3>1. ReadsApart(k, rs)' /\ ReadsAtChip(k, rs)' /\ ReadsOwed(k, rs)'
      BY <1>r, <2>1
      DEF ReadInv, ReadsApart, ReadsAtChip, ReadsOwed, seqVars, dataVars
    <3>2. ReadBeatsTimed(k, rs)' /\ ReadBeatsCaptured(k, rs)'
      BY <1>r, <2>1 DEF ReadInv, ReadBeatsTimed, ReadBeatsCaptured, dataVars
    <3> QED
      BY <3>1, <3>2 DEF ReadInv
  <2> QED
    BY <2>2, <2>3, <2>4 DEF IInv
<1> QED
  BY <1>1, <1>2 DEF Next

LEMMA Invariance == Spec => []IInv
BY InitInv, NextInv, PTL DEF Spec

-----------------------------------------------------------------------------
(* The write fifo never refuses a WRITE, however many the requester sends:    *)
(* bursts are BL cycles apart, and the first leaves before it is full.       *)
THEOREM FifoNeverFull == Spec => []WriteFifoHasRoom
<1>1. IInv => WriteFifoHasRoom
  BY FifoRoom DEF IInv, WriteFifoHasRoom
<1> QED
  BY <1>1, Invariance, PTL

(* Every beat on the write bus is the beat its WRITE is due, and no WRITE     *)
(* misses one.                                                               *)
THEOREM WriteBeatsCorrect == Spec => []WriteBeatsMeetTheirCommand
<1>1. IInv => WriteBeatsMeetTheirCommand
  <2> SUFFICES ASSUME NEW n \in Nat, NEW ws \in [1..n -> Writes],
                      WriteInv(n, ws)
               PROVE  WriteBeatsMeetTheirCommand
    BY DEF IInv
  <2>1. /\ WritesAtChip(n, ws) /\ WriteBeatsTimed(n, ws)
        /\ \A i \in 1..n : ws[i].age \in Int
    BY Parameters DEF WriteInv, Writes
  <2>2. ASSUME NEW w \in dev_wr, w.age >= WrAge
        PROVE  wr_beat.beat = w.age - WrAge /\ wr_beat.data # Garbage
    <3>1. PICK i \in 1..n : w = [line |-> ws[i].line, age |-> ws[i].age]
      BY <2>1 DEF WritesAtChip
    <3>2. w.age = ws[i].age /\ WL <= ws[i].age
      BY <2>1, <2>2, <3>1, Parameters
    <3>3. wr_beat = [data |-> ws[i].data, beat |-> ws[i].age - WL]
      BY <2>1, <3>2 DEF WriteBeatsTimed
    <3>4. ws[i].data # Garbage
      BY DataAssumption DEF Writes, Payloads
    <3> QED
      BY <3>2, <3>3, <3>4, Parameters
  <2>3. ASSUME wr_beat # NoBeat
        PROVE  \E w \in dev_wr : w.age = WrAge + wr_beat.beat
    <3>1. PICK i \in 1..n : ~(ws[i].age < WL)
      BY <2>1, <2>3 DEF WriteBeatsTimed
    <3>2. WL <= ws[i].age /\ ws[i].age >= 1
      BY <2>1, <3>1, Parameters
    <3>3. wr_beat = [data |-> ws[i].data, beat |-> ws[i].age - WL]
      BY <2>1, <3>2 DEF WriteBeatsTimed
    <3>4. [line |-> ws[i].line, age |-> ws[i].age] \in dev_wr
      BY <2>1, <3>2 DEF WritesAtChip
    <3>5. ws[i].age = WrAge + wr_beat.beat
      BY <2>1, <3>3, Parameters
    <3> QED
      BY <3>4, <3>5
  <2> QED
    BY <2>2, <2>3 DEF WriteBeatsMeetTheirCommand
<1> QED
  BY <1>1, Invariance, PTL

(* The data path is a memory of lines: reads are answered in the order they   *)
(* were taken, each once, with what the writes taken before left in its line, *)
(* although writes reach the chip long after they were taken.                *)
THEOREM LineMemoryImplemented == Spec => ImplementsLineMemory
<1>1. Init => Memory!Init
  BY DEF Init, DataInit, Memory!Init
<1>2. ASSUME IInv, [Next]_vars
      PROVE  [Memory!Next]_(Memory!memVars)
  <2>1. CASE UNCHANGED vars
    <3>1. mem' = mem /\ due' = due /\ rd_valid_q' = rd_valid_q
          /\ rd_data_q' = rd_data_q
      BY <2>1 DEF vars, dataVars
    <3>2. ReadData' = ReadData
      BY <3>1 DEF ReadData, Whole
    <3> QED
      BY <3>1, <3>2 DEF Memory!memVars
  <2>2. ASSUME NEW cmd \in Commands, NEW line \in Lines,
               NEW payload \in Data \cup {Masked}, Tick(cmd, line, payload)
        PROVE  Memory!Next
    <3>1. PICK issued : issued = IF Accept(cmd) THEN cmd ELSE "NOP"
      OBVIOUS
    <3>2. ReadBeats(issued = "READ") /\ History(issued, line, payload) /\ TypeInv
      BY <1>2, <2>2, <3>1 DEF Tick, DataTick, IInv
    <3>3. PICK n \in Nat : \E rs \in [1..n -> Reads] : ReadInv(n, rs)
      BY <1>2 DEF IInv
    <3>4. PICK rs \in [1..n -> Reads] : ReadInv(n, rs)
      BY <3>3
    <3>5. PICK f : f = Answered(n, rs)
      OBVIOUS
    <3>6. /\ rd_valid_q' = (f = 1)
          /\ f = 1 => n >= 1 /\ ReadData' = rs[1].data
      <4>1. ReadBeats(issued = "READ") /\ TypeInv
        BY <3>2
      <4> QED
        BY <3>4, <3>5, <4>1, AnswerStep
    <3>7. /\ due \in Seq(Data) /\ Len(due) = n
          /\ \A i \in 1..n : due[i] = rs[i].data
      BY <3>4 DEF ReadInv, ReadsOwed
    <3>8. rd_valid_q' => due # << >> /\ ReadData' = Head(due)
      <4> SUFFICES ASSUME rd_valid_q'
                   PROVE  due # << >> /\ ReadData' = Head(due)
        OBVIOUS
      <4>0. f = 1
        BY <3>6, Zenon
      <4>1. n >= 1 /\ 1 \in 1..n /\ ReadData' = rs[1].data
        BY <3>6, <4>0
      <4>2. due # << >> /\ Head(due) = due[1]
        BY <3>7, <4>1
      <4> QED
        BY <3>7, <4>1, <4>2
    <3>9. PICK rest : rest = IF rd_valid_q' THEN Tail(due) ELSE due
      OBVIOUS
    <3>10. Memory!Take(rest)
      <4>1. due' = IF issued = "READ" THEN Append(rest, mem[line]) ELSE rest
        BY <3>2, <3>8, <3>9 DEF History
      <4>2. CASE issued = "WRITE" /\ payload # Masked
        <5>1. due' = rest /\ mem' = [mem EXCEPT ![line] = payload]
          BY <3>2, <4>1, <4>2 DEF History
        <5>2. payload \in Data
          BY <4>2
        <5> QED
          BY <5>1, <5>2 DEF Memory!Take
      <4>3. CASE ~(issued = "WRITE" /\ payload # Masked)
        <5>1. mem' = mem
          BY <3>2, <4>3 DEF History
        <5> QED
          BY <4>1, <5>1 DEF Memory!Take
      <4> QED
        BY <4>2, <4>3
    <3>11. CASE rd_valid_q'
      BY <3>8, <3>9, <3>10, <3>11 DEF Memory!Next
    <3>12. CASE ~rd_valid_q'
      BY <3>9, <3>10, <3>12 DEF Memory!Next
    <3> QED
      BY <3>11, <3>12
  <2> QED
    BY <1>2, <2>1, <2>2 DEF Next
<1>3. Spec => Memory!Spec
  BY <1>1, <1>2, Invariance, PTL DEF Spec, Memory!Spec
<1> QED
  BY <1>3 DEF ImplementsLineMemory
=============================================================================
