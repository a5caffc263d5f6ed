-------------------------- MODULE SimpleUart_proofs --------------------------
(***************************************************************************)
(* Proofs about SimpleUart: the receiver gets every byte, at any divider,    *)
(* from any host whose bit time is within ToleranceAssumption, byte after    *)
(* byte and after any pause.                                                *)
(***************************************************************************)
EXTENDS SimpleUart, Integers, SequenceTheorems, TLAPS

(* The same cycles as units on the line.                                     *)
HalfUnits == Unit * HalfBitCycles
BitUnits == Unit * BitCycles

(* Where the host is in its byte, in units since the start bit began.        *)
Pos == bitTime * (bit + 1) - left

(* Where the receiver is, in units since it left state 0.                    *)
Elapsed == (IF recv_state = 1 THEN 0 ELSE HalfUnits + BitUnits * (recv_state - 2))
             + Unit * recv_divcnt

Receiving == recv_state # 0 \/ bit = 0

-----------------------------------------------------------------------------
TypeInv ==
    /\ recv_state \in 0..10 /\ recv_divcnt \in Nat
    /\ recv_state = 1 => recv_divcnt + 1 <= HalfBitCycles
    /\ recv_state \in 2..10 => recv_divcnt + 1 <= BitCycles
    /\ recv_pattern \in [1 .. 8 -> 0 .. 1]
    /\ recv_buf_valid \in BOOLEAN /\ reg_dat_re \in BOOLEAN
    /\ bitTime \in BitTimes /\ bit \in 0..10 /\ left \in 1..bitTime
    /\ bit = IdleBit => left <= Unit
    /\ byte \in [1 .. 8 -> 0 .. 1]
    /\ ser_rx = Level(bit, byte)

(* The receiver is one to two cycles behind the byte on the line, and awake    *)
(* again when the next one begins.                                           *)
SyncInv ==
    /\ recv_state = 0 => bit \in {9, IdleBit} \/ (bit = 0 /\ Pos < Unit)
    /\ recv_state # 0 => /\ bit \in 0..9
                         /\ Elapsed + Unit <= Pos /\ Pos < Elapsed + 2 * Unit

(* The bits sampled so far are at the upper end of the shift register.       *)
DataInv ==
    \A i \in 1..8 : i >= 11 - recv_state =>
        recv_pattern[i] = byte[i - 10 + recv_state]

(* Owed are the byte in the buffer and the byte on the line, and the buffer    *)
(* is read before another byte can reach it.                                 *)
PendingInv ==
    /\ recv_buf_valid => recv_state = 0 \/ (recv_state = 1 /\ reg_dat_re)
    /\ recv_buf_valid /\ Receiving => pending = <<recv_buf_data, byte>>
    /\ recv_buf_valid /\ ~Receiving => pending = <<recv_buf_data>>
    /\ ~recv_buf_valid /\ Receiving => pending = <<byte>>
    /\ ~recv_buf_valid /\ ~Receiving => pending = <<>>

IInv == TypeInv /\ SyncInv /\ DataInv /\ PendingInv

-----------------------------------------------------------------------------
(* Products of natural numbers, as the steps below need them.                *)
LEMMA Products ==
    ASSUME NEW a \in Nat, NEW b \in Nat, NEW c \in Nat
    PROVE  /\ a * b \in Nat /\ a * (b + c) = a * b + a * c
           /\ b <= c => a * b <= a * c
<1>1. a * b \in Nat /\ a * (b + c) = a * b + a * c
  OBVIOUS
<1>2. ASSUME b <= c PROVE a * b <= a * c
  <2>1. PICK d \in Nat : c = b + d
    <3>1. c - b \in Nat /\ c = b + (c - b)
      BY <1>2
    <3> QED BY <3>1
  <2>2. a * c = a * b + a * d /\ a * d \in Nat /\ a * b \in Nat
    BY <2>1
  <2> QED BY <2>2
<1> QED BY <1>1, <1>2

(* A place on the line says which bit is on it.                              *)
LEMMA WhichBit ==
    ASSUME NEW t \in Nat, NEW b \in 0..10, NEW l \in 1..t, NEW k \in 0..10,
           k * t <= t * (b + 1) - l, t * (b + 1) - l < (k + 1) * t
    PROVE  b = k
<1>1. t * (b + 1) = t * b + t /\ t * (k + 1) = t * k + t
  BY Products
<1>2. t * b \in Nat /\ t * k \in Nat /\ k * t = t * k /\ (k + 1) * t = t * (k + 1)
  OBVIOUS
<1>3. b + 1 <= k => t * (b + 1) <= t * k
  BY Products
<1>4. k + 1 <= b => t * (k + 1) <= t * b
  BY Products
<1> QED BY <1>1, <1>2, <1>3, <1>4

(* The receiver's two intervals in cycles and in units.                      *)
LEMMA Intervals ==
    /\ Unit \in Nat /\ Unit >= 1
    /\ HalfBitCycles \in Nat /\ HalfBitCycles >= 2
    /\ BitCycles \in Nat /\ BitCycles >= HalfBitCycles + 1
    /\ HalfUnits \in Nat /\ HalfUnits >= 2 * Unit
    /\ BitUnits \in Nat /\ BitUnits >= HalfUnits + Unit
    /\ \A d \in Nat : 2 * d > cfg_divider <=> d + 2 >= HalfBitCycles + 1
    /\ \A d \in Nat : d > cfg_divider <=> d + 1 >= BitCycles
<1>1. Unit \in Nat /\ Unit >= 1 /\ cfg_divider \in Nat /\ cfg_divider >= 1
  BY UartAssumption
<1>2. /\ HalfBitCycles \in Nat /\ HalfBitCycles >= 2
      /\ BitCycles \in Nat /\ BitCycles >= HalfBitCycles + 1
  BY <1>1 DEF HalfBitCycles, BitCycles
<1>3. HalfUnits \in Nat /\ HalfUnits >= Unit * 2
  BY <1>1, <1>2, Products DEF HalfUnits
<1>4. BitUnits \in Nat /\ BitUnits >= Unit * (HalfBitCycles + 1)
  BY <1>1, <1>2, Products DEF BitUnits
<1>5. Unit * (HalfBitCycles + 1) = HalfUnits + Unit
  BY <1>1, <1>2 DEF HalfUnits
<1>6. \A d \in Nat : 2 * d > cfg_divider <=> d + 2 >= HalfBitCycles + 1
  BY <1>1 DEF HalfBitCycles
<1>7. \A d \in Nat : d > cfg_divider <=> d + 1 >= BitCycles
  BY <1>1 DEF BitCycles
<1> QED BY <1>1, <1>2, <1>3, <1>4, <1>5, <1>6, <1>7

(* What the tolerance of the ends gives for every bit between: the middle of   *)
(* each data bit is looked at while it is on the line.                       *)
LEMMA Tolerance ==
    ASSUME NEW t \in BitTimes
    PROVE  /\ t \in Nat /\ t >= 3 * Unit
           /\ 9 * t <= Unit + HalfUnits + 9 * BitUnits
           /\ Unit + HalfUnits + 9 * BitUnits <= 10 * t
           /\ \A k \in 1..8 : /\ k * t <= HalfUnits + BitUnits * k
                              /\ Unit + HalfUnits + BitUnits * k <= (k + 1) * t
<1> DEFINE h == HalfUnits
           u == BitUnits
<1>1. t \in Nat
  BY UartAssumption
<1>2. /\ Unit \in Nat /\ h \in Nat /\ u \in Nat
      /\ h >= 2 * Unit /\ u >= h + Unit
  BY Intervals
<1>3. /\ Unit * (1 + HalfBitCycles + 9 * BitCycles) = Unit + h + 9 * u
      /\ Unit * (HalfBitCycles + 8 * BitCycles) = h + 8 * u
  BY Intervals DEF HalfUnits, BitUnits
<1>4. 9 * t <= Unit + h + 9 * u /\ Unit + h + 9 * u <= 10 * t /\ 8 * t <= h + 8 * u
  BY <1>3, ToleranceAssumption
<1>5. t >= 3 * Unit
  BY <1>1, <1>2, <1>4
<1>6. ASSUME NEW k \in 1..8
      PROVE  k * t <= h + u * k /\ Unit + h + u * k <= (k + 1) * t
  <2>1. k = 1 \/ k = 2 \/ k = 3 \/ k = 4 \/ k = 5 \/ k = 6 \/ k = 7 \/ k = 8
    OBVIOUS
  <2> HIDE DEF h, u
  <2>2. CASE k = 1
    BY <1>1, <1>2, <1>4, <2>2
  <2>3. CASE k = 2
    BY <1>1, <1>2, <1>4, <2>3
  <2>4. CASE k = 3
    BY <1>1, <1>2, <1>4, <2>4
  <2>5. CASE k = 4
    BY <1>1, <1>2, <1>4, <2>5
  <2>6. CASE k = 5
    BY <1>1, <1>2, <1>4, <2>6
  <2>7. CASE k = 6
    BY <1>1, <1>2, <1>4, <2>7
  <2>8. CASE k = 7
    BY <1>1, <1>2, <1>4, <2>8
  <2>9. CASE k = 8
    BY <1>1, <1>2, <1>4, <2>9
  <2> QED BY <2>1, <2>2, <2>3, <2>4, <2>5, <2>6, <2>7, <2>8, <2>9
<1> QED BY <1>1, <1>4, <1>5, <1>6

-----------------------------------------------------------------------------
(* What the host does in a cycle: the place on the line moves on by a cycle, at *)
(* the end of a byte the line idles or the next byte begins.                 *)
LEMMA HostStep ==
    ASSUME TypeInv, Line
    PROVE  /\ bitTime' = bitTime /\ bit' \in 0..10 /\ left' \in 1..bitTime
           /\ byte' \in [1 .. 8 -> 0 .. 1] /\ ser_rx' = Level(bit', byte')
           /\ bit' = IdleBit => left' <= Unit
           /\ \/ /\ byte' = byte /\ bit' \in 0..9 /\ bit \in 0..9 /\ bit' >= bit
                 /\ Pos' = Pos + Unit /\ ~Begun
              \/ /\ byte' = byte /\ bit' = IdleBit
                 /\ bit = 9 => Pos + Unit >= 10 * bitTime
                 /\ bit \in {9, IdleBit}
              \/ /\ Begun /\ Pos' >= 0 /\ Pos' < Unit
                 /\ bit = 9 => Pos + Unit >= 10 * bitTime
                 /\ bit \in {9, IdleBit}
<1> DEFINE t == bitTime
<1>1. /\ t \in BitTimes /\ t \in Nat /\ t > Unit /\ t >= 3 * Unit
      /\ Unit \in Nat /\ Unit >= 1
      /\ bit \in 0..10 /\ left \in 1..t /\ t' = t
      /\ byte \in [1 .. 8 -> 0 .. 1]
  BY Tolerance, UartAssumption DEF TypeInv, Line
<1>2. Payloads \subseteq [1 .. 8 -> 0 .. 1]
  BY UartAssumption
<1>3. ser_rx' = Level(bit', byte')
  BY DEF Line
<1>4. CASE left > Unit
  <2>1. bit' = bit /\ byte' = byte /\ left' = left - Unit
    BY <1>1, <1>4 DEF Line
  <2>2. bit # IdleBit
    BY <1>1, <1>4 DEF TypeInv
  <2>3. left' \in 1..t /\ bit \in 0..9
    BY <1>1, <1>4, <2>1, <2>2 DEF IdleBit
  <2>4. Pos' = Pos + Unit
    <3>1. t * (bit + 1) \in Nat
      BY <1>1
    <3>2. \A p, l, q \in Int : p - (l - q) = (p - l) + q
      OBVIOUS
    <3>3. Pos' = t * (bit + 1) - (left - Unit) /\ Pos = t * (bit + 1) - left
      BY <1>1, <2>1 DEF Pos
    <3> QED BY <3>1, <3>2, <3>3, <1>1
  <2> QED BY <1>1, <1>3, <2>1, <2>2, <2>3, <2>4 DEF Begun, IdleBit
<1>5. CASE left <= Unit
  <2>1. PICK b \in (IF bit = IdleBit THEN {0, IdleBit}
                    ELSE IF bit = 9 THEN {0, IdleBit} ELSE {bit + 1}) :
           /\ bit' = b
           /\ left' = IF b = IdleBit THEN left ELSE left + t - Unit
           /\ IF b = 0 THEN byte' \in Payloads ELSE byte' = byte
    BY <1>1, <1>5 DEF Line
  <2>2. b \in 0..10
    BY <1>1, <2>1 DEF IdleBit
  <2>3. left' \in 1..t
    BY <1>1, <1>5, <2>1
  <2>4. byte' \in [1 .. 8 -> 0 .. 1]
    BY <1>1, <1>2, <2>1
  <2>5. b = IdleBit => left' <= Unit
    BY <1>5, <2>1
  <2>6. bit = 9 => Pos + Unit >= 10 * t
    BY <1>1, <1>5 DEF Pos
  <2>7. CASE bit \in 0..8
    <3>1. b = bit + 1 /\ left' = left + t - Unit /\ byte' = byte /\ b \in 1..9
      BY <2>1, <2>7 DEF IdleBit
    <3>2. t * (bit + 1) \in Nat /\ t * ((bit + 1) + 1) = t * (bit + 1) + t
      BY <1>1
    <3>3. \A p, l, q, r \in Int : (p + q) - (l + q - r) = (p - l) + r
      OBVIOUS
    <3>4. /\ Pos' = (t * (bit + 1) + t) - (left + t - Unit)
          /\ Pos = t * (bit + 1) - left
      BY <1>1, <2>1, <3>1, <3>2 DEF Pos
    <3>5. Pos' = Pos + Unit
      BY <3>2, <3>3, <3>4, <1>1
    <3> QED BY <1>1, <1>3, <2>1, <2>2, <2>3, <2>4, <2>7, <3>1, <3>5
            DEF Begun, IdleBit
  <2>8. CASE bit \in {9, IdleBit} /\ b = IdleBit
    BY <1>1, <1>3, <2>1, <2>2, <2>3, <2>4, <2>5, <2>6, <2>8 DEF IdleBit
  <2>9. CASE bit \in {9, IdleBit} /\ b = 0
    <3>1. Begun
      BY <2>1, <2>9 DEF Begun, IdleBit
    <3>2. left' = left + t - Unit
      BY <2>1, <2>9 DEF IdleBit
    <3>3. Pos' = t * (0 + 1) - (left + t - Unit)
      BY <1>1, <2>1, <2>9, <3>2 DEF Pos
    <3>4. Pos' = Unit - left
      BY <1>1, <3>3
    <3>5. Pos' >= 0 /\ Pos' < Unit
      BY <1>1, <1>5, <3>4
    <3> QED BY <1>1, <1>3, <2>1, <2>2, <2>3, <2>4, <2>6, <2>9, <3>1, <3>5
            DEF IdleBit
  <2> QED BY <1>1, <2>1, <2>7, <2>8, <2>9 DEF IdleBit
<1> QED BY <1>1, <1>4, <1>5

(* Where the receiver is at the end of an interval.                          *)
LEMMA IntervalEnds ==
    ASSUME TypeInv, recv_state # 0
    PROVE  /\ Elapsed \in Nat
           /\ recv_state = 1 => Elapsed + Unit <= HalfUnits
           /\ recv_state = 1 /\ recv_divcnt + 1 = HalfBitCycles
              => Elapsed + Unit = HalfUnits
           /\ recv_state # 1 => /\ BitUnits * (recv_state - 1) \in Nat
                                /\ Elapsed + Unit
                                     <= HalfUnits + BitUnits * (recv_state - 1)
           /\ recv_state # 1 /\ recv_divcnt + 2 <= BitCycles
              => Elapsed + 2 * Unit <= HalfUnits + BitUnits * (recv_state - 1)
           /\ recv_state # 1 /\ recv_divcnt + 1 = BitCycles
              => Elapsed + Unit = HalfUnits + BitUnits * (recv_state - 1)
<1> DEFINE c == recv_divcnt
<1>1. /\ recv_state \in 1..10 /\ c \in Nat /\ Unit \in Nat /\ HalfUnits \in Nat
      /\ BitUnits \in Nat /\ HalfBitCycles \in Nat /\ BitCycles \in Nat
  BY Intervals DEF TypeInv
<1>2. /\ Unit * c \in Nat /\ Unit * (c + 1) = Unit * c + Unit
      /\ Unit * (c + 2) = Unit * c + 2 * Unit
  BY <1>1
<1>3. CASE recv_state = 1
  <2>1. Elapsed = Unit * c
    BY <1>1, <1>2, <1>3 DEF Elapsed
  <2>2. c + 1 <= HalfBitCycles
    BY <1>3 DEF TypeInv
  <2>3. Unit * (c + 1) <= HalfUnits
    BY <1>1, <2>2, Products DEF HalfUnits
  <2>4. c + 1 = HalfBitCycles => Unit * (c + 1) = HalfUnits
    BY DEF HalfUnits
  <2> QED BY <1>1, <1>2, <1>3, <2>1, <2>3, <2>4
<1>4. CASE recv_state # 1
  <2> DEFINE n == recv_state - 2
             done == BitUnits * n
  <2>1. n \in Nat /\ recv_state - 1 = n + 1
    BY <1>1, <1>4
  <2>2. done \in Nat /\ BitUnits * (recv_state - 1) = done + BitUnits
    BY <1>1, <2>1, Products
  <2>3. Elapsed = HalfUnits + done + Unit * c
    BY <1>4 DEF Elapsed
  <2>4. c + 1 <= BitCycles
    BY <1>1, <1>4 DEF TypeInv
  <2>5. Unit * (c + 1) <= BitUnits
    BY <1>1, <2>4, Products DEF BitUnits
  <2>6. c + 2 <= BitCycles => Unit * (c + 2) <= BitUnits
    BY <1>1, Products DEF BitUnits
  <2>7. c + 1 = BitCycles => Unit * (c + 1) = BitUnits
    BY DEF BitUnits
  <2> HIDE DEF done
  <2> QED BY <1>1, <1>2, <1>4, <2>2, <2>3, <2>5, <2>6, <2>7
<1> QED BY <1>3, <1>4

(* A byte neither begins nor ends while the receiver is between its start bit *)
(* and its stop bit, and the bit it looks at is the one it takes it for.      *)
LEMMA Synchronous ==
    ASSUME TypeInv, SyncInv, recv_state # 0
    PROVE  /\ recv_state # 10 \/ recv_divcnt + 2 <= BitCycles
              => Pos + Unit < 10 * bitTime
           /\ recv_state \in 2..9 /\ recv_divcnt + 1 = BitCycles
              => bit = recv_state - 1
           /\ recv_state = 10 /\ recv_divcnt + 1 = BitCycles
              => Pos + Unit >= 9 * bitTime
<1> DEFINE t == bitTime
<1>1. /\ t \in BitTimes /\ t \in Nat /\ bit \in 0..10 /\ left \in 1..t
      /\ recv_state \in 1..10
      /\ 9 * t <= Unit + HalfUnits + 9 * BitUnits
      /\ Unit + HalfUnits + 9 * BitUnits <= 10 * t
  BY Tolerance DEF TypeInv
<1>2. /\ Unit \in Nat /\ Unit >= 1 /\ HalfUnits \in Nat /\ BitUnits \in Nat
      /\ BitUnits >= HalfUnits + Unit /\ HalfUnits >= 2 * Unit
  BY Intervals
<1>3. Pos \in Int /\ Pos = t * (bit + 1) - left
  BY <1>1 DEF Pos
<1>4. Elapsed \in Nat /\ Elapsed + Unit <= Pos /\ Pos < Elapsed + 2 * Unit
  BY IntervalEnds DEF SyncInv
<1>5. ASSUME recv_state # 10 \/ recv_divcnt + 2 <= BitCycles
      PROVE  Pos + Unit < 10 * t
  <2>1. CASE recv_state = 1
    <3>1. Elapsed + Unit <= HalfUnits
      BY <2>1, IntervalEnds
    <3> QED BY <1>1, <1>2, <1>3, <1>4, <3>1
  <2>2. CASE recv_state \in 2..9
    <3>1. Elapsed + Unit <= HalfUnits + BitUnits * (recv_state - 1)
      BY <2>2, IntervalEnds
    <3>2. BitUnits * (recv_state - 1) \in Nat
      BY <2>2, IntervalEnds
    <3>3. BitUnits * (recv_state - 1) <= BitUnits * 8
      <4>1. recv_state - 1 \in Nat /\ recv_state - 1 <= 8
        BY <2>2
      <4> QED BY <1>2, <4>1, Products
    <3> QED BY <1>1, <1>2, <1>3, <1>4, <3>1, <3>2, <3>3
  <2>3. CASE recv_state = 10
    <3>1. Elapsed + 2 * Unit <= HalfUnits + BitUnits * (recv_state - 1)
      BY <1>5, <2>3, IntervalEnds
    <3>2. BitUnits * (recv_state - 1) = 9 * BitUnits
      BY <1>2, <2>3
    <3> QED BY <1>1, <1>2, <1>3, <1>4, <3>1, <3>2
  <2> QED BY <1>1, <2>1, <2>2, <2>3
<1>6. ASSUME recv_state \in 2..9, recv_divcnt + 1 = BitCycles
      PROVE  bit = recv_state - 1
  <2> DEFINE k == recv_state - 1
  <2>1. k \in 1..8
    BY <1>6
  <2>2. Elapsed + Unit = HalfUnits + BitUnits * k /\ BitUnits * k \in Nat
    BY <1>6, IntervalEnds
  <2>3. k * t <= HalfUnits + BitUnits * k /\ Unit + HalfUnits + BitUnits * k <= (k + 1) * t
    BY <1>1, <2>1, Tolerance
  <2>4. k * t <= Pos /\ Pos < (k + 1) * t
    <3>1. k * t \in Nat /\ (k + 1) * t \in Nat
      BY <1>1, <2>1
    <3> HIDE DEF k
    <3> QED BY <1>1, <1>2, <1>3, <1>4, <2>2, <2>3, <3>1
  <2>5. k \in 0..10
    BY <2>1
  <2> HIDE DEF k
  <2>6. bit = k
    BY <1>1, <1>3, <2>4, <2>5, WhichBit
  <2> QED BY <2>6 DEF k
<1>7. ASSUME recv_state = 10, recv_divcnt + 1 = BitCycles
      PROVE  Pos + Unit >= 9 * t
  <2>1. Elapsed + Unit = HalfUnits + BitUnits * (recv_state - 1)
    BY <1>7, IntervalEnds
  <2>2. BitUnits * (recv_state - 1) = 9 * BitUnits
    BY <1>2, <1>7
  <2> QED BY <1>1, <1>2, <1>3, <1>4, <2>1, <2>2
<1> QED BY <1>5, <1>6, <1>7

(* What the receiver does in a cycle, by where it is in its interval.         *)
Keeps == recv_buf_data' = recv_buf_data /\ recv_buf_valid' = (recv_buf_valid /\ ~reg_dat_re)

Waits == /\ recv_state = 0 /\ ser_rx # 0 /\ recv_state' = 0 /\ recv_divcnt' = 0
         /\ recv_pattern' = recv_pattern /\ Keeps
Starts == /\ recv_state = 0 /\ ser_rx = 0 /\ recv_state' = 1 /\ recv_divcnt' = 0
          /\ recv_pattern' = recv_pattern /\ Keeps
Counts == /\ recv_state # 0 /\ recv_state' = recv_state
          /\ recv_divcnt' = recv_divcnt + 1
          /\ recv_state = 1 => recv_divcnt + 2 <= HalfBitCycles
          /\ recv_state # 1 => recv_divcnt + 2 <= BitCycles
          /\ recv_pattern' = recv_pattern /\ Keeps
StartSeen == /\ recv_state = 1 /\ recv_divcnt + 1 = HalfBitCycles
             /\ recv_state' = 2 /\ recv_divcnt' = 0
             /\ recv_pattern' = recv_pattern /\ Keeps
Samples == /\ recv_state \in 2..9 /\ recv_divcnt + 1 = BitCycles
           /\ recv_state' = recv_state + 1 /\ recv_divcnt' = 0
           /\ recv_pattern' = ShiftRight(recv_pattern, ser_rx) /\ Keeps
HandsOver == /\ recv_state = 10 /\ recv_divcnt + 1 = BitCycles
             /\ recv_state' = 0 /\ recv_divcnt' = recv_divcnt + 1
             /\ recv_pattern' = recv_pattern
             /\ recv_buf_data' = recv_pattern /\ recv_buf_valid' = TRUE

LEMMA ReceiverStep ==
    ASSUME TypeInv, Receive
    PROVE  Waits \/ Starts \/ Counts \/ StartSeen \/ Samples \/ HandsOver
<1>1. /\ recv_divcnt \in Nat /\ HalfBitCycles \in Nat /\ BitCycles \in Nat
      /\ recv_state = 1 => recv_divcnt + 1 <= HalfBitCycles
      /\ recv_state \in 2..10 => recv_divcnt + 1 <= BitCycles
      /\ 2 * recv_divcnt > cfg_divider <=> recv_divcnt + 2 >= HalfBitCycles + 1
      /\ recv_divcnt > cfg_divider <=> recv_divcnt + 1 >= BitCycles
  BY Intervals DEF TypeInv
<1>2. CASE WaitStart
  BY <1>2 DEF WaitStart, Waits, Starts, Keeps
<1>3. CASE HalfBit
  <2>1. CASE 2 * recv_divcnt > cfg_divider
    <3>1. recv_divcnt + 1 = HalfBitCycles
      BY <1>1, <1>3, <2>1 DEF HalfBit
    <3> QED BY <1>3, <2>1, <3>1 DEF HalfBit, StartSeen, Keeps
  <2>2. CASE ~(2 * recv_divcnt > cfg_divider)
    <3>1. recv_divcnt + 2 <= HalfBitCycles
      BY <1>1, <2>2
    <3> QED BY <1>3, <2>2, <3>1 DEF HalfBit, Counts, Keeps
  <2> QED BY <2>1, <2>2
<1>4. CASE DataBit
  <2>1. CASE recv_divcnt > cfg_divider
    <3>1. recv_divcnt + 1 = BitCycles
      BY <1>1, <1>4, <2>1 DEF DataBit
    <3> QED BY <1>4, <2>1, <3>1 DEF DataBit, Samples, Keeps
  <2>2. CASE ~(recv_divcnt > cfg_divider)
    <3>1. recv_divcnt + 2 <= BitCycles
      BY <1>1, <2>2
    <3> QED BY <1>4, <2>2, <3>1 DEF DataBit, Counts, Keeps
  <2> QED BY <2>1, <2>2
<1>5. CASE StopBit
  <2>1. CASE recv_divcnt > cfg_divider
    <3>1. recv_divcnt + 1 = BitCycles
      BY <1>1, <1>5, <2>1 DEF StopBit
    <3> QED BY <1>5, <2>1, <3>1 DEF StopBit, HandsOver
  <2>2. CASE ~(recv_divcnt > cfg_divider)
    <3>1. recv_divcnt + 2 <= BitCycles
      BY <1>1, <2>2
    <3> QED BY <1>5, <2>2, <3>1 DEF StopBit, Counts, Keeps
  <2> QED BY <2>1, <2>2
<1> QED BY <1>2, <1>3, <1>4, <1>5 DEF Receive

(* A receiver that is not back in state 0 moves on with the host, cycle by     *)
(* cycle, within one byte.                                                   *)
LEMMA InStep ==
    ASSUME TypeInv, SyncInv, Line,
           Starts \/ Counts \/ StartSeen \/ Samples
    PROVE  /\ byte' = byte /\ ~Begun /\ bit \in 0..9 /\ bit' \in 0..9
           /\ Pos' = Pos + Unit /\ (Starts => bit = 0)
           /\ Starts => Elapsed' = 0 /\ Pos >= 0 /\ Pos < Unit
           /\ recv_state # 0 => Elapsed' = Elapsed + Unit
<1>1. /\ bitTime \in Nat /\ bitTime >= 3 * Unit /\ Unit \in Nat /\ Unit >= 1
      /\ bit \in 0..10 /\ left \in 1..bitTime
      /\ bitTime * (bit + 1) \in Nat /\ Pos \in Int
  BY Tolerance, Intervals DEF TypeInv, Pos
<1>2. CASE Starts
  <2>1. ser_rx = Level(bit, byte) /\ ser_rx = 0
    BY <1>2 DEF TypeInv, Starts
  <2>2. bit \in {0, 9, IdleBit}
    BY <1>2 DEF SyncInv, Starts
  <2>3. bit # 9 /\ bit # IdleBit
    BY <2>1 DEF Level, IdleBit
  <2>4. bit = 0 /\ Pos < Unit
    BY <1>2, <2>2, <2>3 DEF SyncInv, Starts
  <2>5. Pos >= 0
    <3>1. Pos = bitTime - left
      BY <1>1, <2>4 DEF Pos
    <3> QED BY <1>1, <3>1
  <2>6. Elapsed' = 0
    BY <1>1, <1>2 DEF Elapsed, Starts
  <2> QED BY <1>2, <2>4, <2>5, <2>6, HostStep DEF IdleBit, Starts
<1>3. CASE Counts \/ StartSeen \/ Samples
  <2>1. recv_state # 0 /\ bit \in 0..9 /\ bit # IdleBit /\ recv_state \in 1..10
    BY <1>3 DEF SyncInv, Counts, StartSeen, Samples, IdleBit, TypeInv
  <2>2. Pos + Unit < 10 * bitTime
    <3>1. recv_state # 10 \/ recv_divcnt + 2 <= BitCycles
      BY <1>3 DEF Counts, StartSeen, Samples
    <3> QED BY <2>1, <3>1, Synchronous
  <2>3. ~(Pos + Unit >= 10 * bitTime)
    BY <1>1, <2>2
  <2>4. /\ byte' = byte /\ ~Begun /\ bit' \in 0..9 /\ Pos' = Pos + Unit
    BY <2>1, <2>3, HostStep
  <2>5. /\ recv_divcnt \in Nat /\ HalfUnits \in Nat /\ BitUnits \in Nat
        /\ Unit * (recv_divcnt + 1) = Unit * recv_divcnt + Unit
        /\ Unit * recv_divcnt \in Nat
    <3>1. recv_divcnt \in Nat
      BY DEF TypeInv
    <3> QED BY <1>1, <3>1, Intervals, Products
  <2>6. Elapsed' = Elapsed + Unit
    <3>1. CASE Counts
      <4>1. recv_state' = recv_state /\ recv_divcnt' = recv_divcnt + 1
        BY <3>1 DEF Counts
      <4>2. CASE recv_state = 1
        BY <1>1, <2>5, <4>1, <4>2 DEF Elapsed
      <4>3. CASE recv_state # 1
        <5>1. recv_state - 2 \in Nat /\ BitUnits * (recv_state - 2) \in Nat
          BY <2>1, <2>5, <4>3
        <5>2. Elapsed = HalfUnits + BitUnits * (recv_state - 2) + Unit * recv_divcnt
          BY <4>3 DEF Elapsed
        <5>3. Elapsed' = HalfUnits + BitUnits * (recv_state - 2)
                           + Unit * (recv_divcnt + 1)
          BY <4>1, <4>3 DEF Elapsed, HalfUnits, BitUnits
        <5> QED BY <1>1, <2>5, <5>1, <5>2, <5>3
      <4> QED BY <4>2, <4>3
    <3>2. CASE StartSeen
      <4>1. Elapsed' = HalfUnits + BitUnits * 0 + Unit * 0
        BY <3>2 DEF StartSeen, Elapsed, HalfUnits, BitUnits
      <4>2. Elapsed + Unit = HalfUnits
        BY <2>1, <3>2, IntervalEnds DEF StartSeen
      <4> QED BY <1>1, <2>5, <4>1, <4>2
    <3>3. CASE Samples
      <4>1. recv_state' # 1 /\ recv_state' - 2 = recv_state - 1
        BY <3>3 DEF Samples
      <4>2. Elapsed' = HalfUnits + BitUnits * (recv_state - 1) + Unit * 0
        BY <3>3, <4>1 DEF Samples, Elapsed, HalfUnits, BitUnits
      <4>3. /\ Elapsed + Unit = HalfUnits + BitUnits * (recv_state - 1)
            /\ BitUnits * (recv_state - 1) \in Nat
        BY <2>1, <3>3, IntervalEnds DEF Samples
      <4> QED BY <1>1, <2>5, <4>2, <4>3
    <3> QED BY <1>3, <3>1, <3>2, <3>3
  <2> QED BY <2>1, <2>4, <2>6, <1>3 DEF Starts
<1> QED BY <1>2, <1>3

-----------------------------------------------------------------------------
(* One lemma for each part of the invariant.                                  *)
LEMMA Facts ==
    ASSUME TypeInv
    PROVE  /\ bitTime \in BitTimes /\ bitTime \in Nat /\ bitTime >= 3 * Unit
           /\ Unit \in Nat /\ Unit >= 1
           /\ HalfBitCycles \in Nat /\ HalfBitCycles >= 2
           /\ BitCycles \in Nat /\ BitCycles >= 3
           /\ bit \in 0..10 /\ left \in 1..bitTime /\ Pos \in Int
           /\ (bit' \in 0..10 /\ left' \in 1..bitTime /\ bitTime' = bitTime
               => Pos' \in Int)
<1>1. /\ bitTime \in BitTimes /\ bitTime \in Nat /\ bitTime >= 3 * Unit
      /\ bit \in 0..10 /\ left \in 1..bitTime
  BY Tolerance DEF TypeInv
<1>2. bit \in 0..10 /\ left \in 1..bitTime => Pos \in Int
  BY <1>1 DEF Pos
<1>3. bit' \in 0..10 /\ left' \in 1..bitTime /\ bitTime' = bitTime => Pos' \in Int
  BY <1>1 DEF Pos
<1> QED BY <1>1, <1>2, <1>3, Intervals

LEMMA TypeStep ==
    ASSUME TypeInv, Tick
    PROVE  TypeInv'
<1>1. Waits \/ Starts \/ Counts \/ StartSeen \/ Samples \/ HandsOver
  BY ReceiverStep DEF Tick
<1>2. /\ bitTime' \in BitTimes /\ bit' \in 0..10 /\ left' \in 1..bitTime'
      /\ byte' \in [1 .. 8 -> 0 .. 1] /\ ser_rx' = Level(bit', byte')
      /\ bit' = IdleBit => left' <= Unit
  BY HostStep, Facts DEF Tick
<1>3. reg_dat_re' \in BOOLEAN
  BY DEF Tick, Reader
<1>4. recv_buf_valid' \in BOOLEAN
  BY <1>1 DEF Waits, Starts, Counts, StartSeen, Samples, HandsOver, Keeps
<1>5. recv_pattern' \in [1 .. 8 -> 0 .. 1]
  <2>1. recv_pattern \in [1 .. 8 -> 0 .. 1] /\ byte \in [1 .. 8 -> 0 .. 1]
    BY DEF TypeInv
  <2>2. ser_rx \in 0..1
    BY <2>1 DEF TypeInv, Level, IdleBit
  <2>3. ShiftRight(recv_pattern, ser_rx) \in [1 .. 8 -> 0 .. 1]
    BY <2>1, <2>2 DEF ShiftRight
  <2> QED BY <1>1, <2>1, <2>3
          DEF Waits, Starts, Counts, StartSeen, Samples, HandsOver
<1>6. /\ recv_state' \in 0..10 /\ recv_divcnt' \in Nat
      /\ recv_state' = 1 => recv_divcnt' + 1 <= HalfBitCycles
      /\ recv_state' \in 2..10 => recv_divcnt' + 1 <= BitCycles
  <2>1. recv_state \in 0..10 /\ recv_divcnt \in Nat
    BY DEF TypeInv
  <2> QED BY <1>1, <2>1, Facts
          DEF Waits, Starts, Counts, StartSeen, Samples, HandsOver
<1> QED BY <1>2, <1>3, <1>4, <1>5, <1>6 DEF TypeInv, HalfBitCycles, BitCycles

LEMMA SyncStep ==
    ASSUME TypeInv, SyncInv, Tick
    PROVE  SyncInv'
<1>1. Waits \/ Starts \/ Counts \/ StartSeen \/ Samples \/ HandsOver
  BY ReceiverStep DEF Tick
<1>2. Line
  BY DEF Tick
<1>3. TypeInv'
  BY TypeStep
<1>4. /\ bitTime' = bitTime /\ bit' \in 0..10 /\ left' \in 1..bitTime
      /\ Pos' \in Int
  BY <1>2, HostStep, Facts
<1>5. CASE Waits
  <2>1. bit \in {9, IdleBit}
    <3>1. ser_rx # 0 /\ ser_rx = Level(bit, byte)
      BY <1>5 DEF Waits, TypeInv
    <3>2. bit # 0
      BY <3>1 DEF Level, IdleBit
    <3> QED BY <1>5, <3>2 DEF Waits, SyncInv
  <2>2. bit' \in {9, IdleBit} \/ (bit' = 0 /\ Pos' < Unit)
    BY <1>2, <2>1, HostStep DEF Begun, IdleBit
  <2> QED BY <1>5, <2>2 DEF Waits, SyncInv
<1>6. CASE Starts
  <2>1. bit' \in 0..9 /\ Elapsed' = 0 /\ Pos' = Pos + Unit /\ Pos >= 0 /\ Pos < Unit
    BY <1>2, <1>6, InStep
  <2>2. Elapsed' + Unit <= Pos' /\ Pos' < Elapsed' + 2 * Unit
    BY <2>1, Facts
  <2> QED BY <1>6, <2>1, <2>2 DEF Starts, SyncInv
<1>7. CASE Counts \/ StartSeen \/ Samples
  <2>1. recv_state # 0 /\ recv_state' # 0
    BY <1>7 DEF Counts, StartSeen, Samples, TypeInv
  <2>2. bit' \in 0..9 /\ Pos' = Pos + Unit /\ Elapsed' = Elapsed + Unit
    BY <1>2, <1>7, <2>1, InStep
  <2>3. Elapsed + Unit <= Pos /\ Pos < Elapsed + 2 * Unit /\ Elapsed \in Nat
    BY <2>1, IntervalEnds DEF SyncInv
  <2>4. Elapsed' + Unit <= Pos' /\ Pos' < Elapsed' + 2 * Unit
    BY <2>2, <2>3, Facts
  <2> QED BY <2>1, <2>2, <2>4 DEF SyncInv
<1>8. CASE HandsOver
  <2>1. Pos + Unit >= 9 * bitTime /\ bit \in 0..9 /\ recv_state' = 0
    BY <1>8, Synchronous DEF HandsOver, SyncInv
  <2>2. CASE Begun
    <3>1. bit' = 0 /\ Pos' < Unit
      <4>1. bit' = 0
        BY <2>2 DEF Begun
      <4> QED BY <1>2, <2>2, <4>1, HostStep DEF IdleBit
    <3> QED BY <2>1, <3>1 DEF SyncInv
  <2>3. CASE bit' = IdleBit
    BY <2>1, <2>3 DEF SyncInv
  <2>4. CASE ~Begun /\ bit' # IdleBit
    <3>1. Pos' = Pos + Unit /\ bit' \in 0..9
      BY <1>2, <2>4, HostStep
    <3>2. 9 * bitTime <= Pos' /\ Pos' = bitTime * (bit' + 1) - left'
      BY <1>4, <2>1, <3>1 DEF Pos
    <3>3. Pos' < 10 * bitTime
      <4>1. bitTime * (bit' + 1) <= bitTime * 10
        BY <3>1, Facts, Products
      <4>2. bitTime * (bit' + 1) \in Nat
        BY <3>1, Facts
      <4> QED BY <1>4, <3>2, <4>1, <4>2, Facts
    <3>4. bit' = 9
      <4>1. \A b \in 0..10, l \in 1..bitTime :
              9 * bitTime <= bitTime * (b + 1) - l /\ bitTime * (b + 1) - l < (9 + 1) * bitTime
              => b = 9
        BY WhichBit, Facts
      <4> QED BY <1>4, <3>2, <3>3, <4>1
    <3> QED BY <2>1, <3>4 DEF SyncInv
  <2> QED BY <2>2, <2>3, <2>4
<1> QED BY <1>1, <1>5, <1>6, <1>7, <1>8

LEMMA DataStep ==
    ASSUME TypeInv, SyncInv, DataInv, Tick
    PROVE  DataInv'
<1>1. Waits \/ Starts \/ Counts \/ StartSeen \/ Samples \/ HandsOver
  BY ReceiverStep DEF Tick
<1>2. Line
  BY DEF Tick
<1>3. CASE Waits \/ HandsOver
  BY <1>3 DEF Waits, HandsOver, DataInv
<1>4. CASE Starts
  BY <1>4 DEF Starts, DataInv
<1>5. CASE StartSeen
  BY <1>5 DEF StartSeen, DataInv
<1>6. CASE Counts
  <2>1. byte' = byte /\ recv_pattern' = recv_pattern /\ recv_state' = recv_state
    BY <1>2, <1>6, InStep DEF Counts
  <2> QED BY <2>1 DEF DataInv
<1>7. CASE Samples
  <2>1. byte' = byte
    BY <1>2, <1>7, InStep
  <2>2. ser_rx = byte[recv_state - 1] /\ recv_state \in 2..9
    <3>1. bit = recv_state - 1 /\ recv_state \in 2..9
      BY <1>7, Synchronous DEF Samples
    <3>2. bit \in 1..8
      BY <3>1
    <3> QED BY <3>1, <3>2 DEF TypeInv, Level, IdleBit
  <2>3. recv_pattern' = ShiftRight(recv_pattern, ser_rx) /\ recv_state' = recv_state + 1
    BY <1>7 DEF Samples
  <2>4. ASSUME NEW i \in 1..8, i >= 11 - (recv_state + 1)
        PROVE  ShiftRight(recv_pattern, ser_rx)[i] = byte[i - 10 + (recv_state + 1)]
    <3>1. CASE i = 8
      BY <2>2, <3>1 DEF ShiftRight
    <3>2. CASE i # 8
      <4>1. i + 1 \in 1..8 /\ i + 1 >= 11 - recv_state
        BY <2>2, <2>4, <3>2
      <4>2. recv_pattern[i + 1] = byte[(i + 1) - 10 + recv_state]
        BY <4>1 DEF DataInv
      <4>3. (i + 1) - 10 + recv_state = i - 10 + (recv_state + 1)
        BY <2>2
      <4>4. ShiftRight(recv_pattern, ser_rx)[i] = recv_pattern[i + 1]
        BY <3>2 DEF ShiftRight
      <4> QED BY <4>2, <4>3, <4>4
    <3> QED BY <3>1, <3>2
  <2> QED BY <2>1, <2>3, <2>4 DEF DataInv
<1> QED BY <1>1, <1>3, <1>4, <1>5, <1>6, <1>7

(* The queues the bytes pass through.                                        *)
LEMMA Queues ==
    ASSUME NEW x, NEW y
    PROVE  /\ Len(<<>>) = 0 /\ Len(<<x>>) = 1 /\ Len(<<x, y>>) = 2
           /\ Append(<<>>, y) = <<y>> /\ Append(<<x>>, y) = <<x, y>>
           /\ Tail(<<x>>) = <<>> /\ Tail(<<x, y>>) = <<y>>
           /\ Head(<<x>>) = x /\ Head(<<x, y>>) = x
           /\ <<x>> # <<>> /\ <<x, y>> # <<>>
<1>1. Len(<<>>) = 0
  OBVIOUS
<1>2. Len(<<x>>) = 1
  OBVIOUS
<1>3. Len(<<x, y>>) = 2
  OBVIOUS
<1>4. Append(<<>>, y) = <<y>>
  OBVIOUS
<1>5. Append(<<x>>, y) = <<x, y>>
  <2>1. PICK S : x \in S /\ y \in S
    <3>1. x \in {x, y} /\ y \in {x, y}
      OBVIOUS
    <3> QED BY <3>1
  <2>2. PICK s \in Seq(S) : s = <<x>>
    <3>1. <<x>> \in Seq(S)
      BY <2>1
    <3> QED BY <3>1
  <2>3. PICK q \in Seq(S) : q = <<x, y>>
    <3>1. <<x, y>> \in Seq(S)
      BY <2>1
    <3> QED BY <3>1
  <2>4. Len(s) = 1 /\ s[1] = x /\ Len(q) = 2 /\ q[1] = x /\ q[2] = y
    BY <2>2, <2>3
  <2>5. PICK p \in Seq(S) : p = Append(s, y)
    BY <2>1, AppendProperties
  <2>6. Len(p) = 2 /\ p[1] = x /\ p[2] = y
    <3>1. /\ Len(p) = Len(s) + 1 /\ p[Len(s) + 1] = y
          /\ \A i \in 1 .. Len(s) : p[i] = s[i]
      BY <2>1, <2>5, AppendProperties
    <3> QED BY <2>4, <3>1
  <2>7. Len(p) = Len(q) /\ \A i \in 1 .. Len(p) : p[i] = q[i]
    BY <2>4, <2>6
  <2>8. p = q
    BY <2>7, SeqEqual
  <2> QED BY <2>2, <2>3, <2>5, <2>8
<1>6. Tail(<<x>>) = <<>>
  OBVIOUS
<1>7. Tail(<<x, y>>) = <<y>>
  OBVIOUS
<1>8. Head(<<x>>) = x /\ Head(<<x, y>>) = x
  OBVIOUS
<1>9. <<x>> # <<>> /\ <<x, y>> # <<>>
  OBVIOUS
<1> QED BY <1>1, <1>2, <1>3, <1>4, <1>5, <1>6, <1>7, <1>8, <1>9

LEMMA PendingStep ==
    ASSUME TypeInv, SyncInv, DataInv, PendingInv, Tick
    PROVE  PendingInv'
<1> DEFINE rest == IF Delivered /\ pending # <<>> THEN Tail(pending) ELSE pending
<1>1. Waits \/ Starts \/ Counts \/ StartSeen \/ Samples \/ HandsOver
  BY ReceiverStep DEF Tick
<1>2. Line /\ MaxOwed \in Nat /\ MaxOwed >= 2
  BY UartAssumption, ToleranceAssumption DEF Tick
<1>3. pending' = IF Begun /\ Len(rest) < MaxOwed THEN Append(rest, byte') ELSE rest
  BY DEF Tick, Owed
<1>4. recv_buf_valid \in BOOLEAN /\ reg_dat_re \in BOOLEAN /\ recv_state \in 0..10
  BY DEF TypeInv
<1>5. CASE Waits
  <2>1. bit \in {9, IdleBit} /\ ~Receiving /\ recv_state = 0 /\ recv_state' = 0
    <3>1. ser_rx # 0 /\ ser_rx = Level(bit, byte)
      BY <1>5 DEF Waits, TypeInv
    <3>2. bit # 0
      BY <3>1 DEF Level, IdleBit
    <3> QED BY <1>5, <3>2 DEF Waits, SyncInv, Receiving
  <2>2. Begun <=> bit' = 0
    BY <2>1 DEF Begun, IdleBit
  <2>3. Receiving' <=> Begun
    BY <2>1, <2>2 DEF Receiving
  <2>4. recv_buf_valid' <=> recv_buf_valid /\ ~reg_dat_re
    BY <1>5 DEF Waits, Keeps
  <2>5. recv_buf_data' = recv_buf_data
    BY <1>5 DEF Waits, Keeps
  <2>6. rest = IF recv_buf_valid' THEN <<recv_buf_data>> ELSE <<>>
    <3>1. CASE recv_buf_valid
      <4>1. pending = <<recv_buf_data>>
        BY <2>1, <3>1 DEF PendingInv
      <4>2. Tail(<<recv_buf_data>>) = <<>> /\ <<recv_buf_data>> # <<>>
        BY Queues
      <4> QED BY <2>4, <3>1, <4>1, <4>2 DEF Delivered
    <3>2. CASE ~recv_buf_valid
      BY <2>1, <2>4, <3>2 DEF PendingInv, Delivered
    <3> QED BY <3>1, <3>2
  <2>7. Len(rest) < MaxOwed
    <3>1. Len(<<recv_buf_data>>) = 1 /\ Len(<<>>) = 0
      BY Queues
    <3> HIDE DEF rest
    <3>2. PICK n \in {0, 1} : Len(rest) = n
      BY <2>6, <3>1
    <3>3. n < MaxOwed
      BY <1>2
    <3> QED BY <3>2, <3>3
  <2>8. pending' = IF Receiving' THEN Append(rest, byte') ELSE rest
    BY <1>3, <2>3, <2>7
  <2>9. /\ Append(<<recv_buf_data>>, byte') = <<recv_buf_data, byte'>>
        /\ Append(<<>>, byte') = <<byte'>>
    BY Queues
  <2> HIDE DEF rest
  <2> QED BY <2>1, <2>5, <2>6, <2>8, <2>9 DEF PendingInv
<1>6. CASE Starts \/ Counts \/ StartSeen \/ Samples
  <2>1. byte' = byte /\ ~Begun /\ (Starts => bit = 0)
    BY <1>2, <1>6, InStep
  <2>2. Receiving /\ Receiving' /\ recv_state' # 0
    BY <1>4, <1>6, <2>1
       DEF Starts, Counts, StartSeen, Samples, Receiving
  <2>3. recv_buf_data' = recv_buf_data
    BY <1>6 DEF Starts, Counts, StartSeen, Samples, Keeps
  <2>4. recv_buf_valid' <=> recv_buf_valid /\ ~reg_dat_re
    BY <1>6 DEF Starts, Counts, StartSeen, Samples, Keeps
  <2>5. pending' = rest
    BY <1>3, <2>1
  <2>6. CASE recv_buf_valid
    <3>1. pending = <<recv_buf_data, byte>>
      BY <2>2, <2>6 DEF PendingInv
    <3>2. Tail(<<recv_buf_data, byte>>) = <<byte>> /\ <<recv_buf_data, byte>> # <<>>
      BY Queues
    <3>3. rest = IF reg_dat_re THEN <<byte>> ELSE <<recv_buf_data, byte>>
      BY <2>6, <3>1, <3>2 DEF Delivered
    <3>4. recv_buf_valid' => recv_state' = 1 /\ reg_dat_re'
      <4>1. ~reg_dat_re => reg_dat_re'
        BY DEF Tick, Reader
      <4>2. ~reg_dat_re => recv_state = 0
        BY <2>6 DEF PendingInv
      <4>3. recv_state = 0 => recv_state' = 1
        BY <1>6 DEF Starts, Counts, StartSeen, Samples
      <4> QED BY <2>4, <4>1, <4>2, <4>3
    <3> QED BY <2>1, <2>2, <2>3, <2>4, <2>5, <2>6, <3>3, <3>4 DEF PendingInv
  <2>7. CASE ~recv_buf_valid
    <3>1. pending = <<byte>>
      BY <2>2, <2>7 DEF PendingInv
    <3>2. rest = pending
      BY <2>7 DEF Delivered
    <3> QED BY <2>1, <2>2, <2>4, <2>5, <2>7, <3>1, <3>2 DEF PendingInv
  <2> QED BY <1>4, <2>6, <2>7
<1>7. CASE HandsOver
  <2>1. /\ recv_state = 10 /\ recv_state' = 0 /\ recv_buf_valid'
        /\ recv_buf_data' = recv_pattern
    BY <1>7 DEF HandsOver
  <2>2. Receiving /\ ~recv_buf_valid
    BY <2>1 DEF PendingInv, Receiving
  <2>3. pending = <<byte>> /\ rest = pending
    BY <2>2 DEF PendingInv, Delivered
  <2>4. recv_pattern = byte
    <3>1. recv_pattern \in [1 .. 8 -> 0 .. 1] /\ byte \in [1 .. 8 -> 0 .. 1]
      BY DEF TypeInv
    <3>2. \A i \in 1..8 : recv_pattern[i] = byte[i]
      BY <2>1 DEF DataInv
    <3> QED BY <3>1, <3>2
  <2>5. Begun <=> bit' = 0
    <3>1. Pos + Unit >= 9 * bitTime
      BY <1>7, Synchronous DEF HandsOver
    <3>2. bit # 0
      <4>1. bit = 0 => Pos = bitTime - left
        BY Facts DEF Pos
      <4> QED BY <3>1, <4>1, Facts
    <3> QED BY <3>2 DEF Begun
  <2>6. Receiving' <=> Begun
    BY <2>1, <2>5 DEF Receiving
  <2>7. Len(<<byte>>) = 1 /\ Append(<<byte>>, byte') = <<byte, byte'>>
    BY Queues
  <2>8. pending' = IF Receiving' THEN <<byte, byte'>> ELSE <<byte>>
    <3>1. Len(rest) = 1
      <4> HIDE DEF rest
      <4> QED BY <2>3, <2>7
    <3> HIDE DEF rest
    <3>2. Len(rest) < MaxOwed
      <4>1. 1 < MaxOwed
        BY <1>2
      <4> QED BY <3>1, <4>1
    <3>3. Append(rest, byte') = <<byte, byte'>>
      BY <2>3, <2>7
    <3> QED BY <1>3, <2>3, <2>6, <3>2, <3>3
  <2> QED BY <2>1, <2>4, <2>8 DEF PendingInv
<1> QED BY <1>1, <1>5, <1>6, <1>7

(* The invariant holds at the start and is kept.                              *)
LEMMA Start == Init => IInv
<1> SUFFICES ASSUME Init PROVE IInv
  OBVIOUS
<1>1. Zeros \in [1 .. 8 -> 0 .. 1]
  BY DEF Zeros
<1>2. /\ bitTime \in BitTimes /\ bitTime \in Nat /\ bitTime >= 3 * Unit
      /\ Unit \in Nat /\ Unit >= 1 /\ left \in 1..Unit
  BY Tolerance, Intervals DEF Init
<1>3. ser_rx = Level(bit, byte)
  BY DEF Init, Level, IdleBit
<1>4. TypeInv
  <2>1. left \in 1..bitTime /\ left <= Unit
    BY <1>2
  <2>2. recv_state \in 0..10 /\ recv_state # 1 /\ ~(recv_state \in 2..10) /\ bit \in 0..10
    BY DEF Init, IdleBit
  <2>3. /\ recv_pattern \in [1 .. 8 -> 0 .. 1] /\ byte \in [1 .. 8 -> 0 .. 1]
        /\ recv_buf_valid \in BOOLEAN /\ reg_dat_re \in BOOLEAN
        /\ recv_divcnt \in Nat
    BY <1>1 DEF Init
  <2> QED BY <1>2, <1>3, <2>1, <2>2, <2>3 DEF TypeInv
<1>5. SyncInv
  BY DEF Init, SyncInv
<1>6. DataInv
  BY DEF Init, DataInv
<1>7. PendingInv
  BY DEF Init, PendingInv, Receiving, IdleBit
<1> QED BY <1>4, <1>5, <1>6, <1>7 DEF IInv

LEMMA Kept == IInv /\ [Next]_vars => IInv'
<1>1. ASSUME IInv, Tick PROVE IInv'
  BY <1>1, TypeStep, SyncStep, DataStep, PendingStep DEF IInv
<1>2. ASSUME IInv, UNCHANGED vars PROVE IInv'
  <2>1. /\ recv_state' = recv_state /\ recv_divcnt' = recv_divcnt
        /\ recv_pattern' = recv_pattern /\ recv_buf_data' = recv_buf_data
        /\ recv_buf_valid' = recv_buf_valid /\ reg_dat_re' = reg_dat_re
        /\ bitTime' = bitTime /\ bit' = bit /\ left' = left /\ byte' = byte
        /\ ser_rx' = ser_rx /\ pending' = pending
    BY <1>2 DEF vars, recvVars, hostVars
  <2>2. TypeInv'
    BY <1>2, <2>1 DEF IInv, TypeInv, HalfBitCycles, BitCycles
  <2>3. SyncInv'
    BY <1>2, <2>1 DEF IInv, SyncInv, Pos, Elapsed, HalfUnits, BitUnits
  <2>4. DataInv'
    BY <1>2, <2>1 DEF IInv, DataInv
  <2>5. PendingInv'
    BY <1>2, <2>1 DEF IInv, PendingInv, Receiving
  <2> QED BY <2>2, <2>3, <2>4, <2>5 DEF IInv
<1> QED BY <1>1, <1>2 DEF Next

(* The receiver hands over what the host sent, bit for bit and in order, and   *)
(* before a third byte begins: for every divider and every host whose clock is *)
(* within the tolerance, however long the pauses between bytes are.          *)
THEOREM BytesCorrect == Spec => []BytesArriveAsSent
<1>1. IInv => BytesArriveAsSent
  <2> SUFFICES ASSUME IInv PROVE BytesArriveAsSent
    OBVIOUS
  <2>1. /\ pending \in {<<recv_buf_data, byte>>, <<recv_buf_data>>, <<byte>>, <<>>}
        /\ recv_buf_valid
           => pending \in {<<recv_buf_data, byte>>, <<recv_buf_data>>}
    BY DEF IInv, PendingInv, TypeInv
  <2>2. /\ Len(<<recv_buf_data, byte>>) = 2 /\ Len(<<recv_buf_data>>) = 1
        /\ Len(<<byte>>) = 1 /\ Len(<<>>) = 0
        /\ Head(<<recv_buf_data, byte>>) = recv_buf_data
        /\ Head(<<recv_buf_data>>) = recv_buf_data
        /\ <<recv_buf_data, byte>> # <<>> /\ <<recv_buf_data>> # <<>>
    BY Queues
  <2>3. Len(pending) <= 2
    <3>1. PICK n \in {0, 1, 2} : Len(pending) = n
      BY <2>1, <2>2
    <3>2. n <= 2
      OBVIOUS
    <3> QED BY <3>1, <3>2
  <2>4. recv_buf_valid => pending # <<>> /\ recv_buf_data = Head(pending)
    BY <2>1, <2>2
  <2> QED BY <2>3, <2>4 DEF BytesArriveAsSent
<1> QED BY <1>1, Start, Kept, PTL DEF Spec
=============================================================================
