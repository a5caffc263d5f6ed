------------------------------ MODULE SimBench ------------------------------
(***************************************************************************)
(* The benches tb_air.py and tb_air_program.py: they give the SoC its clock and its    *)
(* resets, and the second one sends each test's program down the line of the loader,    *)
(* bit by bit, before it resets the SoC to start it.  What the SoC does with it is not    *)
(* looked at here.  One step is one rising edge of the bench's clock, or a signal.     *)
(***************************************************************************)
EXTENDS Integers, Sequences

CONSTANTS
    ClockHz, BaudRate,       \* 100000000 and 115200: clk_ns and baud_rate of tb_air_program
    StartString,             \* "SECURESOC"
    Settle,                  \* 1000
    TIMEOUT,
    Tests,                   \* sequences of programs; a program is a sequence of lines
    BadLine,                 \* a line int() raises ValueError on
    MaxSignals               \* (a bound)

VARIABLES
    bench, tests, testNo,
    bphase, edges,           \* what the bench waits for, and for how many edges
    rst_ni, timeout, signals,
    frame, sent, bitNo,      \* the bytes of the calls so far, how many are out, the bit
    program_rx_i,
    ran, cut, served         \* history: edges since the reset of this test, a signal came
                             \* in them, tests that ran to the limit or to a signal

history == <<ran, cut, served>>
benchVars == <<bench, tests, testNo, bphase, edges, rst_ni, timeout, signals,
               frame, sent, bitNo, program_rx_i, history>>

cycles_per_bit == (ClockHz + BaudRate - 1) \div BaudRate
BitsOf(b) == [i \in 1 .. 8 |-> (b \div 2 ^ (i - 1)) % 2]
Word32(w) == << (w \div 2 ^ 24) % 256, (w \div 2 ^ 16) % 256, (w \div 2 ^ 8) % 256, w % 256 >>

BenchInit ==
    /\ bench \in {"tb_air", "tb_air_program"} /\ tests \in Tests /\ testNo = 1
    /\ bphase = "power_on" /\ edges = 2 /\ rst_ni = 0 /\ timeout = 0 /\ signals = 0
    /\ frame = <<>> /\ sent = 0 /\ bitNo = 0 /\ program_rx_i = 1
    /\ ran = 0 /\ cut = FALSE /\ served = {}

-----------------------------------------------------------------------------
Last == edges = 1
GoOn(p, n) == bphase' = p /\ edges' = n
frameVars == <<frame, sent, bitNo>>

Waits == /\ edges > 1 /\ edges' = edges - 1
         /\ UNCHANGED <<testNo, bphase, rst_ni, timeout, frameVars, program_rx_i>>

(* tair: two edges in reset, then main_memory begins.                             *)
PowerOn ==
    /\ bphase = "power_on" /\ Last /\ rst_ni' = 1 /\ GoOn("begin", 1)
    /\ UNCHANGED <<testNo, timeout, frameVars, program_rx_i>>

(* tb_air.py resets once more before its first test.                             *)
Begin ==
    /\ bphase = "begin" /\ Last
    /\ IF bench = "tb_air" THEN rst_ni' = 0 /\ GoOn("hold", 1)
       ELSE UNCHANGED rst_ni /\ GoOn("frame", 1)
    /\ program_rx_i' = 1
    /\ UNCHANGED <<testNo, timeout, frameVars>>

Hold == /\ bphase = "hold" /\ Last /\ GoOn("reset", 2)
        /\ UNCHANGED <<testNo, rst_ni, timeout, frameVars, program_rx_i>>

(* The start string and the number of lines; the first start bit.                  *)
FrameStart ==
    /\ bphase = "frame" /\ Last
    /\ frame' = StartString \o Word32(Len(tests[testNo])) /\ sent' = 0 /\ bitNo' = 0
    /\ program_rx_i' = 0 /\ GoOn("send", cycles_per_bit)
    /\ UNCHANGED <<testNo, rst_ni, timeout>>

(* A bit after cycles_per_bit edges; after the stop bit the next byte at once.  A line     *)
(* becomes a word when its turn comes, and the bench fails there if it is none.         *)
SendBit ==
    /\ bphase = "send" /\ Last
    /\ LET words == (Len(frame) - Len(StartString)) \div 4
           more == IF sent + 1 < Len(frame) THEN frame
                   ELSE IF words > Len(tests[testNo]) THEN <<>>
                   ELSE IF tests[testNo][words] = BadLine THEN <<BadLine>>
                   ELSE frame \o Word32(tests[testNo][words])
       IN IF bitNo < 9
            THEN /\ bitNo' = bitNo + 1 /\ program_rx_i' = IF bitNo = 8 THEN 1
                                    ELSE BitsOf(frame[sent + 1])[bitNo + 1]
                 /\ edges' = cycles_per_bit /\ UNCHANGED <<bphase, frame, sent>>
          ELSE /\ sent' = sent + 1 /\ bitNo' = 0
               /\ CASE more = <<>> -> GoOn("settle", Settle + 1) /\ UNCHANGED <<frame, program_rx_i>>
                    [] more = <<BadLine>> -> GoOn("failed", 1) /\ UNCHANGED <<frame, program_rx_i>>
                    [] OTHER -> /\ frame' = more /\ program_rx_i' = 0
                                /\ GoOn("send", cycles_per_bit)
    /\ UNCHANGED <<testNo, rst_ni, timeout>>

Settled ==
    /\ bphase = "settle" /\ Last /\ rst_ni' = 0 /\ GoOn("reset", 1)
    /\ UNCHANGED <<testNo, timeout, frameVars, program_rx_i>>

(* A fault for the mutants: the count of the test before goes on.                  *)
ResetEndsKeepsCount ==
    /\ bphase = "reset" /\ Last /\ rst_ni' = 1 /\ GoOn("run", 1)
    /\ UNCHANGED <<testNo, timeout, frameVars, program_rx_i>>

ResetEnds ==
    /\ bphase = "reset" /\ Last /\ rst_ni' = 1 /\ timeout' = 0 /\ GoOn("run", 1)
    /\ UNCHANGED <<testNo, frameVars, program_rx_i>>

(* The test runs until the counter has passed the limit; then the next one, and at the      *)
(* end of tb_air.py the loop once more.                                        *)
Run ==
    /\ bphase = "run" /\ timeout <= TIMEOUT
    /\ timeout' = timeout + 1
    /\ UNCHANGED <<testNo, bphase, edges, rst_ni, frameVars, program_rx_i>>

TestOver ==
    /\ bphase = "run" /\ timeout > TIMEOUT
    /\ IF testNo < Len(tests)
         THEN /\ testNo' = testNo + 1
              /\ IF bench = "tb_air" THEN rst_ni' = 0 /\ GoOn("reset", 2)
                 ELSE UNCHANGED rst_ni /\ GoOn("frame", 1)
         ELSE GoOn(IF bench = "tb_air" THEN "last" ELSE "end", 1) /\ UNCHANGED <<testNo, rst_ni>>
    /\ UNCHANGED <<timeout, frameVars, program_rx_i>>

LastLoop ==
    /\ bphase = "last"
    /\ IF timeout > TIMEOUT THEN GoOn("end", 1) /\ UNCHANGED timeout
       ELSE timeout' = timeout + 1 /\ UNCHANGED <<bphase, edges>>
    /\ UNCHANGED <<testNo, rst_ni, frameVars, program_rx_i>>

Bench == \/ Waits \/ PowerOn \/ Begin \/ Hold \/ FrameStart \/ SendBit \/ Settled
         \/ ResetEnds \/ Run \/ TestOver \/ LastLoop

-----------------------------------------------------------------------------
TestTime ==
    /\ ran' = IF bphase # "run" \/ bphase' # "run" THEN 0
              ELSE IF ran <= TIMEOUT THEN ran + 1 ELSE ran
    /\ cut' = (cut /\ bphase' = "run")
    /\ served' = IF bphase = "run" /\ bphase' # "run" /\ (ran > TIMEOUT \/ cut)
                 THEN served \cup {testNo} ELSE served

Edge ==
    /\ Bench
    /\ TestTime
    /\ UNCHANGED <<bench, tests, signals>>

(* signal_handler of tb_air.py sets the counter to the limit, whenever the user asks.       *)
Interrupt ==
    /\ bench = "tb_air" /\ signals < MaxSignals
    /\ signals' = signals + 1 /\ timeout' = TIMEOUT
    /\ cut' = (cut \/ bphase = "run")
    /\ UNCHANGED <<bench, tests, testNo, bphase, edges, rst_ni, frameVars, program_rx_i, ran, served>>

BenchNext == Edge \/ Interrupt

-----------------------------------------------------------------------------
(* The bench comes to its end, whenever it is interrupted, unless a line of a program is no    *)
(* number; and each test has run to its limit by then, or to a signal that came while it ran:    *)
(* what the test before left of the counter, or a signal in the reset between two, ends none.   *)
BenchRunsEveryTest ==
    <>(bphase = "failed" \/ (bphase = "end" /\ served = DOMAIN tests))
=============================================================================
