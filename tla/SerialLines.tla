----------------------------- MODULE SerialLines -----------------------------
(***************************************************************************)
(* The two serial lines of the SoC and what is at their ends: the line of the loader   *)
(* with a host of any speed, the line of the UART with the program that prints and    *)
(* the monitor; and the benches, which drive the first and listen on the second at rates   *)
(* of their own.  One of the three is looked at at a time.                      *)
(***************************************************************************)
EXTENDS SimpleUart, SimBench, UartConsole

VARIABLE side

serialVars == <<vars, benchVars, consoleVars, side>>

BenchOff ==
    /\ bench = "none" /\ tests = <<>> /\ testNo = 1 /\ bphase = "end" /\ edges = 1
    /\ rst_ni = 1 /\ timeout = 0 /\ signals = 0
    /\ frame = <<>> /\ sent = 0 /\ bitNo = 0 /\ program_rx_i = 1
    /\ ran = 0 /\ cut = FALSE /\ served = {}

ConsoleOff ==
    /\ state = IDLE /\ read_ptr = 0 /\ write_ptr = 0 /\ counter = 0 /\ uart_clk_pulse = FALSE
    /\ baud_div = 0 /\ stop_bit = 0 /\ tx_en = 0 /\ cfg_2 = 1 /\ tx_we = FALSE
    /\ tx_full_0 = FALSE /\ tx_full_1 = FALSE
    /\ axi = "idle" /\ wb_dat_o = 0 /\ pc = FirstOfChar /\ char = 1 /\ seen = 0 /\ pause = 0
    /\ queue = [p \in 0 .. 1 |-> Silence] /\ text = <<>> /\ resets = 0
    /\ place = 0 /\ due = 0 /\ bits = Silence /\ shown = <<>> /\ garbled = FALSE

SerialInit ==
    \/ side = "host" /\ Init /\ BenchOff /\ ConsoleOff
    \/ side = "bench" /\ LineAtRest /\ BenchInit /\ ConsoleOff
    \/ side = "console" /\ LineAtRest /\ BenchOff /\ ConsoleInit

HostStep    == side = "host" /\ Next /\ UNCHANGED <<side, benchVars, consoleVars>>
BenchStep   == side = "bench" /\ BenchNext /\ UNCHANGED <<side, vars, consoleVars>>
ConsoleStep == side = "console" /\ ConsoleNext /\ UNCHANGED <<side, vars, benchVars>>

SerialNext == HostStep \/ BenchStep \/ ConsoleStep

(* Clocks do not stop; signals and resets need not come.                           *)
ClocksRun == \/ HostStep
             \/ side = "bench" /\ Edge /\ UNCHANGED <<side, vars, consoleVars>>
             \/ side = "console" /\ Clock /\ UNCHANGED <<side, vars, benchVars>>
SerialSpec == SerialInit /\ [][SerialNext]_serialVars /\ WF_serialVars(ClocksRun)
=============================================================================
