---------------------------- MODULE MCSerialLines ----------------------------
(***************************************************************************)
(* SerialLines with the divider of header.vh on the loader's line: a unit is a       *)
(* quarter cycle, 217 units are a bit at 921600 baud and 50 MHz.  The console runs     *)
(* with a divider of 9 and the monitor's bit shortened like the original's (1085 ns     *)
(* where the UART takes 1100).  The benches have the clock and the rate that           *)
(* tb_air_program.py sets.  Values for TLC.                                       *)
(***************************************************************************)
EXTENDS SerialLines

Baud921600 == {214, 217, 231}

SECURESOC == <<83, 69, 67, 85, 82, 69, 83, 79, 67>>
Programs == { << <<1>>, <<>> >>, << <<1, BadLine>> >> }

Alternating == [i \in 1 .. 8 |-> i % 2]
LastOnly(b) == [i \in 1 .. 8 |-> IF i = 8 THEN b ELSE 1 - b]
Patterns == {Alternating, LastOnly(0), LastOnly(1)}

ConsoleTexts == {<<Alternating, LastOnly(0)>>, <<LastOnly(1), Alternating>>,
                 <<LastOnly(0), LastOnly(1)>>}
=============================================================================
