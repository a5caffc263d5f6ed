--------------------------- MODULE MCDdr3DataPath ---------------------------
(***************************************************************************)
(* An instance of Ddr3DataPath for TLC: one bank with two lines of one row.  *)
(* All timing parameters are those of the code at 50 MHz.                   *)
(***************************************************************************)
EXTENDS Ddr3DataPath

MCLines == [bank : {"b0"}, row : {"r0"}, col : {"c0", "c1"}]
=============================================================================
