----------------------------- MODULE MCDdr3Core -----------------------------
(***************************************************************************)
(* Instances of Ddr3Core for TLC: two banks, two rows, one line per row.    *)
(* tRCD and tRP are those of the code at 50 MHz, the longer times are cut    *)
(* down: a refresh still outlasts a burst.                                  *)
(***************************************************************************)
EXTENDS Ddr3Core, TLC

MCBanks == {"b0", "b1"}
MCRows == {"r0", "r1"}
MCLines == [bank : MCBanks, row : MCRows]
MCInitSequence == (5 :> "LOAD_MODE") @@ (4 :> "ZQCL") @@ (2 :> "PRECHARGE_ALL")
=============================================================================
