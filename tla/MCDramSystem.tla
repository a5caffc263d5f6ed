---------------------------- MODULE MCDramSystem ----------------------------
(***************************************************************************)
(* Instances of DramSystem for TLC: one bank, two lines in one row and one   *)
(* in another, each with contents of its own; the timing is that of the code *)
(* at 50 MHz but for a shorter start-up and refresh period.                  *)
(***************************************************************************)
EXTENDS DramSystem, TLC

MCBanks == {"b0"}
MCRows == {"r0", "r1"}
MCLineOf == (0 :> [bank |-> "b0", row |-> "r0", col |-> 0])
         @@ (1 :> [bank |-> "b0", row |-> "r0", col |-> 1])
         @@ (2 :> [bank |-> "b0", row |-> "r1", col |-> 0])
MCLines == {MCLineOf[a] : a \in 0..2}
MCInitSequence == (4 :> "LOAD_MODE") @@ (3 :> "ZQCL") @@ (2 :> "PRECHARGE_ALL")
MCStrobes == {Lanes}
MCZero == [b \in Lanes |-> 0]
MCMemory == [a \in 0..11 |-> [b \in Lanes |-> IF a \in {0, 4, 5, 6, 7, 9} THEN 1 ELSE 0]]
Burst(id, addr, len) ==
    [valid |-> TRUE, id |-> id, addr |-> addr, len |-> len, size |-> 2,
     burst |-> "INCR"]
MCReads == {Burst(0, 4, 0), Burst(0, 24, 1), Burst(0, 32, 0)}
MCWrite == {Burst(1, 28, 0)}
MCWrites == {Burst(1, 12, 1)}
MCCrossing == {Burst(0, 12, 1)}
=============================================================================
