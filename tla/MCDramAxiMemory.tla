--------------------------- MODULE MCDramAxiMemory ---------------------------
(***************************************************************************)
(* Instances of DramAxiMemory for TLC: three words, four bursts of one to     *)
(* three beats (one of half words), one byte per word.                       *)
(***************************************************************************)
EXTENDS DramAxiMemory

Burst(id, addr, len, size, burst) ==
    [valid |-> TRUE, id |-> id, addr |-> addr, len |-> len, size |-> size,
     burst |-> burst]
MCRequests == {Burst(0, 4, 0, 2, "FIXED"), Burst(1, 4, 1, 2, "FIXED"),
               Burst(1, 0, 2, 2, "INCR"), Burst(0, 2, 2, 1, "INCR")}
MCStrobes == SUBSET Lanes
MCZero == [b \in Lanes |-> 0]
MCMemory == [a \in Words |-> MCZero]
=============================================================================
