--------------------------- MODULE MCDramWbMemory ---------------------------
(***************************************************************************)
(* An instance of DramWbMemory for TLC: three words in two lines.            *)
(* One byte per word: a strobe is on or off.                                *)
(***************************************************************************)
EXTENDS DramWbMemory

MCAddrs == [line : {0}, word : {0, 1}] \cup [line : {1}, word : {1}]
MCDats == {[b \in Lanes |-> v] : v \in Bytes}
=============================================================================
