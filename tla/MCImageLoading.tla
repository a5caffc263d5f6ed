--------------------------- MODULE MCImageLoading ---------------------------
(***************************************************************************)
(* ImageLoading at scale: bytes of two bits, words of two bytes, start        *)
(* sequences of three.  Values for TLC.                                     *)
(***************************************************************************)
EXTENDS ImageLoading

Digits3(a, b, c) == a * 16 + b * 4 + c
SECURESOC == Digits3(1, 2, 3)
DRAMWRITE == Digits3(1, 3, 2)
RESETTTTT == Digits3(2, 1, 1)
done == <<3, 1>>

Boot3 == [a \in 0 .. 2 |-> 12]

AllMessages ==
    {[kind |-> "program", words |-> <<9, 5>>, tail |-> TRUE],
     [kind |-> "program", words |-> <<5>>, tail |-> FALSE],
     [kind |-> "program", words |-> <<>>, tail |-> TRUE],
     [kind |-> "reset"],
     [kind |-> "dram", adr |-> 2, words |-> <<9, 5, 6>>],
     [kind |-> "dram", adr |-> 12, words |-> <<6>>]}
Chunks == {[kind |-> "program", words |-> <<5>>, tail |-> TRUE],
           [kind |-> "program", words |-> <<9, 5>>, tail |-> TRUE]}
DramImages == {[kind |-> "dram", adr |-> a, words |-> w] :
                 a \in {2, 12}, w \in {<<5>>, <<9, 6>>, <<5, 9, 6>>}}
Stores == {[adr |-> 1, dat |-> 7]}
NoAccess == {}
Reads == {8}
=============================================================================
