----------------------------- MODULE WordMemory -----------------------------
(***************************************************************************)
(* What the Wishbone front promises its master: a memory of words with a     *)
(* port that holds a request until it is acknowledged, and a second writer,  *)
(* the UART loader, that may replace a word in between.                     *)
(***************************************************************************)
CONSTANTS
    Addr, Word,  \* all addresses and what a word can hold
    Lanes,       \* the byte lanes of a word
    Requests,    \* the requests the master makes
    NoReq        \* an empty bus

VARIABLES
    request,     \* what the master has on the bus
    ack, data,   \* the slave's answer; data means something for reads only
    words        \* the contents of the memory

wordVars == <<request, ack, data, words>>

Init ==
    /\ request = NoReq /\ ack = FALSE
    /\ words \in [Addr -> Word]

(* A request stays until it is acknowledged and is gone for a cycle then.    *)
Port == IF request = NoReq THEN request' \in Requests \cup {NoReq}
        ELSE request' = IF ack THEN NoReq ELSE request

Quiet == ack' = FALSE /\ UNCHANGED words

Load ==
    /\ ack' = FALSE
    /\ \E a \in Addr, d \in Word : words' = [words EXCEPT ![a] = d]

Read ==
    /\ request # NoReq /\ ~ack /\ ~request.we
    /\ ack' = TRUE /\ data' = words[request.adr] /\ UNCHANGED words

Write ==
    /\ request # NoReq /\ ~ack /\ request.we
    /\ ack' = TRUE
    /\ words' = [words EXCEPT ![request.adr] =
                   [b \in Lanes |-> IF b \in request.sel THEN request.dat[b]
                                    ELSE @[b]]]

Next == Port /\ (Quiet \/ Load \/ Read \/ Write)

Spec == Init /\ [][Next]_wordVars
=============================================================================
