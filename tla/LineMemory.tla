----------------------------- MODULE LineMemory -----------------------------
(***************************************************************************)
(* What the DRAM data path promises its requester: a memory of lines that   *)
(* takes reads and writes one at a time and answers the reads in order, each *)
(* with what had last been written to its line when the read was taken.      *)
(***************************************************************************)
EXTENDS Sequences

CONSTANTS Lines, Data, None

VARIABLES
    mem,      \* the contents of the lines
    due,      \* the answers owed, oldest first
    answer    \* the answer given in this cycle, or None

memVars == <<mem, due, answer>>

Init == mem \in [Lines -> Data] /\ due = << >> /\ answer = None

(* Take nothing, a write or a read; rest is what is still owed otherwise.    *)
Take(rest) ==
    \/ due' = rest /\ UNCHANGED mem
    \/ \E l \in Lines, d \in Data :
         due' = rest /\ mem' = [mem EXCEPT ![l] = d]
    \/ \E l \in Lines : due' = Append(rest, mem[l]) /\ UNCHANGED mem

Next ==
    \/ answer' = None /\ Take(due)
    \/ due # << >> /\ answer' = Head(due) /\ Take(Tail(due))

Spec == Init /\ [][Next]_memVars
=============================================================================
