------------------------------- MODULE BootTime -------------------------------
(***************************************************************************)
(* tools/calculate_execution_time_from_uart.py measures how long Linux boots: it   *)
(* waits for one text on the serial line, then for another, and prints the time      *)
(* between.  The text comes character by character and the script takes what has      *)
(* come whenever it looks, so that a read begins and ends anywhere.  Time is         *)
(* counted in characters that have come.                                      *)
(***************************************************************************)
EXTENDS Integers, Sequences, SequencesExt

CONSTANTS
    start_marker, end_marker,      \* sequences of characters
    Lines,                         \* what the SoC may print
    Undecodable                    \* a byte that decode() leaves out

VARIABLES
    tst,                           \* "open", "listen", "reported", "stopped", "failed"
    printed, come, taken,          \* the whole text; how much of it has come, is read
    buffer, start_time,            \* 0 for None
    end_time,
    looks                          \* history: where the reads ended

timeVars == <<tst, printed, come, taken, buffer, start_time, end_time, looks>>

TimeInit ==
    /\ tst = "open" /\ printed = <<>> /\ come = 0 /\ taken = 0
    /\ buffer = <<>> /\ start_time = 0 /\ end_time = 0 /\ looks = {}

(* serial.Serial raises, or not; what comes before is not seen.                      *)
OpenPort ==
    /\ tst = "open" /\ tst' \in {"listen", "failed"} /\ printed' \in Lines
    /\ UNCHANGED <<come, taken, buffer, start_time, end_time, looks>>

Arrive ==
    /\ tst = "listen" /\ come < Len(printed) /\ come' = come + 1
    /\ UNCHANGED <<tst, printed, taken, buffer, start_time, end_time, looks>>

Decoded(bytes) == SelectSeq(bytes, LAMBDA c : c # Undecodable)
NewData == Decoded(SubSeq(printed, taken + 1, come))
Holds(chars, marker) ==
    \E k \in DOMAIN chars : IsPrefix(marker, SubSeq(chars, k, Len(chars)))

(* A fault for the mutants: the script looks at what it has just read only.           *)
LookAtDataOnly ==
    /\ tst = "listen" /\ taken < come
    /\ taken' = come /\ looks' = looks \cup {come} /\ buffer' = <<>>
    /\ IF start_time = 0
         THEN /\ start_time' = IF Holds(NewData, start_marker) THEN come ELSE 0
              /\ UNCHANGED <<tst, end_time>>
         ELSE /\ IF Holds(NewData, end_marker) THEN end_time' = come /\ tst' = "reported"
                 ELSE UNCHANGED <<tst, end_time>>
              /\ UNCHANGED start_time
    /\ UNCHANGED <<printed, come>>

(* A fault for the mutants: the buffer is not emptied when the first text is found.     *)
LookKeepsBuffer ==
    /\ tst = "listen" /\ taken < come
    /\ taken' = come /\ looks' = looks \cup {come}
    /\ buffer' = buffer \o NewData
    /\ IF start_time = 0
         THEN /\ start_time' = IF Holds(buffer', start_marker) THEN come ELSE 0
              /\ UNCHANGED <<tst, end_time>>
         ELSE /\ IF Holds(buffer', end_marker) THEN end_time' = come /\ tst' = "reported"
                 ELSE UNCHANGED <<tst, end_time>>
              /\ UNCHANGED start_time
    /\ UNCHANGED <<printed, come>>

(* in_waiting: everything that has come is read at once.                            *)
Look ==
    /\ tst = "listen" /\ taken < come
    /\ taken' = come /\ looks' = looks \cup {come}
    /\ LET all == buffer \o NewData IN
       IF start_time = 0
         THEN /\ IF Holds(all, start_marker)
                   THEN start_time' = come /\ buffer' = <<>>
                   ELSE buffer' = all /\ UNCHANGED start_time
              /\ UNCHANGED <<tst, end_time>>
         ELSE /\ buffer' = all
              /\ IF Holds(all, end_marker) THEN end_time' = come /\ tst' = "reported"
                 ELSE UNCHANGED <<tst, end_time>>
              /\ UNCHANGED start_time
    /\ UNCHANGED <<printed, come>>

(* The user gives up, or the port goes away.                                       *)
Stop ==
    /\ tst = "listen" /\ tst' \in {"stopped", "failed"}
    /\ UNCHANGED <<printed, come, taken, buffer, start_time, end_time, looks>>

TimeNext == OpenPort \/ Arrive \/ Look \/ Stop
TimeSpec == TimeInit /\ [][TimeNext]_timeVars /\ WF_timeVars(Look)

-----------------------------------------------------------------------------
Between(from, to) == Decoded(SubSeq(printed, from + 1, to))

(* The time that is printed begins with the first read after which the whole of the      *)
(* first text has come, however it was cut by the reads before, and ends with the first   *)
(* read after which the second text has come that did not begin before: a prompt of the     *)
(* boot loader, before the first text or in one read with it, does not count.          *)
IntervalIsBoot ==
    tst = "reported" =>
       /\ start_time \in looks /\ end_time \in looks
       /\ Holds(Between(0, start_time), start_marker)
       /\ Holds(Between(start_time, end_time), end_marker)
       /\ \A l \in looks :
             /\ l < start_time => ~Holds(Between(0, l), start_marker)
             /\ start_time < l /\ l < end_time => ~Holds(Between(start_time, l), end_marker)

(* Once the first text is noticed, a second text that comes after the read is noticed      *)
(* too, unless the script is stopped.                                            *)
EndMarkerNoticed ==
    (start_time > 0 /\ Holds(Between(start_time, come), end_marker)) ~> tst # "listen"
=============================================================================
