---------------------------- MODULE Ddr3DataPath ----------------------------
(***************************************************************************)
(* The sequencer and its data side under every stream of commands a correct *)
(* state machine could drive: any command in any cycle, held or withdrawn,  *)
(* as long as the rows are right when it is offered.  The state machine      *)
(* itself is module Ddr3Core.  due and mem are history variables: what the  *)
(* accepted commands, taken one after the other, amount to.                  *)
(***************************************************************************)
EXTENDS Ddr3DfiData

CONSTANT None

VARIABLES mem, due

vars == <<seqVars, deviceVars, dataVars, mem, due>>

Init ==
    /\ SeqInit /\ DeviceInit /\ DataInit
    /\ mem = cells /\ due = << >>

Offered(cmd, line) ==
    /\ cmd = "ACTIVE" => RowAfter[line.bank] = Closed
    /\ cmd \in {"READ", "WRITE"} => RowAfter[line.bank] = line.row
    /\ cmd = "REFRESH" => \A b \in Banks : RowAfter[b] = Closed

History(issued, line, payload) ==
    /\ mem' = IF issued = "WRITE" /\ payload # Masked
                THEN [mem EXCEPT ![line] = payload] ELSE mem
    /\ LET rest == IF rd_valid_q' /\ due # << >> THEN Tail(due) ELSE due
       IN  due' = IF issued = "READ" THEN Append(rest, mem[line]) ELSE rest

Tick(cmd, line, payload) ==
    LET issued == IF Accept(cmd) THEN cmd ELSE "NOP"
    IN  /\ Offered(cmd, line)
        /\ SeqTick(cmd, line) /\ DeviceTick /\ DataTick(issued, payload)
        /\ History(issued, line, payload)

Next == \E cmd \in Commands, line \in Lines, payload \in Data \cup {Masked} :
            Tick(cmd, line, payload)

Spec == Init /\ [][Next]_vars /\ WF_vars(Next)

-----------------------------------------------------------------------------
(* Every WRITE finds its data on the bus: exactly WL cycles after the command *)
(* the beats of one payload pass in order, and no beat passes without a       *)
(* command, whether bursts are far apart or back to back.                    *)
WriteBeatsMeetTheirCommand ==
    /\ \A w \in dev_wr : w.age >= WrAge =>
         wr_beat.beat = w.age - WrAge /\ wr_beat.data # Garbage
    /\ wr_beat # NoBeat => \E w \in dev_wr : w.age = WrAge + wr_beat.beat

(* The write fifo, whose accept output is not connected, always has room.    *)
WriteFifoHasRoom == Len(wfifo) < FifoDepth

(* The data path implements the line memory: reads are answered in order with *)
(* what the writes accepted before them left, masked writes change nothing.   *)
Memory == INSTANCE LineMemory
            WITH answer <- IF rd_valid_q THEN ReadData ELSE None
ImplementsLineMemory == Memory!Spec

(* A read that was accepted is answered, and the requester sees it, whatever  *)
(* commands follow.                                                          *)
ReadsAnswered == (due # << >>) ~> rd_valid_q
=============================================================================
