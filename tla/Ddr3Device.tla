----------------------------- MODULE Ddr3Device -----------------------------
(***************************************************************************)
(* The DRAM chip, as far as the commands on the DFI pins go: which row each *)
(* bank has open, and how many cycles ago the last command of each kind     *)
(* arrived.  The chip is not part of the repository's own logic: the module *)
(* is an external model, derived from the commands ddr3_core issues and the *)
(* timing parameters ddr3_dfi_seq names.  It accepts every command; what a  *)
(* chip requires of the controller is stated as the predicates below.       *)
(***************************************************************************)
EXTENDS Ddr3DfiSeq

CONSTANTS
    Banks, Rows,
    Closed,      \* the mark of a bank with no open row
    Long         \* the bound of the distance counters: no spacing is longer

ASSUME DeviceAssumption ==
    /\ \A l \in Lines : l.bank \in Banks /\ l.row \in Rows
    /\ Closed \notin Rows
    /\ Long \in Nat \ {0}
    /\ TRCD <= Long /\ TRP <= Long /\ TRFC <= Long /\ NonSeq <= Long

VARIABLES
    open_row,    \* open_row[b] is the row bank b has open, or Closed
    since        \* since[k]: cycles since the last command k, up to Long

deviceVars == <<open_row, since>>

Timed == {"ACTIVE", "PRECHARGE", "READ", "WRITE", "REFRESH"}

Kind(cmd) == IF cmd = "PRECHARGE_ALL" THEN "PRECHARGE" ELSE cmd

DeviceInit ==
    /\ open_row \in [Banks -> Rows \cup {Closed}]
    /\ since = [k \in Timed |-> Long]

(* The rows that are open once the command on the pins has been executed.   *)
Addressed(b) == dfi.cmd # "NOP" /\ dfi.line.bank = b

RowAfter ==
    [b \in Banks |->
       IF dfi.cmd = "PRECHARGE_ALL" \/ (dfi.cmd = "PRECHARGE" /\ Addressed(b))
         THEN Closed
       ELSE IF dfi.cmd = "ACTIVE" /\ Addressed(b) THEN dfi.line.row
       ELSE open_row[b]]

SinceAfter ==
    [k \in Timed |-> IF Kind(dfi.cmd) = k THEN 1
                     ELSE IF since[k] < Long THEN since[k] + 1 ELSE Long]

(* A clock edge at the chip: it executes the command on the pins.           *)
DeviceTick == open_row' = RowAfter /\ since' = SinceAfter

(* What the chip requires of a command when it arrives.                     *)
RowRule ==
    /\ dfi.cmd = "ACTIVE" => open_row[dfi.line.bank] = Closed
    /\ dfi.cmd \in {"READ", "WRITE"} => open_row[dfi.line.bank] = dfi.line.row
    /\ dfi.cmd = "REFRESH" => \A b \in Banks : open_row[b] = Closed

(* The minimum distance from an earlier command to a later one; the rows    *)
(* are the comments of ddr3_dfi_seq.v lines 207-239.                        *)
Spacing(earlier, later) ==
    CASE earlier = "ACTIVE" -> TRCD
      [] earlier = "PRECHARGE" -> TRP
      [] earlier = "REFRESH" -> TRFC
      [] earlier \in {"READ", "WRITE"} ->
           IF earlier = later THEN BL ELSE NonSeq

SpacingRule ==
    Kind(dfi.cmd) \in Timed =>
        \A k \in Timed : since[k] >= Spacing(k, Kind(dfi.cmd))

DeviceTypeOK ==
    /\ open_row \in [Banks -> Rows \cup {Closed}]
    /\ since \in [Timed -> 1..Long]
=============================================================================
