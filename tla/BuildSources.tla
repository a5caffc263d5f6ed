----------------------------- MODULE BuildSources -----------------------------
(***************************************************************************)
(* run_test of verification/sim/main.py: the sources of a simulation are gathered,     *)
(* filtered, put in an order in which packages come before what uses them, and handed     *)
(* to the simulator.  A source is a record of its path, the search that finds it and the    *)
(* patterns of the script its name fits; a step is one list of the script.             *)
(***************************************************************************)
EXTENDS Integers, Sequences, FiniteSetsExt, SequencesExt

CONSTANTS Trees       \* sets of sources, one for each state the directories may be in

Fits(src, pattern) == pattern \in src.fits

VARIABLES
    bst,              \* "idle", "order", "build", "test", "exit"
    found,            \* verilog_sources as gathered and filtered
    list,             \* the next part of the ordered list
    ordered,          \* verilog_sources as it is put together
    compiled          \* the sources the simulator has taken

buildVars == <<bst, found, list, ordered, compiled>>

BuildInit == bst = "idle" /\ found = <<>> /\ list = 1 /\ ordered = <<>> /\ compiled = <<>>

(* Test benches, alternatives, vendor copies: four dozen tests on path and name.        *)
Included(src) == ~Fits(src, "excluded")

(* The four searches one after the other, each in the order of the file system.         *)
Gathered(tree) ==
    LET orders(n) == SetToSeqs({src \in tree : src.search = n})
    IN {a \o b \o c \o d : a \in orders(1), b \in orders(2), c \in orders(3), d \in orders(4)}

Gather ==
    /\ bst = "idle" /\ bst' = "order"
    /\ \E tree \in Trees : \E order \in Gathered(tree) : found' = SelectSeq(order, Included)
    /\ UNCHANGED <<list, ordered, compiled>>

-----------------------------------------------------------------------------
(* The lists of the script, by the order in which they are put together.               *)
Pinned(name, fits) == [path |-> name, search |-> 5, fits |-> fits]

ByName == <<
    {"def*"}, {"registers.svh"}, {"cf_math_pkg.sv", "obi_pkg.sv"},
    {"config_pkg.sv*", "top_pkg.sv", "ariane_soc_pkg.sv", "rand_id_queue.sv"},
    {"custom_config.sv"}, {"riscv_pkg.sv*"}, {"*params_pkg.sv"},
    {"*config.sv", "*config_pkg.sv", "ariane_pkg.sv", "*riscv_pkg.sv", "*axi_pkg.sv",
     "fpnew_pkg.sv"} >>

(* Sources named by their path, which no search finds or which the filter drops.        *)
PinnedParts == [n \in {2, 9, 12} |->
    CASE n = 2 -> << Pinned("registers.svh", {}) >>
      [] n = 9 -> << Pinned("ariane_axi_pkg.sv", {"*pkg.sv", "*axi_pkg.sv"}),
                     Pinned("axi_demux_simple.sv", {}), Pinned("SyncSpRam.sv", {}) >>
      [] n = 12 -> << Pinned("axi_to_detailed_mem.sv", {}), Pinned("glbl.v", {}) >>]

IsPlainPackage(src) ==
    Fits(src, "*pkg.sv") /\ \A p \in {"*config_pkg.sv", "*riscv_pkg.sv", "*axi_pkg.sv"} : ~Fits(src, p)
IsOther(src) == ~Fits(src, "def*") /\ ~Fits(src, "*pkg.sv")

Lists == 12

(* A fault for the mutants: what is no package comes before the plain packages.        *)
PartOthersFirst(n) ==
    CASE n \in DOMAIN PinnedParts -> PinnedParts[n]
      [] n \in DOMAIN ByName \ {2} -> SelectSeq(found, LAMBDA src : ByName[n] \cap src.fits # {})
      [] n = 10 -> SelectSeq(found, IsOther)
      [] n = 11 -> SelectSeq(found, IsPlainPackage)

Part(n) ==
    CASE n \in DOMAIN PinnedParts -> PinnedParts[n]
      [] n \in DOMAIN ByName \ {2} -> SelectSeq(found, LAMBDA src : ByName[n] \cap src.fits # {})
      [] n = 10 -> SelectSeq(found, IsPlainPackage)
      [] n = 11 -> SelectSeq(found, IsOther)

AddPart ==
    /\ bst = "order" /\ list <= Lists
    /\ ordered' = ordered \o Part(list) /\ list' = list + 1
    /\ UNCHANGED <<bst, found, compiled>>

(* dict.fromkeys: the first of each path stays, where it is.                       *)
FirstOfEach(srcs) ==
    LET First == {n \in DOMAIN srcs : \A m \in 1 .. n - 1 : srcs[m].path # srcs[n].path}
        Before(n) == Cardinality({m \in First : m <= n})
    IN [k \in 1 .. Cardinality(First) |-> srcs[CHOOSE n \in First : Before(n) = k]]

Unique ==
    /\ bst = "order" /\ list > Lists
    /\ ordered' = FirstOfEach(ordered) /\ bst' = "build"
    /\ UNCHANGED <<found, list, compiled>>

(* The simulator reads the sources in their order; it, or the test after it, may fail,    *)
(* and the script ends without an error all the same (except: pass).                 *)
Compile ==
    /\ bst = "build" /\ Len(compiled) < Len(ordered)
    /\ \/ compiled' = Append(compiled, ordered[Len(compiled) + 1]) /\ UNCHANGED bst
       \/ bst' = "exit" /\ UNCHANGED compiled
    /\ UNCHANGED <<found, list, ordered>>

Test ==
    /\ bst = "build" /\ Len(compiled) = Len(ordered)
    /\ bst' \in {"test", "exit"}
    /\ UNCHANGED <<found, list, ordered, compiled>>

TestEnds ==
    /\ bst = "test" /\ bst' = "exit"
    /\ UNCHANGED <<found, list, ordered, compiled>>

BuildNext == Gather \/ AddPart \/ Unique \/ Compile \/ Test \/ TestEnds
BuildSpec == BuildInit /\ [][BuildNext]_buildVars

-----------------------------------------------------------------------------
Paths(srcs) == {srcs[n].path : n \in DOMAIN srcs}

(* What the script sorts for: when a module is read that no list names, all packages have     *)
(* been; a source of one of the early groups comes after those of the groups before it.       *)
(* The modules that are named, axi_demux_simple.sv and rand_id_queue.sv among them, are put     *)
(* where the script wants them, before packages that are not named.                *)
Rank(src) == Min({n \in DOMAIN ByName : ByName[n] \cap src.fits # {}} \cup {Lists})
IsModule(src) == src.search < 5 /\ IsOther(src) /\ Rank(src) = Lists

PackagesComeFirst ==
    LET last == compiled[Len(compiled)]
        missing == {src \in Range(found) : src.path \notin Paths(compiled)}
    IN (bst = "build" /\ compiled # <<>> /\ last.search < 5) =>
          /\ IsModule(last) => \A src \in missing : ~Fits(src, "*pkg.sv") /\ ~Fits(src, "def*")
          /\ \A src \in missing : Rank(last) <= Rank(src)
=============================================================================
