------------------------------ MODULE HostTools ------------------------------
(***************************************************************************)
(* The scripts around the SoC, each on its own: they work on files and share nothing,   *)
(* so one of them is looked at at a time.                                        *)
(***************************************************************************)
EXTENDS VmemImages, FlashTools, HexTools, StorePrograms, DramChunks, BuildSources, BootTime

VARIABLE job

toolVars == <<vars, flashToolVars, hexVars, storeVars, chunkVars, buildVars, timeVars, job>>

Jobs == {"images", "flash", "hex", "store", "chunks", "build", "time"}

ToolsInit == /\ Init /\ FlashInit /\ HexInit /\ StoreInit /\ ChunkInit /\ BuildInit /\ TimeInit
             /\ job \in Jobs

Rest(j) == /\ j # "images" => UNCHANGED vars
           /\ j # "flash" => UNCHANGED flashToolVars
           /\ j # "hex" => UNCHANGED hexVars
           /\ j # "store" => UNCHANGED storeVars
           /\ j # "chunks" => UNCHANGED chunkVars
           /\ j # "build" => UNCHANGED buildVars
           /\ j # "time" => UNCHANGED timeVars

ToolsNext ==
    /\ UNCHANGED job /\ Rest(job)
    /\ \/ job = "images" /\ Next
       \/ job = "flash" /\ FlashNext
       \/ job = "hex" /\ HexNext
       \/ job = "store" /\ StoreNext
       \/ job = "chunks" /\ ChunkNext
       \/ job = "build" /\ BuildNext
       \/ job = "time" /\ TimeNext

(* A script that waits at the port goes on; the others need not be looked at to the end.    *)
TimeLooks == job = "time" /\ Look /\ UNCHANGED job /\ Rest(job)
ToolsSpec == ToolsInit /\ [][ToolsNext]_toolVars /\ WF_toolVars(TimeLooks)
=============================================================================
