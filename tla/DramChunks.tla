------------------------------ MODULE DramChunks ------------------------------
(***************************************************************************)
(* An image gets into the DRAM in chunks: tools/generate_simple_dram_writes.py makes a  *)
(* C program of each chunk and has them compiled, tools/uart_send_by_chunks.py sends    *)
(* the programs one after the other, and each that the loader takes copies its chunk    *)
(* when it runs.  The directory temp stays from one image to the next, unless the       *)
(* script is started by make, which removes it (src/Makefile: gen_dramw).  A step is a  *)
(* file, or a program.                                                             *)
(***************************************************************************)
EXTENDS Integers, Sequences

CONSTANTS
    WORDS_PER_FILE,      \* 4096
    DramImages,          \* sequences of words
    MaxRuns              \* how many images are loaded (a bound)

ASSUME ChunkAssumption ==
    /\ WORDS_PER_FILE \in Nat \ {0}
    /\ \A image \in DramImages : image \in Seq({image[k] : k \in DOMAIN image})

Terminator == <<"FFFFFFFF">>      \* a word, like those of an image
WordSize == 4
START_ADDRESS_STEP == WORDS_PER_FILE * WordSize

VARIABLES
    cst,                 \* "idle", "generate", "compile", "send", "done"
    runs,                \* images begun
    words, chunkNo,      \* the image, the next chunk or directory
    temp,                \* chunk number -> [start, data] of the C file there
    hexes,               \* chunk number -> the same, of the program compiled from it
    dram,                \* address -> word
    inStep,              \* the loader begins a start sequence with the next byte
    loaded               \* history: the chunks of this session that it took

chunkVars == <<cst, runs, words, chunkNo, temp, hexes, dram, inStep, loaded>>
loaderSide == <<dram, inStep, loaded>>

None == [n \in {} |-> 0]
Put(f, n, v) == [m \in DOMAIN f \cup {n} |-> IF m = n THEN v ELSE f[m]]
num_chunks == (Len(words) + WORDS_PER_FILE - 1) \div WORDS_PER_FILE

ChunkInit == /\ cst = "idle" /\ runs = 0 /\ words = <<>> /\ chunkNo = 0
             /\ temp = None /\ hexes = None /\ dram = None /\ inStep = TRUE /\ loaded = {}

(* Started by make, temp is removed first; started by hand, it stays.  Since the session     *)
(* before, 86 s of silence or a reset may have brought the loader back into step, or not.   *)
ChunkStart ==
    /\ cst \in {"idle", "done"} /\ runs < MaxRuns
    /\ words' \in DramImages /\ runs' = runs + 1
    /\ cst' = "generate" /\ chunkNo' = 0
    /\ \/ temp' = None /\ hexes' = None
       \/ UNCHANGED <<temp, hexes>>
    /\ inStep' \in BOOLEAN /\ loaded' = {} /\ UNCHANGED dram

-----------------------------------------------------------------------------
(* The slice of the image, and in the last chunk a word that ends it.                *)
Chunk(n) ==
    LET from == n * WORDS_PER_FILE
        upto == IF from + WORDS_PER_FILE < Len(words) THEN from + WORDS_PER_FILE ELSE Len(words)
        data == SubSeq(words, from + 1, upto)
    IN [start |-> n * START_ADDRESS_STEP,
        data |-> IF n = num_chunks - 1 THEN Append(data, Terminator) ELSE data]

GenerateFile ==
    /\ cst = "generate" /\ chunkNo < num_chunks
    /\ temp' = Put(temp, chunkNo, Chunk(chunkNo)) /\ chunkNo' = chunkNo + 1
    /\ UNCHANGED <<cst, runs, words, hexes, loaderSide>>

AllGenerated ==
    /\ cst = "generate" /\ chunkNo = num_chunks
    /\ cst' = "compile" /\ chunkNo' = 0
    /\ UNCHANGED <<runs, words, temp, hexes, loaderSide>>

(* A fault for the mutants: a program that does not compile leaves the one before.     *)
CompileKeepsOld ==
    /\ cst = "compile" /\ chunkNo < num_chunks
    /\ \/ hexes' = Put(hexes, chunkNo, temp[chunkNo])
       \/ UNCHANGED hexes
    /\ chunkNo' = chunkNo + 1
    /\ UNCHANGED <<cst, runs, words, temp, loaderSide>>

(* make compiletemp cleans the directory and compiles; nobody looks at its result.        *)
CompileFile ==
    /\ cst = "compile" /\ chunkNo < num_chunks
    /\ \/ hexes' = Put(hexes, chunkNo, temp[chunkNo])
       \/ hexes' = [n \in DOMAIN hexes \ {chunkNo} |-> hexes[n]]
    /\ chunkNo' = chunkNo + 1
    /\ UNCHANGED <<cst, runs, words, temp, loaderSide>>

AllCompiled ==
    /\ cst = "compile" /\ chunkNo = num_chunks
    /\ cst' = "send" /\ chunkNo' = 0
    /\ UNCHANGED <<runs, words, temp, hexes, loaderSide>>

-----------------------------------------------------------------------------
(* main() of the templates: the words of the chunk one after the other, from its start.    *)
Runs(program) ==
    LET target == {program.start + (k - 1) * WordSize : k \in DOMAIN program.data}
    IN dram' = [a \in DOMAIN dram \cup target |->
                  IF a \in target THEN program.data[((a - program.start) \div WordSize) + 1]
                  ELSE dram[a]]

(* The sender goes on as long as there is a file with the next number, and does not ask     *)
(* whether it was taken.  A program that is taken runs before the next one comes, 20 s       *)
(* later; the bytes of done behind it begin a start sequence, which the loader does not give   *)
(* up in that time (ram_dwr.sv:90), so that it reads the next frame nine bytes at a time from  *)
(* the wrong place.  Whether a frame read like that brings it back into step depends on its    *)
(* length.                                                               *)
SendChunk ==
    /\ cst = "send" /\ chunkNo \in DOMAIN hexes
    /\ IF inStep
         THEN Runs(hexes[chunkNo]) /\ loaded' = loaded \cup {chunkNo} /\ inStep' = FALSE
         ELSE inStep' \in BOOLEAN /\ UNCHANGED <<dram, loaded>>
    /\ chunkNo' = chunkNo + 1
    /\ UNCHANGED <<cst, runs, words, temp, hexes>>

NothingToSend ==
    /\ cst = "send" /\ chunkNo \notin DOMAIN hexes
    /\ cst' = "done"
    /\ UNCHANGED <<runs, words, chunkNo, temp, hexes, loaderSide>>

ChunkNext == \/ ChunkStart \/ GenerateFile \/ AllGenerated \/ CompileFile \/ AllCompiled
             \/ SendChunk \/ NothingToSend
ChunkSpec == ChunkInit /\ [][ChunkNext]_chunkVars

-----------------------------------------------------------------------------
Address(k) == (k - 1) * WordSize       \* of word k of the image
InChunk(k, n) == n * WORDS_PER_FILE < k /\ k <= (n + 1) * WORDS_PER_FILE

(* Every chunk whose program the loader took is in the DRAM, word for word, and stays there,   *)
(* whatever an earlier session left in temp or in the DRAM: no chunk overwrites another, not    *)
(* the last one with its extra word, and no program of an older image lands in the new one.    *)
(* That every program is taken is not so: see EveryImageIsLoaded of ImageLoading.           *)
ImageInDram ==
    \A n \in loaded : \A k \in DOMAIN words :
       InChunk(k, n) => Address(k) \in DOMAIN dram /\ dram[Address(k)] = words[k]
=============================================================================
