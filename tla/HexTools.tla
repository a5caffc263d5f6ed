------------------------------ MODULE HexTools ------------------------------
(***************************************************************************)
(* A program on its way from objcopy -O binary to the places that take hex       *)
(* words: tools/bin2hex.py, bin2hex_big.py and bin2hex_little.py write a word a     *)
(* line, tools/generate_bootrom.py and a reader of tb_air.py read them back, and     *)
(* the three uart_send scripts frame them for the loader.  A line is the sequence of   *)
(* its bytes as they are printed; an empty line is <<>>.                        *)
(***************************************************************************)
EXTENDS Integers, Sequences, FiniteSetsExt, SequencesExt

CONSTANTS
    WordBytes,         \* 4
    MaxWords,          \* maxlimit
    Binaries,          \* the files there may be: sequences of bytes
    HandWritten        \* hex files that come from elsewhere

ASSUME HexAssumption ==
    \A f \in HandWritten : f \in Seq({f[k] : k \in DOMAIN f})

VARIABLES
    hst,               \* "idle", "convert", "hex", "send", "done", "failed"
    script, binary, read,          \* read: bytes of the file loaded
    cnt, s,                        \* bin2hex.py: place of the next byte, the word so far
    hex,                           \* the lines written
    sender, format, announced, stream    \* a frame: the words counted, the words sent

convertVars == <<script, binary, read, cnt, s, hex>>
frameVars == <<sender, format, announced, stream>>
hexVars == <<hst, convertVars, frameVars>>

ZeroWord == [k \in 0 .. WordBytes - 1 |-> 0]
Printed(w) == [k \in 1 .. WordBytes |-> w[k - 1]]

HexInit ==
    /\ hst = "idle" /\ script = "none" /\ binary = <<>> /\ read = 0
    /\ cnt = WordBytes - 1 /\ s = ZeroWord /\ hex = <<>>
    /\ sender = "none" /\ format = 1 /\ announced = 0 /\ stream = <<>>

Scripts == {"bin2hex", "bin2hex_big", "bin2hex_little"}
Senders == {"uart_send_data", "uart_send_data_to_dram", "uart_send_by_chunks"}

HexStart ==
    /\ hst = "idle"
    /\ \/ /\ binary' \in Binaries /\ script' \in Scripts /\ hst' = "convert"
          /\ UNCHANGED hex
       \/ /\ hex' \in HandWritten /\ hst' = "hex"
          /\ UNCHANGED <<binary, script>>
    /\ UNCHANGED <<read, cnt, s, frameVars>>

-----------------------------------------------------------------------------
(* A fault for the mutants: the place is not set back for the next word.            *)
TakeByteNoWrap ==
    /\ hst = "convert" /\ script = "bin2hex" /\ read < Len(binary)
    /\ read' = read + 1
    /\ LET full == [s EXCEPT ![cnt] = binary[read + 1]] IN
       IF cnt = 0
         THEN hex' = Append(hex, Printed(full)) /\ s' = ZeroWord /\ cnt' = WordBytes - 2
         ELSE s' = full /\ cnt' = cnt - 1 /\ UNCHANGED hex
    /\ UNCHANGED <<hst, script, binary, frameVars>>

(* bin2hex.py fills a word from its last place down.                              *)
TakeByte ==
    /\ hst = "convert" /\ script = "bin2hex" /\ read < Len(binary)
    /\ read' = read + 1
    /\ LET full == [s EXCEPT ![cnt] = binary[read + 1]] IN
       IF cnt = 0
         THEN hex' = Append(hex, Printed(full)) /\ s' = ZeroWord /\ cnt' = WordBytes - 1
         ELSE s' = full /\ cnt' = cnt - 1 /\ UNCHANGED hex
    /\ UNCHANGED <<hst, script, binary, frameVars>>

(* At the end it prints the word it has, begun or not.                             *)
EndOfBinary ==
    /\ hst = "convert" /\ script = "bin2hex" /\ read = Len(binary)
    /\ hex' = Append(hex, Printed(s)) /\ hst' = "hex"
    /\ UNCHANGED <<script, binary, read, cnt, s, frameVars>>

(* The other two: a slice a turn, after two assertions on the length.               *)
Slice(i) == SubSeq(binary, i * WordBytes + 1, i * WordBytes + WordBytes)

WriteSlice ==
    /\ hst = "convert" /\ script # "bin2hex"
    /\ IF Len(binary) >= WordBytes * MaxWords \/ Len(binary) % WordBytes # 0
         THEN hst' = "failed" /\ UNCHANGED <<read, hex>>
         ELSE IF read < Len(binary)
         THEN /\ hex' = Append(hex, IF script = "bin2hex_big" THEN Reverse(Slice(Len(hex)))
                                    ELSE Slice(Len(hex)))
              /\ read' = read + WordBytes /\ UNCHANGED hst
         ELSE hst' = "hex" /\ UNCHANGED <<read, hex>>
    /\ UNCHANGED <<script, binary, cnt, s, frameVars>>

-----------------------------------------------------------------------------
(* generate_bootrom.py: a case item for each line that is not empty, under the number   *)
(* of the line; zero otherwise.                                               *)
bootrom(addr_i) ==
    IF addr_i + 1 \in DOMAIN hex /\ hex[addr_i + 1] # <<>> THEN hex[addr_i + 1]
    ELSE Printed(ZeroWord)

(* load_dram_hex_file of tb_air.py: words in order, the lowest byte first.            *)
LinesOf(f) == SelectSeq(f, LAMBDA line : line # <<>>)
FullLines == LinesOf(hex)
load_dram_hex_file ==
    [a \in 0 .. WordBytes * Len(FullLines) - 1 |->
       FullLines[(a \div WordBytes) + 1][WordBytes - (a % WordBytes)]]

-----------------------------------------------------------------------------
(* The frame of a script: what it writes after the start sequence.  A file ends with     *)
(* a line end, so that split() sees one more, empty, line, and the scripts differ in      *)
(* what they count.  Format 2 takes the binary, counts its bytes and sends words.        *)
Done == <<"done">>

(* A fault for the mutants: bytes are announced, not words.                         *)
LineCountInBytes == WordBytes * Len(FullLines)

LineCount ==
    CASE sender' = "uart_send_data" -> Len(hex) + 1
      [] sender' = "uart_send_by_chunks" -> Len(hex)
      [] sender' = "uart_send_data_to_dram" -> Len(FullLines)

PickSender ==
    /\ hst = "hex" /\ sender' \in Senders /\ format' = 1 /\ hst' = "send"
    /\ announced' = LineCount
    /\ UNCHANGED <<convertVars, stream>>

(* uart_send_data.py keeps its last word at a short line, and has none at the first one;    *)
(* for it an empty file is one short line.  It falls over that line, the count is sent.    *)
NoWordYet == sender = "uart_send_data" /\ (hex # <<>> => hex[1] = <<>>)

FirstLineShort ==
    /\ hst = "send" /\ format = 1 /\ NoWordYet
    /\ hst' = "failed"
    /\ UNCHANGED <<convertVars, frameVars>>

SendLine ==
    /\ hst = "send" /\ format = 1 /\ ~NoWordYet /\ Len(stream) < Len(FullLines)
    /\ stream' = Append(stream, FullLines[Len(stream) + 1])
    /\ UNCHANGED <<hst, convertVars, sender, format, announced>>

PickBinary ==
    /\ hst = "hex" /\ script # "none" /\ sender' \in Senders \ {"uart_send_data"}
    /\ format' = 2 /\ hst' = "send" /\ announced' = Len(binary)
    /\ UNCHANGED <<convertVars, stream>>

PaddedWord(i) == [k \in 1 .. WordBytes |->
    LET b == (i + 1) * WordBytes - k + 1 IN IF b <= Len(binary) THEN binary[b] ELSE 0]

SendPadded ==
    /\ hst = "send" /\ format = 2 /\ WordBytes * Len(stream) < Len(binary)
    /\ stream' = Append(stream, PaddedWord(Len(stream)))
    /\ UNCHANGED <<hst, convertVars, sender, format, announced>>

SendDone ==
    /\ hst = "send"
    /\ IF format = 1 THEN ~NoWordYet /\ Len(stream) = Len(FullLines)
       ELSE WordBytes * Len(stream) >= Len(binary)
    /\ stream' = Append(stream, Done) /\ hst' = "done"
    /\ UNCHANGED <<convertVars, sender, format, announced>>

HexNext ==
    \/ HexStart \/ TakeByte \/ EndOfBinary \/ WriteSlice
    \/ PickSender \/ FirstLineShort \/ SendLine
    \/ PickBinary \/ SendPadded \/ SendDone
HexSpec == HexInit /\ [][HexNext]_hexVars

-----------------------------------------------------------------------------
(* Byte a of the program, zero behind its end.                                    *)
ByteOf(a) == IF a < Len(binary) THEN binary[a + 1] ELSE 0

(* Through either converter a program arrives in the boot ROM and in the bench's memory   *)
(* as it was, little-endian, with nothing but zeros behind it; the third script keeps the   *)
(* order of the bytes in each word.                                           *)
HexHoldsTheProgram ==
    (hst \in {"hex", "done"} /\ script # "none") =>
       LET size == WordBytes * Len(hex)
           place(a) == IF script = "bin2hex_little" THEN (a % WordBytes) + 1
                       ELSE WordBytes - (a % WordBytes)
       IN /\ Len(binary) <= size
          /\ \A a \in 0 .. size + WordBytes :
                bootrom(a \div WordBytes)[place(a)] = ByteOf(a)
          /\ script # "bin2hex_little" =>
                \A a \in 0 .. size - 1 : load_dram_hex_file[a] = ByteOf(a)

(* The loader takes as many words as are announced.  From a file without empty lines it gets  *)
(* every word, in order, and then at most the word done, and when the script has ended,       *)
(* however it does, it waits for no more.  Two things are not promised: the three scripts      *)
(* count empty lines in three ways, and uart_send_data.py announces a word of an empty file.  *)
NoLineEmpty == FullLines = hex /\ \A k \in DOMAIN hex : hex[k] # <<>>

FramesAreWhole ==
    (/\ sender # "none" /\ hst \in {"done", "failed"} /\ format = 1 /\ NoLineEmpty
     /\ sender = "uart_send_data" => hex # <<>>) =>
       /\ announced <= Len(stream)
       /\ SubSeq(stream, 1, announced) \in {hex, Append(hex, Done)}
=============================================================================
