-------------------------------- MODULE Vmem --------------------------------
(***************************************************************************)
(* The hex files the tools of cva-soc exchange, as objcopy -O verilog writes   *)
(* them: a line with @ and an address opens a section, the other lines hold     *)
(* its bytes.  The tools split lines into words and never look at where a        *)
(* line ends, so a file is the sequence of its words.                        *)
(***************************************************************************)
EXTENDS Integers, Sequences, FiniteSetsExt

Unreadable == -1          \* the value of a word int(word, 16) raises ValueError on

Section(a) == [kind |-> "section", value |-> a]
Byte(v)    == [kind |-> "byte", value |-> v]

IsSection(word) == word.kind = "section"
IsByte(word)    == word.kind = "byte" /\ word.value # Unreadable

-----------------------------------------------------------------------------
(* What a file says, without reading it in order: the k-th byte of a section     *)
(* belongs at its address plus k, and where sections overlap the later byte       *)
(* holds.                                                                   *)
SectionOf(f, j) == Max({0} \cup {i \in 1 .. j : IsSection(f[i])})

Placed(f) == {j \in DOMAIN f : /\ IsByte(f[j]) /\ SectionOf(f, j) # 0
                               /\ f[SectionOf(f, j)].value # Unreadable}

AddressOf(f, j) ==
    LET s == SectionOf(f, j)
    IN f[s].value + Cardinality({i \in s + 1 .. j - 1 : IsByte(f[i])})

Meaning(f) ==
    [a \in {AddressOf(f, j) : j \in Placed(f)} |->
       f[Max({j \in Placed(f) : AddressOf(f, j) = a})].value]

(* Every word can be read and belongs to a section.                            *)
WellFormed(f) == /\ \A j \in DOMAIN f : f[j].value # Unreadable
                 /\ f # <<>> => IsSection(f[1])

(* The sections come in the order of their addresses and do not overlap.         *)
Sections(f) == {i \in DOMAIN f : IsSection(f[i])}
End(f, i) == f[i].value + Cardinality({j \in DOMAIN f : IsByte(f[j]) /\ SectionOf(f, j) = i})
Ordered(f) == \A i, j \in Sections(f) : i < j => End(f, i) <= f[j].value

(* One image laid over another.                                                   *)
Over(earlier, later) ==
    [a \in DOMAIN earlier \cup DOMAIN later |->
       IF a \in DOMAIN later THEN later[a] ELSE earlier[a]]

Moved(image, by) == [a \in {b + by : b \in DOMAIN image} |-> image[a - by]]
NoImage == [a \in {} |-> 0]
=============================================================================
