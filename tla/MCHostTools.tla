---------------------------- MODULE MCHostTools ----------------------------
(***************************************************************************)
(* Small files for HostTools.  Values for TLC.                                  *)
(***************************************************************************)
EXTENDS HostTools

Bytes(n) == [k \in 1 .. n |-> Byte(k)]

(* In order, across lines, with junk, empty, twice the same section.                 *)
MCTexts ==
    { <<Section(0)>> \o Bytes(3),
      <<Section(9), Byte(4), Section(13)>> \o Bytes(2),
      <<Byte(3), Section(10), Byte(1), Byte(Unreadable), Byte(2), Section(9), Byte(3), Byte(4),
        Section(Unreadable), Byte(4)>>,
      <<>>,
      <<Section(8), Byte(5), Byte(6), Section(8), Byte(7)>> }

(* Two or three sections, apart, touching, overlapping, empty, with whole words or not.   *)
MCFlashTexts ==
    LET starts == {<<>>} \cup {<<Section(a)>> : a \in {0, 2, 4, 6}}
        runLengths == {<<>>, Bytes(1), Bytes(2), Bytes(4)}
        full == runLengths \ {<<>>}
    IN {a \o p \o b \o q : a, b \in starts, p, q \in runLengths}
       \cup {a \o p \o <<Section(8)>> \o q \o <<Section(14)>> \o r :
               a \in starts \ {<<>>}, p, q, r \in full}
       \cup {<<Section(Unreadable), Byte(1)>>, <<Section(0), Byte(Unreadable), Byte(1)>>}

MCBinaries == UNION {[1 .. n -> {5, 6}] : n \in 0 .. 5}
MCHandWritten == {<< <<5, 6>>, <<6, 6>> >>, << <<>>, <<5, 6>> >>, << <<5, 6>>, <<>>, <<6, 5>> >>}

(* All values of a word of 8 bits, a word cut off, and an image over the end of the space.   *)
Corner == {0, 7, 8, 15, 16, 119, 120, 127, 128, 247, 248, 255}
MCImages == {<<v>> : v \in 0 .. Width - 1} \cup {<<v, w, Short>> : v, w \in Corner}
            \cup {[n \in 1 .. 19 |-> 10 * n]}

MCDramImages == {[k \in 1 .. n |-> <<tag, k>>] : n \in 0 .. 5, tag \in {"a", "b"}}

Src(path, search, fits) == [path |-> path, search |-> search, fits |-> fits]
Rtl == {Src("secure_soc.sv", 2, {}), Src("ddr3_core.v", 1, {}), Src("rv_plic.v", 3, {})}
Core == {Src("config_pkg.sv", 4, {"config_pkg.sv*", "*config_pkg.sv", "*pkg.sv"}),
         Src("riscv_pkg.sv", 4, {"riscv_pkg.sv*", "*riscv_pkg.sv", "*pkg.sv"}),
         Src("ariane_pkg.sv", 4, {"ariane_pkg.sv", "*pkg.sv"}),
         Src("cva6.sv", 4, {})}
Others == {Src("hpdcache_params_pkg.sv", 4, {"*params_pkg.sv", "*pkg.sv"}),
           Src("defs_div_sqrt_mvp.sv", 4, {"def*"}),
           Src("axi_pkg.sv", 4, {"*axi_pkg.sv", "*pkg.sv"}),
           Src("ariane_axi_pkg.sv", 4, {"*axi_pkg.sv", "*pkg.sv"}),
           Src("custom_config.sv", 2, {"custom_config.sv", "*config.sv"}),
           Src("dm_pkg.sv", 4, {"*pkg.sv"}),
           Src("rand_id_queue.sv", 4, {"rand_id_queue.sv"}),
           Src("tb_x.sv", 4, {"excluded"})}
MCTrees == {Rtl \cup Core} \cup {Rtl \cup c : c \in kSubset(3, Others)}

StartMarker == <<"S", "s">>
EndMarker == <<"~", "#">>
MCLines == LET pieces == {StartMarker, EndMarker, <<"x">>, <<"bad">>, <<"~">>, <<"S">>}
           IN {a \o b \o c : a, b, c \in pieces}
              \cup {a \o StartMarker \o b \o EndMarker : a, b \in pieces}
=============================================================================
