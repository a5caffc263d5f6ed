# A TLA+ model of cva-soc

cva-soc (`src/`) is a system on chip around a CVA6 core: an AXI crossbar, a
main memory with a UART program loader, a DDR3 DRAM controller, and a UART and a
timer on the peripheral bus. The repository holds the SystemVerilog of
everything but the submodules (CVA6, the crossbar, the atomics wrapper, the
standard AXI-to-OBI bridges), the loader scripts and the test programs.

This directory models the parts of it whose correctness depends on what happens
*when*: on cycle counts, on handshakes between state machines, on requests that
stay up, on resets and refreshes that come in between. So far these are the DRAM
path, from the AXI port of `dram_controller_axi.sv` to the commands and data on the
pins of the chip; the program loader, from the serial line to the RAM, the DRAM
and the reset of the SoC; the line on which the SoC prints; and everything on the host
that feeds them: the test benches, the build script of the simulation and all scripts
of `src/tools/`.

The modules of the hardware are synchronous: a step is one rising edge of `clk_i`
(50 MHz for CPU and DRAM alike, `header.vh`: `CPU_CLK`, `DDR_MHZ`). A state is
the contents of the registers and the input ports between two edges. What the
code computes combinationally is an operator, what it assigns with `<=` is a
primed variable, under the source's name where there is one. The modules of the
scripts (those under `HostTools`) have no clock: a step is a word, a line or a file that is read,
written or sent, an instruction, or a character that comes in.

## 1. Inventory

| Component | Source (under `src/rtl/src/`) | State | Operations and hard behaviour |
|---|---|---|---|
| DRAM AXI front | `peripherals/dram/dram_controller_axi.sv` | one burst: id, address, length, size, type, beat counter, FSM | takes bursts of up to 256 beats and does one Wishbone access per beat. Both address channels are ready at once but only one is latched |
| DRAM Wishbone front | `peripherals/dram/dram_controller_wb.sv` | FSM of 16 states, request and data registers, watchdog | every write is a read-modify-write of a 16-byte line. A second port takes UART loader pulses, in IDLE only. The request to the core stays up until the acknowledge |
| DDR3 controller core | `ddr3_core.v` | bank FSM, refresh timer, table of open rows, id fifo, write acknowledge | start-up, refresh, row open and close, accesses. There is no request register: the address port is read live for several cycles |
| DFI sequencer | `ddr3_dfi_seq.v` | delay counter, last command, command register, write fifo, shift registers, beat counters | spaces the commands, lets back-to-back bursts through early, times data beats. Nothing ties a beat to its command |
| PHY | `ddr3_dfi_phy.sv` | read-enable pipeline, serdes, taps | moves the capture window of reads |
| Controller wrapper | `ddr3_controller.sv` | - | wiring, write strobes, `ram_ready` |
| Main memory and loader | `memory/ram_dwr.sv`, `memory/simpleuart.sv` | RAM, loader FSM, sequence counters, receiver | recognises a start sequence on a serial line, loads a program or a DRAM image, resets the SoC. Silence time-outs, no back-pressure, racing write ports |
| Loader tools | `src/tools/uart_send_*.py` | - | the other end of the serial line. The number of words is announced before they are sent; three scripts count them in three ways |
| Image tools | `src/tools/vmem_to_ddr3_init.py`, `clear_adresses_for_qspi_boot.py`, `vmem2carr.py`, `bin2hex*.py`, `generate_bootrom.py` | a memory, a position in a file | hex files with gaps, overlaps and odd lengths to memories, flash, boot ROM, C arrays |
| DRAM writers | `src/tools/dram_write_chunk_hexs.py`, `generate_simple_dram_writes.py` | the files of earlier runs | a program for each word, or for each chunk, of an image. Instructions are put together by hand; a compiler may fail unseen |
| Boot timer | `src/tools/calculate_execution_time_from_uart.py` | buffer, time of the first text | texts cut by reads anywhere |
| Test benches | `src/verification/sim/tb_air*.py` | reset, time limit, bits of a frame, place in a byte | resets, a signal at any time, three clocks on the serial lines |
| Build script | `src/verification/sim/main.py` | list of sources | gathers, filters and orders sources by names that overlap; ends without an error whatever fails |
| UART peripheral | `peripherals/uart/*.sv` | two-entry queues, shift registers, configuration | a bit is set by hardware and cleared by software that reads, changes and writes it; the queues keep no count |
| Timer peripheral | `peripherals/timer/*.sv` | counter, prescaler, limit, events | software reconfigures it while it runs |
| QSPI peripheral | `peripherals/qspi/*.sv` | command FSM, data registers, status | long multi-phase transactions; not instantiated today |
| OBI adapters, fifos | `databus/*.sv`, `common_cells/*.sv` | handshake FSMs, counters of outstanding requests | responses out of step with requests; not instantiated today |
| Cache | `memory/cache.sv` | two ways, LRU, valid and dirty bits, counters | refill and write-back with a moving CPU address; not instantiated today |
| Encryption | `memory/ctr_*.sv` | keystream counter | a data transformation |
| Top level | `soc/secure_soc.sv`, `header.vh` | - | address map, and the resets: the CPU side is reset while a DRAM image loads, the DRAM controller is not |

How they interact on the DRAM path:

    AXI master -> dram_controller_axi -(Wishbone: cyc/stb, ack)-> dram_controller_wb
                                                                     |
    UART loader --(one-cycle pulses, no answer)----------------------+
                                                                     |
               (level: rd/wr, live address; accept, ack, data, ready)
                                                                     v
             chip <-(DFI pins)- ddr3_dfi_seq, PHY <-(command, accept)- ddr3_core

and on the way of an image:

    host script -(serial line)-> simpleuart -(byte, one cycle)-> ram_dwr
        ram_dwr -> RAM (the port is shared with the boot copy and the CPU)
                -> dram_controller_wb (pulses), when it is a DRAM image
                -> reset of CPU, AXI front, Wishbone front and DRAM core

and of a text: program (`zputchar`) -(AXI)-> UART registers and transmitter -(serial
line)-> `uart_monitor` of the bench. The scripts meet in files only: `objcopy` -> hex file
or binary -> image tool -> chip model, flash, boot ROM or loader tool.

What makes each component correct:

* core and sequencer: every command reaches the chip with the banks as it needs
  them and at the distance it needs from earlier ones; no refresh is lost; a
  held request is served;
* data side: every write's beats meet its command, every read hands over exactly
  its own beats, reads are answered in order with what earlier writes left;
* Wishbone front: only the strobed bytes of one word change, an acknowledge
  answers the request on the bus and never a loader's write;
* AXI front: every accepted burst is answered, with its id, the right words and
  one last flag; a write is answered when its beats are in memory;
* the loader: every message of a host takes effect, the SoC starts with the
  image that was sent, but for words the program before stored into it meanwhile, nothing but images and stores gets into the RAM, every word of a DRAM image
  finds the front in IDLE;
* the receiver: each byte arrives once, as it was sent, although the two clocks differ;
* the benches: every test has its time, and the bench ends whenever it is interrupted;
* the UART, its driver and the monitor: the text that is shown is the text that was printed;
* the image tools and readers: every byte ends up at the address the file gives it, the
  converter and the address split of the DRAM core agree, and what a frame announces is what it holds;
* the DRAM writers: each word of a chunk that the loader took is at its address, and nothing of an older image;
* the build script: a package is compiled before what uses it;
* the boot timer: the time is between the first texts that count, and a text is not missed;
* the DRAM path as a whole: a memory, although the core runs each held request several times.

The hazards that the properties are for are listed, each at its line, in
`PROJECT.json`; those without a property say why.

## 2. Modules

| Module | Models | Correspondence |
|---|---|---|
| `Ddr3DfiSeq` | command side of `ddr3_dfi_seq.v` | `Accept` is `accept_o`, `NextDelay` is the `delay_r` block, `SeqTick(cmd, line)` the edge with `cmd` on `command_i`. `dfi` is `command_q`, `bank_q`, `addr_q` as one record |
| `Ddr3Device` | the chip (external): which rows are open, how long ago each kind of command came | `RowRule` and `SpacingRule` say what a chip requires; it executes every command whatever they say |
| `Ddr3Core` | `ddr3_core.v` over the two above | one action per state of the FSM (two for PRECHARGE, three for IDLE); `Drive` is "command out, move on when taken"; the timer is part of each step. The requester may ask for anything and withdraw it, and moves the address only while the core does not use it (`LineInUse`). `Reset` may come at any cycle |
| `Ddr3Core_proofs` | theorems about `Ddr3Core` | section 5 |
| `ProgLoader_proofs` | theorems about `ProgLoader` | section 5 |
| `Ddr3DfiData` | data side of `ddr3_dfi_seq.v`, `rd_en_q` of the PHY, the chip's cells | shift registers are the sets of their ones, `Load` is the concatenation of lines 173 and 188. A beat is the payload it belongs to and its number, so that a line put together from wrong beats is visible |
| `LineMemory` | abstract: a memory of lines, reads answered in order | the specification `Ddr3DataPath` implements |
| `Ddr3DataPath` | sequencer and data side under every command stream with right rows | `mem` and `due` are history variables |
| `Ddr3DataPath_proofs` | theorems about `Ddr3DataPath` | section 5 |
| `DramControllerWb` | `dram_controller_wb.sv` | one action per state or group of like states: the five `*_START` states are `Start`, the `*_WAIT_ACCEPT` states `WaitAccept`. `WbReset` is its `rst_i` |
| `WordMemory` | abstract: a memory of words behind a port that holds its request, with a second writer | the specification `DramWbMemory` implements |
| `DramWbMemory` | the Wishbone front between a master, the loader and a core that keeps its contract | contract of the core: accepts a request once while it is up, acknowledges it once, later, with the line as it then is. `wmem` is a history variable: what the finished writes left |
| `DramWbMemory_proofs` | theorems about `DramWbMemory` | section 5 |
| `DramControllerAxi` | `dram_controller_axi.sv` | one action per state and event; `Wait` is the cycle in which nothing arrives |
| `DramAxiMemory` | the AXI front between an AXI4 master and a memory behind the Wishbone | also the abstract specification of the whole |
| `DramAxiMemory_proofs` | theorems about `DramAxiMemory` | section 5 |
| `DramSystem` | everything from the AXI port to the chip, cycle by cycle, plus id fifo and `ram_ack_w` of the core | instances of the four components, wired as in the code; refines `DramAxiMemory` |
| `DramSystem_proofs` | theorems about `DramSystem` | section 5 |
| `SerialLines` | the two serial lines of the SoC | `SimpleUart` on the line of the loader, `UartConsole` on the other, and `SimBench`; they share nothing, so a behaviour has one of them (`side`) |
| `SimBench` | `tair` and `main_memory` of both benches, `_send_uart_*` | one action per `await`; `edges` counts what a loop of `RisingEdge` or a `ClockCycles` waits for. What the SoC makes of a frame is not looked at. `ran`, `cut` and `served` are history variables |
| `UartConsole` | `init_uart`, `zputchar`, `uart_txfull` of `tests/common/drivers/uart.c`, `uart_controller_axi.sv`, `uart_controller.sv`, `uart_tx.sv`, `uart_monitor` | the software is the sequence of its register accesses with any pause of `Pauses` between two; `Transmit`, `Registers`, `Adapter`, `Monitor` are the edge, conjoined |
| `Vmem` | hex files as `objcopy -O verilog` writes them (external) | a file is the sequence of its words; `Meaning` says where its bytes belong without reading it in order, the reference the scripts are checked against |
| `VmemImages` | `vmem_to_ddr3_init.py`, the readers of the benches, the preload of `sim/ddr3.v` and the address split of `ddr3_core.v` | the readers are the same loop with other offsets and other handling of errors (`reader`) |
| `FlashTools` | `clear_adresses_for_qspi_boot.py`; `vmem2carr.py` with `write_all_flash_data` of `tests/program/program.c` | one action per branch of the loops |
| `HexTools` | `bin2hex.py`, `bin2hex_big.py`, `bin2hex_little.py`, `generate_bootrom.py`, `load_dram_hex_file`, the frames of the `uart_send` scripts | lines are sequences of bytes; an empty line is empty |
| `StorePrograms` | `dram_write_chunk_hexs.py` and a CPU for the four kinds of instruction it sends | instructions as records of their fields, so that the split of an immediate is seen; widths are constants |
| `DramChunks` | `generate_simple_dram_writes.py`, its templates, `send_all_hex_from_build_dir` | the file system is two functions from the number of a chunk; a compiler that fails leaves no program (`CompileFile`). The loader takes a program only when it is in step (`inStep`), which `done` behind the one before ends: a frame that is read from the wrong place may bring it back or not (`SendChunk`). `loaded`, the chunks taken, is a history variable |
| `BuildSources` | `run_test` of `main.py` | a source is its path and the patterns its name fits; `glob` gives any order |
| `BootTime` | `calculate_execution_time_from_uart.py` | time is the number of characters that have come; `looks` is a history variable |
| `HostTools` | the seven above, one at a time (`job`) | they share nothing |
| `HostTools_proofs` | theorems about `StorePrograms`, `DramChunks`, `HexTools`, `VmemImages` and `FlashTools` | section 5 |
| `SimpleUart` | receiver of `simpleuart.sv`, and a host on the line | one action per group of `recv_state`; time on the line is counted in quarter cycles, so that a bit of 54.25 cycles and a host clock that is off can be written down. `pending` is a history variable |
| `SimpleUart_proofs` | a theorem about `SimpleUart` | section 5 |
| `ProgLoader` | `ram_dwr.sv` | one action per state of `state_prog` (Receive has two, the two Finish states share one); what happens on every edge whatever the state (pulses, addresses, boot copy, write port) is in `Pulses`, `ProgAddr`, `DramAddr`, `Boot`, `RamWrite`. Shift registers are numbers |
| `ImageLoading` | `ProgLoader` between a host with the scripts of `src/tools/`, the CPU, and `DramControllerWb` over a core that answers in bounded time | the resets of `secure_soc.sv` (lines 125, 874) are `cpuRuns` and `dramRuns`. The AXI front, which has an asynchronous reset, is reset in the step in which the signal falls, the Wishbone front at the edge after it (`dram_controller_wb.sv:362`). `cur`, `unserved` and `stored` are history variables |
| `MC...` | constants for TLC | |

The operators with "a fault for the mutants" in their comment are plausible bugs
(a missing guard, an off-by-one, a missing reset). They are in no specification;
putting one in the place of the definition it sits above makes TLC find the
property named for it in `PROJECT.json` violated, which shows that the run
really depends on that line of the code.

Abstractions that matter:

* a line of DRAM is a value, or in the Wishbone and AXI modules a function from
  words to functions from byte lanes to bytes; addresses keep their arithmetic
  in `DramControllerAxi` and are a line and a word below;
* the row of a READ is not on the pins; `dfi` carries it so that `RowRule` can
  compare the row that is open with the row the requester meant;
* the address of a PRECHARGE of all banks, mode register values, CKE, ODT and
  the serdes are left out; the mode register commands are commands without effect;
* a CPU store to the RAM is a whole word; RAM reads are left out;
* configuration mode of the core is left out: `ddr3_controller.sv` ties it off;
* `wr_accept_q`, `resp_id`, `wlast`, `prot` are read by nothing and left out.

## 3. Runs

| Run | Question | Result |
|---|---|---|
| `ddr3_core` | is every command legal for the chip, with resets anywhere and a requester that changes its mind; is a refresh done before the next one falls due; is a held read served | holds, 357,564 states |
| `ddr3_data_path` | do commands and beats meet at the real latencies, under every command stream; is the data path a `LineMemory` | holds, 92,056 states |
| `dram_wb` | do the read-modify-writes of two ports leave each other's bytes alone; is the front a `WordMemory`: does an acknowledge answer what is on the bus, once | holds, 329,604 states |
| `dram_axi` | are bursts answered right, if a read and a write address are never offered in the same cycle | holds, 73,509 states |
| `dram_axi_both` | and if they are | an accepted read is never answered (section 6) |
| `dram_system` | is the whole, with a refresh now and then and the request held up until the acknowledge, still a memory; does the front keep to the core's `LineInUse`; does the id fifo have room; is every access acknowledged, from start-up on, with no assumption but a running clock | holds, 326,200 states |
| `dram_system_crossing` | and if a read burst runs over the end of a line | a beat returns a word of the line before (section 6) |
| `serial_lines` | does every byte get through to the loader at 921600 baud, with a host clock that is off, byte after byte; does the bench end, and does each test have its time, with signals at any time; does the monitor show the text that is printed, whatever the pauses of the program and across resets | holds, 638,041 states |
| `host_tools` | does each script do what its input files say | holds, 102,339 states |
| `loader_images` | does every message take effect, does the SoC start with what was sent and does nothing else reach the RAM, with the CPU storing meanwhile, also where the image goes; do the words of a DRAM image find the front free, beside reads of the CPU | holds, but for the last word of a DRAM image, 622,201 states |
| `loader_dram_last` | and the last word | it is not written (section 6) |
| `loader_chunks` | and if the next message comes before the break, as one script sends it | it is not loaded (section 6) |

`DramWbMemory` and `DramAxiMemory` each check one front against the contract of
what is below it; the two meet in `WordMemory`, which the Wishbone front implements and
whose words, acknowledges and held requests are what the AXI front counts on. `DramSystem` then puts the real thing there: it needs no
contract, and its refinement of `DramAxiMemory` covers the cases the contracts
leave out, above all the answers of the extra runs of a held request, which
arrive when the front is already back in IDLE.

### Bounds

* `ddr3_core`: two banks, two rows. Each pair of accesses is in the same row,
  in two rows of a bank or in two banks, which is all the state machine tells
  apart. The refresh period of 30 cycles is longer than the longest access with
  two row changes and shorter than a run of accesses, so refreshes fall into
  every place. tRFC, the write latency and the burst are shorter than in the code
  (6, 2, 3 against 13, 4, 4) to keep TLC's runs short: the proofs of section 5
  cover the real values.
* `ddr3_data_path`: the timing of the code at 50 MHz and one open row, two
  lines in it and two payloads and the masked one. The order of bursts and the
  gaps between them are free, so four writes in flight or reads between
  writes happen.
* `dram_wb`: two lines, two words, one lane (a strobe on or off), one loader word
  in any cycle, watchdog of one cycle.
* `dram_axi`: a memory of 16 bytes; bursts of one to three beats, FIXED and INCR,
  words and half words, one id each of two; one read and one write under way.
* `dram_system`: the timing of the code at 50 MHz. Three lines: two in a
  row, one in another. A read of one beat in the first line, one of two beats in the second, one of one beat in the other
  row, and a write of one beat in the second, in any order: so two accesses one after the other go to
  one line, to two lines of a row, and to two rows. A read across two lines is in `dram_system_crossing`;
  a write across two lines is in no passing run of the whole (in `dram_axi` the memory has no lines). Start-up takes 16 cycles instead of 30000 and the refresh period is 40
  cycles instead of 390, which is longer than one access and shorter than most pairs,
  so a refresh meets accesses at every phase, and two reads that hit the open row still fit between two refreshes.
* `serial_lines`, the line of the loader: the divider of the code, a bit of 53.5, 54.25 and 57.75 cycles, bytes
  that alternate or differ in the last bit only. The bits of the
  receiver are 56 cycles long (`>` and a cycle of its own for the reset of the counter),
  so it lags behind the line by 1.75 cycles per bit; it catches up in the second half of the stop bit. With
  a host 1.8 % too fast (213 units) it no longer does and the run fails, with one 9.7 % too slow
  (238 units) it takes the last data bit for the stop bit and starts again on it; `ToleranceAssumption` of
  `SimpleUart` is exactly the range between (214 to 237 units), and within it section 5 proves the receiver for every
  bit time and divider.
* `serial_lines`, the benches: the settings of `tb_air_program.py` (10 ns, 115200 baud: 869 cycles a bit). Two programs one after the other, one of a line and an empty
  one, and a program with a line that is no number; `TIMEOUT` is 5 cycles instead of millions, as what the SoC does in that time is not looked at; up
  to two signals, at any time.
* `serial_lines`, the console: texts of two bytes; a divider of 9 instead of 54 and a
  monitor whose bit is shorter than the transmitter's in the proportion of the code (1085 ns against 1100), so that its
  error over a byte is the same part of a bit. Pauses between two accesses of none and three cycles, a reset at
  any cycle. With the real values (54, 1085 ns) the property holds too (970,000 states). A program that
  stands still for longer than a byte between reading CFG and writing it back loses the bit it waits for:
  `Pauses` stays below.
* `host_tools`: files of up to three sections with every kind of irregularity (gap, overlap,
  out of order, empty, touching, unreadable word, byte before the first section, no section at all); a line of
  DRAM of four bytes, rows of two lines, chip rows half as many as core rows; words of two bytes
  for `FlashTools` and `HexTools`, binaries of up to five bytes, so that every remainder occurs. `StorePrograms` has
  words of 8 bits (immediates of four bits, `LUI` of four), all values of a word and an image that runs over the end
  of the address space; the theorem of section 5 has any width. `DramChunks`: two words to a chunk, images of up to five, two
  runs, each compilation may fail, each frame behind `done` may or may not bring the loader back into step. `BuildSources`: a dozen sources with the names that
  fit several patterns, in every order. `BootTime`: texts of two characters, in every order, cut by reads anywhere.
* `loader_images`, `loader_dram_last`, `loader_chunks`: bytes of two bits, words of two
  bytes, start sequences of three, a RAM of three words with an address counter that counts to four. What
  matters is kept in proportion: a byte is back in the buffer long before
  the next, the break is longer than a start sequence with the pauses of the host in it,
  `Pause` is longer than the break (20 : 86 in `loader_chunks`, the seconds of the script and of the
  code), the boot copy and the start-up of the DRAM. In `loader_images` the time
  between two words (22 cycles) is just longer than the slowest read-modify-write of the
  front with `Latency` 2 (21); in the code it is 2170 against some hundred. With 14
  the run fails: the second word comes while the first is written.
* The host sends up to two messages in `loader_images`: images of none, one and two words, with `done` counted
  or not, a DRAM image, a reset. The CPU stores at an address inside the longer images, in any cycle in which it is not in reset.
* `Long` bounds the counters `since` at the longest distance that matters.

Two reductions keep the composed model small without hiding anything: the AXI
master offers an address or data only when the front is ready for it (the front
ignores it before, so an offer that was held and one that comes up now
look alike), and `bready` and `rready` are up only with the valid they answer.

### Why reads inside a line are the case that matters in `dram_system`

A held read is run about five times by the core before its first answer is back,
and each run is answered. The front is back in IDLE at the first answer; the
others keep arriving. They are harmless as long as they carry the line the
next request wants or arrive before that request waits for an answer.
Inside a line the first holds. For accesses that belong to different bursts
the second holds, because the AXI front and its
master need a few cycles in between. In one row the margin is one cycle: the last run of a request that comes down is accepted early, in
the only cycle in which it can be, one cycle before the read of the next burst reaches the core; were the
sequencer to accept a cycle longer, that read would get the data of the line before (the mutant `EarlyAWhile` of `Ddr3DfiSeq`, which the run finds).
`dram_system` checks it for reads of two lines of a row, of one line and of two rows. CVA6 fills its cache lines with
bursts of 16 bytes that start at a line, so in this SoC the first applies to
beats of one burst. For a burst that crosses a line neither does: run
`dram_system_crossing`.

## 4. Fairness

* `DramSystem`: weak fairness of the clock tick and nothing else. The tick is
  a conjunction of the edges of all components, always enabled. Liveness
  there is the strong form: `AccessesAnswered` needs no contract.
* `ImageLoading`: weak fairness of the tick. `SerialLines`: weak fairness of the three
  clocks (`ClocksRun`): the tick of the receiver, the edges of the bench, which drives the clock itself, the clock of the console.
  Signals and resets are not in it: they need not come. `BytesAllArrive` needs
  nothing of the host: once a byte has begun, the clock brings it in. `BenchRunsEveryTest` and `ConsoleShowsTheText`
  need the bound on signals and resets, and nothing else.
* `HostTools`: weak fairness of `Look` only, for `EndMarkerNoticed`: the loop of
  `calculate_execution_time_from_uart.py` comes round every millisecond. Characters need not come, and the user may stop the script.
* `Ddr3Core`, `Ddr3DataPath`: weak fairness of the tick. `HeldReadServed` gives
  up when the requester does, or when a reset comes (back in INIT).
* `DramWbMemory`: the core does not put off ready, accept and acknowledge for
  ever (weak fairness of a tick with each of them). This is what `HeldReadServed`
  and `AccessesAnswered` say of the real core. The loader is not assumed
  to be fair or to stop, it is bounded by `UartWords`.
* `DramAxiMemory`: the master takes answers and sends the data it owes (AXI4
  requires it), the memory acknowledges (`RequestsAnswered` of `DramWbMemory`).

## 5. Proofs

`Ddr3Core_proofs` proves for all timing parameters, banks, rows, start-up
sequences, requesters and resets, not only for the values in the `.cfg`:

* `TypeCorrect`: `Spec => []TypeOK`. Type correctness is not shallow here: `delay_q`
  is a six-bit counter that the code decrements, so it needs
  `NonSeq < 64`, and the target state of the FSM must be one of four.
* `RowsCorrect`: `Spec => []CommandsFindTheirRow`. Not inductive by itself.
  The strengthening `RowInv` is `TypeOK`, `StartUpInv`, `TableInv` and the rule.
  `TableInv` is the heart of it: it relates the table of the core to the rows the
  chip will have open once the command on the pins is executed
  (`RowAfter`), with one exception for each of the states that write the table
  before their command is taken (ACTIVATE, PRECHARGE). `StartUpInv` covers a reset, which
  clears the table and not the chip: until the PRECHARGE of all banks of the
  start-up sequence nothing is known of the rows, after it all are closed. The
  timer value tells the two apart.
* `DistancesCorrect`: `Spec => []CommandsKeepDistance`, from
  `DistanceInv`: `DelayInv` relates the delay counter to the distance counters
  (what is still required of a later command is at most `delay_q`, or the early
  acceptance of a burst of the same kind makes up for it), and `Settling` covers the
  reset, which clears `delay_q` while the chip may be in a refresh: the start-up
  sequence waits longer than any distance before its first command that counts.
* `RefreshesServed`: `Spec => []NoRefreshLost`. A refresh that falls due is a flag
  that the core looks at in IDLE only; were it still up when the timer runs out again, one
  refresh would be lost without a trace. `RefreshInv` follows a pending refresh through the states: for each
  of them `InTime` says that the delay counter and what this state and the ones
  after it may still cost, up to the REFRESH command, fit into what the timer has left.
  `RefreshAssumption` is the bound this comes to at the worst place, a PRECHARGE for an access
  that is followed by ACTIVATE, the access, and the PRECHARGE of all banks (37 of 390 cycles in the code).

`Ddr3DataPath_proofs` proves for all lines and data, write and read latencies, burst lengths and fifo depths:

* `FifoNeverFull`: `Spec => []WriteFifoHasRoom`;
* `WriteBeatsCorrect`: `Spec => []WriteBeatsMeetTheirCommand`;
* `LineMemoryImplemented`: `Spec => ImplementsLineMemory`, the refinement, step by step (`LineMemory` states no fairness).

Commands and beats share nothing but the number of cycles that pass. The invariant
therefore speaks of bursts, not of registers: there is a sequence `ws` of the
writes under way and one `rs` of the reads, oldest first, each with its line, its data and its *age*, the cycles since it was on
the pins, and every register of the sequencer, the PHY and the chip is a function of them. `BurstsApart`: ages are at least
`BL` apart, and the delay counter knows of the youngest; `WritesAtChip`, `ReadsAtChip`: what the chip waits for;
`WritesInFifo`: the fifo holds the data of all writes but the one whose last beat is out;
`WriteBeatsTimed`, `ReadBeatsTimed`: the set bits of the shift registers are the ages at which a beat is due, and the beat counters say
which; `WritesToMemory`: the abstract memory is the cells with the writes under way carried out, the last one to a line winning;
`ReadsOwed`, `ReadBeatsCaptured`: what has been collected of a read is its beats in order. The sequences are
hidden in an existential quantifier (`IInv`), so that no further history variable is needed: each step names the sequences after it
from those before (`AdvancedExists`, `ReadsAdvancedExist`). The rest is arithmetic on ages (`WriteDue`, `ReadDue`, `FifoRoom`).

`DramWbMemory_proofs` proves for all lines, words, byte lanes and data, any requests of the master, any words of the
loader at any time and any delays of the core:

* `WritesCorrect`: `Spec => []WritesTouchTheirBytesOnly`;
* `WordMemoryImplemented`: `Spec => ImplementsWordMemory`. The step in which the front finishes a write or a read is
  the step of the memory, the loader's too; all others stutter.

The invariant is `TypeInv`; `PortInv` (the request lines, and what the core makes of them, follow from
the state); `RequestInv` (the registers still hold what is on the bus, or the word of the loader); and
`MemoryInv`, the one that matters: between the two halves of a read-modify-write the line
that will be written differs from the line in the core in the strobed bytes of one word only, since nothing else writes
in between, and between the core's write and the front's end of it so does the core's line from what the finished writes left.

`DramAxiMemory_proofs` proves for bursts of both kinds (FIXED, INCR) up to 256 beats, all data,
strobes and ids:

* `ReadBeatsCorrect`: `Spec => []ReadBeatsFitTheirBurst`;
* `WriteAnswersCorrect`: `Spec => []AnsweredWritesAreDone`;
* `NoReadForgotten`: `Serial` implies `Spec => []ReadsUnderWay`: while an accepted read is not answered to its last beat,
  the machine is in a state of a read. This is the safety half of `AcceptedReadsAnswered`; its premise is the one that
  `dram_axi_both` shows to be needed. The first two theorems hold without it.

`BurstInv` ties the one set of burst registers to the queues of accepted bursts, state by state (`AtBeat`: the address is
that of beat `beat_count`); `MemoryInv` says that the memory lags behind the accepted data by the beat on the bus. The
lemma `BeatInMemory` has the address arithmetic.

`SimpleUart_proofs` proves `BytesCorrect`: `Spec => []BytesArriveAsSent`, for every divider, every unit of time and every host within
`ToleranceAssumption`, byte after byte or after pauses of any length. The run has one divider and three hosts. The invariant
relates two clocks: `Pos` is where the host is in its byte, `Elapsed` where the receiver is in its own, and `SyncInv` says
that the second is one to two cycles behind the first while the receiver is awake, and that it is awake
again, or about to be in this cycle, when a byte begins. `Tolerance` derives from the two ends of the range that each of the eight
middles lies in its bit; `WhichBit` turns a place on the line into the number of a bit; `Synchronous` puts them together.
`DataInv` (the upper end of the shift register holds the bits so far) and `PendingInv` (who owes what) then follow cycle by cycle.

`ProgLoader_proofs` proves for all sizes, any bytes on the line and any stores of the CPU
(`LoaderSpec`; its one premise is that no byte comes during the copy of the boot image,
12032 cycles after a reset):

* `LoaderTypeCorrect`: `LoaderSpec => []LoaderTypeOK`. What it needs beside the
  types is that `rcv_seq_ctr` is zero outside Receive, because Wait adds to it.
* `WordsInOrderCorrect`: `LoaderSpec => []WordsInOrder`. The frame of a program ends on
  an equality of two counters, and the address is not set when a frame begins: it relies on
  the reset after the frame before. `OrderInv` says that the SoC is out of reset in all
  states but Wait, that the address is zero until the program state, and that in Wait it is zero
  or the reset is low. The premise is needed for the first: a byte during the boot copy
  leads out of Wait while the reset holds the address at zero.

`DramSystem_proofs` is about the composition, with the real front and the real core, for all memories, bursts,
contents, start-up sequences, refresh periods and latencies:

* `IdFifoCorrect`: `Spec => []IdFifoHasRoom`;
* `AddressStays`: `Spec => AddressHeld`;
* `CoreImplemented`: `Spec => ImplementsCore`, where `ImplementsCore` says that core, sequencer and chip take the steps of `Ddr3Core`
  and no others. `Ddr3Core` leaves its requester free but for one premise, an address that stays while
  `LineInUse`; the theorem says that the Wishbone front under any AXI master is such a requester.

The difficulty is the request that stays up. The core does not know that it has run it before, so it runs it
until the acknowledge reaches the front and the request comes down, and what it has begun by then it ends *after*
that, with the address port live, while the two fronts are on their way to the next address. The invariant `IInv` has nine
parts. `FrontInv` keeps the two fronts in step. `ReadsApart`, `BeatsTimed` and `CountInv` describe the reads under way by their
*ages*, as in `Ddr3DataPath_proofs`: at least a burst apart, answered at one fixed age, and the id fifo holds at most
one more than there are reads under way, so that its room is arithmetic: 12 cycles hold three bursts of 4. `AnswerInv`:
while the front waits for its answer the row is open and the core runs the same access back to back, or has
turned to a refresh; that one waits in PRECHARGE as long as reads are under way, so it cannot overtake
the answer. `QuietInv` is what `AddressHeld` rests on: when the acknowledge comes, the run that is still in the core is
accepted within two cycles (the early acceptance of a burst of the same kind), and the next address needs at least
those two. `AcceptInv` says that from then on the core works on nothing but the new request, `CoreInv` has
the start-up and the open row, `AddressInv` the ranges.

`LatencyAssumption` is where this comes from numbers. A burst has two to four beats (four in the code): with one or with
more than four TLC finds `AddressHeld` violated, since the extra run is over too soon to be back to back or too
late for the next address. A read is answered before the delay counter lets another kind of command pass
(`RL + PhyRdLat < WL + TWTR`, 8 < 10), and the fifo is deep enough for the bursts of that time
(`RL + PhyRdLat + BL < BL * (IdDepth - 2)`, 12 < 24).

`HostTools_proofs` is about five of the modules of scripts, each with an invariant of its loop over the files:

* `FilesAreRead`: `Spec => []MemoryIsWhatTheFilesSay`, for all files and offsets. The reference, `Meaning`, looks
  at a whole file at once: the section of a byte is the greatest position before it that opens one, and its place is
  the number of bytes in between. `FilesInv` says what the loop has done after each word: `memory` is what the files
  before were, overlaid with the meaning of the words read (`Prefix`), and `current_address` the address of the next byte, or none. The
  lemmas `SectionStep`, `CountStep` and `MeaningStep` say how the reference changes when a file
  is longer by a word: each is a fact about a maximum or a cardinality, so that no induction over
  the file is needed, the one over the steps of the script does it.
* `PreloadArrives`: `Spec => []PreloadIsReadBack`, for all files, lengths of a line and geometries. `LinesInv`: each line that was
  written is one of the memory (`LineOf`), none comes twice, and all lines below `addr` that hold data are
  there; it begins with the line of the lowest address and ends a line above the highest (`Lowest`, `Highest`).
  `CellsInBank` is the arithmetic: within the first bank the 14 row bits of the chip model and the 15 of the core give the same cell,
  and each line has one of its own (`SameCell`).
* `ChunksArrive`: `ChunkSpec => []ImageInDram`, for every size of a chunk, image and session. `ImageInv`: the programs on disk
  below `chunkNo` are those of this image and the DRAM holds the chunks of those that were taken (`loaded`). Which are taken is left open: not all
  are (`loader_chunks`), and the theorem says that those that are do not disturb each other (`TakenProgramWrites`). A program that
  an earlier, longer image left behind is still sent after them: the invariant says that it begins
  behind the end of the new image, also beside the word that the last chunk has too much.
* `WholeFrames`: `HexSpec => []FramesAreWhole`, for every file. `FrameInv` follows the stream line by line, and says that a script
  fails behind its count only if it has no word yet (`NoWordYet`), which a file without empty lines rules out unless it is empty itself.
* `PlacesAreKept`: `FlashSpec => []ClearedFileKeepsPlaces`, for every file. The script carries an address, a length and the bytes so far
  over from section to section; `ClearInv` says that there are as many bytes as lie between the first section and the place
  of the next byte (`Top`), and that each is what the words read so far say of its address, or zero (`Filled`). That the gap is exact at the
  next section is `EndIs`: a section ends, as the reference counts its bytes in the whole file, where the next byte would have gone.
  `MeaningOfBytes` reads the result, a file of one section.
* `FlashIsWritten`: `FlashSpec => []FlashHoldsTheFile`, for every file and size of a word. `FlashInv` has two halves. While `vmem2carr.py` reads,
  its sections ascend and hold the bytes of the words read, and no others (`Holding`), and all but the last are of whole words
  (`Parsed`). While `program.c` writes, the flash below the next word (`FlashPlace`) is the file with zeros between (`Burning`). Two
  facts keep the two scripts together: the number of words that the C code computes from the bytes is that of the
  array (`WordsOfBlock`), and the gap, which it rounds down to words, is one of whole words (`Multiples`).

and `StoredWords`: `StoreSpec => []EveryWordIsStored`, for every image and every
width of the two immediates. The property speaks of the moments between two programs only; `StoreInv` says where the CPU
is in between. It is the range of the registers, what the RAM holds (`ProgramLayout`: the header and six
instructions for the word `index`), and, for each place of the program counter, what has been computed so far: `Running`
runs through the header's two jumps and the six instructions. The arithmetic is in three lemmas: `SplitIsExact` (a value
is its upper part, raised when the lower one is negative, plus the signed lower part, modulo the width), `Decode` (the two
fields of a store's immediate give the immediate back) and `PlacesDiffer` (words of an image that fits the
address space do not meet, also when it runs over the end). The CPU of the theorem is the one of the module: it
knows the instructions these programs have.

Each proof has the form: initial states satisfy the invariant, each action
preserves each conjunct, the invariant implies the property, then temporal
logic. The assumptions are the named ones of the modules:

* `TimingAssumption`: the spacings fit the six-bit counter (true for every
  `DDR_MHZ` up to 200 as tRFC is 260 ns; the code uses 50);
* `RefreshAssumption`: the longest way to a refresh fits into a refresh period, whatever the delay counter holds
  when it begins (37 of the 390 cycles of the code);
* `DataAssumption`, `FifoAssumption`: latencies are not zero, the marks for no data are no data, lines are records with a row,
  and the fifo is as deep as the write latency asks for (7 <= 12 in the code);
* `WbMemoryAssumption`, `MasterAssumption`, `AddrModAssumption`: requests are of their types, and an incrementing burst
  does not run over the end of the address space (for AXI4 it ends within 4 KiB);
* `UartAssumption`, `ToleranceAssumption`: the divider is not zero, and the host's clock is in the range above
  (213.6 to 237.3 quarter cycles for the divider of the code; the nominal bit is 217);
* `DeviceAssumption`: lines lie in the banks and rows, `Long` bounds the spacings;
* `LoaderAssumption`, `BootAssumption`: sizes are not zero, a start sequence has more than one byte,
  the boot image is an image;
* `WiringAssumption`, `LatencyAssumption`: bursts stay in the memory and each of its lines has a place in the chip; the three
  inequalities above;
* `ImageAssumption`, `ChunkAssumption`, `HexAssumption`, `FlashAssumption`: the sizes of a line, a row, a bank, a chunk and a word are not zero, the chip
  has no more row bits than the core (14 and 15 in the code), files and images are sequences;
* `StoreAssumption`: the widths are not zero, a store's lower field divides the lower part, words fit;
* `CoreAssumption`: the start-up sequence has one PRECHARGE of all banks, late
  enough after the reset, and otherwise commands that cost no delay. The
  code's is at 10 cycles before the end of 30000.

One more premise is in `Requester`: the address is still while `LineInUse`. `AddressStays` proves it of the real
requester, and by `CoreImplemented` what is proved of `Ddr3Core` holds of the core in `DramSystem` whenever the assumptions
of both modules do.

Model-checked only:

* liveness (out of reach of the prover): `HeldReadServed`, `AccessesAnswered`, `BytesAllArrive` and the others;
* the data in the composed DRAM path: the refinement of `DramAxiMemory` by `DramSystem`. It does not hold for every burst
  (`dram_system_crossing`), so a theorem would need the bursts as a premise, and beside `IInv` an invariant that says of every late
  answer which line it carries;
* the loader between host, CPU and DRAM (`ImageLoading`): it depends on proportions of times, which the bounds above list;
* the benches and the console (`SerialLines`);
* of the scripts: `HexHoldsTheProgram`, `PackagesComeFirst` and `IntervalIsBoot`. They filter a file, a list of sources or a stream
  with `SelectSeq`, of which the prover has no definition, and what it returns for every list takes an induction over data.

The type invariant that is left is that of `Ddr3Core`, where it is not shallow.

## 6. What the runs found

* `dram_controller_axi.sv:156-157` raise `awready` and `arready` together in
  `S_IDLE`, but when both addresses are valid only the write is latched. The read
  has been accepted by the handshake and is never answered
  (`dram_axi_both`). The crossbar of the SoC and the atomics wrapper before the DRAM
  port decide whether the two can come in one cycle; the comment on the interface says
  "Full AXI4 Slave Interface".
* A read burst over the end of a 16-byte line returns, for the first beat after it, a word of the line before
  (`dram_system_crossing`). The request of the first beat is held up until its
  acknowledge, the core runs it several times, and the answer of the last run arrives when the
  front waits for that of the second beat, with nothing to tell them apart:
  the id of the request is tied to 0. An aligned 16-byte burst is not affected.
* The last word of a DRAM image is not written (`loader_dram_last`). The loader is in
  `SequenceDramWriteFinish` one cycle after it puts the word out and resets the SoC two
  cycles after it; the DRAM controller is kept out of that reset by `uart_dram_mode` only, which is low
  again by then (`secure_soc.sv:874`), and its read-modify-write of the word has just begun.
  Program images are not affected: the RAM is written in one cycle, before the reset.
* `uart_send_by_chunks.py` loads the first file only (`loader_chunks`). It sends `done`
  after the words it has counted and waits 20 s; for the loader the four bytes begin
  a start sequence, which it gives up after 2^32-1 cycles, 86 s (`ram_dwr.sv:90`). With the
  1,000,000 cycles in the comment of that line, or a pause of 87 s, the run holds.
  `uart_send_data.py` counts the empty string after the last line end as a word and `done` fills it.
  `DramChunks` leaves open which programs after the first are taken, and `ImageInDram` speaks of those that are.

Seen while modelling and not settled by a run, because the models are set to what works or because the
code has no statement to hold against it:

* `tb_air_program.py:182-183` sets 10 ns and 115200 baud, 869 cycles a bit, while the receiver of the loader is built for 50 MHz
  and 921600 baud (`header.vh:26-27`), 56 cycles a bit. With the receiver of `SimpleUart` at the end of the bench's line TLC shows a byte of zeros read out of the first
  start bit, and to the end of the frame no byte as it was sent: the start string is not recognised, and the test runs the boot image. The targets
  `air_program` of `src/Makefile` and `verification/sim/Makefile` run it like that. Set to 50 MHz and 921600 baud (55 cycles) every byte is read.
* `ddr3_core.v:167` has 15 row bits, the bus to the chip and the chip 14 (`ddr3_dfi_phy.sv:250`): beyond 32 MiB the
  core's address meets a cell twice, and the preload of `sim/ddr3.v` puts lines elsewhere. `PreloadIsReadBack` speaks of the first bank.
  `DTB_OFFSET` of `vmem_to_ddr3_init.py:7` is 0x01400000 where the `Makefile` loads the device tree at 0x10000000.
* `vmem2carr.py:30` drops the bytes of a last word that is not whole, and `program.c:91` reads the word all the same,
  past the end of the array; a section address that comes twice empties the first. `FlashHoldsTheFile` has whole words and each address once.
* `clear_adresses_for_qspi_boot.py` moves what follows an overlapping or descending section without a word;
  `ClearedFileKeepsPlaces` has ascending sections.
* File format 2 of the `uart_send` scripts announces bytes where the loader counts words, so that it waits for three times as
  many again; that of `uart_send_data.py` also hands integers to a library that expects bytes. `FramesAreWhole` is about format 1 and files without empty lines;
  `uart_send_data.py:35` fails at a first line that is short (the name is not defined yet), so that for an empty file it announces one word and sends none
  (`FirstLineShort`).
* The return at the end of a program of `dram_write_chunk_hexs.py` goes to address 0, where `ra` points after a reset, through the
  nops to the jump at 0x7C, and past the program; the next program comes 0.1 s later and resets the SoC.
* `uart_controller_axi.sv:73-75` accepts a write and a read address in one cycle and forgets the read, as
  `dram_controller_axi.sv` does; the driver has one access at a time.
* `main.py` puts `axi_demux_simple.sv` and `rand_id_queue.sv` before packages it does not name; `PackagesComeFirst` counts as modules only those that no list names.
* `main.py:333` hides every failure. The readers of the benches return the memory of the last test only.
* `calculate_execution_time_from_uart.py:34` clears the buffer with the first text: a second text that came in the same read is lost.

## 7. What could follow

1. Resets in `DramControllerAxi` and `DramSystem` (a reset under a burst; the
   master side reset alone while an image is loaded); a WRAP master.
2. The receiving half of the UART and the timer with its AXI-lite bridge, over bounded software.
3. `Cache`, the OBI adapters with their fifos, `Qspi`: units the top level does not
   instantiate today.

Proofs worth having, in this order: `DramSystem` as a `WordMemory` below the AXI front, for bursts that stay in a line (`IInv`
and the line each late answer carries); `EarlierWordsInDram` and `MessagesTakeEffect` of `ImageLoading` from
inequalities between the times; the list of sources and the boot ROM script with the filter as a function of the position.

## 8. Not modelled, and why

* CVA6, the crossbar, the atomics wrapper, CLINT and the AXI-to-OBI bridges are
  submodules without source here. They appear as the AXI master.
* Serdes, delay taps and pads of the PHY, clocks and PLL: vendor cells and
  analogue behaviour.
* `ddr3_axi*.v`, `dram_controller.sv`, `dram_controller_obi.sv`: alternatives the
  configuration does not build, over the same core.
* Encryption: what matters in it is the value of a keystream, not control.
* The receiver of the UART peripheral, the timer, the QSPI controller, the cache, the OBI adapters and their fifos: section 7.
* Options and include directories of the simulators in `main.py`: constants without behaviour.
* Chip models and the other test programs: read for intent. File format 2 of `uart_send_data.py`: see section 6.
