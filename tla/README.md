# KlaussCPU: models, checks and proofs

KlaussCPU is a 64-bit soft CPU with a five-stage pipeline, a write-back data
cache, DDR2 memory and a set of bus masters and peripherals, written in
SystemVerilog for a Nexys board. Around it are Python programs: generators of
the assembler programs the board gates run, a VNC viewer for the frame buffer,
and a runner that builds and compares simulations. This directory models the
parts of both that a simulation or a test has trouble covering: registers of
several blocks that move in the same clock, masters that share one memory
controller, requests, completions and resets that meet in an order nobody wrote
a test for; two cores and a cache between a program and its verdict; two threads
on one connection; files that an invocation leaves for the next.

The hardware's sources are under `src/KlaussCPU.srcs/sources_1/new/`, the
programs under `src/tools/` and `src/perf/`.

## 1. Inventory

| Part | Source | State | Operations | What makes it correct |
|---|---|---|---|---|
| Data cache | `mem_read_write.sv` | request FSM, latched request, tag/valid/dirty/data arrays of two ways, LRU, victim registers, served-DV guard | load, store, refill with early restart, shadow writeback of the victim, load-hit pipe, flush and invalidate walk | a load returns the last store; one answer per request; no duplicate line; the victim is never visible stale; a walk leaves nothing behind |
| Maintenance capture | `mem_read_write.sv`, `KlaussCPU.sv` | pending flag and mode, active flag and its delayed copy, mode of the walk | strobe, capture, consume, walk | no request lost or downgraded; MNT_BUSY covers it |
| DDR arbiter | `mem_read_write.sv` | three grant flags, orphan counter | grant, release, orphan drain | completions go to their owner; a tenure is not cut; nobody starves the cache |
| DDR controller | `ddr2_control.sv` | FSM, beat counters, burst order | read (one or two bursts), write | one transaction per rising edge of DV; right beat in the right place |
| VGA scanout | `vga_scanout.sv` | fetch FSM, two line halves, queue of one | queue a line, fetch in chunks, yield | bus contract; a half is shown only when complete |
| Blitter | `blitter_dma.sv` | MMIO registers, pixel FSM, word accumulator, read buffers | fill, copy, blend, chunked bus tenure | bus contract; each pixel written once |
| AMP core 2 | `core2_subsys.sv` | run/start, bus FSM, DDR adapter, text cache, mailbox, local RAM and its window, log FIFO, Ethernet adapter | start, stop, load, store, window read and write, log, pop | a transaction survives a stop; no stale text; every log byte once |
| Pipeline core | `pipeline_core.sv`, `klauss_pkg.sv` | five stages, posted store with one queued behind, outstanding load, load-hit pipe, instruction window, I-cache, next-line buffers | issue, post, forward, prefetch, snoop, squash, interrupt entry | program order of memory; self-modifying code is seen; an interrupt splits no operation |
| Interrupts, timer | `KlaussCPU.sv`, `pipeline_core.sv` | sources, pending, mask, timer | raise, acknowledge, enter, return | no tick lost |
| MMIO crossbar | `bus_splitter.sv`, `KlaussCPU.sv`, `mmio_if.sv`, `membus_if.sv` | registered DV, ready and data | access | one ready edge per access |
| UART | `uart_rx.sv`, `uart_tx.sv`, `uart_rx_fifo.sv`, `uart_send_msg.sv`, `uart_tasks.vh` | receive FIFO, bit counters | receive, pop, send | order; overflow drops the new byte only |
| SD card, SPI | `sd_spi.sv`, `SPI_Master*.sv` | byte handshake, chip select | transfer | one byte per command |
| Ethernet | `eth_mmio_bridge.sv`, `liteeth_core.v` | owner, Wishbone handshake | access from either core | one owner per transaction |
| Crypto | `crypto_aes.sv`, `crypto_sha.sv`, `aes_core.sv`, `aes_sbox.sv`, `ghash.sv`, `sha256_core.sv` | key, block and mode registers | key expansion, block, hash | no start while busy; known answers |
| TRNG | `trng.sv`, `ring_osc.sv` | health counters, word buffer | collect, read | an alarm stops the words |
| Debug module | `debug_module.sv` | JTAG registers across a clock crossing | halt, step, read, write | one access per command |
| Boot and console FSM | `KlaussCPU.sv`, `boot_rom.sv` | top-level FSM | copy image, load, dump | boots only when DDR is calibrated |
| VGA timing, board outputs | `vga_ctrl.sv`, `vga_timing.sv`, `Seven_seg_LED_Display_Controller.sv`, `RGB_LED.sv` | counters | count | - |
| AMP board programs | `perf/amp_p1/gen_loader.py`, `gen_p2test.py`, `gen_p2b.py`, `fill_p2b.py` | the generated program's place; cache, DDR, mailbox, local RAM, log, core 2 and its text cache | place an image, flush, invalidate, start, forward the log, check | the verdict printed is about this run; core 2 never executes a stale dword; every program ends |
| Hazard probe | `perf/m7/gen_probe.py`, `parse_haz.py` | registers, stack, buffer, counters, snapshot, UART lines | clear, kernel, dump, print, parse | a row measures one whole kernel and nothing else |
| VNC viewer, VNC probe | `tools/vnc_viewer.py`, `perf/amp_p1/vnc_probe.py` | framebuffer, palette, `running`, `error`, snapshot and sequence number, send lock | handshake, request, decode, publish, tick, key, close | a frame is one whole update; one request at a time; the title says why |
| Simulation runner | `tools/vsim/run.py` | build directories with stamps, `.out` and `.trace` files | build, reuse, run, compare | what runs is what was read; "same" is about this run |
| Assembler, random programs, known answers | `tools/vsim/kasm.py`, `randprog.py`, `crypto_kat.py`, `tests.py`, `tools/board/gen_hwprop.py` | - | functions from text to text | - |
| Vendor IP, test benches, scripts | `ip/`, `sim_1/new/`, shell, Tcl and small conversion scripts | - | - | - |

### How the parts interact

* In the FPGA everything runs on one clock (the MIG's `ui_clk`). There is no lock and no
  queue between blocks; a hand-over is a level, a pulse or an edge, and the
  protocols are about which clock it is seen in.
* The **core** talks to the **cache** through one port: DV and address up until
  `ready`, DV down (or the next request to another address) some clocks later.
  A store is acknowledged when the cache latches it. A second, side-effect-free
  port, the load-hit pipe, reads shadow copies of the arrays.
* The **cache** owns the **DDR controller** whenever no grant is out. Scanout,
  blitter and core 2 raise `req`, wait for the grant, drive transactions and
  pulse `done`. The controller's single `ready` is gated by the grant.
* **Software** keeps DMA coherent: it writes CACHE_CTRL, which starts a walk,
  and polls MNT_BUSY. A requested walk keeps the blitter and core 2 off the bus.
* **CPU_RESETN** resets the masters, but neither the arbiter nor the cache nor
  the controller.
* A **board program** runs on core 1 and reaches core 2 by three ways at once:
  cached stores that a walk must take to DDR, the mailbox's window onto local
  RAM, and the rising edge of RUN. Core 2's answers come back through the log
  and through DDR behind core 1's cache.
* The **viewer** is a reader thread and the Tk thread. They share a snapshot
  under one lock, the connection's sending side under another, and two plain
  variables, `running` and `error`. The server is core 2's, outside the
  repository.
* Invocations of the **runner** never meet, but each finds the files of those
  before it, finished or killed, and a working tree that is being edited.

### What is hard

Races of registers in one clock (capture against consume, `done` against
grant); the window in which a miss has released the CPU but has not finished;
a DMA tenure between a refill and the victim's writeback; a reset that leaves
a transaction without an owner; masters that wait for each other's levels;
state read through the hit pipe beside the FSM that changes it. In the programs:
a poll, flush or edge left out works until the cache evicts otherwise or the
board is not fresh from reset; a register or counter one routine destroys for
another; a request too many or too few, or a variable written in the wrong order
for the other thread; a file of an earlier run taken for this one's. `PROJECT.json`
lists each of these hazards at its line, with the property that would catch it
or the module that is planned for it.

## 2. Modules

One step of a hardware model (`MaintCapture`, `DCache`, `MemArbiter`, `Core2Bus`,
`CorePort`) is one rising edge of the clock. The next-state relation is a *conjunction* with one conjunct per block of registers, each of
which is a disjunction of named actions, one per FSM state or branch. All read
the values of the clock that ends, as nonblocking assignments do. The models of
programs interleave: one step is one register access, one instruction, one
message, or one thing done to a file.

| Module | Models | Run as |
|---|---|---|
| `MaintCapture` | the capture of maintenance requests; the abstract specification of the cache's walk | `MCCorePort`, with its strobe from the core's port |
| `MaintCaptureProofs` | inductive invariant and theorem for `MaintCapture` | - |
| `DCache` | the cache with its CPU port, hit pipe and walk, and the controller and other masters as it sees them | `MCDCache` |
| `MCDCache` | geometries and requests for TLC | - |
| `DCacheProofs` | inductive invariant of `DCache` and the theorems about what loads get, the victim, transactions and the walk; `DCache` implements `MaintCapture`; a flush reaches memory | - |
| `MemArbiter` | arbiter, controller and the bus FSM of the four masters | itself, `MemArbiterProofs` |
| `MemArbiterProofs` | inductive invariant and theorems for `MemArbiter` | - |
| `Core2Bus` | core 2's subsystem: mailbox, start, bus FSM, RAM, text cache, log FIFO, adapters | `MCCore2Bus` |
| `Core2BusProofs` | inductive invariants and theorems for `Core2Bus`: loads, stores, the log, the window, the drain | - |
| `MCCore2Bus` | what the two cores do, for TLC | - |
| `CorePort` | the memory side of the pipeline: EX, MEM, WB, the port engine, posted and queued store, forwarding, hit pipe, instruction fill, interrupt frame, crossbar | `MCCorePort` |
| `CacheControl` | `CorePort` with the stores to CACHE_CTRL that drive `MaintCapture` | `MCCorePort` |
| `CorePortProofs` | inductive invariants and theorems for `CorePort` and `CacheControl`: owners, answers, memory, loads, the strobe | - |
| `MCCorePort` | programs for TLC | itself |
| `BoardProgs` | the board gates' programs, as the generators write them, and the machine they run on | `MCSoftware` |
| `BoardProofs` | inductive invariant of `BoardProgs` and the theorems about verdicts, freshness and core 2's text | - |
| `HazProbe` | the hazard probe's routines and kernels, and the parser of its output | `MCSoftware` |
| `HazProofs` | inductive invariants of `HazProbe` and the theorems about the chase and the rows | - |
| `VncSession` | the viewer's two threads, the VNC probe, the connection and the server | `MCSoftware` |
| `Vsim` | the runner's builds, runs and comparisons, kills and edits | `MCSoftware` |
| `ToolProofs` | inductive invariants and theorems for `VncSession` and `Vsim` | - |
| `MCSoftware` | the board gates' programs and the three host tools, one at a time (`tool` says which) | itself |

### MaintCapture

`go` is the pair of strobes, up for `GoHold` clocks; `pending`, `mode`,
`active`, `activeD` and `walkMode` are the registers `r_mnt_*`. `Strobe`,
`Register` and `Fsm` move in the same clock. `owed` is a history variable: the
requests no walk has taken up. It is what the code must not forget, and is not
in the code.

`GoHold` is 4 in the SoC: `w_mmio_write_DV` stays up until the core sees the
ready edge, which the crossbar delays (`KlaussCPU.sv:453-487`). `CacheControl`
puts the two together, and `DrivesStrobe` says that the port drives exactly the
strobe `MaintCapture` assumes.

### DCache

| Variable | Register |
|---|---|
| `port`, `resp` | the CPU's DV, address and data; `cpu.ready` with its data |
| `served` | `r_dv_served` with `r_served_addr` |
| `state`, `sub`, `req`, `index`, `evictWay`, `missServed`, `gap` | `state`, `r_mnt_sub`, the latched request, `r_cache_index`, `r_evict_way`, `r_miss_served`, `r_gap_count` |
| `victim` | `r_do_evict`, `r_evict_data_hold`, `r_evict_ddr_addr_r` |
| `array`, `lru` | the arrays; the hit pipe's shadow arrays are written in the same clocks with the same values and are the same variable |
| `cmd` | `o_ddr_mem_*` |
| `ctl`, `ready`, `dwReady`, `mem`, `grant` | the controller, DDR, and the tenure |
| `arch`, `must` | history: the last value stored, the lines a requested walk must write back |

A dword is a word of the model; what a store writes under its byte enables is
the word's new value. A line has `LastOff + 1` words. The snapshot registers
filled in WAIT are read from the arrays, which nothing writes in between.

The CPU's actions are what `pipeline_core.sv` does with the port: hold, drop,
or chain a request to *another* address. While a CACHE_CTRL store is out the
port is idle. DMA tenures start in every clock the arbiter's gates allow.

### MemArbiter

Each master is its bus FSM, with the state names of the source. What it moves
or computes is left out: a pixel state is one state that works as long as it
likes, a hit and a miss of the cache are a choice. `vdv`, `bdv`, `cdv`, `adv`
are the four DVs, `grant` the three flags (exclusive in the code by the shape
of the block), `owner` and `behind` history. The controller takes any latency
up to `MaxLat`.

Core 2's side of its adapter (`cgo`) falls at any time, since core 1 may stop
core 2 in mid-transaction; it rises only with the adapter idle, and what happens
otherwise is `Core2Bus`'s business.

### Core2Bus

| Variable | Register |
|---|---|
| `mw`, `wrD` | the mailbox's `mmio.write_DV` with register and value; `r_wr_d` |
| `run`, `dly`, `startPend`, `started`, `owner` | `r_run`, `r_start_dly`, `r_start_pend`, that the core has taken its start, `r_eth_owner` |
| `win`, `winFetch`, `winData` | `r_win_addr`, `r_win_fetch`, `r_win_data` |
| `port`, `resp`, `ph`, `q` | the core's port; `m2_ready` with `m2_rdata*`; `ph`; `q_*` |
| `ram`, `ramq`, `ct`, `ctq` | `ram`, `r_ram_q`, the text cache's line and its registered look-up |
| `dph`, `dgap`, `dgo`, `ddone`, `drd`, `req`, `done`, `rdv`, `wdv`, `daddr`, `wdata` | the DDR adapter and `o_ddr_*` |
| `ego`, `edone`, `edv`, `eready` | the LiteEth adapter and the bridge's ready |
| `logPush`, `fifo` | `r_log_push`; the FIFO's ring as a sequence |
| `mayPush`, `sent`, `popped` | history: what the console software knows, the bytes' order |

A word is its place and one bit of contents, so that an answer with another
place's data, or with data of before a store or a reload, differs from the right
one. Registers the other side looks at only under a flag (`m2_rdata` under
`m2_ready`, `r_drd` under `r_ddone`) are kept only while the flag is up. The
text cache is one line that two text lines compete for. The board's reset is
left out. Console software polls STATUS before each byte and core 1 pops only
what it has read as valid, as the register descriptions ask.

### CorePort and CacheControl

| Variable | Register |
|---|---|
| `ex`, `mem`, `wb` | the three stages: valid, operation, address, data; `mem_h`, `mem_h1`, `mem_hok`, `mem_hdw`; `wb_h`, `wb_hok` |
| `port`, `armed` | `m_read_DV`, `m_write_DV`, `m_addr`, `m_be`, `m_wdata`; `rdy_armed` |
| `mem_xc`, `dw0` | the port engine's phase, the first of two dwords |
| `st_post`, `st_post_ok`, `st_spec` | a posted store, the verdict of the fetch side on it, whether it left MEM before the verdict |
| `sq`, `ld_out` | `sq_v` with `sq_addr`, `sq_be`, `sq_wdata`; the read of the load in WB is on the port |
| `if_look`, `if_xc`, `irq` | an I-cache look-up, a fill on the port; `irq_active` with `irq_xc` |
| `served`, `latched`, `resp`, `store` | the cache: `r_dv_served`, that it works on a read, ready with its data, what memory holds through it |
| `dev` | `r_mmio_*_dv_d`, `_d2`, and the splitter's registered ready |
| `left`, `arch` | history: what the stores that have left MEM make of memory, and what those of them make of it that retire (nothing squashes them) |

The wires keep their names (`w_mrdy`, `mem_done_now`, `mem_busy`, `sq_enq_now`,
`h_elig`, ...). Of the instruction set remains what an operation asks of the port:
`load` is LOAD, POP and LEAVE, which may leave MEM before their data; `return` is
RET, which may be answered by the hit pipe but waits in MEM; `read` is LOAD32 and
IRET; `pair` is LEAVERET and a MEMGET32 over a dword's end, which may need a
second read; `store` is STORE, PUSH, CALL and ENTER; `branch` is a branch that
MEM resolves; `other` uses no port. A program is a *set* of operations that come
in any order, so every sequence of them is met. A dword has two lanes, the
fewest in which a store can overlap a load without covering it.

The cache behind the port is the contract `DCache` has been shown to keep: a
store is acknowledged and in effect when it is latched, a load answered any time
after, a request served once. `KeepsPort` is the other half, what `DCache`
assumes of the core. The hit pipe may miss or answer what the cache holds, and
anything at all while a store to that dword is on the port.

The fetch side is abstracted to what it does to the port: look-ups, fills, and
its verdict on a store (does it overlap something fetched?), which may be either
if the program has code in that dword, whatever follows the store. Its own copies, the window, the next-line
buffer and the I-cache's arrays, are not here.

`PortTypeOK` states the range of each register; it is not among the run's
invariants.

In `CacheControl` the device is CACHE_CTRL: `PortStrobe` makes `go` of the store
on the port, and `Register` and `Fsm` are `MaintCapture`'s own. The FSM is not
tied to the cache of the port, so that it may be anywhere when the strobe comes.

### BoardProgs

The generators are operators with the generators' names (`window_load`, `flush`,
`start_core2`, `drain`, `run_timed`) that return the program as a sequence of
accesses; `ProgCode` is what they emit for each gate. Core 1 makes one access a
step, core 2 executes one instruction, a walk takes one line, and the cache
evicts whatever and whenever it likes. A dword is kept as the image and place it
belongs to and the program that stored it (`by`), so that a stale one is a
different value even when its bits would be the same. What the cores and the
cache do is the contract the modules above show, one access at a time.

Where the images, the items and their sum lie in DDR is a parameter (`DdrBase`,
`DataBase`, `Result`): the code's addresses are one choice, and all that matters is
that they are apart and that core 2 sees local RAM below `DdrBase`, as long as the
longest image it is given there (`PlacesAssumption`). A line of the cache is one
dword here, so that the cache may hold any part of an image and not the rest.

`LoadProgram` loads any of the programs after any other on a board that keeps
its memory, mailbox and core 2. Its guard says what they rely on: a program that
loads the window first must find RUN low, since the window ignores writes under
RUN. `p1test` never clears RUN, and `p2btest` loads the window before it clears
RUN (`gen_p2b.py:90-91`, `:112`), so after `p1test` it needs a reset; `p2test`
starts in DDR and clears RUN first, so it needs none.

### HazProbe

The probe has no calling convention: routines share eleven registers and a
stack, and it works because each author knew what the others destroy. A routine
is a sequence of instructions; a run of plain arithmetic is one instruction that
names the registers it destroys (`Run`), which become `Lost`. A counter is not a
number but what it has counted since the clear, by cause (kernel, setup, dump,
print), so that a row that holds anything but its kernel is seen. `Partner` is
the random number of `build_perm`, any below `i`. `Parse` is `parse_haz.py`.

### VncSession

`rd` is where the reader is in `run()` (or the VNC probe in its main loop), `ui`
where the Tk thread is between two ticks; `frame` and `seq` are the snapshot,
`sendLock` is `send_lock`. `toS` and `toC` hold at most `Cap` messages, and a
sender into a full one waits. A tile's content is the number of the update that
changed it last. The server is external: it answers one message at a time, sends
a changed palette ahead of its update, codes a tile in any of hextile's ways,
and may close at any time. `sent` remembers what each update stood for.

### Vsim

`dir` is a build directory: the executable and the stamp (the hash of the
sources) in it, as the sources they are of. `out` and `trace` are the files of
each run, by name. `proc` is the invocation there is; it follows `build`, `run`
and the `cmd_` functions in their order, one file at a time. `Kill` ends it
anywhere, with half an executable or half a trace, and `Edit` changes the working
tree anywhere. `torn` is history: the executable is not what its stamp was
written for.

## 3. Runs

| Run | Bounds | Question |
|---|---|---|
| `DCacheLines` | 1 set, 3 tags, 2 words | Loads, answers, duplicates, the victim, the flush |
| `DCacheSets` | 2 sets, 1 tag, 1 word | Hit pipe beside the FSM, complete walk, refinement of `MaintCapture` |
| `DCacheLive` | 1 set, 3 tags | Every request is answered |
| `DCacheSync` | 2 sets, 2 tags | *violated*: the hit pipe answers before the walk |
| `MemArbiterBus` | all four masters, no reset | Tenures, deadlock, waiting, the cache is served |
| `MemArbiterReset` | scanout, blitter, reset at any time | Completions go to their owner under reset |
| `MemArbiterDrain` | drain shorter than a read | *violated*: a stale completion reaches the cache |
| `Core2BusRun` | two RAM rows, two text lines, one data line, FIFO of 3 | Core 2's loads, stores, log, window, and the bus, beside stops and starts |
| `Core2Restart` | DDR requests only | *violated*: a start under a running transaction leaves a DV up |
| `CorePortRun` | two dwords in one line, two lanes, two values; four programs; strobe of 4 clocks | What loads get, what becomes of the stores that leave MEM, who owns the port, what answers are taken, progress; the strobe, and with it that no maintenance request is lost or downgraded |
| `CorePatch` | stores to two dwords, one with code | *violated*: a store that is squashed is performed |
| `Software` | board: two letters, items, loop iterations, two programs in a row; probe: 4 words, chase of 5, `fib(4)`, 3 counters; session: 2 tiles, 2 updates, 2 messages each way, 5 setups; runner: 3 cores, 2 benches, 2 seeds, 4 plans, 2 edits | Verdicts byte for byte, no stale pass, no stale code, every program ends; rows measure kernels, the chase visits all; frames, requests, titles, updates shown; executables and verdicts |

Why the bounds are enough. Three tags over two ways make every kind of miss,
clean and dirty, in both ways. Two sets are the fewest in which the FSM and the
hit pipe work on different ones and the walk has a next set. One word takes two
values and every other keeps its power-up value: the cache moves words without
looking at them, so a word that is lost, duplicated or misplaced shows up as
the wrong one of the two. Two words per line give a neighbour to disturb and a
companion to present. `GapLen` is 2 as in the code (1 where it only lengthens
the run, 0 for liveness: it is a delay). A strobe of 2 clocks is the shortest
that behaves like the SoC's 4 towards the consume edge; the proof covers the
rest. Chunks of 1 and 2 have a boundary inside a line and inside a blit. The
blitter's chunk length is a constant of the model although software may write
it (`OFF_CHUNK`); changing it in mid-blit is listed as a hazard.

`PipeReadsLastStore` also holds, under the bounds of `DCacheSets` and
`DCacheLines`, when the hit pipe's conflict flag `r_h_conf` is left out of
`HOk`: the arrays are behind the last store only while that store is on the
port, which the core tests for itself, and the set being refilled still holds
the victim's last value. The flag is a second line of defence, not the first.

`Core2BusRun` takes one of four behaviours of the cores at a time (DDR and text,
local RAM beside DDR, the window, the devices), so that their states add rather
than multiply; two requests of different kinds follow each other in the second
and fourth. Two RAM rows tell which of its two addresses RAM's port is given. A
FIFO of 3 that is full at 2 has, as 512 and 504 have, room for a byte that is on
its way. Core 1 starts core 2 only with the adapter idle (`PatientRestart`).

`CorePortRun` takes one of four programs, so that their states add: loads and
stores of one dword, covering it, overlapping it and beside it; what waits in
MEM, with fills; a device and DRAM in turn, with branches, fills and an
interrupt; CACHE_CTRL. Two dwords tell a chained request from one to the address
just served and have a second read; the pipeline holds four accesses at most
(WB, MEM, the queue, the port), and a program's operations come in every order
over an unbounded run. Two of the programs have code in a dword they store to,
and a store over it may be followed by anything, another store included.

`Software` takes the board gates' programs or one host tool at a time, so that their
states add. Two programs in a row give every ordered pair on one board, and
the second finds everything the first can leave (RUN high, a parked core 2, a
full cache, images in RAM and DDR). Two of each item have a first and a last.
The probe's profile runs every loop at least twice, and `fib(4)` recurses
three deep; the chase takes one step more than there are words. A connection of
two messages holds what the handshake sends at once and is full with a request
and a key in it; two updates are a frame that is replaced while it is looked at. The setups meet each branch of the handshake, the three formats, both
codings and both clients. Three cores are one that agrees with the base, one
that differs and fails an assertion, one that does not compile; a plan repeats a
command so that it finds its own files.

`CHECK_DEADLOCK FALSE` stands in `Software` (the last program and the probe have
halted, sessions end, commands run out), nowhere else.

Symmetry is used only in `DCacheLines`, on the two tags no value is watched in,
and there only for safety.

### Fairness

* The clock runs: `WF_vars(Next)`.
* `DCache`: a DDR transaction ends and a tenure ends. The first is the MIG's
  (refresh and calibration delay it, nothing in the design can hold it off),
  the second is what `MemArbiter` shows of the masters.
* `MemArbiter`: the blitter does not compute pixels for ever (each pixel state
  advances `r_x` or `r_row`). Latency is bounded by `MaxLat`.
* `Core2Bus`: the arbiter grants in the end (a walk ends, a tenure ends), the
  controller and the bridge answer (the bridge has a watchdog).
* `CorePort`: the cache answers what it has taken (`DCacheLive`), and EX does not
  hold an instruction for ever (a division or a delay counts down).
* `BoardProgs`: each core executes while it can and a walk goes on; both are
  clocked. An eviction never has to happen, nor a next program.
* `VncSession`: both threads are scheduled, and the server answers while it has
  room. Nobody has to press a key, to close, or to hold the connection open:
  `UpdateShown` excepts a connection that has ended.
* `HazProbe` and `Vsim` promise nothing that must happen; they have none.

Assumptions about the environment are stated of its state (`[]<>(grant =
"cache")`). From every state in which one of them is unmet a step that meets it
is possible, so they exclude no finite behaviour. Nothing is assumed fair about
the CPU, the strobes or the masters' requests: they may stop or go on for ever.

### What the violated runs show

1. `DCacheSync`. `MMIO_MAP.md` promises that the next access through the cache
   stalls until the walk is complete, and so does the comment at the
   maintenance port. The load-hit pipe looks at the FSM's state and the set it
   works on, not at `o_mnt_busy`, so a load may hit in the clocks between the
   CACHE_CTRL store and the walk, and after an INVALIDATE return what DMA has
   overwritten. Software that polls MNT_BUSY is safe (`FlushReachesMemory`).
2. `MemArbiterDrain`. After CPU_RESETN the arbiter waits 16 quiet clocks before
   it takes an orphaned grant back. A DDR read takes longer than that when it
   meets a refresh or queued commands (an average miss is measured at 31.6
   clocks), and its completion is then taken by the cache for its own.
3. `Core2Restart`. The DDR adapter is not reset with core 2, so that a
   transaction core 1 stops it in is completed; the comment says it simply
   drains and idles. But it reads the bus FSM's latched request live. If core 1
   starts core 2 again before the adapter is idle (a wait behind DMA tenures or
   a walk is much longer than two register writes), the new program's first
   request changes the direction of the transaction under it, and a DV stays up
   into the next tenure; and the old transaction's `r_ddone` answers the new
   request with the old line. Without `PatientRestart` TLC also finds
   `ReadsMemory` and `StoreDone` violated. With it all hold.
4. `CorePatch`. A store that leaves MEM before the fetch side's verdict and turns
   out to overlap fetched code squashes everything younger in the next clock
   (`sq_spec`, `pipeline_core.sv:1780`, `:3219-3238`). If the instruction in MEM in
   that clock is a store, it does not retire (`:2795`), but `sq_enq_now`
   (`:1776-1778`) is not gated by `sq_spec`, so it is queued, or sent at once if
   the port is just free (`:2432-2448`), and reaches memory.
   `CPU_ARCHITECTURE.md:84-87` says that such a store "squashes that instruction
   and everything after it, then refetches". TLC needs eight states: a store over
   its successor, a store to another dword, the squash, and that dword changed in
   memory by an instruction the program no longer has. If the first store left the
   second as it was, the second is fetched again and stores the same once more,
   which does no harm to memory. `OnlySquashedStoresDiffer` proves that this is the
   only way in which memory departs from the program, and `CorePortRun` checks with
   the same verdicts that what leaves MEM, squashed or not, is performed once and
   in order, and that loads see it.

### Where a property makes an exception

* `ExeIsSource` excepts `torn` directories, and the model has two ways to tear
  one: a build killed after verilator has replaced the executable and before the
  stamp is written leaves the old stamp on a new executable; and verilator reads
  the working tree's test bench itself, after it was hashed, so that an edit in
  between is compiled under the old hash. With the sources back as they were,
  the stamp matches and the wrong executable runs.
* `SameIsSame` excepts `early`: `run` removes the old `.out` but not the old
  `.trace`, so that a simulator that dies before it opens its trace leaves an
  earlier run's to be compared.
* `FrameIsUpdate` has none, and neither does `OneRequest`; the second counts the
  update just read while its frame is being handed over.

To neither exception does a comment of the repository promise otherwise.

## 4. Proofs

`tlapm` checks every theorem from nothing. The library provers cannot do
liveness or ENABLED, so liveness is TLC's.

* **`MaintCaptureProofs!RequestsKept`**: `GoHold >= 2` implies
  `Safety => []NoRequestLost`. `NoRequestLost` is not inductive: the clear in a
  walk's first clock is harmless only because what it clears was either taken
  up or is still being strobed. `IInv` adds that relation of `active`,
  `activeD`, `go` and `goAge`.
* **`DCacheProofs!Refinement`**: `Spec => ImplementsMaintCapture`, for every
  geometry, set of requests and strobe length. The mapping is the identity but
  for `state`, where every state that serves an access is BUSY. `FsmStep`
  sorts the FSM's actions into those of `MaintCapture`; the port, the
  controller and the arrays stutter. With the first theorem it gives
  **`DCacheProofs!RequestsKept`**: the cache loses no request whatever it is
  doing when the request comes.
* **`DCacheProofs!Coherent`**: `Spec => []CoherenceInv`, for every number of
  tags, sets, words and values, any requests, and any DDR latency. None of the
  properties is inductive. The heart is `Values`: the last value stored to an
  address is on the port or latched (a store that has been acknowledged), else
  in the frame that holds the line, else in the victim registers, else in DDR.
  To keep it, the invariant needs where a line can be (`Frames`: in one way, a
  clean frame is as in DDR, the victim of a refill is the frame it will take, a
  victim put aside is in no frame), what the command is in each state
  (`Driving`), that the controller is in step with it (`Control`), that a load
  waits on the port and a store does not (`Protocol`), and what the walk has
  behind it (`Swept`). There is one lemma per part and, for `Values`, one per
  action that moves data. From it follow `LoadsReadLastStore`, `PipeReadsLast`,
  `ServedOnce`, `OneWay`, `VictimNotExposed`, `Undisturbed` and `WalkSweeps`,
  each but `Undisturbed` the theorem of a property that TLC checks, and `TypesHold`.
  `NothingAssumption` says only that the values that stand for "nothing" and
  "acknowledged" are not requests, answers or addresses.
* **`DCacheProofs!FlushDone`**: `Spec => []FlushReachesMemory`. `FlushInv` follows
  a line that is owed to DDR from the latched store to its dirty frame, from
  there to the victim registers, and to the command; the walk passes a dirty way
  only when DDR has taken its line. A line behind the walk cannot become owed in
  mid-walk, since the port is idle while CACHE_CTRL is stored to. So a walk ends
  with nothing owed, and MNT_BUSY is up until then.
* **`MemArbiterProofs`**: `Invariance`, `Typed`, `OwnCompletions`,
  `TenuresCover`, `NoneBlocked` and `DrivesInTenure`. The invariant says, for
  each master, which of `req`, `dv`, `done` and `grant` are up in which state
  of its FSM, and what its gap counter promises; for the controller, whose
  transaction it holds and how far; and for the reset, how long an orphan has
  been drained. `HandOver` is the heart: in a clock in which the grant changes
  no transaction is running and no DV is up on either side. The hypothesis
  `DrainSuffices` (a transaction is no longer than the drain, and the reset
  outlasts it, if there is a reset at all) is a hypothesis of the theorems and
  not an assumption on the constants, because the code's own constants do not
  satisfy it when a read is slow: that is what `MemArbiterDrain` shows. Without
  a reset it holds trivially, and the theorems need nothing.

  `OneTenureAtMost`, `Spec => []MissBehindOneTenure`, has the same hypothesis (of a
  reset that comes in a read longer than the drain it says nothing, and
  `MemArbiterDrain` shows that case) and needs a measure besides:
  `Left(grant)` is what the tenure can still complete, by its chunk counter, or
  the one transaction a reset has left behind. `WaitInv` says that what a parked
  miss has waited for and what is left are together at most the longest chunk: a
  completion moves one from the second to the first (`VgaLeftStep`,
  `BlitLeftStep`, `CoreLeftStep`), and a new tenure starts only with no miss
  parked, which is where the gate's `ast` test is used.

* **`Core2BusProofs`**: the proof follows a request round the subsystem.
  `PortInv` says that the bus works for the request on the port from the clock it
  takes it to the clock it answers, in the phase that fits its place; it needs no
  hypothesis, and with it `LogInv` and `WindowInv` are inductive.
  **`LogIsInOrder`** needs, besides the order, whose room it is: a byte is sent
  only after STATUS has said so, and between that answer and the push the FIFO
  cannot have filled. **`WindowIsReadBack`** needs that the row is looked up a
  clock before it is taken.

  **`MemoryIsRead`**, **`StoreIsDone`**, **`AdapterDrains`** and **`TypesHold`**
  have the hypothesis `PatientRestart`. It is a hypothesis and not an assumption:
  `Core2Restart` shows that without it the first three fail. With it `AdapterInv` is
  inductive, the heart of it: what each phase of the adapter leaves on its outputs,
  where the controller is meanwhile, and that a phase other than IDLE works for
  the latched request, or for one core 1 has stopped. `DataInv` then says of every
  copy on its way to core 2 (the RAM's output, the adapter's word, the text line
  and the line as looked up) that it is what the store holds, with the one
  exception that a text line core 2 is writing itself is stale until the write is
  done and not looked at until then.
* **`CorePortProofs`**: five parts. `OwnerInv` is the heart. It says that exactly
  one of MEM, WB, the posted store, the fill and the interrupt entry holds the
  port, or nobody (`Holder`), that the request on it is the holder's (`Carries`),
  and what keeps the others off it meanwhile. `CacheInv` and `DevInv` say where the
  cache's and the crossbar's answer can be: in `DevInv`, that behind an answered
  request the acknowledge chain runs empty without a gap, and that a request's
  own pulse comes only after a clock in which ready is down. From these follow
  **`PortIsOwned`**, **`AnswersAreTaken`**, **`CoreKeepsPort`** and **`PortTypes`**,
  for every program, any data and any timing of the cache and the devices.

  `StoreInv` says that memory, once the store on the port and the queued one are
  in it (`WithPort`, `WithQueue`), is what the stores that have left MEM make of it
  (`left`), up to the one MEM has issued and still holds. A store that leaves MEM
  in the clock it is squashed in is a store like any other here, as it is in the
  code. `LoadInv` follows what a load has got: from the hit pipe with the forwarded
  lanes of the stores in flight, from the port, or the first of two dwords. Hence
  **`StoresArePerformed`** and **`LoadsRead`**, again without a hypothesis.

  What the program asked for is `arch`, which leaves the squashed stores out.
  `MemoryIsProgram` is false (`CorePatch`); **`OnlySquashedStoresDiffer`** says of it
  `CtlSpec /\ [][~(sq_spec /\ Leaves)]_coreVars => []MemoryIsProgram`: in a
  behaviour without such a store the two histories are one.

  **`StrobeIsDriven`**: with `GoHold = 4`, what `MaintCapture` assumes of its
  strobe is what the port does. `StrobeInv` ties the strobe's age to the
  acknowledge chain: four is one clock for each register of the chain, and one in
  which the core sees the edge. Hence **`CaptureIsDriven`**, `CtlSpec => Safety`:
  the core with the capture implements the abstract specification whose strobe
  was an assumption; and with `MaintCaptureProofs`, **`RequestsAreKept`**: no
  request that a program makes is lost.
* **`BoardProofs`**: `NoStaleTextCorrect`, `PassIsFreshCorrect`, `VerdictCorrect` and
  `TypesCorrect`, for any number of letters, items, iterations and programs, any places
  in DDR, any evictions and any pace of the two cores; assumed are only
  `BoundsAssumption` (there is at least one of each) and `PlacesAssumption`. None of
  the properties says anything of the time before it is asked, so all of it is in
  `BoardInv`, whose parts speak of the place core 1 has reached in its program:
  `StoredInv` (what was stored so far is in a dirty line or in DDR), `FlushedInv`
  (after the wait for a walk no line stored before it is dirty), `WalkInv` (what the
  walk under way has behind it), `LoadInv` (core 1 reads the result only with no line of
  it in its cache) and `WindowInv` (what the window was given is in local RAM) for
  memory; `RunInv`, `OffInv` (in reset core 2's text cache is empty), `PlacedInv` (while
  RUN is up the whole image is where core 2 fetches, whether or not it is in the text
  cache), `ParkInv`, `WatchInv` (the clock against the iterations done), `SumInv` and
  `ResultInv` for core 2; `LogInv`, `HeadInv`, `UartInv` and `CheckInv` for what has been
  said: the bytes core 2 has sent are those popped and those in the log, the bytes core 1
  has printed those its place says.

  The first part of the module is about generated code: `ProgCode` is a concatenation of
  pieces of symbolic length, and the lemmas say which access is at which place of which
  program (`Holds` passes from a concatenation to its parts, `PartCut`), where the
  stores, walks, window words and starts are, and in what order they come. The second has
  one lemma for each part of the invariant, and under it one step for each action that
  touches it. The hard one is `PlacedInv` at the rising edge of RUN: that what core 2
  is going to fetch is the image stored last needs `StoredInv` and `FlushedInv` for the
  DDR copy, `WindowInv` for the one in local RAM, `StartInv` for which of the two, and
  `OffInv` for the text cache; and from then on that nothing the program stores until RUN
  is cleared lies in the image.
* **`ToolProofs!ExecutableIsSource`**: `VsimSpec => []ExeIsSource`, for every set
  of versions, any commands and any number of edits and kills. `ExeIsSource`
  speaks of the time after the builds; `SourceInv` says what holds before: a
  stamp that is not torn is true of its executable (`StampTrue`), what verilator
  has made has the core that was read (`CoreCompiled`), and of two builds the
  first stays what it was during the second (`BaseBuilt`). `TestTree` says that
  `test` builds one tree only.
* **`ToolProofs!SameIsTrue`**: `VsimSpec => []SameIsSame`. A verdict compares two
  files written at different times; `OverInv` says of each run that is over,
  while the other is still being made, what its files can hold: the end it reached
  is the executable's, the trace is that run's or a cut one of a simulator that
  died. `Cleared` is the removal of the old final state that `run` does and
  without which the first part would be false. It builds on `SourceInv`. Of a verdict
  that says "differs" nothing is proved: a crash or a cut trace makes a false one.
* **`HazProofs!ChaseComplete`**: `ProbeSpec => []ChaseVisitsAll`, for every profile
  whose chase is at least as long as the buffer, and whatever the random numbers
  are. Half of it is about the shuffle: `Cycles(b, n, ...)` says that the words form
  cycles with one of the words `0 .. n` in each, the identity has one for every word
  (`IdentityCycles`), and a swap of `n` with a smaller word joins two of them
  (`SwapJoins`); so one is left, and no longer than the buffer (`CycleShort`, by
  counting). After `d` steps the chase is `d` words behind word 0 (`Reached`). The
  other half is that nothing else runs between the shuffle and the chase, though
  the routines share one stack and one register file: main's return address stays
  at the bottom of the stack and what `fib` pushes lies below the return address of
  the call it is pushed for (`Framed`), so that a routine returns to where it was
  called from (`NestedControl`, `LeafControl`). Both take the code apart, of any
  number of counters (`CodeFits`, `MainCalls`).
* **`HazProofs!RowsMeasured`**: `ProbeSpec => []RowsMeasureKernels`, for every profile,
  any number of counters and of digits. The property speaks of the halt, so
  `RowInv` says of every place before it which kernel is being measured and how far
  the measurement has come: nine situations, from the clear in main (`MainAt`) over
  the kernel (`KernelAt`), the reads of the counters (`DumpAt`) and the digits
  (`HexAt`, `PutAt`) to the end of the line (`CrlfAt`). Each names what later ones
  rely on and no more: the counters (`Tally`), the number in D, the snapshot so far
  (`Saved`), the line so far (`Printed`), and the one or two return addresses. What it
  does not name a routine may destroy, and the lemma of each situation (`MemStep`,
  `HexStep`, ...) shows that what the next one relies on is not destroyed: a line holds
  one number in the high part of all its digits only because nothing on the way
  touches E. A loop has counted as many steps as its register says (`Loop`, `Pass`).
  For `fib`, what has been counted, what the call at work has still to add (`Left`)
  and what each return address on the stack owes (`Owed`) add up to `FibAdds[FIB]`;
  a call moves the debt of two smaller numbers from one to the other
  (`FibDeeper`, `FibShallower`). That `FibAdds` and the parser's loop over the
  lines are what their recursive definitions say is not taken from an induction theorem:
  `FibAddsIs` builds the function and shows by a least number at which two would differ
  that there is one (`Least`, `FibsAgree`); the loop is over seven lines and unfolded
  (`RowsParsed`). Code and row are taken apart instruction by instruction and
  field by field for any number of counters (`DumpCode`, `MainIs`, `RowIs`).
* **`ToolProofs!TitleSaysWhy`**: `SessionSpec => []DisconnectSaysWhy`, for every
  screen, capacity, number of updates and setup. The threads meet only in
  `running` and `error`, so `SaidInv` needs only those and the two places:
  nobody but the user stops without having said why (`StoppedSaid`), and the
  reader that is about to stop has said so already (`FailingSaid`).
* **`ToolProofs!OneRequestOut`**: `SessionSpec => []OneRequest`. `OneRequest` adds up
  where a request can be; `AskInv` says it is in one of these places at a time (on
  its way, with the server, or an update not yet completely read), and where the
  reader is in which of them.
* **`ToolProofs!FrameIsWhole`**: `SessionSpec => []FrameIsUpdate`, for every number of
  tiles, whatever tiles an update has and however it is coded. What the reader has
  drawn so far is no update at all, so the invariant is about what is still on its
  way (`Coming`, the messages in flight and those the server has not sent): read to
  the end, they make the server's screen (`Run`). Every tile of the screen is the
  server's already or is covered by a message to come; the messages to come are in
  the client's format; and a tile coded in a colour of before has that colour from a
  message still to come or from the reader's own register (`Held`). A read moves the
  run up and a tile from what is to come to what is drawn (`RunRead`); an update of
  the server makes one, by any coding (`UpdateMade`); behind it comes nothing of
  another (`Quiet`), because there is one request at a time: the two theorems share
  one invariant, `FrameInv`. `AgreeInv` carries the format: a request is behind
  the format in the same stream, so the server draws only in what the client reads.
  `SentInv` says what the n-th update stands for, and that the last is what the
  client's screen and palette are to become.
What the proofs assume of the constants is in the `ASSUME`s of each module, and
is what the code has: the places of core 2's map are distinct (`PlacesAssumption`);
the window's address register is given rows of RAM; an access takes at least one
byte, a two-dword read goes to DRAM and there is a dword after its first (`ProgramsAssumption`),
the next dword is another one; versions of the sources are numbered from 1, so
that "no executable" and "half an executable" are neither. The values for
"nothing" and "acknowledged" are not data.

Only model-checked: liveness. Every safety property that a run checks and finds
true is a theorem.

The proof of `MaintCaptureProofs` needs a strobe of two clocks. The comment at
the capture speaks of a one-clock pulse; with one, a request in the clock in
which WAIT takes up an earlier one would be lost, because the capture sees the
strobe one clock before the consume edge clears both. The SoC's four clocks hide
it. They also make one store two walks when the FSM is idle, which costs time
and no data.

## 5. Not modelled

The statistics counters; byte enables within a dword; the beats between the
controller and the MIG; the data paths of scanout, blitter and crypto; the
ISA itself, which the repository tests instruction by instruction; analogue
timing; vendor IP; LiteEth, which is generated. Power-up is modelled as the
state the `initial` blocks set.

Of the pipeline core, the fetch side (window, next-line buffers, I-cache and
branch prediction), decode, the ALU, parking and the debugger's accesses. Of
interrupts, the sources and the acknowledge. The UART, SD, Ethernet, crypto,
TRNG, debug module, console FSM and board outputs have no module of their own;
what of them the memory system sees is in the modules above.

Of the Python: the assembler, the random-program generator, the known-answer
and property generators and the table of tests are functions from text to text
without a state; the small conversion scripts likewise. Of the runner, `test
--rev` (a test on a revision alone), `build` alone (to the files, a command that
ends after its build) and two invocations at once, which the
fixed directories are not made for. Of the viewer, scaling and drawing, and cut
text. The data of hextile is a tile's content, not its subrectangles.

## 6. Plan

Written in the order of what matters most to the system.

1. Done: `MaintCapture`, `DCache`, `MemArbiter` and their proofs; every safety
   property of `DCache` and `MemArbiter` that holds is a theorem.
2. Done: `Core2Bus` and the proofs of its safety properties. Left: a proof that its
   adapter implements the core 2 side of `MemArbiter`.
3. Done: `BoardProgs`, `HazProbe`, `VncSession`, `Vsim`, and the proofs of all their
   safety properties.
4. Done: `CorePort` and `CacheControl`, against the cache's contract, and the proofs
   of their safety properties. Left: the fetch side's copies (window, next-line
   buffers, I-cache and their snoops), which would replace the free verdict.
5. `DdrControl`: the controller's beats against the `Ctl` actions.
6. `MemSystem`: cache, arbiter and a DMA master that reads and writes, under
   the documented flush and invalidate sequence.
7. `Peripherals`: interrupt sources with the timer acknowledge, the UART FIFO,
   acknowledges; then `EthBridge`, `Blitter`'s start strobe and
   `VgaScanout`'s line halves.
8. Proofs: the invariants of the new modules.
