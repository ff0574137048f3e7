----------------------------- MODULE BoardProgs -----------------------------
(***************************************************************************)
(* The programs the AMP board gates run (perf/amp_p1): the Python          *)
(* generators write, line by line, a core-1 program that places an image   *)
(* for core 2 in its local RAM (through the mailbox window) or in DDR      *)
(* (through core 1's write-back cache), starts core 2, forwards its log    *)
(* to the UART and prints a verdict.  The generators are operators that    *)
(* return core-1 code as a sequence of register accesses; core 1, core 2   *)
(* and what lies between them (cache, walks, window, log, text cache) are  *)
(* the machine the code runs on, one access or instruction a step.         *)
(*                                                                         *)
(* A dword remembers the image it belongs to and the program that stored   *)
(* it, so that one left over from before can be told from a fresh one.     *)
(***************************************************************************)
EXTENDS Integers, Sequences, FiniteSetsExt

CONSTANTS
  Letters,   \* bound: bytes hello_core2 sends
  Items,     \* bound: dwords ddr_sum adds up
  Iters,     \* bound: iterations of the timed loops
  Rounds,    \* bound: programs run after each other on one board
  DdrBase,   \* where core 2's image goes in DDR: core 2 sees local RAM below it
  DataBase,  \* where the dwords to add go, before the first
  Result     \* where their sum goes

ASSUME BoundsAssumption == {Letters, Items, Iters, Rounds} \subseteq Nat \ {0}

Dword(img, do, arg) == [img |-> img, do |-> do, arg |-> arg, by |-> 0]
Junk     == Dword("junk", "junk", 0)

-----------------------------------------------------------------------------
(* The images, from their first instruction on (the header is left out).   *)
(* "loop" is SETR's counter down by one and back to arg unless zero.       *)

Hello == [i \in 1 .. Letters |-> Dword("hello", "emit", i)]
           \o <<Dword("hello", "halt", 0)>>

DdrSum == <<Dword("sum", "set", Items), Dword("sum", "add", 0), Dword("sum", "loop", 2),
            Dword("sum", "store", 0), Dword("sum", "emit", 1), Dword("sum", "halt", 0)>>

Spin == <<Dword("spin", "add", 0), Dword("spin", "jump", 1)>>

Loop(img, target) ==
  <<Dword(img, "set", Iters), Dword(img, "loop", target), Dword(img, "halt", 0)>>

LoopLocal == Loop("local", 2)

\* Mutant of LoopDdr: the backward jump keeps the label's own offset.
LoopDdrUnfixed == Loop("ddr", 2)
LoopDdr        == Loop("ddr", DdrBase + 2)

Data  == [i \in 1 .. Items |-> Dword("data", "word", i)]
Total == (Items * (Items + 1)) \div 2

TextAddr == DdrBase + 1 .. DdrBase + Letters + 3
DataAddr == DataBase + 1 .. DataBase + Items
Addr     == TextAddr \cup DataAddr \cup {Result}
RamAddr  == 1 .. Letters + Len(DdrSum)

\* Local RAM holds every image, and the places in DDR are apart.
ASSUME PlacesAssumption ==
  /\ {DdrBase, DataBase, Result} \subseteq Nat /\ DdrBase > Letters + Len(DdrSum)
  /\ TextAddr \cap DataAddr = {} /\ Result \notin TextAddr \cup DataAddr

-----------------------------------------------------------------------------
(* What the generators emit.  An underscore is a space where it is printed. *)

Op(op, place, val) == [op |-> op, at |-> place, val |-> val]
Store(a, v)     == Op("store", a, v)
Reg(name, n)    == Op(name, n, Junk)
Put(words)      == Op("puts", 0, Dword(words, "text", 0))

StoreImage(start, image) == [i \in 1 .. Len(image) |-> Store(start + i, image[i])]

window_load(image) ==
  <<Reg("winAddr", 1)>> \o [i \in 1 .. Len(image) |-> Op("winData", 0, image[i])]

\* Mutant of start_core2: RUN is only ever set.
start_core2_no_edge(entry) == <<Reg("startPc", entry), Reg("run", 1)>>
start_core2(entry)         == <<Reg("startPc", entry), Reg("run", 0), Reg("run", 1)>>

\* Mutants of flush: MNT_BUSY is not polled; INVALIDATE asks for a FLUSH.
flush_no_wait(val) == <<Op("maint", 0, Dword(val, "text", 0))>>
flush_only(val)    == <<Op("maint", 0, Dword("FLUSH", "text", 0)), Reg("mntWait", 0)>>
flush(val)         == <<Op("maint", 0, Dword(val, "text", 0)), Reg("mntWait", 0)>>

Forward(count) ==
  [i \in 1 .. 3 * count |-> Reg(<<"logWait", "putc", "pop">>[((i - 1) % 3) + 1], 0)]

drain(count) == Forward(count) \o <<Reg("parkWait", 0), Reg("run", 0)>>

run_timed(entry, tag) ==
  <<Reg("clock", 0)>> \o start_core2(entry)
    \o <<Reg("parkWait", 0), Reg("run", 0), Reg("elapsed", 0),
         Put(tag), Reg("print_hex64", 0)>>

Verdict(pass, fail) == <<Put(pass), Reg("halt", 0), Put(fail), Reg("halt", 0)>>

\* gen_loader never clears RUN, before or after.
p1test ==
  window_load(Hello) \o <<Reg("startPc", 1), Reg("run", 1)>>
    \o Forward(Letters) \o <<Reg("parkWait", 0), Reg("checkCtrl", 0)>>
    \o Verdict("P1_PASS", "P1_FAIL")

p2test ==
  StoreImage(DdrBase, Hello) \o flush("FLUSH") \o start_core2(DdrBase + 1) \o drain(Letters)
    \o StoreImage(DataBase, Data) \o flush("FLUSH") \o window_load(DdrSum)
    \o start_core2(1) \o drain(1)
    \o flush("INVALIDATE") \o <<Reg("load", Result), Reg("checkSum", Total)>>
    \o Verdict("P2_PASS", "P2_FAIL")

p2btest ==
  window_load(LoopLocal) \o run_timed(1, "L=")
    \o StoreImage(DdrBase, LoopDdr) \o flush("FLUSH") \o run_timed(DdrBase + 1, "D=")
    \o <<Put("P2B_DONE"), Reg("halt", 0)>>

spinload ==
  window_load(Spin) \o start_core2(1) \o <<Put("core2_spinning"), Reg("halt", 0)>>

Programs == {"p1test", "p2test", "p2btest", "spinload"}
ProgCode == [p1test |-> p1test, p2test |-> p2test, p2btest |-> p2btest, spinload |-> spinload]

-----------------------------------------------------------------------------
(* The machine.                                                            *)

VARIABLES
  prog, pc, round,    \* core 1's program, its next access, how many so far
  d, watch,           \* core 1's D; loop iterations since its clock read
  uart,               \* what this program has printed, [what, number] pairs
  cache, ddr, walk,   \* core 1's cache, memory, walk: [kind, next address]
  run, startPc, winAddr, ram, log,          \* the mailbox
  parked, core2, text,                      \* core 2 and its text cache
  want                \* history: the image stored last when RUN was set

coreVars == <<prog, pc, round, d, uart>>
memVars  == <<cache, ddr, walk>>
boxVars  == <<run, startPc, winAddr, ram, log>>
twoVars  == <<parked, core2, text>>
vars == <<coreVars, watch, memVars, boxVars, twoVars, want>>

Stopped  == [pc |-> 0, count |-> 0, sum |-> 0]
Clean(v) == [held |-> "clean", val |-> v]
Dirty(v) == [held |-> "dirty", val |-> v]
Free     == [held |-> "no", val |-> Junk]
Idle     == [kind |-> "none", left |-> {}]
Now      == ProgCode[prog][pc]
Halted   == Now.op = "halt"

Init ==
  /\ prog = "spinload" /\ pc = Len(spinload) /\ round = 0
  /\ d = Junk /\ watch = 0 /\ uart = <<>>
  /\ ddr = [a \in Addr |-> Junk] /\ walk = Idle
  /\ \E line \in {Free, Clean(Junk), Dirty(Junk)} : cache = [a \in Addr |-> line]
  /\ run = FALSE /\ startPc = 1 /\ winAddr = 1 /\ log = <<>>
  /\ ram = [a \in RamAddr |-> Junk]
  /\ parked = "no" /\ core2 = Stopped
  /\ text = [a \in TextAddr |-> Free] /\ want = "none"

\* The monitor loads the next program when the last has halted.  One that
\* loads the window first needs RUN low: the window is not written under RUN.
LoadProgram ==
  /\ Halted /\ round < Rounds
  /\ \E p \in Programs :
       /\ run => p = "p2test"
       /\ prog' = p
  /\ pc' = 1 /\ round' = round + 1 /\ uart' = <<>>
  /\ UNCHANGED <<d, watch, memVars, boxVars, twoVars, want>>

Step == pc' = pc + 1 /\ UNCHANGED <<prog, round>>
JumpToEnd == pc' = Len(ProgCode[prog]) - 1 /\ UNCHANGED <<prog, round>>
Branch(ok) == IF ok THEN Step ELSE JumpToEnd
Mine(v)  == [v EXCEPT !.by = round]

\* Core 1 writes back before it drops a line.
WrittenBack(a) == IF cache[a].held = "dirty" THEN [ddr EXCEPT ![a] = cache[a].val] ELSE ddr

StoreDword ==
  /\ Now.op = "store" /\ cache' = [cache EXCEPT ![Now.at] = Dirty(Mine(Now.val))]
  /\ Step /\ UNCHANGED <<d, uart, watch, ddr, walk, boxVars, twoVars, want>>

LoadDword ==
  /\ Now.op = "load"
  /\ LET line == IF cache[Now.at].held = "no" THEN Clean(ddr[Now.at]) ELSE cache[Now.at]
     IN cache' = [cache EXCEPT ![Now.at] = line] /\ d' = line.val
  /\ Step /\ UNCHANGED <<uart, watch, ddr, walk, boxVars, twoVars, want>>

Maint ==
  /\ Now.op = "maint" /\ walk' = [kind |-> Now.val.img, left |-> Addr]
  /\ Step /\ UNCHANGED <<d, uart, watch, cache, ddr, boxVars, twoVars, want>>

MntWait ==
  /\ Now.op = "mntWait" /\ walk = Idle
  /\ Step /\ UNCHANGED <<d, uart, watch, memVars, boxVars, twoVars, want>>

WinAddr ==
  /\ Now.op = "winAddr" /\ winAddr' = Now.at
  /\ Step /\ UNCHANGED <<d, uart, watch, memVars, run, startPc, ram, log, twoVars, want>>

WinData ==
  /\ Now.op = "winData"
  /\ IF run THEN UNCHANGED <<ram, winAddr>>
     ELSE ram' = [ram EXCEPT ![winAddr] = Mine(Now.val)] /\ winAddr' = winAddr + 1
  /\ Step /\ UNCHANGED <<d, uart, watch, memVars, run, startPc, log, twoVars, want>>

StartPc ==
  /\ Now.op = "startPc" /\ startPc' = Now.at
  /\ Step /\ UNCHANGED <<d, uart, watch, memVars, run, winAddr, ram, log, twoVars, want>>

\* The image named by the last dword the program stored before here.
LastImage ==
  LET stores == {i \in 1 .. pc : ProgCode[prog][i].op \in {"store", "winData"}
                                  /\ ProgCode[prog][i].val.do # "word"}
  IN ProgCode[prog][Max(stores)].val.img

\* RUN low holds core 2 in reset and empties its text cache; a rising edge
\* starts it, two ticks later and so before core 1's next access.
SetRun ==
  /\ Now.op = "run" /\ run' = (Now.at = 1)
  /\ \/ run /\ run' /\ UNCHANGED <<twoVars, want>>
     \/ ~run /\ run' /\ core2' = [Stopped EXCEPT !.pc = startPc] /\ want' = LastImage
        /\ UNCHANGED <<parked, text>>
     \/ /\ ~run' /\ parked' = "no" /\ core2' = Stopped
        /\ text' = [a \in TextAddr |-> Free] /\ UNCHANGED want
  /\ Step /\ UNCHANGED <<d, uart, watch, memVars, startPc, winAddr, ram, log>>

LogWait ==
  /\ Now.op = "logWait" /\ log # <<>> /\ d' = Head(log)
  /\ Step /\ UNCHANGED <<uart, watch, memVars, boxVars, twoVars, want>>

Pop ==
  /\ Now.op = "pop" /\ log' = (IF log = <<>> THEN log ELSE Tail(log))
  /\ Step /\ UNCHANGED <<d, uart, watch, memVars, run, startPc, winAddr, ram, twoVars, want>>

Send(item) == uart' = Append(uart, item) /\ UNCHANGED <<d, memVars, boxVars, twoVars, want>>

PutC   == Now.op = "putc" /\ Send(<<d.img, d.arg>>) /\ Step /\ UNCHANGED watch
PutS   == Now.op = "puts" /\ Send(<<Now.val.img, 0>>) /\ Step /\ UNCHANGED watch
PutHex == Now.op = "print_hex64" /\ Send(<<"hex", d.arg>>) /\ Step /\ UNCHANGED watch

\* D is C2_CTRL as the poll that saw the park bit read it.
ParkWait ==
  /\ Now.op = "parkWait" /\ parked # "no" /\ d' = Dword("ctrl", parked, IF run THEN 1 ELSE 0)
  /\ Step /\ UNCHANGED <<uart, watch, memVars, boxVars, twoVars, want>>

CheckCtrl ==
  /\ Now.op = "checkCtrl" /\ Branch(d.do = "halt" /\ d.arg = 1)
  /\ UNCHANGED <<d, uart, watch, memVars, boxVars, twoVars, want>>

CheckSum ==
  /\ Now.op = "checkSum" /\ Branch(d.arg = Now.at)
  /\ UNCHANGED <<d, uart, watch, memVars, boxVars, twoVars, want>>

\* The clock is counted in iterations of core 2's loops.
Clock ==
  /\ Now.op = "clock" /\ watch' = 0
  /\ Step /\ UNCHANGED <<d, uart, memVars, boxVars, twoVars, want>>

Elapsed ==
  /\ Now.op = "elapsed" /\ d' = Dword("ms", "word", watch)
  /\ Step /\ UNCHANGED <<uart, watch, memVars, boxVars, twoVars, want>>

Core1 ==
  \/ StoreDword \/ LoadDword \/ Maint \/ MntWait
  \/ WinAddr \/ WinData \/ StartPc \/ SetRun \/ LogWait \/ Pop
  \/ PutC \/ PutS \/ PutHex \/ ParkWait \/ CheckCtrl \/ CheckSum \/ Clock \/ Elapsed

-----------------------------------------------------------------------------
(* The cache on its own: a line may be evicted at any time; a walk takes   *)
(* the lines in address order.  FLUSH keeps what it writes back.           *)

Evict ==
  /\ \E a \in Addr : cache[a].held # "no" /\ ddr' = WrittenBack(a)
                       /\ cache' = [cache EXCEPT ![a] = Free]
  /\ UNCHANGED <<coreVars, watch, walk, boxVars, twoVars, want>>

WalkLine ==
  /\ walk # Idle
  /\ IF walk.left = {} THEN walk' = Idle /\ UNCHANGED <<cache, ddr>>
     ELSE LET a == Min(walk.left) IN
          /\ walk' = [walk EXCEPT !.left = @ \ {a}] /\ ddr' = WrittenBack(a)
          /\ cache' = [cache EXCEPT ![a] =
                         IF walk.kind = "INVALIDATE" THEN Free
                         ELSE IF @.held = "dirty" THEN Clean(@.val) ELSE @]
  /\ UNCHANGED <<coreVars, watch, boxVars, twoVars, want>>

-----------------------------------------------------------------------------
(* Core 2: local RAM, or DDR through the text cache; data is not cached.   *)

Fetched == IF core2.pc < DdrBase THEN ram[core2.pc]
           ELSE IF text[core2.pc].held = "no" THEN ddr[core2.pc] ELSE text[core2.pc].val

Executing == run /\ parked = "no"

Fill == text' = IF core2.pc < DdrBase THEN text
                ELSE [text EXCEPT ![core2.pc] = Clean(Fetched)]

SetPc(n) == core2' = [core2 EXCEPT !.pc = n] /\ UNCHANGED <<parked, watch, ddr, log>>
NextPc == core2.pc + 1
Park(kind) == parked' = kind /\ UNCHANGED <<core2, watch, ddr, log>>

SetCounter == /\ Fetched.do = "set"
              /\ core2' = [core2 EXCEPT !.pc = NextPc, !.count = Fetched.arg]
              /\ UNCHANGED <<parked, watch, ddr, log>>

LoopBack == /\ Fetched.do = "loop"
            /\ core2' = [core2 EXCEPT !.pc = IF core2.count > 1 THEN Fetched.arg
                                             ELSE NextPc, !.count = @ - 1]
            /\ watch' = IF watch > 2 * Iters THEN watch ELSE watch + 1
            /\ UNCHANGED <<parked, ddr, log>>

\* Item count down from the last: the sum does not depend on the order.
Add == /\ Fetched.do = "add"
       /\ core2' = [core2 EXCEPT !.pc = NextPc,
                      !.sum = IF core2.count = 0 THEN 0
                              ELSE @ + ddr[DataBase + Items + 1 - core2.count].arg]
       /\ UNCHANGED <<parked, watch, ddr, log>>

StoreSum == /\ Fetched.do = "store"
            /\ ddr' = [ddr EXCEPT ![Result] = Mine(Dword("sum", "word", core2.sum))]
            /\ core2' = [core2 EXCEPT !.pc = NextPc] /\ UNCHANGED <<parked, watch, log>>

Emit == /\ Fetched.do = "emit" /\ log' = Append(log, Fetched)
        /\ core2' = [core2 EXCEPT !.pc = NextPc] /\ UNCHANGED <<parked, watch, ddr>>

JumpTo == Fetched.do = "jump" /\ SetPc(Fetched.arg)
HaltTwo == Fetched.do = "halt" /\ Park("halt")
Illegal == Fetched.do \in {"junk", "word"} /\ Park("fault")

Execute ==
  /\ Executing /\ Fill
  /\ SetCounter \/ LoopBack \/ Add \/ StoreSum \/ Emit \/ JumpTo \/ HaltTwo \/ Illegal
  /\ UNCHANGED <<coreVars, cache, walk, run, startPc, winAddr, ram, want>>

Next == LoadProgram \/ Core1 \/ Evict \/ WalkLine \/ Execute

\* Every clock moves each core and a walk that is not waiting.
Spec == Init /\ [][Next]_vars /\ WF_vars(Core1) /\ WF_vars(WalkLine) /\ WF_vars(Execute)

-----------------------------------------------------------------------------
Bytes(img, n) == [i \in 1 .. n |-> <<img, i>>]

Expected == [p \in Programs |->
  CASE p = "p1test"  -> Bytes("hello", Letters) \o <<<<"P1_PASS", 0>>>>
    [] p = "p2test"  -> Bytes("hello", Letters) \o <<<<"sum", 1>>, <<"P2_PASS", 0>>>>
    [] p = "p2btest" -> <<<<"L=", 0>>, <<"hex", Iters>>, <<"D=", 0>>, <<"hex", Iters>>,
                          <<"P2B_DONE", 0>>>>
    [] OTHER         -> <<<<"core2_spinning", 0>>>>]

\* A program that halts has printed what its gate looks for, byte for byte:
\* every flush, start and poll the generators emit is in its place, whatever
\* the cache evicts and however far core 2 has got.
VerdictTrue == (Halted /\ round > 0) => uart = Expected[prog]

\* "P2_PASS" speaks of this run: the sum compared was stored by core 2 after
\* this program's data, not left in core 1's cache by an earlier one.
PassIsFresh == (Now.op = "checkSum" /\ d.arg = Total) => d.by = round

\* Core 2 executes only dwords of the image stored last before its start:
\* no stale line of memory, of its text cache or of local RAM.
NoStaleText == Executing => Fetched.img = want

\* A program core 1 has begun runs to its end, the last one too.
ProgramEnds == []<>Halted
=============================================================================
