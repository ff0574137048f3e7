---------------------------- MODULE BoardProofs -----------------------------
(***************************************************************************)
(* What the board gates say is true, for every number of letters, items,   *)
(* iterations and programs, and any places in memory: the proofs of        *)
(* NoStaleText, PassIsFresh and VerdictTrue.                               *)
(*                                                                         *)
(* They share one invariant, BoardInv.  Its parts say where each dword the *)
(* program has stored is now (memory), what core 2 runs and how far it has *)
(* got (core 2), and what has been said of that (log, UART, verdict), each *)
(* by the place core 1 has reached in its program.                         *)
(***************************************************************************)
EXTENDS BoardProgs, SequenceTheorems, WellFoundedInduction, TLAPS

-----------------------------------------------------------------------------
(* The code by place.  Before which access:                                *)

OneFwd == Letters + 4          \* p1test forwards hello's bytes
OnePark == 4 * Letters + 4     \* p1test waits for the park
TwoFwd == Letters + 6          \* p2test forwards hello's bytes
TwoData == 4 * Letters + 8     \* p2test stores the items
TwoSum == TwoData + Items      \* p2test flushes them and loads ddr_sum

At(p, n) == ProgCode[p][n]
Place(p) == 1 .. Len(ProgCode[p])

\* The names in the programs and images.
Images   == {"hello", "sum", "local", "ddr", "spin"}
Messages == {"P1_PASS", "P1_FAIL", "P2_PASS", "P2_FAIL", "L=", "D=", "P2B_DONE", "core2_spinning"}
Walks    == {"FLUSH", "INVALIDATE"}
Names    == Images \cup Messages \cup Walks \cup {"junk", "data", "ctrl", "ms", "hex"}
Does     == {"junk", "word", "text", "set", "add", "loop", "store", "emit", "jump", "halt", "fault"}
OpNames  == {"store", "load", "puts", "winAddr", "winData", "startPc", "run", "maint", "mntWait",
             "logWait", "putc", "pop", "parkWait", "clock", "elapsed", "print_hex64", "halt",
             "checkCtrl", "checkSum"}

Dwords == [img : Names, do : Does, arg : Int, by : Nat]
Lines  == [held : {"no", "clean", "dirty"}, val : Dwords]
Is(v, w) == v.img = w.img /\ v.do = w.do /\ v.arg = w.arg

\* What the gates load for core 2.
Image == [hello |-> Hello, sum |-> DdrSum, local |-> LoopLocal, ddr |-> LoopDdr, spin |-> Spin]

-----------------------------------------------------------------------------
(* Types.                                                                  *)

CoreTypes ==
  /\ prog \in Programs /\ pc \in Place(prog) /\ round \in Nat
  /\ d \in Dwords /\ watch \in Nat /\ uart \in Seq(Names \X Int)

MemTypes ==
  /\ cache \in [Addr -> Lines] /\ ddr \in [Addr -> Dwords]
  /\ walk \in [kind : Walks \cup {"none"}, left : SUBSET Addr]

BoxTypes ==
  /\ run \in BOOLEAN /\ startPc \in Nat /\ winAddr \in Nat
  /\ ram \in [RamAddr -> Dwords] /\ log \in Seq(Dwords)

TwoTypes ==
  /\ parked \in {"no", "halt", "fault"} /\ text \in [TextAddr -> Lines]
  /\ core2 = [pc |-> core2.pc, count |-> core2.count, sum |-> core2.sum]
  /\ core2.pc \in Nat /\ core2.count \in Int

TypesOK == CoreTypes /\ MemTypes /\ BoxTypes /\ TwoTypes

-----------------------------------------------------------------------------
(* Core 1's way through its code.                                          *)

\* The address core 2 starts from is the last one written.
StartInv ==
  round > 0 => \A j \in 1 .. pc - 1 :
    At(prog, j).op = "startPc" /\ (\A k \in j + 1 .. pc - 1 : At(prog, k).op # "startPc")
      => startPc = At(prog, j).at

\* No program reaches its second verdict.
PcInv ==
  /\ prog = "p1test" => pc <= OnePark + 4
  /\ prog = "p2test" => pc <= TwoSum + 23

-----------------------------------------------------------------------------
(* Memory.  What core 1 stored at a is in a dirty line or in memory.       *)

View(a) == IF cache[a].held = "dirty" THEN cache[a].val ELSE ddr[a]

StoredInv ==
  \A j \in 1 .. pc - 1 : At(prog, j).op = "store" => Is(View(At(prog, j).at), At(prog, j).val)

\* What was stored before a walk is in memory after it.
FlushedInv ==
  \A k \in 1 .. pc - 1 : \A a \in Addr :
    /\ At(prog, k).op = "mntWait"
    /\ \A j \in k .. pc - 1 : At(prog, j).op = "store" => At(prog, j).at # a
    => cache[a].held # "dirty"

\* The walk under way is the one core 1 waits for, and has swept behind it.
WalkInv ==
  IF Now.op = "mntWait"
  THEN /\ walk # Idle => walk.kind = At(prog, pc - 1).val.img
       /\ \A a \in Addr \ walk.left :
            /\ cache[a].held # "dirty"
            /\ At(prog, pc - 1).val.img = "INVALIDATE" => cache[a].held = "no"
  ELSE walk = Idle

\* Core 1 reads from memory what core 2 has written there.
LoadInv == Now.op = "load" => cache[Now.at].held = "no"

\* The window is filled in order: dword n of the image at word n.
WinStart == IF prog = "p2test" THEN TwoSum + 3 ELSE 1
WindowInv ==
  /\ Now.op = "winData" => winAddr = pc - WinStart
  /\ round > 0 => \A j \in 1 .. pc - 1 :
       At(prog, j).op = "winData" => Is(ram[j - WinStart], At(prog, j).val)

-----------------------------------------------------------------------------
(* Core 2.                                                                 *)

Base == IF core2.pc < DdrBase THEN 0 ELSE DdrBase
Spot == core2.pc - Base           \* in the image

\* A program before this one may have left core 2 running, or parked.
Leftover == prog = "p2test" /\ pc <= TwoFwd - 1 /\ Base = 0 /\ want \in {"hello", "spin"}

\* The image core 2 runs, by the place core 1 has reached.
Started ==
  \/ prog = "p1test" /\ pc > OneFwd /\ want = "hello" /\ Base = 0
  \/ prog = "p2test" /\ pc \in TwoFwd + 1 .. TwoData /\ want = "hello" /\ Base = DdrBase
  \/ prog = "p2test" /\ pc \in TwoSum + 13 .. TwoSum + 17 /\ want = "sum" /\ Base = 0
  \/ prog = "p2btest" /\ pc \in {9, 10} /\ want = "local" /\ Base = 0
  \/ prog = "p2btest" /\ pc \in {23, 24} /\ want = "ddr" /\ Base = DdrBase
  \/ prog = "spinload" /\ pc \in {7, 8} /\ want = "spin" /\ Base = 0

\* Where core 2 is running.
RunPlace ==
  \/ prog = "p1test" /\ pc > OneFwd
  \/ prog = "p2test" /\ pc \in (TwoFwd + 1 .. TwoData) \cup (TwoSum + 13 .. TwoSum + 17)
  \/ prog = "p2btest" /\ pc \in {9, 10, 23, 24}
  \/ prog = "spinload" /\ pc \in {7, 8} /\ round > 0

RunInv ==
  /\ run => Started \/ Leftover
  /\ RunPlace => run
  /\ round = 0 => prog = "spinload" /\ pc = 8 /\ ~run

\* In reset core 2 and its text cache are as new.
OffInv == ~run => parked = "no" /\ core2 = Stopped /\ \A a \in TextAddr : text[a].held = "no"

\* The whole image is where core 2 fetches, and stays there.
PlacedInv ==
  run => /\ want \in DOMAIN Image /\ Spot \in 1 .. Len(Image[want])
         /\ \A i \in 1 .. Len(Image[want]) :
              IF Base = 0 THEN Is(ram[i], Image[want][i])
              ELSE /\ Is(ddr[DdrBase + i], Image[want][i]) /\ cache[DdrBase + i].held # "dirty"
                   /\ text[DdrBase + i].held # "no" => Is(text[DdrBase + i].val, Image[want][i])

\* Core 2 parks on HALT only, and core 1 has waited for it.
ParkPlace ==
  \/ prog = "p1test" /\ pc > OnePark + 1
  \/ Leftover /\ run /\ want = "hello"
  \/ prog = "p2test" /\ pc \in {TwoData, TwoSum + 17}
  \/ prog = "p2btest" /\ pc \in {10, 24}

ParkInv ==
  /\ parked # "no" => parked = "halt" /\ Image[want][Spot].do = "halt"
  /\ ParkPlace => parked = "halt"

\* The loops have run as often as the clock says.
WatchInv ==
  /\ prog = "p2btest" /\ pc \in (6 .. 8) \cup (20 .. 22) => watch = 0
  /\ run /\ want \in {"local", "ddr"} =>
       CASE Spot = 1 -> watch = 0
         [] Spot = 2 -> core2.count \in 1 .. Iters /\ watch = Iters - core2.count
         [] OTHER    -> watch = Iters
  /\ prog = "p2btest" /\ pc \in {11, 25} => watch = Iters
  /\ prog = "p2btest" /\ pc \in {12, 13, 26, 27} => d.arg = Iters

\* The sum of the first k items is k * (k + 1) / 2.
SumInv ==
  run /\ want = "sum" =>
    LET k == Items - core2.count IN
    CASE Spot = 1 -> core2.count = 0 /\ core2.sum = 0
      [] Spot = 2 -> core2.count \in 1 .. Items /\ core2.sum \in Int /\ 2 * core2.sum = k * (k + 1)
      [] Spot = 3 -> core2.count \in 1 .. Items /\ core2.sum \in Int
                       /\ 2 * core2.sum = (k + 1) * (k + 2)
      [] Spot = 4 -> core2.sum = Total
      [] OTHER    -> ddr[Result].arg = Total /\ ddr[Result].by = round

ResultInv ==
  prog = "p2test" =>
    /\ pc \in TwoSum + 18 .. TwoSum + 20 => ddr[Result].arg = Total /\ ddr[Result].by = round
    /\ pc = TwoSum + 21 => d.arg = Total /\ d.by = round

-----------------------------------------------------------------------------
(* What is said.                                                           *)

\* The bytes core 2 has sent since its start, and those core 1 has popped.
Emitted == CASE want = "hello"           -> Spot - 1
             [] want = "sum" /\ Spot > 5 -> 1
             [] OTHER                    -> 0

PoppedAt(p, n, image) ==
  CASE p = "p1test" -> IF n <= OnePark + 1 THEN (n - OneFwd - 1) \div 3 ELSE Letters
    [] p = "p2test" -> IF n < TwoFwd THEN IF image = "hello" THEN Letters ELSE 0
                       ELSE IF n < TwoData THEN (n - TwoFwd - 1) \div 3
                       ELSE IF n = TwoData THEN Letters
                       ELSE IF n > TwoSum + 15 THEN 1 ELSE 0
    [] OTHER        -> 0

Popped == PoppedAt(prog, pc, want)

LogInv ==
  IF run
  THEN /\ Len(log) = Emitted - Popped
       /\ \A k \in 1 .. Len(log) : log[k].img = want /\ log[k].arg = Popped + k
  ELSE log = <<>>

\* The byte core 1 has seen stays at the head until it pops it.
HeadInv ==
  /\ Now.op \in {"putc", "pop"} => log # <<>>
  /\ Now.op = "putc" => d.img = want /\ d.arg = Popped + 1

\* How much a program has printed when it is at n.
Sends(p, n) ==
  CASE p = "p1test"  -> IF n <= OneFwd THEN 0 ELSE IF n <= OnePark + 1 THEN (n - OneFwd) \div 3
                        ELSE IF n <= OnePark + 3 THEN Letters ELSE Letters + 1
    [] p = "p2test"  -> IF n <= TwoFwd THEN 0 ELSE IF n < TwoData THEN (n - TwoFwd) \div 3
                        ELSE IF n <= TwoSum + 14 THEN Letters
                        ELSE IF n <= TwoSum + 22 THEN Letters + 1 ELSE Letters + 2
    [] p = "p2btest" -> IF n <= 12 THEN 0 ELSE IF n = 13 THEN 1 ELSE IF n <= 26 THEN 2
                        ELSE n - 24
    [] OTHER         -> IF n = 8 THEN 1 ELSE 0

UartInv ==
  round > 0 => /\ Len(uart) = Sends(prog, pc)
               /\ \A i \in 1 .. Len(uart) : uart[i] = Expected[prog][i]

\* The checks succeed.
CheckInv ==
  /\ Now.op = "checkCtrl" => d.do = "halt" /\ d.arg = 1
  /\ Now.op = "checkSum" => d.arg = Now.at

MemInv  == StoredInv /\ FlushedInv /\ WalkInv /\ LoadInv /\ WindowInv
TwoInv  == RunInv /\ OffInv /\ PlacedInv /\ ParkInv /\ WatchInv /\ SumInv /\ ResultInv
SaidInv == LogInv /\ HeadInv /\ UartInv /\ CheckInv
BoardInv == TypesOK /\ StartInv /\ PcInv /\ MemInv /\ TwoInv /\ SaidInv
-----------------------------------------------------------------------------
(* What is where in the code.                                              *)

Ops == [op : OpNames, at : Int, val : Dwords]

\* The piece s lies in c behind place o.
Holds(c, o, s) == \A k \in 1 .. Len(s) : c[o + k] = s[k]

LEMMA PartCut ==
  ASSUME NEW s \in Seq(Ops), NEW t \in Seq(Ops), NEW c, NEW o \in Nat, Holds(c, o, s \o t)
  PROVE  Holds(c, o, s) /\ Holds(c, o + Len(s), t)
<1>1. /\ Len(s) \in Nat /\ Len(t) \in Nat /\ Len(s \o t) = Len(s) + Len(t)
      /\ \A k \in 1 .. Len(s) + Len(t) :
           (s \o t)[k] = IF k <= Len(s) THEN s[k] ELSE t[k - Len(s)]
  BY ConcatProperties, LenProperties
<1>2. ASSUME NEW k \in 1 .. Len(s) PROVE c[o + k] = s[k]
  <2>1. k \in 1 .. Len(s) + Len(t) /\ k <= Len(s)
    BY <1>1
  <2> QED BY <1>1, <2>1 DEF Holds
<1>3. ASSUME NEW k \in 1 .. Len(t) PROVE c[o + Len(s) + k] = t[k]
  <2>1. Len(s) + k \in 1 .. Len(s) + Len(t) /\ ~(Len(s) + k <= Len(s)) /\ Len(s) + k - Len(s) = k
        /\ o + (Len(s) + k) = o + Len(s) + k
    BY <1>1
  <2>2. c[o + (Len(s) + k)] = (s \o t)[Len(s) + k]
    BY <1>1, <2>1 DEF Holds
  <2> QED BY <1>1, <2>1, <2>2
<1> QED BY <1>2, <1>3 DEF Holds

LEMMA PartJoin ==
  ASSUME NEW s \in Seq(Ops), NEW t \in Seq(Ops), NEW u, u = s \o t
  PROVE  /\ u \in Seq(Ops) /\ Len(u) = Len(s) + Len(t)
         /\ \A k \in 1 .. Len(s) : u[k] = s[k]
         /\ \A k \in 1 .. Len(t) : u[Len(s) + k] = t[k]
<1>1. s \o t \in Seq(Ops) /\ Len(s \o t) = Len(s) + Len(t) /\ Len(s) \in Nat /\ Len(t) \in Nat
  BY ConcatProperties, LenProperties
<1>2. Holds(u, 0, s \o t)
  BY <1>1 DEF Holds
<1>3. Holds(u, 0, s) /\ Holds(u, 0 + Len(s), t)
  BY <1>2, PartCut
<1> QED BY <1>1, <1>3 DEF Holds

\* The numbers are numbers.
LEMMA Sizes ==
  /\ Letters \in Nat \ {0} /\ Items \in Nat \ {0} /\ Iters \in Nat \ {0} /\ Rounds \in Nat \ {0}
  /\ DdrBase \in Nat /\ DataBase \in Nat /\ Result \in Nat /\ DdrBase > Letters + 6
BY BoundsAssumption, PlacesAssumption DEF DdrSum

LEMMA InNames ==
  /\ "hello" \in Names /\ "sum" \in Names /\ "local" \in Names /\ "ddr" \in Names
  /\ "spin" \in Names /\ "junk" \in Names /\ "data" \in Names /\ "ctrl" \in Names
  /\ "ms" \in Names /\ "hex" \in Names
  /\ \A m \in Messages \cup Walks : m \in Names
BY DEF Names, Images

LEMMA InDoes ==
  /\ "junk" \in Does /\ "word" \in Does /\ "text" \in Does /\ "set" \in Does /\ "add" \in Does
  /\ "loop" \in Does /\ "store" \in Does /\ "emit" \in Does /\ "jump" \in Does
  /\ "halt" \in Does /\ "fault" \in Does
BY DEF Does

LEMMA ADword ==
  \A i \in Names : \A o \in Does : \A n \in Int :
    /\ Dword(i, o, n) \in Dwords
    /\ Dword(i, o, n).img = i /\ Dword(i, o, n).do = o /\ Dword(i, o, n).arg = n
BY DEF Dword, Dwords

\* The images, dword by dword.
LEMMA HelloIs ==
  /\ Hello \in Seq(Dwords) /\ Len(Hello) = Letters + 1
  /\ \A i \in 1 .. Letters : Hello[i] = Dword("hello", "emit", i)
  /\ Hello[Letters + 1] = Dword("hello", "halt", 0)
<1> DEFINE bytes == [i \in 1 .. Letters |-> Dword("hello", "emit", i)]
           end   == <<Dword("hello", "halt", 0)>>
<1>1. \A i \in 1 .. Letters : Dword("hello", "emit", i) \in Dwords
  BY ADword, InNames, InDoes
<1>2. bytes \in Seq(Dwords) /\ Len(bytes) = Letters
  BY <1>1, Sizes
<1>3. end \in Seq(Dwords) /\ Len(end) = 1 /\ end[1] = Dword("hello", "halt", 0)
  BY ADword, InNames, InDoes
<1>4. Hello = bytes \o end
  BY DEF Hello
<1>5. \A i \in 1 .. Letters : bytes[i] = Dword("hello", "emit", i)
  OBVIOUS
<1> HIDE DEF bytes, end
<1>6. /\ bytes \o end \in Seq(Dwords) /\ Len(bytes \o end) = Len(bytes) + Len(end)
      /\ \A k \in 1 .. Len(bytes) + Len(end) :
           (bytes \o end)[k] = IF k <= Len(bytes) THEN bytes[k] ELSE end[k - Len(bytes)]
  BY <1>2, <1>3, ConcatProperties
<1>7. Letters + 1 \in 1 .. Letters + 1 /\ ~(Letters + 1 <= Letters) /\ Letters + 1 - Letters = 1
      /\ \A i \in 1 .. Letters : i \in 1 .. Letters + 1 /\ i <= Letters
  BY Sizes
<1> QED BY <1>2, <1>3, <1>4, <1>5, <1>6, <1>7

LEMMA SumIs ==
  /\ DdrSum \in Seq(Dwords) /\ Len(DdrSum) = 6
  /\ DdrSum[1] = Dword("sum", "set", Items) /\ DdrSum[2] = Dword("sum", "add", 0)
  /\ DdrSum[3] = Dword("sum", "loop", 2) /\ DdrSum[4] = Dword("sum", "store", 0)
  /\ DdrSum[5] = Dword("sum", "emit", 1) /\ DdrSum[6] = Dword("sum", "halt", 0)
BY Sizes, ADword, InNames, InDoes DEF DdrSum

LEMMA LoopIs ==
  /\ LoopLocal \in Seq(Dwords) /\ Len(LoopLocal) = 3
  /\ LoopLocal[1] = Dword("local", "set", Iters) /\ LoopLocal[2] = Dword("local", "loop", 2)
  /\ LoopLocal[3] = Dword("local", "halt", 0)
  /\ LoopDdr \in Seq(Dwords) /\ Len(LoopDdr) = 3
  /\ LoopDdr[1] = Dword("ddr", "set", Iters) /\ LoopDdr[2] = Dword("ddr", "loop", DdrBase + 2)
  /\ LoopDdr[3] = Dword("ddr", "halt", 0)
BY Sizes, ADword, InNames, InDoes DEF LoopLocal, LoopDdr, Loop

LEMMA SpinIs ==
  /\ Spin \in Seq(Dwords) /\ Len(Spin) = 2
  /\ Spin[1] = Dword("spin", "add", 0) /\ Spin[2] = Dword("spin", "jump", 1)
BY ADword, InNames, InDoes DEF Spin

LEMMA DataIs ==
  /\ Data \in Seq(Dwords) /\ Len(Data) = Items
  /\ \A i \in 1 .. Items : Data[i] = Dword("data", "word", i)
<1>1. \A i \in 1 .. Items : Dword("data", "word", i) \in Dwords
  BY ADword, InNames, InDoes
<1> QED BY <1>1, Sizes DEF Data

\* The pieces the generators put together.
LEMMA AnOp ==
  /\ Junk \in Dwords
  /\ \A o \in OpNames : \A n \in Int : Reg(o, n) \in Ops
  /\ \A w \in Names : Put(w) \in Ops
  /\ \A o \in OpNames : \A n \in Int : \A v \in Dwords : Op(o, n, v) \in Ops
<1>1. Junk \in Dwords
  BY ADword, InNames, InDoes DEF Junk
<1>2. \A o \in OpNames : \A n \in Int : \A v \in Dwords : Op(o, n, v) \in Ops
  BY DEF Op, Ops
<1>4. "puts" \in OpNames /\ 0 \in Int
  BY DEF OpNames
<1>3. \A w \in Names : Dword(w, "text", 0) \in Dwords
  BY ADword, InDoes
<1> QED BY <1>1, <1>2, <1>3, <1>4 DEF Reg, Put

LEMMA PieceStore ==
  ASSUME NEW a \in Int, NEW image \in Seq(Dwords)
  PROVE  StoreImage(a, image) \in Seq(Ops) /\ Len(StoreImage(a, image)) = Len(image)
         /\ \A i \in 1 .. Len(image) : StoreImage(a, image)[i] = Store(a + i, image[i])
<1>1. Len(image) \in Nat /\ \A i \in 1 .. Len(image) : image[i] \in Dwords /\ a + i \in Int
  BY ElementOfSeq, LenProperties
<1>2. \A i \in 1 .. Len(image) : Store(a + i, image[i]) \in Ops
  BY <1>1, AnOp DEF Store, OpNames
<1> QED BY <1>1, <1>2 DEF StoreImage

LEMMA PieceWindow ==
  ASSUME NEW image \in Seq(Dwords)
  PROVE  window_load(image) \in Seq(Ops) /\ Len(window_load(image)) = Len(image) + 1
         /\ window_load(image)[1] = Reg("winAddr", 1)
         /\ \A i \in 1 .. Len(image) : window_load(image)[i + 1] = Op("winData", 0, image[i])
<1> DEFINE head  == <<Reg("winAddr", 1)>>
           words == [i \in 1 .. Len(image) |-> Op("winData", 0, image[i])]
<1>1. Len(image) \in Nat /\ \A i \in 1 .. Len(image) : Op("winData", 0, image[i]) \in Ops
  <2>1. Len(image) \in Nat /\ \A i \in 1 .. Len(image) : image[i] \in Dwords
    BY ElementOfSeq, LenProperties
  <2> QED BY <2>1, AnOp DEF OpNames
<1>2. words \in Seq(Ops) /\ Len(words) = Len(image)
  BY <1>1
<1>3. head \in Seq(Ops) /\ Len(head) = 1 /\ head[1] = Reg("winAddr", 1)
  BY AnOp DEF OpNames
<1>4. window_load(image) = head \o words
  BY DEF window_load
<1>5. \A i \in 1 .. Len(image) : words[i] = Op("winData", 0, image[i])
  OBVIOUS
<1> HIDE DEF head, words
<1> DEFINE both == window_load(image)
<1> HIDE DEF both
<1>8. head \in Seq(Ops) /\ words \in Seq(Ops) /\ both = head \o words
  BY <1>2, <1>3, <1>4 DEF both
<1>6. /\ both \in Seq(Ops) /\ Len(both) = Len(head) + Len(words)
      /\ \A k \in 1 .. Len(head) : both[k] = head[k]
      /\ \A k \in 1 .. Len(words) : both[Len(head) + k] = words[k]
  BY <1>8, PartJoin
<1>7. /\ both \in Seq(Ops) /\ Len(both) = Len(image) + 1 /\ both[1] = Reg("winAddr", 1)
      /\ \A k \in 1 .. Len(image) : both[k + 1] = words[k]
  BY <1>1, <1>2, <1>3, <1>6
<1> QED BY <1>5, <1>7 DEF both

LEMMA PieceStart ==
  ASSUME NEW entry \in Int
  PROVE  start_core2(entry) \in Seq(Ops) /\ Len(start_core2(entry)) = 3
         /\ start_core2(entry)[1] = Reg("startPc", entry)
         /\ start_core2(entry)[2] = Reg("run", 0) /\ start_core2(entry)[3] = Reg("run", 1)
BY AnOp DEF start_core2, OpNames

LEMMA PieceFlush ==
  ASSUME NEW val \in Walks
  PROVE  flush(val) \in Seq(Ops) /\ Len(flush(val)) = 2
         /\ flush(val)[1] = Op("maint", 0, Dword(val, "text", 0)) /\ flush(val)[2] = Reg("mntWait", 0)
BY AnOp, ADword, InNames, InDoes DEF flush, OpNames

\* The three accesses that forward a byte.
FwdOp(k) == CASE k % 3 = 0 -> "logWait" [] k % 3 = 1 -> "putc" [] OTHER -> "pop"

LEMMA PieceForward ==
  ASSUME NEW n \in Nat
  PROVE  Forward(n) \in Seq(Ops) /\ Len(Forward(n)) = 3 * n
         /\ \A k \in 1 .. 3 * n : Forward(n)[k] = Reg(FwdOp(k - 1), 0)
<1> DEFINE name(k) == <<"logWait", "putc", "pop">>[((k - 1) % 3) + 1]
<1>1. \A k \in 1 .. 3 * n : name(k) = FwdOp(k - 1) /\ name(k) \in OpNames
  <2> SUFFICES ASSUME NEW k \in 1 .. 3 * n PROVE name(k) = FwdOp(k - 1) /\ name(k) \in OpNames
    OBVIOUS
  <2> DEFINE m == (k - 1) % 3
  <2>1. m \in {0, 1, 2}
    OBVIOUS
  <2>2. m + 1 \in {1, 2, 3} /\ (m = 0 => m + 1 = 1) /\ (m = 1 => m + 1 = 2) /\ (m = 2 => m + 1 = 3)
    BY <2>1
  <2>3. name(k) = <<"logWait", "putc", "pop">>[m + 1]
    OBVIOUS
  <2>4. FwdOp(k - 1) = IF m = 0 THEN "logWait" ELSE IF m = 1 THEN "putc" ELSE "pop"
    BY <2>1 DEF FwdOp
  <2> HIDE DEF m, name
  <2> QED BY <2>1, <2>2, <2>3, <2>4 DEF OpNames
<1>2. \A k \in 1 .. 3 * n : Reg(name(k), 0) \in Ops
  BY <1>1, AnOp
<1>3. Forward(n) = [k \in 1 .. 3 * n |-> Reg(name(k), 0)]
  BY DEF Forward
<1> HIDE DEF name
<1>4. 3 * n \in Nat
  OBVIOUS
<1> QED BY <1>1, <1>2, <1>3, <1>4

LEMMA PieceDrain ==
  ASSUME NEW n \in Nat
  PROVE  /\ drain(n) \in Seq(Ops) /\ Len(drain(n)) = 3 * n + 2
         /\ \A k \in 1 .. 3 * n : drain(n)[k] = Reg(FwdOp(k - 1), 0)
         /\ drain(n)[3 * n + 1] = Reg("parkWait", 0) /\ drain(n)[3 * n + 2] = Reg("run", 0)
<1> DEFINE end == <<Reg("parkWait", 0), Reg("run", 0)>>
<1>1. /\ end \in Seq(Ops) /\ Len(end) = 2
      /\ end[1] = Reg("parkWait", 0) /\ end[2] = Reg("run", 0)
  BY AnOp DEF OpNames
<1>2. drain(n) = Forward(n) \o end
  BY DEF drain
<1> HIDE DEF end
<1>3. Forward(n) \in Seq(Ops) /\ Len(Forward(n)) = 3 * n
      /\ \A k \in 1 .. 3 * n : Forward(n)[k] = Reg(FwdOp(k - 1), 0)
  BY PieceForward
<1> DEFINE f == Forward(n)
           both == drain(n)
<1>4. f \in Seq(Ops) /\ both = f \o end
  BY <1>2, <1>3
<1> HIDE DEF f, both
<1>5. /\ both \in Seq(Ops) /\ Len(both) = Len(f) + Len(end)
      /\ \A k \in 1 .. Len(f) : both[k] = f[k]
      /\ \A k \in 1 .. Len(end) : both[Len(f) + k] = end[k]
  <2>1. end \in Seq(Ops) /\ f \in Seq(Ops) /\ both = f \o end
    BY <1>1, <1>4
  <2> QED BY SMT, <2>1, PartJoin
<1>6. Len(f) = 3 * n /\ \A k \in 1 .. 3 * n : f[k] = Reg(FwdOp(k - 1), 0)
  BY <1>3 DEF f
<1>7. /\ both \in Seq(Ops) /\ Len(both) = 3 * n + 2
      /\ \A k \in 1 .. 3 * n : both[k] = Reg(FwdOp(k - 1), 0)
      /\ both[3 * n + 1] = end[1] /\ both[3 * n + 2] = end[2]
  BY <1>1, <1>5, <1>6
<1> QED BY <1>1, <1>7 DEF both

LEMMA PieceVerdict ==
  ASSUME NEW pass \in Messages, NEW fail \in Messages
  PROVE  Verdict(pass, fail) \in Seq(Ops) /\ Len(Verdict(pass, fail)) = 4
         /\ Verdict(pass, fail)[1] = Put(pass) /\ Verdict(pass, fail)[2] = Reg("halt", 0)
         /\ Verdict(pass, fail)[3] = Put(fail) /\ Verdict(pass, fail)[4] = Reg("halt", 0)
BY AnOp DEF Verdict, OpNames, Names

LEMMA InOps ==
  /\ "store" \in OpNames /\ "load" \in OpNames /\ "puts" \in OpNames /\ "winAddr" \in OpNames
  /\ "winData" \in OpNames /\ "startPc" \in OpNames /\ "run" \in OpNames /\ "maint" \in OpNames
  /\ "mntWait" \in OpNames /\ "logWait" \in OpNames /\ "putc" \in OpNames /\ "pop" \in OpNames
  /\ "parkWait" \in OpNames /\ "clock" \in OpNames /\ "elapsed" \in OpNames
  /\ "print_hex64" \in OpNames /\ "halt" \in OpNames /\ "checkCtrl" \in OpNames
  /\ "checkSum" \in OpNames
BY DEF OpNames

LEMMA RegOp ==
  /\ \A o \in OpNames : \A n \in Int : Reg(o, n) \in Ops
  /\ \A w \in Names : Put(w) \in Ops
BY AnOp

LEMMA InMore ==
  /\ 0 \in Int /\ 1 \in Int /\ Result \in Int
  /\ "FLUSH" \in Walks /\ "INVALIDATE" \in Walks
  /\ "P1_PASS" \in Messages /\ "P1_FAIL" \in Messages /\ "P2_PASS" \in Messages
  /\ "P2_FAIL" \in Messages /\ "L=" \in Messages /\ "D=" \in Messages /\ "P2B_DONE" \in Messages
  /\ "core2_spinning" \in Messages
  /\ "P2B_DONE" \in Names /\ "core2_spinning" \in Names /\ \A m \in Messages : m \in Names
  /\ Total \in Int
BY Sizes DEF Walks, Messages, Names, Total

LEMMA PairOps ==
  ASSUME NEW x \in Ops, NEW y \in Ops
  PROVE  <<x, y>> \in Seq(Ops) /\ Len(<<x, y>>) = 2 /\ <<x, y>>[1] = x /\ <<x, y>>[2] = y
OBVIOUS

LEMMA PieceTimed ==
  ASSUME NEW entry \in Int, NEW tag \in Messages
  PROVE  LET t == run_timed(entry, tag) IN
         /\ t \in Seq(Ops) /\ Len(t) = 9
         /\ t[1] = Reg("clock", 0) /\ t[2] = Reg("startPc", entry)
         /\ t[3] = Reg("run", 0) /\ t[4] = Reg("run", 1) /\ t[5] = Reg("parkWait", 0)
         /\ t[6] = Reg("run", 0) /\ t[7] = Reg("elapsed", 0) /\ t[8] = Put(tag)
         /\ t[9] = Reg("print_hex64", 0)
<1> DEFINE clk  == <<Reg("clock", 0)>>
           two  == clk \o start_core2(entry)
           rest == <<Reg("parkWait", 0), Reg("run", 0), Reg("elapsed", 0), Put(tag),
                     Reg("print_hex64", 0)>>
<1>1. Reg("clock", 0) \in Ops /\ Reg("parkWait", 0) \in Ops /\ Reg("run", 0) \in Ops
      /\ Reg("elapsed", 0) \in Ops /\ Put(tag) \in Ops /\ Reg("print_hex64", 0) \in Ops
  BY Zenon, RegOp, InOps, InMore
<1>2. clk \in Seq(Ops) /\ Len(clk) = 1 /\ clk[1] = Reg("clock", 0)
  BY <1>1
<1>3. /\ rest \in Seq(Ops) /\ Len(rest) = 5 /\ rest[1] = Reg("parkWait", 0)
      /\ rest[2] = Reg("run", 0) /\ rest[3] = Reg("elapsed", 0) /\ rest[4] = Put(tag)
      /\ rest[5] = Reg("print_hex64", 0)
  BY <1>1
<1>4. run_timed(entry, tag) = two \o rest
  BY DEF run_timed
<1> DEFINE start == start_core2(entry)
<1>5. /\ start \in Seq(Ops) /\ Len(start) = 3 /\ start[1] = Reg("startPc", entry)
      /\ start[2] = Reg("run", 0) /\ start[3] = Reg("run", 1)
  BY PieceStart
<1>6. two = clk \o start
  OBVIOUS
<1> DEFINE t == run_timed(entry, tag)
<1>7. t = two \o rest
  BY <1>4
<1> HIDE DEF clk, rest, two, start, t
<1>8. /\ two \in Seq(Ops) /\ Len(two) = Len(clk) + Len(start)
      /\ \A k \in 1 .. Len(clk) : two[k] = clk[k]
      /\ \A k \in 1 .. Len(start) : two[Len(clk) + k] = start[k]
  <2>1. clk \in Seq(Ops) /\ start \in Seq(Ops) /\ two = clk \o start
    BY <1>2, <1>5, <1>6
  <2> QED BY SMT, <2>1, PartJoin
<1>9. /\ two \in Seq(Ops) /\ Len(two) = 4 /\ two[1] = clk[1]
      /\ two[2] = start[1] /\ two[3] = start[2] /\ two[4] = start[3]
  <2>1. \A k \in 1 .. 3 : two[1 + k] = start[k]
    BY <1>2, <1>5, <1>8
  <2> QED BY <1>2, <1>5, <1>8, <2>1
<1>10. /\ t \in Seq(Ops) /\ Len(t) = Len(two) + Len(rest)
       /\ \A k \in 1 .. Len(two) : t[k] = two[k]
       /\ \A k \in 1 .. Len(rest) : t[Len(two) + k] = rest[k]
  <2>1. two \in Seq(Ops) /\ rest \in Seq(Ops) /\ t = two \o rest
    BY <1>3, <1>7, <1>9
  <2> QED BY SMT, <2>1, PartJoin
<1>11. /\ t \in Seq(Ops) /\ Len(t) = 9 /\ \A k \in 1 .. 4 : t[k] = two[k]
       /\ \A k \in 1 .. 5 : t[4 + k] = rest[k]
  BY <1>3, <1>9, <1>10
<1>12. /\ t[1] = two[1] /\ t[2] = two[2] /\ t[3] = two[3] /\ t[4] = two[4]
       /\ t[5] = rest[1] /\ t[6] = rest[2] /\ t[7] = rest[3] /\ t[8] = rest[4] /\ t[9] = rest[5]
  <2>1. \A k \in 1 .. 5 : t[4 + k] = rest[k]
    BY <1>11
  <2> QED BY <1>11, <2>1
<1>13. t \in Seq(Ops) /\ Len(t) = 9
  BY <1>11
<1> QED BY <1>2, <1>3, <1>5, <1>9, <1>12, <1>13 DEF t

LEMMA ImageLens ==
  /\ Hello \in Seq(Dwords) /\ Len(Hello) = Letters + 1
  /\ DdrSum \in Seq(Dwords) /\ Len(DdrSum) = 6 /\ Spin \in Seq(Dwords) /\ Len(Spin) = 2
  /\ LoopLocal \in Seq(Dwords) /\ Len(LoopLocal) = 3
  /\ LoopDdr \in Seq(Dwords) /\ Len(LoopDdr) = 3
  /\ Data \in Seq(Dwords) /\ Len(Data) = Items
<1>1. Hello \in Seq(Dwords) /\ Len(Hello) = Letters + 1
  BY HelloIs
<1>2. DdrSum \in Seq(Dwords) /\ Len(DdrSum) = 6
  BY SumIs
<1>3. Spin \in Seq(Dwords) /\ Len(Spin) = 2
  BY SpinIs
<1>4. /\ LoopLocal \in Seq(Dwords) /\ Len(LoopLocal) = 3
      /\ LoopDdr \in Seq(Dwords) /\ Len(LoopDdr) = 3
  BY LoopIs
<1>5. Data \in Seq(Dwords) /\ Len(Data) = Items
  BY DataIs
<1> QED BY <1>1, <1>2, <1>3, <1>4, <1>5

LEMMA LenStore ==
  \A a \in Int : \A image \in Seq(Dwords) :
    StoreImage(a, image) \in Seq(Ops) /\ Len(StoreImage(a, image)) = Len(image)
BY PieceStore

LEMMA LenWindow ==
  \A image \in Seq(Dwords) :
    window_load(image) \in Seq(Ops) /\ Len(window_load(image)) = Len(image) + 1
BY PieceWindow

LEMMA LenStart ==
  \A entry \in Int : start_core2(entry) \in Seq(Ops) /\ Len(start_core2(entry)) = 3
BY PieceStart

LEMMA LenFlush == \A val \in Walks : flush(val) \in Seq(Ops) /\ Len(flush(val)) = 2
BY PieceFlush

LEMMA LenForward == \A n \in Nat : Forward(n) \in Seq(Ops) /\ Len(Forward(n)) = 3 * n
BY PieceForward

LEMMA LenDrain == \A n \in Nat : drain(n) \in Seq(Ops) /\ Len(drain(n)) = 3 * n + 2
BY PieceDrain

LEMMA LenTimed ==
  \A entry \in Int : \A tag \in Messages :
    run_timed(entry, tag) \in Seq(Ops) /\ Len(run_timed(entry, tag)) = 9
BY PieceTimed

LEMMA LenVerdict ==
  \A pass \in Messages : \A fail \in Messages :
    Verdict(pass, fail) \in Seq(Ops) /\ Len(Verdict(pass, fail)) = 4
BY PieceVerdict

\* What the generators have written, piece by piece.
LEMMA CodeOne ==
  /\ p1test \in Seq(Ops) /\ Len(p1test) = OnePark + 6
  /\ Holds(p1test, 0, window_load(Hello))
  /\ Holds(p1test, Letters + 2, <<Reg("startPc", 1), Reg("run", 1)>>)
  /\ Holds(p1test, OneFwd, Forward(Letters))
  /\ Holds(p1test, OnePark, <<Reg("parkWait", 0), Reg("checkCtrl", 0)>>)
  /\ Holds(p1test, OnePark + 2, Verdict("P1_PASS", "P1_FAIL"))
<1> DEFINE a1 == window_load(Hello)
           a2 == <<Reg("startPc", 1), Reg("run", 1)>>
           a3 == Forward(Letters)
           a4 == <<Reg("parkWait", 0), Reg("checkCtrl", 0)>>
           a5 == Verdict("P1_PASS", "P1_FAIL")
<1> DEFINE s1 == a1
           s2 == s1 \o a2
           s3 == s2 \o a3
           s4 == s3 \o a4
           s5 == s4 \o a5
<1>1. a1 \in Seq(Ops) /\ Len(a1) = Letters + 2
  <2>1. Hello \in Seq(Dwords) /\ Len(Hello) = Letters + 1
    BY ImageLens
  <2>2. window_load(Hello) \in Seq(Ops) /\ Len(window_load(Hello)) = Len(Hello) + 1
    BY <2>1, LenWindow, Sizes
  <2> QED BY <2>1, <2>2, Sizes
<1>2. a2 \in Seq(Ops) /\ Len(a2) = 2
  <2>1. Reg("startPc", 1) \in Ops /\ Reg("run", 1) \in Ops
    BY Zenon, RegOp, InOps, InMore
  <2> QED BY <2>1, PairOps
<1>3. a3 \in Seq(Ops) /\ Len(a3) = 3 * Letters
  BY LenForward, Sizes, InMore
<1>4. a4 \in Seq(Ops) /\ Len(a4) = 2
  <2>1. Reg("parkWait", 0) \in Ops /\ Reg("checkCtrl", 0) \in Ops
    BY Zenon, RegOp, InOps, InMore
  <2> QED BY <2>1, PairOps
<1>5. a5 \in Seq(Ops) /\ Len(a5) = 4
  BY LenVerdict, Sizes, InMore
<1>6. p1test = s5
  BY DEF p1test
<1> HIDE DEF a1, a2, a3, a4, a5
<1>7. s1 \in Seq(Ops) /\ Len(s1) = Letters + 2
  BY <1>1, Sizes DEF TwoFwd, TwoData, TwoSum, OneFwd, OnePark
<1> HIDE DEF s1
<1>8. s2 \in Seq(Ops) /\ Len(s2) = OneFwd
  <2>1. s1 \in Seq(Ops) /\ a2 \in Seq(Ops) /\ s2 = s1 \o a2
    BY <1>7, <1>2
  <2> HIDE DEF s2
  <2>2. s2 \in Seq(Ops) /\ Len(s2) = Len(s1) + Len(a2)
    BY SMT, <2>1, PartJoin
  <2> QED BY <1>7, <1>2, <2>2, Sizes DEF TwoFwd, TwoData, TwoSum, OneFwd, OnePark
<1> HIDE DEF s2
<1>9. s3 \in Seq(Ops) /\ Len(s3) = OnePark
  <2>1. s2 \in Seq(Ops) /\ a3 \in Seq(Ops) /\ s3 = s2 \o a3
    BY <1>8, <1>3
  <2> HIDE DEF s3
  <2>2. s3 \in Seq(Ops) /\ Len(s3) = Len(s2) + Len(a3)
    BY SMT, <2>1, PartJoin
  <2> QED BY <1>8, <1>3, <2>2, Sizes DEF TwoFwd, TwoData, TwoSum, OneFwd, OnePark
<1> HIDE DEF s3
<1>10. s4 \in Seq(Ops) /\ Len(s4) = OnePark + 2
  <2>1. s3 \in Seq(Ops) /\ a4 \in Seq(Ops) /\ s4 = s3 \o a4
    BY <1>9, <1>4
  <2> HIDE DEF s4
  <2>2. s4 \in Seq(Ops) /\ Len(s4) = Len(s3) + Len(a4)
    BY SMT, <2>1, PartJoin
  <2> QED BY <1>9, <1>4, <2>2, Sizes DEF TwoFwd, TwoData, TwoSum, OneFwd, OnePark
<1> HIDE DEF s4
<1>11. s5 \in Seq(Ops) /\ Len(s5) = OnePark + 6
  <2>1. s4 \in Seq(Ops) /\ a5 \in Seq(Ops) /\ s5 = s4 \o a5
    BY <1>10, <1>5
  <2> HIDE DEF s5
  <2>2. s5 \in Seq(Ops) /\ Len(s5) = Len(s4) + Len(a5)
    BY SMT, <2>1, PartJoin
  <2> QED BY <1>10, <1>5, <2>2, Sizes DEF TwoFwd, TwoData, TwoSum, OneFwd, OnePark
<1>12. Holds(p1test, 0, s5)
  BY <1>6, <1>11, LenProperties DEF Holds
<1>13. Holds(p1test, 0, s4) /\ Holds(p1test, 0 + Len(s4), a5)
  <2>1. Holds(p1test, 0, s4 \o a5)
    BY <1>12 DEF s5
  <2>2. s4 \in Seq(Ops) /\ a5 \in Seq(Ops)
    BY <1>10, <1>5
  <2> QED BY SMT, <2>1, <2>2, PartCut
<1>14. Holds(p1test, 0, s3) /\ Holds(p1test, 0 + Len(s3), a4)
  <2>1. Holds(p1test, 0, s3 \o a4)
    BY <1>13 DEF s4
  <2>2. s3 \in Seq(Ops) /\ a4 \in Seq(Ops)
    BY <1>9, <1>4
  <2> QED BY SMT, <2>1, <2>2, PartCut
<1>15. Holds(p1test, 0, s2) /\ Holds(p1test, 0 + Len(s2), a3)
  <2>1. Holds(p1test, 0, s2 \o a3)
    BY <1>14 DEF s3
  <2>2. s2 \in Seq(Ops) /\ a3 \in Seq(Ops)
    BY <1>8, <1>3
  <2> QED BY SMT, <2>1, <2>2, PartCut
<1>16. Holds(p1test, 0, s1) /\ Holds(p1test, 0 + Len(s1), a2)
  <2>1. Holds(p1test, 0, s1 \o a2)
    BY <1>15 DEF s2
  <2>2. s1 \in Seq(Ops) /\ a2 \in Seq(Ops)
    BY <1>7, <1>2
  <2> QED BY SMT, <2>1, <2>2, PartCut
<1>17. p1test \in Seq(Ops) /\ Len(p1test) = OnePark + 6
  BY <1>6, <1>11
<1>18. Holds(p1test, 0, a1)
  BY <1>16 DEF s1
<1>19. Holds(p1test, Letters + 2, a2)
  <2>1. 0 + Len(s1) = Letters + 2
    BY <1>7, Sizes DEF TwoFwd, TwoData, TwoSum, OneFwd, OnePark
  <2> QED BY ONLY <1>16, <2>1
<1>20. Holds(p1test, OneFwd, a3)
  <2>1. 0 + Len(s2) = OneFwd
    BY <1>8, Sizes DEF TwoFwd, TwoData, TwoSum, OneFwd, OnePark
  <2> QED BY ONLY <1>15, <2>1
<1>21. Holds(p1test, OnePark, a4)
  <2>1. 0 + Len(s3) = OnePark
    BY <1>9, Sizes DEF TwoFwd, TwoData, TwoSum, OneFwd, OnePark
  <2> QED BY ONLY <1>14, <2>1
<1>22. Holds(p1test, OnePark + 2, a5)
  <2>1. 0 + Len(s4) = OnePark + 2
    BY <1>10, Sizes DEF TwoFwd, TwoData, TwoSum, OneFwd, OnePark
  <2> QED BY ONLY <1>13, <2>1
<1> QED BY <1>17, <1>18, <1>19, <1>20, <1>21, <1>22 DEF a1, a2, a3, a4, a5

LEMMA CodeTwo ==
  /\ p2test \in Seq(Ops) /\ Len(p2test) = TwoSum + 25
  /\ Holds(p2test, 0, StoreImage(DdrBase, Hello))
  /\ Holds(p2test, Letters + 1, flush("FLUSH"))
  /\ Holds(p2test, Letters + 3, start_core2(DdrBase + 1))
  /\ Holds(p2test, TwoFwd, drain(Letters))
  /\ Holds(p2test, TwoData, StoreImage(DataBase, Data))
  /\ Holds(p2test, TwoSum, flush("FLUSH"))
  /\ Holds(p2test, TwoSum + 2, window_load(DdrSum))
  /\ Holds(p2test, TwoSum + 9, start_core2(1))
  /\ Holds(p2test, TwoSum + 12, drain(1))
  /\ Holds(p2test, TwoSum + 17, flush("INVALIDATE"))
  /\ Holds(p2test, TwoSum + 19, <<Reg("load", Result), Reg("checkSum", Total)>>)
  /\ Holds(p2test, TwoSum + 21, Verdict("P2_PASS", "P2_FAIL"))
<1> DEFINE a1 == StoreImage(DdrBase, Hello)
           a2 == flush("FLUSH")
           a3 == start_core2(DdrBase + 1)
           a4 == drain(Letters)
           a5 == StoreImage(DataBase, Data)
           a6 == flush("FLUSH")
           a7 == window_load(DdrSum)
           a8 == start_core2(1)
           a9 == drain(1)
           a10 == flush("INVALIDATE")
           a11 == <<Reg("load", Result), Reg("checkSum", Total)>>
           a12 == Verdict("P2_PASS", "P2_FAIL")
<1> DEFINE s1 == a1
           s2 == s1 \o a2
           s3 == s2 \o a3
           s4 == s3 \o a4
           s5 == s4 \o a5
           s6 == s5 \o a6
           s7 == s6 \o a7
           s8 == s7 \o a8
           s9 == s8 \o a9
           s10 == s9 \o a10
           s11 == s10 \o a11
           s12 == s11 \o a12
<1>1. a1 \in Seq(Ops) /\ Len(a1) = Letters + 1
  <2>1. Hello \in Seq(Dwords) /\ Len(Hello) = Letters + 1
    BY ImageLens
  <2>2. StoreImage(DdrBase, Hello) \in Seq(Ops) /\ Len(StoreImage(DdrBase, Hello)) = Len(Hello)
    BY <2>1, LenStore, Sizes
  <2> QED BY <2>1, <2>2, Sizes
<1>2. a2 \in Seq(Ops) /\ Len(a2) = 2
  BY LenFlush, Sizes, InMore
<1>3. a3 \in Seq(Ops) /\ Len(a3) = 3
  <2>1. DdrBase + 1 \in Int
    BY Sizes
  <2> QED BY Zenon, <2>1, LenStart, InMore
<1>4. a4 \in Seq(Ops) /\ Len(a4) = 3 * Letters + 2
  BY LenDrain, Sizes, InMore
<1>5. a5 \in Seq(Ops) /\ Len(a5) = Items
  <2>1. Data \in Seq(Dwords) /\ Len(Data) = Items
    BY ImageLens
  <2>2. StoreImage(DataBase, Data) \in Seq(Ops) /\ Len(StoreImage(DataBase, Data)) = Len(Data)
    BY <2>1, LenStore, Sizes
  <2> QED BY <2>1, <2>2, Sizes
<1>6. a6 \in Seq(Ops) /\ Len(a6) = 2
  BY LenFlush, Sizes, InMore
<1>7. a7 \in Seq(Ops) /\ Len(a7) = 7
  <2>1. DdrSum \in Seq(Dwords) /\ Len(DdrSum) = 6
    BY ImageLens
  <2>2. window_load(DdrSum) \in Seq(Ops) /\ Len(window_load(DdrSum)) = Len(DdrSum) + 1
    BY <2>1, LenWindow, Sizes
  <2> QED BY <2>1, <2>2, Sizes
<1>8. a8 \in Seq(Ops) /\ Len(a8) = 3
  BY LenStart, Sizes, InMore
<1>9. a9 \in Seq(Ops) /\ Len(a9) = 5
  <2>1. 1 \in Nat /\ 3 * 1 + 2 = 5
    OBVIOUS
  <2> QED BY <2>1, LenDrain
<1>10. a10 \in Seq(Ops) /\ Len(a10) = 2
  BY LenFlush, Sizes, InMore
<1>11. a11 \in Seq(Ops) /\ Len(a11) = 2
  <2>1. Reg("load", Result) \in Ops /\ Reg("checkSum", Total) \in Ops
    BY Zenon, RegOp, InOps, InMore
  <2> QED BY <2>1, PairOps
<1>12. a12 \in Seq(Ops) /\ Len(a12) = 4
  BY LenVerdict, Sizes, InMore
<1>13. p2test = s12
  BY DEF p2test
<1> HIDE DEF a1, a2, a3, a4, a5, a6, a7, a8, a9, a10, a11, a12
<1>14. s1 \in Seq(Ops) /\ Len(s1) = Letters + 1
  BY <1>1, Sizes DEF TwoFwd, TwoData, TwoSum, OneFwd, OnePark
<1> HIDE DEF s1
<1>15. s2 \in Seq(Ops) /\ Len(s2) = Letters + 3
  <2>1. s1 \in Seq(Ops) /\ a2 \in Seq(Ops) /\ s2 = s1 \o a2
    BY <1>14, <1>2
  <2> HIDE DEF s2
  <2>2. s2 \in Seq(Ops) /\ Len(s2) = Len(s1) + Len(a2)
    BY SMT, <2>1, PartJoin
  <2> QED BY <1>14, <1>2, <2>2, Sizes DEF TwoFwd, TwoData, TwoSum, OneFwd, OnePark
<1> HIDE DEF s2
<1>16. s3 \in Seq(Ops) /\ Len(s3) = TwoFwd
  <2>1. s2 \in Seq(Ops) /\ a3 \in Seq(Ops) /\ s3 = s2 \o a3
    BY <1>15, <1>3
  <2> HIDE DEF s3
  <2>2. s3 \in Seq(Ops) /\ Len(s3) = Len(s2) + Len(a3)
    BY SMT, <2>1, PartJoin
  <2> QED BY <1>15, <1>3, <2>2, Sizes DEF TwoFwd, TwoData, TwoSum, OneFwd, OnePark
<1> HIDE DEF s3
<1>17. s4 \in Seq(Ops) /\ Len(s4) = TwoData
  <2>1. s3 \in Seq(Ops) /\ a4 \in Seq(Ops) /\ s4 = s3 \o a4
    BY <1>16, <1>4
  <2> HIDE DEF s4
  <2>2. s4 \in Seq(Ops) /\ Len(s4) = Len(s3) + Len(a4)
    BY SMT, <2>1, PartJoin
  <2> QED BY <1>16, <1>4, <2>2, Sizes DEF TwoFwd, TwoData, TwoSum, OneFwd, OnePark
<1> HIDE DEF s4
<1>18. s5 \in Seq(Ops) /\ Len(s5) = TwoSum
  <2>1. s4 \in Seq(Ops) /\ a5 \in Seq(Ops) /\ s5 = s4 \o a5
    BY <1>17, <1>5
  <2> HIDE DEF s5
  <2>2. s5 \in Seq(Ops) /\ Len(s5) = Len(s4) + Len(a5)
    BY SMT, <2>1, PartJoin
  <2> QED BY <1>17, <1>5, <2>2, Sizes DEF TwoFwd, TwoData, TwoSum, OneFwd, OnePark
<1> HIDE DEF s5
<1>19. s6 \in Seq(Ops) /\ Len(s6) = TwoSum + 2
  <2>1. s5 \in Seq(Ops) /\ a6 \in Seq(Ops) /\ s6 = s5 \o a6
    BY <1>18, <1>6
  <2> HIDE DEF s6
  <2>2. s6 \in Seq(Ops) /\ Len(s6) = Len(s5) + Len(a6)
    BY SMT, <2>1, PartJoin
  <2> QED BY <1>18, <1>6, <2>2, Sizes DEF TwoFwd, TwoData, TwoSum, OneFwd, OnePark
<1> HIDE DEF s6
<1>20. s7 \in Seq(Ops) /\ Len(s7) = TwoSum + 9
  <2>1. s6 \in Seq(Ops) /\ a7 \in Seq(Ops) /\ s7 = s6 \o a7
    BY <1>19, <1>7
  <2> HIDE DEF s7
  <2>2. s7 \in Seq(Ops) /\ Len(s7) = Len(s6) + Len(a7)
    BY SMT, <2>1, PartJoin
  <2> QED BY <1>19, <1>7, <2>2, Sizes DEF TwoFwd, TwoData, TwoSum, OneFwd, OnePark
<1> HIDE DEF s7
<1>21. s8 \in Seq(Ops) /\ Len(s8) = TwoSum + 12
  <2>1. s7 \in Seq(Ops) /\ a8 \in Seq(Ops) /\ s8 = s7 \o a8
    BY <1>20, <1>8
  <2> HIDE DEF s8
  <2>2. s8 \in Seq(Ops) /\ Len(s8) = Len(s7) + Len(a8)
    BY SMT, <2>1, PartJoin
  <2> QED BY <1>20, <1>8, <2>2, Sizes DEF TwoFwd, TwoData, TwoSum, OneFwd, OnePark
<1> HIDE DEF s8
<1>22. s9 \in Seq(Ops) /\ Len(s9) = TwoSum + 17
  <2>1. s8 \in Seq(Ops) /\ a9 \in Seq(Ops) /\ s9 = s8 \o a9
    BY <1>21, <1>9
  <2> HIDE DEF s9
  <2>2. s9 \in Seq(Ops) /\ Len(s9) = Len(s8) + Len(a9)
    BY SMT, <2>1, PartJoin
  <2> QED BY <1>21, <1>9, <2>2, Sizes DEF TwoFwd, TwoData, TwoSum, OneFwd, OnePark
<1> HIDE DEF s9
<1>23. s10 \in Seq(Ops) /\ Len(s10) = TwoSum + 19
  <2>1. s9 \in Seq(Ops) /\ a10 \in Seq(Ops) /\ s10 = s9 \o a10
    BY <1>22, <1>10
  <2> HIDE DEF s10
  <2>2. s10 \in Seq(Ops) /\ Len(s10) = Len(s9) + Len(a10)
    BY SMT, <2>1, PartJoin
  <2> QED BY <1>22, <1>10, <2>2, Sizes DEF TwoFwd, TwoData, TwoSum, OneFwd, OnePark
<1> HIDE DEF s10
<1>24. s11 \in Seq(Ops) /\ Len(s11) = TwoSum + 21
  <2>1. s10 \in Seq(Ops) /\ a11 \in Seq(Ops) /\ s11 = s10 \o a11
    BY <1>23, <1>11
  <2> HIDE DEF s11
  <2>2. s11 \in Seq(Ops) /\ Len(s11) = Len(s10) + Len(a11)
    BY SMT, <2>1, PartJoin
  <2> QED BY <1>23, <1>11, <2>2, Sizes DEF TwoFwd, TwoData, TwoSum, OneFwd, OnePark
<1> HIDE DEF s11
<1>25. s12 \in Seq(Ops) /\ Len(s12) = TwoSum + 25
  <2>1. s11 \in Seq(Ops) /\ a12 \in Seq(Ops) /\ s12 = s11 \o a12
    BY <1>24, <1>12
  <2> HIDE DEF s12
  <2>2. s12 \in Seq(Ops) /\ Len(s12) = Len(s11) + Len(a12)
    BY SMT, <2>1, PartJoin
  <2> QED BY <1>24, <1>12, <2>2, Sizes DEF TwoFwd, TwoData, TwoSum, OneFwd, OnePark
<1>26. Holds(p2test, 0, s12)
  BY <1>13, <1>25, LenProperties DEF Holds
<1>27. Holds(p2test, 0, s11) /\ Holds(p2test, 0 + Len(s11), a12)
  <2>1. Holds(p2test, 0, s11 \o a12)
    BY <1>26 DEF s12
  <2>2. s11 \in Seq(Ops) /\ a12 \in Seq(Ops)
    BY <1>24, <1>12
  <2> QED BY SMT, <2>1, <2>2, PartCut
<1>28. Holds(p2test, 0, s10) /\ Holds(p2test, 0 + Len(s10), a11)
  <2>1. Holds(p2test, 0, s10 \o a11)
    BY <1>27 DEF s11
  <2>2. s10 \in Seq(Ops) /\ a11 \in Seq(Ops)
    BY <1>23, <1>11
  <2> QED BY SMT, <2>1, <2>2, PartCut
<1>29. Holds(p2test, 0, s9) /\ Holds(p2test, 0 + Len(s9), a10)
  <2>1. Holds(p2test, 0, s9 \o a10)
    BY <1>28 DEF s10
  <2>2. s9 \in Seq(Ops) /\ a10 \in Seq(Ops)
    BY <1>22, <1>10
  <2> QED BY SMT, <2>1, <2>2, PartCut
<1>30. Holds(p2test, 0, s8) /\ Holds(p2test, 0 + Len(s8), a9)
  <2>1. Holds(p2test, 0, s8 \o a9)
    BY <1>29 DEF s9
  <2>2. s8 \in Seq(Ops) /\ a9 \in Seq(Ops)
    BY <1>21, <1>9
  <2> QED BY SMT, <2>1, <2>2, PartCut
<1>31. Holds(p2test, 0, s7) /\ Holds(p2test, 0 + Len(s7), a8)
  <2>1. Holds(p2test, 0, s7 \o a8)
    BY <1>30 DEF s8
  <2>2. s7 \in Seq(Ops) /\ a8 \in Seq(Ops)
    BY <1>20, <1>8
  <2> QED BY SMT, <2>1, <2>2, PartCut
<1>32. Holds(p2test, 0, s6) /\ Holds(p2test, 0 + Len(s6), a7)
  <2>1. Holds(p2test, 0, s6 \o a7)
    BY <1>31 DEF s7
  <2>2. s6 \in Seq(Ops) /\ a7 \in Seq(Ops)
    BY <1>19, <1>7
  <2> QED BY SMT, <2>1, <2>2, PartCut
<1>33. Holds(p2test, 0, s5) /\ Holds(p2test, 0 + Len(s5), a6)
  <2>1. Holds(p2test, 0, s5 \o a6)
    BY <1>32 DEF s6
  <2>2. s5 \in Seq(Ops) /\ a6 \in Seq(Ops)
    BY <1>18, <1>6
  <2> QED BY SMT, <2>1, <2>2, PartCut
<1>34. Holds(p2test, 0, s4) /\ Holds(p2test, 0 + Len(s4), a5)
  <2>1. Holds(p2test, 0, s4 \o a5)
    BY <1>33 DEF s5
  <2>2. s4 \in Seq(Ops) /\ a5 \in Seq(Ops)
    BY <1>17, <1>5
  <2> QED BY SMT, <2>1, <2>2, PartCut
<1>35. Holds(p2test, 0, s3) /\ Holds(p2test, 0 + Len(s3), a4)
  <2>1. Holds(p2test, 0, s3 \o a4)
    BY <1>34 DEF s4
  <2>2. s3 \in Seq(Ops) /\ a4 \in Seq(Ops)
    BY <1>16, <1>4
  <2> QED BY SMT, <2>1, <2>2, PartCut
<1>36. Holds(p2test, 0, s2) /\ Holds(p2test, 0 + Len(s2), a3)
  <2>1. Holds(p2test, 0, s2 \o a3)
    BY <1>35 DEF s3
  <2>2. s2 \in Seq(Ops) /\ a3 \in Seq(Ops)
    BY <1>15, <1>3
  <2> QED BY SMT, <2>1, <2>2, PartCut
<1>37. Holds(p2test, 0, s1) /\ Holds(p2test, 0 + Len(s1), a2)
  <2>1. Holds(p2test, 0, s1 \o a2)
    BY <1>36 DEF s2
  <2>2. s1 \in Seq(Ops) /\ a2 \in Seq(Ops)
    BY <1>14, <1>2
  <2> QED BY SMT, <2>1, <2>2, PartCut
<1>38. p2test \in Seq(Ops) /\ Len(p2test) = TwoSum + 25
  BY <1>13, <1>25
<1>39. Holds(p2test, 0, a1)
  BY <1>37 DEF s1
<1>40. Holds(p2test, Letters + 1, a2)
  <2>1. 0 + Len(s1) = Letters + 1
    BY <1>14, Sizes DEF TwoFwd, TwoData, TwoSum, OneFwd, OnePark
  <2> QED BY ONLY <1>37, <2>1
<1>41. Holds(p2test, Letters + 3, a3)
  <2>1. 0 + Len(s2) = Letters + 3
    BY <1>15, Sizes DEF TwoFwd, TwoData, TwoSum, OneFwd, OnePark
  <2> QED BY ONLY <1>36, <2>1
<1>42. Holds(p2test, TwoFwd, a4)
  <2>1. 0 + Len(s3) = TwoFwd
    BY <1>16, Sizes DEF TwoFwd, TwoData, TwoSum, OneFwd, OnePark
  <2> QED BY ONLY <1>35, <2>1
<1>43. Holds(p2test, TwoData, a5)
  <2>1. 0 + Len(s4) = TwoData
    BY <1>17, Sizes DEF TwoFwd, TwoData, TwoSum, OneFwd, OnePark
  <2> QED BY ONLY <1>34, <2>1
<1>44. Holds(p2test, TwoSum, a6)
  <2>1. 0 + Len(s5) = TwoSum
    BY <1>18, Sizes DEF TwoFwd, TwoData, TwoSum, OneFwd, OnePark
  <2> QED BY ONLY <1>33, <2>1
<1>45. Holds(p2test, TwoSum + 2, a7)
  <2>1. 0 + Len(s6) = TwoSum + 2
    BY <1>19, Sizes DEF TwoFwd, TwoData, TwoSum, OneFwd, OnePark
  <2> QED BY ONLY <1>32, <2>1
<1>46. Holds(p2test, TwoSum + 9, a8)
  <2>1. 0 + Len(s7) = TwoSum + 9
    BY <1>20, Sizes DEF TwoFwd, TwoData, TwoSum, OneFwd, OnePark
  <2> QED BY ONLY <1>31, <2>1
<1>47. Holds(p2test, TwoSum + 12, a9)
  <2>1. 0 + Len(s8) = TwoSum + 12
    BY <1>21, Sizes DEF TwoFwd, TwoData, TwoSum, OneFwd, OnePark
  <2> QED BY ONLY <1>30, <2>1
<1>48. Holds(p2test, TwoSum + 17, a10)
  <2>1. 0 + Len(s9) = TwoSum + 17
    BY <1>22, Sizes DEF TwoFwd, TwoData, TwoSum, OneFwd, OnePark
  <2> QED BY ONLY <1>29, <2>1
<1>49. Holds(p2test, TwoSum + 19, a11)
  <2>1. 0 + Len(s10) = TwoSum + 19
    BY <1>23, Sizes DEF TwoFwd, TwoData, TwoSum, OneFwd, OnePark
  <2> QED BY ONLY <1>28, <2>1
<1>50. Holds(p2test, TwoSum + 21, a12)
  <2>1. 0 + Len(s11) = TwoSum + 21
    BY <1>24, Sizes DEF TwoFwd, TwoData, TwoSum, OneFwd, OnePark
  <2> QED BY ONLY <1>27, <2>1
<1> QED BY <1>38, <1>39, <1>40, <1>41, <1>42, <1>43, <1>44, <1>45, <1>46, <1>47, <1>48, <1>49, <1>50 DEF a1, a2, a3, a4, a5, a6, a7, a8, a9, a10, a11, a12

LEMMA CodeTimed ==
  /\ p2btest \in Seq(Ops) /\ Len(p2btest) = 29
  /\ Holds(p2btest, 0, window_load(LoopLocal))
  /\ Holds(p2btest, 4, run_timed(1, "L="))
  /\ Holds(p2btest, 13, StoreImage(DdrBase, LoopDdr))
  /\ Holds(p2btest, 16, flush("FLUSH"))
  /\ Holds(p2btest, 18, run_timed(DdrBase + 1, "D="))
  /\ Holds(p2btest, 27, <<Put("P2B_DONE"), Reg("halt", 0)>>)
<1> DEFINE a1 == window_load(LoopLocal)
           a2 == run_timed(1, "L=")
           a3 == StoreImage(DdrBase, LoopDdr)
           a4 == flush("FLUSH")
           a5 == run_timed(DdrBase + 1, "D=")
           a6 == <<Put("P2B_DONE"), Reg("halt", 0)>>
<1> DEFINE s1 == a1
           s2 == s1 \o a2
           s3 == s2 \o a3
           s4 == s3 \o a4
           s5 == s4 \o a5
           s6 == s5 \o a6
<1>1. a1 \in Seq(Ops) /\ Len(a1) = 4
  <2>1. LoopLocal \in Seq(Dwords) /\ Len(LoopLocal) = 3
    BY ImageLens
  <2>2. window_load(LoopLocal) \in Seq(Ops) /\ Len(window_load(LoopLocal)) = Len(LoopLocal) + 1
    BY <2>1, LenWindow, Sizes
  <2> QED BY <2>1, <2>2, Sizes
<1>2. a2 \in Seq(Ops) /\ Len(a2) = 9
  BY LenTimed, Sizes, InMore
<1>3. a3 \in Seq(Ops) /\ Len(a3) = 3
  <2>1. LoopDdr \in Seq(Dwords) /\ Len(LoopDdr) = 3
    BY ImageLens
  <2>2. StoreImage(DdrBase, LoopDdr) \in Seq(Ops) /\ Len(StoreImage(DdrBase, LoopDdr)) = Len(LoopDdr)
    BY <2>1, LenStore, Sizes
  <2> QED BY <2>1, <2>2, Sizes
<1>4. a4 \in Seq(Ops) /\ Len(a4) = 2
  BY LenFlush, Sizes, InMore
<1>5. a5 \in Seq(Ops) /\ Len(a5) = 9
  <2>1. DdrBase + 1 \in Int
    BY Sizes
  <2> QED BY Zenon, <2>1, LenTimed, InMore
<1>6. a6 \in Seq(Ops) /\ Len(a6) = 2
  <2>1. Put("P2B_DONE") \in Ops /\ Reg("halt", 0) \in Ops
    BY Zenon, RegOp, InOps, InMore
  <2> QED BY <2>1, PairOps
<1>7. p2btest = s6
  BY DEF p2btest
<1> HIDE DEF a1, a2, a3, a4, a5, a6
<1>8. s1 \in Seq(Ops) /\ Len(s1) = 4
  BY <1>1, Sizes DEF TwoFwd, TwoData, TwoSum, OneFwd, OnePark
<1> HIDE DEF s1
<1>9. s2 \in Seq(Ops) /\ Len(s2) = 13
  <2>1. s1 \in Seq(Ops) /\ a2 \in Seq(Ops) /\ s2 = s1 \o a2
    BY <1>8, <1>2
  <2> HIDE DEF s2
  <2>2. s2 \in Seq(Ops) /\ Len(s2) = Len(s1) + Len(a2)
    BY SMT, <2>1, PartJoin
  <2> QED BY <1>8, <1>2, <2>2, Sizes DEF TwoFwd, TwoData, TwoSum, OneFwd, OnePark
<1> HIDE DEF s2
<1>10. s3 \in Seq(Ops) /\ Len(s3) = 16
  <2>1. s2 \in Seq(Ops) /\ a3 \in Seq(Ops) /\ s3 = s2 \o a3
    BY <1>9, <1>3
  <2> HIDE DEF s3
  <2>2. s3 \in Seq(Ops) /\ Len(s3) = Len(s2) + Len(a3)
    BY SMT, <2>1, PartJoin
  <2> QED BY <1>9, <1>3, <2>2, Sizes DEF TwoFwd, TwoData, TwoSum, OneFwd, OnePark
<1> HIDE DEF s3
<1>11. s4 \in Seq(Ops) /\ Len(s4) = 18
  <2>1. s3 \in Seq(Ops) /\ a4 \in Seq(Ops) /\ s4 = s3 \o a4
    BY <1>10, <1>4
  <2> HIDE DEF s4
  <2>2. s4 \in Seq(Ops) /\ Len(s4) = Len(s3) + Len(a4)
    BY SMT, <2>1, PartJoin
  <2> QED BY <1>10, <1>4, <2>2, Sizes DEF TwoFwd, TwoData, TwoSum, OneFwd, OnePark
<1> HIDE DEF s4
<1>12. s5 \in Seq(Ops) /\ Len(s5) = 27
  <2>1. s4 \in Seq(Ops) /\ a5 \in Seq(Ops) /\ s5 = s4 \o a5
    BY <1>11, <1>5
  <2> HIDE DEF s5
  <2>2. s5 \in Seq(Ops) /\ Len(s5) = Len(s4) + Len(a5)
    BY SMT, <2>1, PartJoin
  <2> QED BY <1>11, <1>5, <2>2, Sizes DEF TwoFwd, TwoData, TwoSum, OneFwd, OnePark
<1> HIDE DEF s5
<1>13. s6 \in Seq(Ops) /\ Len(s6) = 29
  <2>1. s5 \in Seq(Ops) /\ a6 \in Seq(Ops) /\ s6 = s5 \o a6
    BY <1>12, <1>6
  <2> HIDE DEF s6
  <2>2. s6 \in Seq(Ops) /\ Len(s6) = Len(s5) + Len(a6)
    BY SMT, <2>1, PartJoin
  <2> QED BY <1>12, <1>6, <2>2, Sizes DEF TwoFwd, TwoData, TwoSum, OneFwd, OnePark
<1>14. Holds(p2btest, 0, s6)
  BY <1>7, <1>13, LenProperties DEF Holds
<1>15. Holds(p2btest, 0, s5) /\ Holds(p2btest, 0 + Len(s5), a6)
  <2>1. Holds(p2btest, 0, s5 \o a6)
    BY <1>14 DEF s6
  <2>2. s5 \in Seq(Ops) /\ a6 \in Seq(Ops)
    BY <1>12, <1>6
  <2> QED BY SMT, <2>1, <2>2, PartCut
<1>16. Holds(p2btest, 0, s4) /\ Holds(p2btest, 0 + Len(s4), a5)
  <2>1. Holds(p2btest, 0, s4 \o a5)
    BY <1>15 DEF s5
  <2>2. s4 \in Seq(Ops) /\ a5 \in Seq(Ops)
    BY <1>11, <1>5
  <2> QED BY SMT, <2>1, <2>2, PartCut
<1>17. Holds(p2btest, 0, s3) /\ Holds(p2btest, 0 + Len(s3), a4)
  <2>1. Holds(p2btest, 0, s3 \o a4)
    BY <1>16 DEF s4
  <2>2. s3 \in Seq(Ops) /\ a4 \in Seq(Ops)
    BY <1>10, <1>4
  <2> QED BY SMT, <2>1, <2>2, PartCut
<1>18. Holds(p2btest, 0, s2) /\ Holds(p2btest, 0 + Len(s2), a3)
  <2>1. Holds(p2btest, 0, s2 \o a3)
    BY <1>17 DEF s3
  <2>2. s2 \in Seq(Ops) /\ a3 \in Seq(Ops)
    BY <1>9, <1>3
  <2> QED BY SMT, <2>1, <2>2, PartCut
<1>19. Holds(p2btest, 0, s1) /\ Holds(p2btest, 0 + Len(s1), a2)
  <2>1. Holds(p2btest, 0, s1 \o a2)
    BY <1>18 DEF s2
  <2>2. s1 \in Seq(Ops) /\ a2 \in Seq(Ops)
    BY <1>8, <1>2
  <2> QED BY SMT, <2>1, <2>2, PartCut
<1>20. p2btest \in Seq(Ops) /\ Len(p2btest) = 29
  BY <1>7, <1>13
<1>21. Holds(p2btest, 0, a1)
  BY <1>19 DEF s1
<1>22. Holds(p2btest, 4, a2)
  <2>1. 0 + Len(s1) = 4
    BY <1>8, Sizes DEF TwoFwd, TwoData, TwoSum, OneFwd, OnePark
  <2> QED BY ONLY <1>19, <2>1
<1>23. Holds(p2btest, 13, a3)
  <2>1. 0 + Len(s2) = 13
    BY <1>9, Sizes DEF TwoFwd, TwoData, TwoSum, OneFwd, OnePark
  <2> QED BY ONLY <1>18, <2>1
<1>24. Holds(p2btest, 16, a4)
  <2>1. 0 + Len(s3) = 16
    BY <1>10, Sizes DEF TwoFwd, TwoData, TwoSum, OneFwd, OnePark
  <2> QED BY ONLY <1>17, <2>1
<1>25. Holds(p2btest, 18, a5)
  <2>1. 0 + Len(s4) = 18
    BY <1>11, Sizes DEF TwoFwd, TwoData, TwoSum, OneFwd, OnePark
  <2> QED BY ONLY <1>16, <2>1
<1>26. Holds(p2btest, 27, a6)
  <2>1. 0 + Len(s5) = 27
    BY <1>12, Sizes DEF TwoFwd, TwoData, TwoSum, OneFwd, OnePark
  <2> QED BY ONLY <1>15, <2>1
<1> QED BY <1>20, <1>21, <1>22, <1>23, <1>24, <1>25, <1>26 DEF a1, a2, a3, a4, a5, a6

LEMMA CodeSpin ==
  /\ spinload \in Seq(Ops) /\ Len(spinload) = 8
  /\ Holds(spinload, 0, window_load(Spin))
  /\ Holds(spinload, 3, start_core2(1))
  /\ Holds(spinload, 6, <<Put("core2_spinning"), Reg("halt", 0)>>)
<1> DEFINE a1 == window_load(Spin)
           a2 == start_core2(1)
           a3 == <<Put("core2_spinning"), Reg("halt", 0)>>
<1> DEFINE s1 == a1
           s2 == s1 \o a2
           s3 == s2 \o a3
<1>1. a1 \in Seq(Ops) /\ Len(a1) = 3
  <2>1. Spin \in Seq(Dwords) /\ Len(Spin) = 2
    BY ImageLens
  <2>2. window_load(Spin) \in Seq(Ops) /\ Len(window_load(Spin)) = Len(Spin) + 1
    BY <2>1, LenWindow, Sizes
  <2> QED BY <2>1, <2>2, Sizes
<1>2. a2 \in Seq(Ops) /\ Len(a2) = 3
  BY LenStart, Sizes, InMore
<1>3. a3 \in Seq(Ops) /\ Len(a3) = 2
  <2>1. Put("core2_spinning") \in Ops /\ Reg("halt", 0) \in Ops
    BY Zenon, RegOp, InOps, InMore
  <2> QED BY <2>1, PairOps
<1>4. spinload = s3
  BY DEF spinload
<1> HIDE DEF a1, a2, a3
<1>5. s1 \in Seq(Ops) /\ Len(s1) = 3
  BY <1>1, Sizes DEF TwoFwd, TwoData, TwoSum, OneFwd, OnePark
<1> HIDE DEF s1
<1>6. s2 \in Seq(Ops) /\ Len(s2) = 6
  <2>1. s1 \in Seq(Ops) /\ a2 \in Seq(Ops) /\ s2 = s1 \o a2
    BY <1>5, <1>2
  <2> HIDE DEF s2
  <2>2. s2 \in Seq(Ops) /\ Len(s2) = Len(s1) + Len(a2)
    BY SMT, <2>1, PartJoin
  <2> QED BY <1>5, <1>2, <2>2, Sizes DEF TwoFwd, TwoData, TwoSum, OneFwd, OnePark
<1> HIDE DEF s2
<1>7. s3 \in Seq(Ops) /\ Len(s3) = 8
  <2>1. s2 \in Seq(Ops) /\ a3 \in Seq(Ops) /\ s3 = s2 \o a3
    BY <1>6, <1>3
  <2> HIDE DEF s3
  <2>2. s3 \in Seq(Ops) /\ Len(s3) = Len(s2) + Len(a3)
    BY SMT, <2>1, PartJoin
  <2> QED BY <1>6, <1>3, <2>2, Sizes DEF TwoFwd, TwoData, TwoSum, OneFwd, OnePark
<1>8. Holds(spinload, 0, s3)
  BY <1>4, <1>7, LenProperties DEF Holds
<1>9. Holds(spinload, 0, s2) /\ Holds(spinload, 0 + Len(s2), a3)
  <2>1. Holds(spinload, 0, s2 \o a3)
    BY <1>8 DEF s3
  <2>2. s2 \in Seq(Ops) /\ a3 \in Seq(Ops)
    BY <1>6, <1>3
  <2> QED BY SMT, <2>1, <2>2, PartCut
<1>10. Holds(spinload, 0, s1) /\ Holds(spinload, 0 + Len(s1), a2)
  <2>1. Holds(spinload, 0, s1 \o a2)
    BY <1>9 DEF s2
  <2>2. s1 \in Seq(Ops) /\ a2 \in Seq(Ops)
    BY <1>5, <1>2
  <2> QED BY SMT, <2>1, <2>2, PartCut
<1>11. spinload \in Seq(Ops) /\ Len(spinload) = 8
  BY <1>4, <1>7
<1>12. Holds(spinload, 0, a1)
  BY <1>10 DEF s1
<1>13. Holds(spinload, 3, a2)
  <2>1. 0 + Len(s1) = 3
    BY <1>5, Sizes DEF TwoFwd, TwoData, TwoSum, OneFwd, OnePark
  <2> QED BY ONLY <1>10, <2>1
<1>14. Holds(spinload, 6, a3)
  <2>1. 0 + Len(s2) = 6
    BY <1>6, Sizes DEF TwoFwd, TwoData, TwoSum, OneFwd, OnePark
  <2> QED BY ONLY <1>9, <2>1
<1> QED BY <1>11, <1>12, <1>13, <1>14 DEF a1, a2, a3

\* What is at each place.
LEMMA OneLines ==
  /\ p1test[1] = Reg("winAddr", 1)
  /\ \A n \in 2 .. Letters + 2 : p1test[n] = Op("winData", 0, Hello[n - 1])
  /\ p1test[Letters + 3] = Reg("startPc", 1)
  /\ p1test[OneFwd] = Reg("run", 1)
  /\ \A n \in OneFwd + 1 .. OnePark : p1test[n] = Reg(FwdOp(n - OneFwd - 1), 0)
  /\ p1test[OnePark + 1] = Reg("parkWait", 0)
  /\ p1test[OnePark + 2] = Reg("checkCtrl", 0)
  /\ p1test[OnePark + 3] = Put("P1_PASS")
  /\ p1test[OnePark + 4] = Reg("halt", 0)
  /\ p1test[OnePark + 5] = Put("P1_FAIL")
  /\ p1test[OnePark + 6] = Reg("halt", 0)
<1>1. /\ p1test[1] = Reg("winAddr", 1)
      /\ \A n \in 2 .. Letters + 2 : p1test[n] = Op("winData", 0, Hello[n - 1])
  <2> DEFINE s == window_load(Hello)
  <2>1. Holds(p1test, 0, s)
    BY Zenon, CodeOne
  <2>2. Len(s) = (Letters + 1) + 1 /\ s[1] = Reg("winAddr", 1)
        /\ \A i \in 1 .. (Letters + 1) : s[i + 1] = Op("winData", 0, Hello[i])
    BY ImageLens, PieceWindow, Sizes
  <2> HIDE DEF s
  <2>3. 0 \in Nat /\ Letters + 2 \in Nat /\ Holds(p1test, 0, s) /\ Len(s) = Letters + 2
    BY <2>1, <2>2, Sizes DEF TwoFwd, TwoData, TwoSum, OneFwd, OnePark
  <2>4. \A n \in 0 + 1 .. 0 + (Letters + 2) : p1test[n] = s[n - 0]
    BY ONLY SMT, <2>3 DEF Holds
  <2> QED BY <2>2, <2>4, Sizes DEF TwoFwd, TwoData, TwoSum, OneFwd, OnePark
<1>2. /\ p1test[Letters + 3] = Reg("startPc", 1)
      /\ p1test[OneFwd] = Reg("run", 1)
  <2> DEFINE s == <<Reg("startPc", 1), Reg("run", 1)>>
  <2>1. Holds(p1test, Letters + 2, s)
    BY Zenon, CodeOne
  <2>2. Len(s) = 2 /\ s[1] = Reg("startPc", 1) /\ s[2] = Reg("run", 1)
    OBVIOUS
  <2> HIDE DEF s
  <2>3. Letters + 2 \in Nat /\ 2 \in Nat /\ Holds(p1test, Letters + 2, s) /\ Len(s) = 2
    BY <2>1, <2>2, Sizes DEF TwoFwd, TwoData, TwoSum, OneFwd, OnePark
  <2>4. \A n \in Letters + 2 + 1 .. Letters + 2 + 2 : p1test[n] = s[n - (Letters + 2)]
    BY ONLY SMT, <2>3 DEF Holds
  <2> QED BY <2>2, <2>4, Sizes DEF TwoFwd, TwoData, TwoSum, OneFwd, OnePark
<1>3. \A n \in OneFwd + 1 .. OnePark : p1test[n] = Reg(FwdOp(n - OneFwd - 1), 0)
  <2> DEFINE s == Forward(Letters)
  <2>1. Holds(p1test, OneFwd, s)
    BY Zenon, CodeOne
  <2>2. Len(s) = 3 * Letters /\ \A k \in 1 .. 3 * Letters : s[k] = Reg(FwdOp(k - 1), 0)
    BY PieceForward, Sizes
  <2> HIDE DEF s
  <2>3. OneFwd \in Nat /\ 3 * Letters \in Nat /\ Holds(p1test, OneFwd, s) /\ Len(s) = 3 * Letters
    BY <2>1, <2>2, Sizes DEF TwoFwd, TwoData, TwoSum, OneFwd, OnePark
  <2>4. \A n \in OneFwd + 1 .. OneFwd + 3 * Letters : p1test[n] = s[n - OneFwd]
    BY ONLY SMT, <2>3 DEF Holds
  <2> QED BY <2>2, <2>4, Sizes DEF TwoFwd, TwoData, TwoSum, OneFwd, OnePark
<1>4. /\ p1test[OnePark + 1] = Reg("parkWait", 0)
      /\ p1test[OnePark + 2] = Reg("checkCtrl", 0)
  <2> DEFINE s == <<Reg("parkWait", 0), Reg("checkCtrl", 0)>>
  <2>1. Holds(p1test, OnePark, s)
    BY Zenon, CodeOne
  <2>2. Len(s) = 2 /\ s[1] = Reg("parkWait", 0) /\ s[2] = Reg("checkCtrl", 0)
    OBVIOUS
  <2> HIDE DEF s
  <2>3. OnePark \in Nat /\ 2 \in Nat /\ Holds(p1test, OnePark, s) /\ Len(s) = 2
    BY <2>1, <2>2, Sizes DEF TwoFwd, TwoData, TwoSum, OneFwd, OnePark
  <2>4. \A n \in OnePark + 1 .. OnePark + 2 : p1test[n] = s[n - OnePark]
    BY ONLY SMT, <2>3 DEF Holds
  <2> QED BY <2>2, <2>4, Sizes DEF TwoFwd, TwoData, TwoSum, OneFwd, OnePark
<1>5. /\ p1test[OnePark + 3] = Put("P1_PASS")
      /\ p1test[OnePark + 4] = Reg("halt", 0)
      /\ p1test[OnePark + 5] = Put("P1_FAIL")
      /\ p1test[OnePark + 6] = Reg("halt", 0)
  <2> DEFINE s == Verdict("P1_PASS", "P1_FAIL")
  <2>1. Holds(p1test, OnePark + 2, s)
    BY Zenon, CodeOne
  <2>2. Len(s) = 4 /\ s[1] = Put("P1_PASS") /\ s[2] = Reg("halt", 0) /\ s[3] = Put("P1_FAIL")
        /\ s[4] = Reg("halt", 0)
    BY PieceVerdict, InMore
  <2> HIDE DEF s
  <2>3. OnePark + 2 \in Nat /\ 4 \in Nat /\ Holds(p1test, OnePark + 2, s) /\ Len(s) = 4
    BY <2>1, <2>2, Sizes DEF TwoFwd, TwoData, TwoSum, OneFwd, OnePark
  <2>4. \A n \in OnePark + 2 + 1 .. OnePark + 2 + 4 : p1test[n] = s[n - (OnePark + 2)]
    BY ONLY SMT, <2>3 DEF Holds
  <2> QED BY <2>2, <2>4, Sizes DEF TwoFwd, TwoData, TwoSum, OneFwd, OnePark
<1> QED BY <1>1, <1>2, <1>3, <1>4, <1>5

LEMMA TwoLines ==
  /\ \A n \in 1 .. Letters + 1 : p2test[n] = Store(DdrBase + n, Hello[n])
  /\ p2test[Letters + 2] = Op("maint", 0, Dword("FLUSH", "text", 0))
  /\ p2test[Letters + 3] = Reg("mntWait", 0)
  /\ p2test[Letters + 4] = Reg("startPc", DdrBase + 1)
  /\ p2test[Letters + 5] = Reg("run", 0)
  /\ p2test[TwoFwd] = Reg("run", 1)
  /\ \A n \in TwoFwd + 1 .. TwoData - 2 : p2test[n] = Reg(FwdOp(n - TwoFwd - 1), 0)
  /\ p2test[TwoData - 1] = Reg("parkWait", 0)
  /\ p2test[TwoData] = Reg("run", 0)
  /\ \A n \in TwoData + 1 .. TwoSum : p2test[n] = Store(DataBase + (n - TwoData), Data[n - TwoData])
  /\ p2test[TwoSum + 1] = Op("maint", 0, Dword("FLUSH", "text", 0))
  /\ p2test[TwoSum + 2] = Reg("mntWait", 0)
  /\ p2test[TwoSum + 3] = Reg("winAddr", 1)
  /\ \A n \in TwoSum + 4 .. TwoSum + 9 : p2test[n] = Op("winData", 0, DdrSum[n - TwoSum - 3])
  /\ p2test[TwoSum + 10] = Reg("startPc", 1)
  /\ p2test[TwoSum + 11] = Reg("run", 0)
  /\ p2test[TwoSum + 12] = Reg("run", 1)
  /\ \A n \in TwoSum + 13 .. TwoSum + 15 : p2test[n] = Reg(FwdOp(n - TwoSum - 13), 0)
  /\ p2test[TwoSum + 16] = Reg("parkWait", 0)
  /\ p2test[TwoSum + 17] = Reg("run", 0)
  /\ p2test[TwoSum + 18] = Op("maint", 0, Dword("INVALIDATE", "text", 0))
  /\ p2test[TwoSum + 19] = Reg("mntWait", 0)
  /\ p2test[TwoSum + 20] = Reg("load", Result)
  /\ p2test[TwoSum + 21] = Reg("checkSum", Total)
  /\ p2test[TwoSum + 22] = Put("P2_PASS")
  /\ p2test[TwoSum + 23] = Reg("halt", 0)
  /\ p2test[TwoSum + 24] = Put("P2_FAIL")
  /\ p2test[TwoSum + 25] = Reg("halt", 0)
<1>1. \A n \in 1 .. Letters + 1 : p2test[n] = Store(DdrBase + n, Hello[n])
  <2> DEFINE s == StoreImage(DdrBase, Hello)
  <2>1. Holds(p2test, 0, s)
    BY Zenon, CodeTwo
  <2>2. Len(s) = (Letters + 1) /\ \A i \in 1 .. (Letters + 1) : s[i] = Store(DdrBase + i, Hello[i])
    <3>1. Hello \in Seq(Dwords) /\ Len(Hello) = (Letters + 1) /\ DdrBase \in Int
      BY ImageLens, Sizes
    <3> QED BY <3>1, PieceStore
  <2> HIDE DEF s
  <2>3. 0 \in Nat /\ Letters + 1 \in Nat /\ Holds(p2test, 0, s) /\ Len(s) = Letters + 1
    BY <2>1, <2>2, Sizes DEF TwoFwd, TwoData, TwoSum, OneFwd, OnePark
  <2>4. \A n \in 0 + 1 .. 0 + (Letters + 1) : p2test[n] = s[n - 0]
    BY ONLY SMT, <2>3 DEF Holds
  <2> QED BY <2>2, <2>4, Sizes DEF TwoFwd, TwoData, TwoSum, OneFwd, OnePark
<1>2. /\ p2test[Letters + 2] = Op("maint", 0, Dword("FLUSH", "text", 0))
      /\ p2test[Letters + 3] = Reg("mntWait", 0)
  <2> DEFINE s == flush("FLUSH")
  <2>1. Holds(p2test, Letters + 1, s)
    BY Zenon, CodeTwo
  <2>2. Len(s) = 2 /\ s[1] = Op("maint", 0, Dword("FLUSH", "text", 0)) /\ s[2] = Reg("mntWait", 0)
    BY PieceFlush, InMore
  <2> HIDE DEF s
  <2>3. Letters + 1 \in Nat /\ 2 \in Nat /\ Holds(p2test, Letters + 1, s) /\ Len(s) = 2
    BY <2>1, <2>2, Sizes DEF TwoFwd, TwoData, TwoSum, OneFwd, OnePark
  <2>4. \A n \in Letters + 1 + 1 .. Letters + 1 + 2 : p2test[n] = s[n - (Letters + 1)]
    BY ONLY SMT, <2>3 DEF Holds
  <2> QED BY <2>2, <2>4, Sizes DEF TwoFwd, TwoData, TwoSum, OneFwd, OnePark
<1>3. /\ p2test[Letters + 4] = Reg("startPc", DdrBase + 1)
      /\ p2test[Letters + 5] = Reg("run", 0)
      /\ p2test[TwoFwd] = Reg("run", 1)
  <2> DEFINE s == start_core2(DdrBase + 1)
  <2>1. Holds(p2test, Letters + 3, s)
    BY Zenon, CodeTwo
  <2>2. Len(s) = 3 /\ s[1] = Reg("startPc", DdrBase + 1) /\ s[2] = Reg("run", 0) /\ s[3] = Reg("run", 1)
    <3>1. DdrBase + 1 \in Int
      BY Sizes
    <3> QED BY <3>1, PieceStart
  <2> HIDE DEF s
  <2>3. Letters + 3 \in Nat /\ 3 \in Nat /\ Holds(p2test, Letters + 3, s) /\ Len(s) = 3
    BY <2>1, <2>2, Sizes DEF TwoFwd, TwoData, TwoSum, OneFwd, OnePark
  <2>4. \A n \in Letters + 3 + 1 .. Letters + 3 + 3 : p2test[n] = s[n - (Letters + 3)]
    BY ONLY SMT, <2>3 DEF Holds
  <2> QED BY <2>2, <2>4, Sizes DEF TwoFwd, TwoData, TwoSum, OneFwd, OnePark
<1>4. /\ \A n \in TwoFwd + 1 .. TwoData - 2 : p2test[n] = Reg(FwdOp(n - TwoFwd - 1), 0)
      /\ p2test[TwoData - 1] = Reg("parkWait", 0)
      /\ p2test[TwoData] = Reg("run", 0)
  <2> DEFINE s == drain(Letters)
  <2>1. Holds(p2test, TwoFwd, s)
    BY Zenon, CodeTwo
  <2>2. /\ Len(s) = 3 * Letters + 2
        /\ \A k \in 1 .. 3 * Letters : s[k] = Reg(FwdOp(k - 1), 0)
        /\ s[3 * Letters + 1] = Reg("parkWait", 0) /\ s[3 * Letters + 2] = Reg("run", 0)
    <3>1. Letters \in Nat
      BY Sizes
    <3> QED BY <3>1, PieceDrain
  <2> HIDE DEF s
  <2>3. TwoFwd \in Nat /\ 3 * Letters + 2 \in Nat /\ Holds(p2test, TwoFwd, s) /\ Len(s) = 3 * Letters + 2
    BY <2>1, <2>2, Sizes DEF TwoFwd, TwoData, TwoSum, OneFwd, OnePark
  <2>4. \A n \in TwoFwd + 1 .. TwoFwd + (3 * Letters + 2) : p2test[n] = s[n - TwoFwd]
    BY ONLY SMT, <2>3 DEF Holds
  <2>5. TwoFwd \in Nat /\ Letters \in Nat /\ TwoData = TwoFwd + 3 * Letters + 2
    BY Sizes DEF TwoFwd, TwoData
  <2>6. ASSUME NEW n \in TwoFwd + 1 .. TwoData - 2 PROVE p2test[n] = Reg(FwdOp(n - TwoFwd - 1), 0)
    <3>1. n \in TwoFwd + 1 .. TwoFwd + (3 * Letters + 2) /\ n - TwoFwd \in 1 .. 3 * Letters
      BY <2>5
    <3> QED BY Zenon, <2>2, <2>4, <3>1
  <2>7. /\ TwoData - 1 \in TwoFwd + 1 .. TwoFwd + (3 * Letters + 2)
        /\ (TwoData - 1) - TwoFwd = 3 * Letters + 1
        /\ TwoData \in TwoFwd + 1 .. TwoFwd + (3 * Letters + 2)
        /\ TwoData - TwoFwd = 3 * Letters + 2
    BY <2>5
  <2>8. p2test[TwoData - 1] = Reg("parkWait", 0)
    <3>1. p2test[TwoData - 1] = s[(TwoData - 1) - TwoFwd]
      BY Zenon, <2>4, <2>7
    <3>2. s[(TwoData - 1) - TwoFwd] = s[3 * Letters + 1]
      BY Zenon, <2>7
    <3> QED BY <2>2, <3>1, <3>2
  <2>9. p2test[TwoData] = Reg("run", 0)
    <3>1. p2test[TwoData] = s[TwoData - TwoFwd]
      BY Zenon, <2>4, <2>7
    <3> QED BY <2>2, <2>7, <3>1
  <2> QED BY <2>6, <2>8, <2>9
<1>5. \A n \in TwoData + 1 .. TwoSum : p2test[n] = Store(DataBase + (n - TwoData), Data[n - TwoData])
  <2> DEFINE s == StoreImage(DataBase, Data)
  <2>1. Holds(p2test, TwoData, s)
    BY Zenon, CodeTwo
  <2>2. Len(s) = Items /\ \A i \in 1 .. Items : s[i] = Store(DataBase + i, Data[i])
    <3>1. Data \in Seq(Dwords) /\ Len(Data) = Items /\ DataBase \in Int
      BY ImageLens, Sizes
    <3> QED BY <3>1, PieceStore
  <2> HIDE DEF s
  <2>3. TwoData \in Nat /\ Items \in Nat /\ Holds(p2test, TwoData, s) /\ Len(s) = Items
    BY <2>1, <2>2, Sizes DEF TwoFwd, TwoData, TwoSum, OneFwd, OnePark
  <2>4. \A n \in TwoData + 1 .. TwoData + Items : p2test[n] = s[n - TwoData]
    BY ONLY SMT, <2>3 DEF Holds
  <2>5. ASSUME NEW n \in TwoData + 1 .. TwoSum
        PROVE  p2test[n] = Store(DataBase + (n - TwoData), Data[n - TwoData])
    <3>1. n \in TwoData + 1 .. TwoData + Items /\ n - TwoData \in 1 .. Items
      BY <2>3 DEF TwoSum
    <3> QED BY Zenon, <2>2, <2>4, <3>1
  <2> QED BY <2>5
<1>6. /\ p2test[TwoSum + 1] = Op("maint", 0, Dword("FLUSH", "text", 0))
      /\ p2test[TwoSum + 2] = Reg("mntWait", 0)
  <2> DEFINE s == flush("FLUSH")
  <2>1. Holds(p2test, TwoSum, s)
    BY Zenon, CodeTwo
  <2>2. Len(s) = 2 /\ s[1] = Op("maint", 0, Dword("FLUSH", "text", 0)) /\ s[2] = Reg("mntWait", 0)
    BY PieceFlush, InMore
  <2> HIDE DEF s
  <2>3. TwoSum \in Nat /\ 2 \in Nat /\ Holds(p2test, TwoSum, s) /\ Len(s) = 2
    BY <2>1, <2>2, Sizes DEF TwoFwd, TwoData, TwoSum, OneFwd, OnePark
  <2>4. \A n \in TwoSum + 1 .. TwoSum + 2 : p2test[n] = s[n - TwoSum]
    BY ONLY SMT, <2>3 DEF Holds
  <2> QED BY <2>2, <2>4, Sizes DEF TwoFwd, TwoData, TwoSum, OneFwd, OnePark
<1>7. /\ p2test[TwoSum + 3] = Reg("winAddr", 1)
      /\ \A n \in TwoSum + 4 .. TwoSum + 9 : p2test[n] = Op("winData", 0, DdrSum[n - TwoSum - 3])
  <2> DEFINE s == window_load(DdrSum)
  <2>1. Holds(p2test, TwoSum + 2, s)
    BY Zenon, CodeTwo
  <2>2. Len(s) = 6 + 1 /\ s[1] = Reg("winAddr", 1)
        /\ \A i \in 1 .. 6 : s[i + 1] = Op("winData", 0, DdrSum[i])
    BY ImageLens, PieceWindow, Sizes
  <2> HIDE DEF s
  <2>3. TwoSum + 2 \in Nat /\ 7 \in Nat /\ Holds(p2test, TwoSum + 2, s) /\ Len(s) = 7
    BY <2>1, <2>2, Sizes DEF TwoFwd, TwoData, TwoSum, OneFwd, OnePark
  <2>4. \A n \in TwoSum + 2 + 1 .. TwoSum + 2 + 7 : p2test[n] = s[n - (TwoSum + 2)]
    BY ONLY SMT, <2>3 DEF Holds
  <2> QED BY <2>2, <2>4, Sizes DEF TwoFwd, TwoData, TwoSum, OneFwd, OnePark
<1>8. /\ p2test[TwoSum + 10] = Reg("startPc", 1)
      /\ p2test[TwoSum + 11] = Reg("run", 0)
      /\ p2test[TwoSum + 12] = Reg("run", 1)
  <2> DEFINE s == start_core2(1)
  <2>1. Holds(p2test, TwoSum + 9, s)
    BY Zenon, CodeTwo
  <2>2. Len(s) = 3 /\ s[1] = Reg("startPc", 1) /\ s[2] = Reg("run", 0) /\ s[3] = Reg("run", 1)
    <3>1. 1 \in Int
      BY Sizes
    <3> QED BY <3>1, PieceStart
  <2> HIDE DEF s
  <2>3. TwoSum + 9 \in Nat /\ 3 \in Nat /\ Holds(p2test, TwoSum + 9, s) /\ Len(s) = 3
    BY <2>1, <2>2, Sizes DEF TwoFwd, TwoData, TwoSum, OneFwd, OnePark
  <2>4. \A n \in TwoSum + 9 + 1 .. TwoSum + 9 + 3 : p2test[n] = s[n - (TwoSum + 9)]
    BY ONLY SMT, <2>3 DEF Holds
  <2> QED BY <2>2, <2>4, Sizes DEF TwoFwd, TwoData, TwoSum, OneFwd, OnePark
<1>9. /\ \A n \in TwoSum + 13 .. TwoSum + 15 : p2test[n] = Reg(FwdOp(n - TwoSum - 13), 0)
      /\ p2test[TwoSum + 16] = Reg("parkWait", 0)
      /\ p2test[TwoSum + 17] = Reg("run", 0)
  <2> DEFINE s == drain(1)
  <2>1. Holds(p2test, TwoSum + 12, s)
    BY Zenon, CodeTwo
  <2>2. /\ Len(s) = 3 * 1 + 2
        /\ \A k \in 1 .. 3 * 1 : s[k] = Reg(FwdOp(k - 1), 0)
        /\ s[3 * 1 + 1] = Reg("parkWait", 0) /\ s[3 * 1 + 2] = Reg("run", 0)
    <3>1. 1 \in Nat
      BY Sizes
    <3> QED BY <3>1, PieceDrain
  <2> HIDE DEF s
  <2>3. TwoSum + 12 \in Nat /\ 5 \in Nat /\ Holds(p2test, TwoSum + 12, s) /\ Len(s) = 5
    BY <2>1, <2>2, Sizes DEF TwoFwd, TwoData, TwoSum, OneFwd, OnePark
  <2>4. \A n \in TwoSum + 12 + 1 .. TwoSum + 12 + 5 : p2test[n] = s[n - (TwoSum + 12)]
    BY ONLY SMT, <2>3 DEF Holds
  <2> QED BY <2>2, <2>4, Sizes DEF TwoFwd, TwoData, TwoSum, OneFwd, OnePark
<1>10. /\ p2test[TwoSum + 18] = Op("maint", 0, Dword("INVALIDATE", "text", 0))
      /\ p2test[TwoSum + 19] = Reg("mntWait", 0)
  <2> DEFINE s == flush("INVALIDATE")
  <2>1. Holds(p2test, TwoSum + 17, s)
    BY Zenon, CodeTwo
  <2>2. Len(s) = 2 /\ s[1] = Op("maint", 0, Dword("INVALIDATE", "text", 0)) /\ s[2] = Reg("mntWait", 0)
    BY PieceFlush, InMore
  <2> HIDE DEF s
  <2>3. TwoSum + 17 \in Nat /\ 2 \in Nat /\ Holds(p2test, TwoSum + 17, s) /\ Len(s) = 2
    BY <2>1, <2>2, Sizes DEF TwoFwd, TwoData, TwoSum, OneFwd, OnePark
  <2>4. \A n \in TwoSum + 17 + 1 .. TwoSum + 17 + 2 : p2test[n] = s[n - (TwoSum + 17)]
    BY ONLY SMT, <2>3 DEF Holds
  <2> QED BY <2>2, <2>4, Sizes DEF TwoFwd, TwoData, TwoSum, OneFwd, OnePark
<1>11. /\ p2test[TwoSum + 20] = Reg("load", Result)
      /\ p2test[TwoSum + 21] = Reg("checkSum", Total)
  <2> DEFINE s == <<Reg("load", Result), Reg("checkSum", Total)>>
  <2>1. Holds(p2test, TwoSum + 19, s)
    BY Zenon, CodeTwo
  <2>2. Len(s) = 2 /\ s[1] = Reg("load", Result) /\ s[2] = Reg("checkSum", Total)
    OBVIOUS
  <2> HIDE DEF s
  <2>3. TwoSum + 19 \in Nat /\ 2 \in Nat /\ Holds(p2test, TwoSum + 19, s) /\ Len(s) = 2
    BY <2>1, <2>2, Sizes DEF TwoFwd, TwoData, TwoSum, OneFwd, OnePark
  <2>4. \A n \in TwoSum + 19 + 1 .. TwoSum + 19 + 2 : p2test[n] = s[n - (TwoSum + 19)]
    BY ONLY SMT, <2>3 DEF Holds
  <2> QED BY <2>2, <2>4, Sizes DEF TwoFwd, TwoData, TwoSum, OneFwd, OnePark
<1>12. /\ p2test[TwoSum + 22] = Put("P2_PASS")
      /\ p2test[TwoSum + 23] = Reg("halt", 0)
      /\ p2test[TwoSum + 24] = Put("P2_FAIL")
      /\ p2test[TwoSum + 25] = Reg("halt", 0)
  <2> DEFINE s == Verdict("P2_PASS", "P2_FAIL")
  <2>1. Holds(p2test, TwoSum + 21, s)
    BY Zenon, CodeTwo
  <2>2. Len(s) = 4 /\ s[1] = Put("P2_PASS") /\ s[2] = Reg("halt", 0) /\ s[3] = Put("P2_FAIL")
        /\ s[4] = Reg("halt", 0)
    BY PieceVerdict, InMore
  <2> HIDE DEF s
  <2>3. TwoSum + 21 \in Nat /\ 4 \in Nat /\ Holds(p2test, TwoSum + 21, s) /\ Len(s) = 4
    BY <2>1, <2>2, Sizes DEF TwoFwd, TwoData, TwoSum, OneFwd, OnePark
  <2>4. \A n \in TwoSum + 21 + 1 .. TwoSum + 21 + 4 : p2test[n] = s[n - (TwoSum + 21)]
    BY ONLY SMT, <2>3 DEF Holds
  <2> QED BY <2>2, <2>4, Sizes DEF TwoFwd, TwoData, TwoSum, OneFwd, OnePark
<1> QED BY <1>1, <1>2, <1>3, <1>4, <1>5, <1>6, <1>7, <1>8, <1>9, <1>10, <1>11, <1>12

LEMMA TimedLines ==
  /\ p2btest[1] = Reg("winAddr", 1)
  /\ \A n \in 2 .. 4 : p2btest[n] = Op("winData", 0, LoopLocal[n - 1])
  /\ p2btest[5] = Reg("clock", 0)
  /\ p2btest[6] = Reg("startPc", 1)
  /\ p2btest[7] = Reg("run", 0)
  /\ p2btest[8] = Reg("run", 1)
  /\ p2btest[9] = Reg("parkWait", 0)
  /\ p2btest[10] = Reg("run", 0)
  /\ p2btest[11] = Reg("elapsed", 0)
  /\ p2btest[12] = Put("L=")
  /\ p2btest[13] = Reg("print_hex64", 0)
  /\ \A n \in 14 .. 16 : p2btest[n] = Store(DdrBase + (n - 13), LoopDdr[n - 13])
  /\ p2btest[17] = Op("maint", 0, Dword("FLUSH", "text", 0))
  /\ p2btest[18] = Reg("mntWait", 0)
  /\ p2btest[19] = Reg("clock", 0)
  /\ p2btest[20] = Reg("startPc", DdrBase + 1)
  /\ p2btest[21] = Reg("run", 0)
  /\ p2btest[22] = Reg("run", 1)
  /\ p2btest[23] = Reg("parkWait", 0)
  /\ p2btest[24] = Reg("run", 0)
  /\ p2btest[25] = Reg("elapsed", 0)
  /\ p2btest[26] = Put("D=")
  /\ p2btest[27] = Reg("print_hex64", 0)
  /\ p2btest[28] = Put("P2B_DONE")
  /\ p2btest[29] = Reg("halt", 0)
<1>1. /\ p2btest[1] = Reg("winAddr", 1)
      /\ \A n \in 2 .. 4 : p2btest[n] = Op("winData", 0, LoopLocal[n - 1])
  <2> DEFINE s == window_load(LoopLocal)
  <2>1. Holds(p2btest, 0, s)
    BY Zenon, CodeTimed
  <2>2. Len(s) = 3 + 1 /\ s[1] = Reg("winAddr", 1)
        /\ \A i \in 1 .. 3 : s[i + 1] = Op("winData", 0, LoopLocal[i])
    BY ImageLens, PieceWindow, Sizes
  <2> HIDE DEF s
  <2>3. 0 \in Nat /\ 4 \in Nat /\ Holds(p2btest, 0, s) /\ Len(s) = 4
    BY <2>1, <2>2, Sizes DEF TwoFwd, TwoData, TwoSum, OneFwd, OnePark
  <2>4. \A n \in 0 + 1 .. 0 + 4 : p2btest[n] = s[n - 0]
    BY ONLY SMT, <2>3 DEF Holds
  <2> QED BY <2>2, <2>4, Sizes DEF TwoFwd, TwoData, TwoSum, OneFwd, OnePark
<1>2. /\ p2btest[5] = Reg("clock", 0)
      /\ p2btest[6] = Reg("startPc", 1)
      /\ p2btest[7] = Reg("run", 0)
      /\ p2btest[8] = Reg("run", 1)
      /\ p2btest[9] = Reg("parkWait", 0)
      /\ p2btest[10] = Reg("run", 0)
      /\ p2btest[11] = Reg("elapsed", 0)
      /\ p2btest[12] = Put("L=")
      /\ p2btest[13] = Reg("print_hex64", 0)
  <2> DEFINE s == run_timed(1, "L=")
  <2>1. Holds(p2btest, 4, s)
    BY Zenon, CodeTimed
  <2>2. /\ Len(s) = 9 /\ s[1] = Reg("clock", 0) /\ s[2] = Reg("startPc", 1) /\ s[3] = Reg("run", 0) /\ s[4] = Reg("run", 1)
        /\ s[5] = Reg("parkWait", 0) /\ s[6] = Reg("run", 0) /\ s[7] = Reg("elapsed", 0)
        /\ s[8] = Put("L=") /\ s[9] = Reg("print_hex64", 0)
    <3>0. 1 \in Int
      BY Sizes
    <3>1. 1 \in Int /\ "L=" \in Messages
      BY Zenon, <3>0, InMore
    <3> QED BY <3>1, PieceTimed
  <2> HIDE DEF s
  <2>3. 4 \in Nat /\ 9 \in Nat /\ Holds(p2btest, 4, s) /\ Len(s) = 9
    BY <2>1, <2>2, Sizes DEF TwoFwd, TwoData, TwoSum, OneFwd, OnePark
  <2>4. \A n \in 4 + 1 .. 4 + 9 : p2btest[n] = s[n - 4]
    BY ONLY SMT, <2>3 DEF Holds
  <2> QED BY <2>2, <2>4, Sizes DEF TwoFwd, TwoData, TwoSum, OneFwd, OnePark
<1>3. \A n \in 14 .. 16 : p2btest[n] = Store(DdrBase + (n - 13), LoopDdr[n - 13])
  <2> DEFINE s == StoreImage(DdrBase, LoopDdr)
  <2>1. Holds(p2btest, 13, s)
    BY Zenon, CodeTimed
  <2>2. Len(s) = 3 /\ \A i \in 1 .. 3 : s[i] = Store(DdrBase + i, LoopDdr[i])
    <3>1. LoopDdr \in Seq(Dwords) /\ Len(LoopDdr) = 3 /\ DdrBase \in Int
      BY ImageLens, Sizes
    <3> QED BY <3>1, PieceStore
  <2> HIDE DEF s
  <2>3. 13 \in Nat /\ 3 \in Nat /\ Holds(p2btest, 13, s) /\ Len(s) = 3
    BY <2>1, <2>2, Sizes DEF TwoFwd, TwoData, TwoSum, OneFwd, OnePark
  <2>4. \A n \in 13 + 1 .. 13 + 3 : p2btest[n] = s[n - 13]
    BY ONLY SMT, <2>3 DEF Holds
  <2> QED BY <2>2, <2>4, Sizes DEF TwoFwd, TwoData, TwoSum, OneFwd, OnePark
<1>4. /\ p2btest[17] = Op("maint", 0, Dword("FLUSH", "text", 0))
      /\ p2btest[18] = Reg("mntWait", 0)
  <2> DEFINE s == flush("FLUSH")
  <2>1. Holds(p2btest, 16, s)
    BY Zenon, CodeTimed
  <2>2. Len(s) = 2 /\ s[1] = Op("maint", 0, Dword("FLUSH", "text", 0)) /\ s[2] = Reg("mntWait", 0)
    BY PieceFlush, InMore
  <2> HIDE DEF s
  <2>3. 16 \in Nat /\ 2 \in Nat /\ Holds(p2btest, 16, s) /\ Len(s) = 2
    BY <2>1, <2>2, Sizes DEF TwoFwd, TwoData, TwoSum, OneFwd, OnePark
  <2>4. \A n \in 16 + 1 .. 16 + 2 : p2btest[n] = s[n - 16]
    BY ONLY SMT, <2>3 DEF Holds
  <2> QED BY <2>2, <2>4, Sizes DEF TwoFwd, TwoData, TwoSum, OneFwd, OnePark
<1>5. /\ p2btest[19] = Reg("clock", 0)
      /\ p2btest[20] = Reg("startPc", DdrBase + 1)
      /\ p2btest[21] = Reg("run", 0)
      /\ p2btest[22] = Reg("run", 1)
      /\ p2btest[23] = Reg("parkWait", 0)
      /\ p2btest[24] = Reg("run", 0)
      /\ p2btest[25] = Reg("elapsed", 0)
      /\ p2btest[26] = Put("D=")
      /\ p2btest[27] = Reg("print_hex64", 0)
  <2> DEFINE s == run_timed(DdrBase + 1, "D=")
  <2>1. Holds(p2btest, 18, s)
    BY Zenon, CodeTimed
  <2>2. /\ Len(s) = 9 /\ s[1] = Reg("clock", 0) /\ s[2] = Reg("startPc", DdrBase + 1) /\ s[3] = Reg("run", 0) /\ s[4] = Reg("run", 1)
        /\ s[5] = Reg("parkWait", 0) /\ s[6] = Reg("run", 0) /\ s[7] = Reg("elapsed", 0)
        /\ s[8] = Put("D=") /\ s[9] = Reg("print_hex64", 0)
    <3>0. DdrBase + 1 \in Int
      BY Sizes
    <3>1. DdrBase + 1 \in Int /\ "D=" \in Messages
      BY Zenon, <3>0, InMore
    <3> QED BY <3>1, PieceTimed
  <2> HIDE DEF s
  <2>3. 18 \in Nat /\ 9 \in Nat /\ Holds(p2btest, 18, s) /\ Len(s) = 9
    BY <2>1, <2>2, Sizes DEF TwoFwd, TwoData, TwoSum, OneFwd, OnePark
  <2>4. \A n \in 18 + 1 .. 18 + 9 : p2btest[n] = s[n - 18]
    BY ONLY SMT, <2>3 DEF Holds
  <2> QED BY <2>2, <2>4, Sizes DEF TwoFwd, TwoData, TwoSum, OneFwd, OnePark
<1>6. /\ p2btest[28] = Put("P2B_DONE")
      /\ p2btest[29] = Reg("halt", 0)
  <2> DEFINE s == <<Put("P2B_DONE"), Reg("halt", 0)>>
  <2>1. Holds(p2btest, 27, s)
    BY Zenon, CodeTimed
  <2>2. Len(s) = 2 /\ s[1] = Put("P2B_DONE") /\ s[2] = Reg("halt", 0)
    OBVIOUS
  <2> HIDE DEF s
  <2>3. 27 \in Nat /\ 2 \in Nat /\ Holds(p2btest, 27, s) /\ Len(s) = 2
    BY <2>1, <2>2, Sizes DEF TwoFwd, TwoData, TwoSum, OneFwd, OnePark
  <2>4. \A n \in 27 + 1 .. 27 + 2 : p2btest[n] = s[n - 27]
    BY ONLY SMT, <2>3 DEF Holds
  <2> QED BY <2>2, <2>4, Sizes DEF TwoFwd, TwoData, TwoSum, OneFwd, OnePark
<1> QED BY <1>1, <1>2, <1>3, <1>4, <1>5, <1>6

LEMMA SpinLines ==
  /\ spinload[1] = Reg("winAddr", 1)
  /\ \A n \in 2 .. 3 : spinload[n] = Op("winData", 0, Spin[n - 1])
  /\ spinload[4] = Reg("startPc", 1)
  /\ spinload[5] = Reg("run", 0)
  /\ spinload[6] = Reg("run", 1)
  /\ spinload[7] = Put("core2_spinning")
  /\ spinload[8] = Reg("halt", 0)
<1>1. /\ spinload[1] = Reg("winAddr", 1)
      /\ \A n \in 2 .. 3 : spinload[n] = Op("winData", 0, Spin[n - 1])
  <2> DEFINE s == window_load(Spin)
  <2>1. Holds(spinload, 0, s)
    BY Zenon, CodeSpin
  <2>2. Len(s) = 2 + 1 /\ s[1] = Reg("winAddr", 1)
        /\ \A i \in 1 .. 2 : s[i + 1] = Op("winData", 0, Spin[i])
    BY ImageLens, PieceWindow, Sizes
  <2> HIDE DEF s
  <2>3. 0 \in Nat /\ 3 \in Nat /\ Holds(spinload, 0, s) /\ Len(s) = 3
    BY <2>1, <2>2, Sizes DEF TwoFwd, TwoData, TwoSum, OneFwd, OnePark
  <2>4. \A n \in 0 + 1 .. 0 + 3 : spinload[n] = s[n - 0]
    BY ONLY SMT, <2>3 DEF Holds
  <2> QED BY <2>2, <2>4, Sizes DEF TwoFwd, TwoData, TwoSum, OneFwd, OnePark
<1>2. /\ spinload[4] = Reg("startPc", 1)
      /\ spinload[5] = Reg("run", 0)
      /\ spinload[6] = Reg("run", 1)
  <2> DEFINE s == start_core2(1)
  <2>1. Holds(spinload, 3, s)
    BY Zenon, CodeSpin
  <2>2. Len(s) = 3 /\ s[1] = Reg("startPc", 1) /\ s[2] = Reg("run", 0) /\ s[3] = Reg("run", 1)
    <3>1. 1 \in Int
      BY Sizes
    <3> QED BY <3>1, PieceStart
  <2> HIDE DEF s
  <2>3. 3 \in Nat /\ 3 \in Nat /\ Holds(spinload, 3, s) /\ Len(s) = 3
    BY <2>1, <2>2, Sizes DEF TwoFwd, TwoData, TwoSum, OneFwd, OnePark
  <2>4. \A n \in 3 + 1 .. 3 + 3 : spinload[n] = s[n - 3]
    BY ONLY SMT, <2>3 DEF Holds
  <2> QED BY <2>2, <2>4, Sizes DEF TwoFwd, TwoData, TwoSum, OneFwd, OnePark
<1>3. /\ spinload[7] = Put("core2_spinning")
      /\ spinload[8] = Reg("halt", 0)
  <2> DEFINE s == <<Put("core2_spinning"), Reg("halt", 0)>>
  <2>1. Holds(spinload, 6, s)
    BY Zenon, CodeSpin
  <2>2. Len(s) = 2 /\ s[1] = Put("core2_spinning") /\ s[2] = Reg("halt", 0)
    OBVIOUS
  <2> HIDE DEF s
  <2>3. 6 \in Nat /\ 2 \in Nat /\ Holds(spinload, 6, s) /\ Len(s) = 2
    BY <2>1, <2>2, Sizes DEF TwoFwd, TwoData, TwoSum, OneFwd, OnePark
  <2>4. \A n \in 6 + 1 .. 6 + 2 : spinload[n] = s[n - 6]
    BY ONLY SMT, <2>3 DEF Holds
  <2> QED BY <2>2, <2>4, Sizes DEF TwoFwd, TwoData, TwoSum, OneFwd, OnePark
<1> QED BY <1>1, <1>2, <1>3

\* The name of each access by its place.
OneOp(n) ==
  IF n = 1 THEN "winAddr" ELSE IF n <= Letters + 2 THEN "winData"
  ELSE IF n = Letters + 3 THEN "startPc" ELSE IF n = OneFwd THEN "run"
  ELSE IF n <= OnePark THEN FwdOp(n - OneFwd - 1)
  ELSE IF n = OnePark + 1 THEN "parkWait" ELSE IF n = OnePark + 2 THEN "checkCtrl"
  ELSE IF n = OnePark + 4 \/ n = OnePark + 6 THEN "halt" ELSE "puts"

TwoOp(n) ==
  IF n <= Letters + 1 THEN "store" ELSE IF n = Letters + 2 THEN "maint"
  ELSE IF n = Letters + 3 THEN "mntWait" ELSE IF n = Letters + 4 THEN "startPc"
  ELSE IF n <= TwoFwd THEN "run" ELSE IF n <= TwoData - 2 THEN FwdOp(n - TwoFwd - 1)
  ELSE IF n = TwoData - 1 THEN "parkWait" ELSE IF n = TwoData THEN "run"
  ELSE IF n <= TwoSum THEN "store"
  ELSE IF n = TwoSum + 1 \/ n = TwoSum + 18 THEN "maint"
  ELSE IF n = TwoSum + 2 \/ n = TwoSum + 19 THEN "mntWait"
  ELSE IF n = TwoSum + 3 THEN "winAddr" ELSE IF n <= TwoSum + 9 THEN "winData"
  ELSE IF n = TwoSum + 10 THEN "startPc" ELSE IF n <= TwoSum + 12 THEN "run"
  ELSE IF n <= TwoSum + 15 THEN FwdOp(n - TwoSum - 13)
  ELSE IF n = TwoSum + 16 THEN "parkWait" ELSE IF n = TwoSum + 17 THEN "run"
  ELSE IF n = TwoSum + 20 THEN "load" ELSE IF n = TwoSum + 21 THEN "checkSum"
  ELSE IF n = TwoSum + 23 \/ n = TwoSum + 25 THEN "halt" ELSE "puts"

TimedOp(n) ==
  IF n = 1 THEN "winAddr" ELSE IF n <= 4 THEN "winData"
  ELSE IF n = 5 \/ n = 19 THEN "clock" ELSE IF n = 6 \/ n = 20 THEN "startPc"
  ELSE IF n \in {7, 8, 10, 21, 22, 24} THEN "run" ELSE IF n = 9 \/ n = 23 THEN "parkWait"
  ELSE IF n = 11 \/ n = 25 THEN "elapsed" ELSE IF n = 13 \/ n = 27 THEN "print_hex64"
  ELSE IF n \in 14 .. 16 THEN "store" ELSE IF n = 17 THEN "maint"
  ELSE IF n = 18 THEN "mntWait" ELSE IF n = 29 THEN "halt" ELSE "puts"

SpinOp(n) ==
  IF n = 1 THEN "winAddr" ELSE IF n <= 3 THEN "winData" ELSE IF n = 4 THEN "startPc"
  ELSE IF n <= 6 THEN "run" ELSE IF n = 7 THEN "puts" ELSE "halt"

LEMMA Fields ==
  /\ \A o, a, v : Op(o, a, v).op = o /\ Op(o, a, v).at = a /\ Op(o, a, v).val = v
  /\ \A o, n : Reg(o, n).op = o /\ Reg(o, n).at = n /\ Reg(o, n).val = Junk
  /\ \A a, v : Store(a, v).op = "store" /\ Store(a, v).at = a /\ Store(a, v).val = v
  /\ \A w : Put(w).op = "puts" /\ Put(w).at = 0 /\ Put(w).val = Dword(w, "text", 0)
BY DEF Op, Reg, Store, Put

LEMMA CodeIs ==
  /\ ProgCode["p1test"] = p1test /\ ProgCode["p2test"] = p2test
  /\ ProgCode["p2btest"] = p2btest /\ ProgCode["spinload"] = spinload
BY DEF ProgCode

LEMMA PlaceIs ==
  /\ Place("p1test") = 1 .. OnePark + 6 /\ Place("p2test") = 1 .. TwoSum + 25
  /\ Place("p2btest") = 1 .. 29 /\ Place("spinload") = 1 .. 8
<1>1. Len(p1test) = OnePark + 6 /\ Len(p2test) = TwoSum + 25
      /\ Len(p2btest) = 29 /\ Len(spinload) = 8
  BY CodeOne, CodeTwo, CodeTimed, CodeSpin
<1> QED BY <1>1, CodeIs DEF Place

LEMMA OneOps == \A n \in 1 .. OnePark + 6 : p1test[n].op = OneOp(n)
<1> SUFFICES ASSUME NEW n \in 1 .. OnePark + 6 PROVE p1test[n].op = OneOp(n)
  OBVIOUS
<1>1. CASE n = 1
  <2>1. p1test[n] = Reg("winAddr", 1)
    BY <1>1, OneLines
  <2> QED BY ONLY <1>1, <2>1, Fields, Sizes, n \in 1 .. OnePark + 6 DEF OneOp, TwoFwd, TwoData, TwoSum, OneFwd, OnePark
<1>2. CASE n \in 2 .. Letters + 2
  <2>1. p1test[n] = Op("winData", 0, Hello[n - 1])
    BY <1>2, OneLines
  <2> QED BY ONLY <1>2, <2>1, Fields, Sizes, n \in 1 .. OnePark + 6 DEF OneOp, TwoFwd, TwoData, TwoSum, OneFwd, OnePark
<1>3. CASE n = Letters + 3
  <2>1. p1test[n] = Reg("startPc", 1)
    BY <1>3, OneLines
  <2> QED BY ONLY <1>3, <2>1, Fields, Sizes, n \in 1 .. OnePark + 6 DEF OneOp, TwoFwd, TwoData, TwoSum, OneFwd, OnePark
<1>4. CASE n = OneFwd
  <2>1. p1test[n] = Reg("run", 1)
    BY <1>4, OneLines
  <2> QED BY ONLY <1>4, <2>1, Fields, Sizes, n \in 1 .. OnePark + 6 DEF OneOp, TwoFwd, TwoData, TwoSum, OneFwd, OnePark
<1>5. CASE n \in OneFwd + 1 .. OnePark
  <2>1. p1test[n] = Reg(FwdOp(n - OneFwd - 1), 0)
    BY <1>5, OneLines
  <2> QED BY ONLY <1>5, <2>1, Fields, Sizes, n \in 1 .. OnePark + 6 DEF OneOp, TwoFwd, TwoData, TwoSum, OneFwd, OnePark
<1>6. CASE n = OnePark + 1
  <2>1. p1test[n] = Reg("parkWait", 0)
    BY <1>6, OneLines
  <2> QED BY ONLY <1>6, <2>1, Fields, Sizes, n \in 1 .. OnePark + 6 DEF OneOp, TwoFwd, TwoData, TwoSum, OneFwd, OnePark
<1>7. CASE n = OnePark + 2
  <2>1. p1test[n] = Reg("checkCtrl", 0)
    BY <1>7, OneLines
  <2> QED BY ONLY <1>7, <2>1, Fields, Sizes, n \in 1 .. OnePark + 6 DEF OneOp, TwoFwd, TwoData, TwoSum, OneFwd, OnePark
<1>8. CASE n = OnePark + 3
  <2>1. p1test[n] = Put("P1_PASS")
    BY <1>8, OneLines
  <2> QED BY ONLY <1>8, <2>1, Fields, Sizes, n \in 1 .. OnePark + 6 DEF OneOp, TwoFwd, TwoData, TwoSum, OneFwd, OnePark
<1>9. CASE n = OnePark + 4
  <2>1. p1test[n] = Reg("halt", 0)
    BY <1>9, OneLines
  <2> QED BY ONLY <1>9, <2>1, Fields, Sizes, n \in 1 .. OnePark + 6 DEF OneOp, TwoFwd, TwoData, TwoSum, OneFwd, OnePark
<1>10. CASE n = OnePark + 5
  <2>1. p1test[n] = Put("P1_FAIL")
    BY <1>10, OneLines
  <2> QED BY ONLY <1>10, <2>1, Fields, Sizes, n \in 1 .. OnePark + 6 DEF OneOp, TwoFwd, TwoData, TwoSum, OneFwd, OnePark
<1>11. CASE n = OnePark + 6
  <2>1. p1test[n] = Reg("halt", 0)
    BY <1>11, OneLines
  <2> QED BY ONLY <1>11, <2>1, Fields, Sizes, n \in 1 .. OnePark + 6 DEF OneOp, TwoFwd, TwoData, TwoSum, OneFwd, OnePark
<1> QED BY <1>1, <1>2, <1>3, <1>4, <1>5, <1>6, <1>7, <1>8, <1>9, <1>10, <1>11, Sizes DEF TwoFwd, TwoData, TwoSum, OneFwd, OnePark

LEMMA TwoOps == \A n \in 1 .. TwoSum + 25 : p2test[n].op = TwoOp(n)
<1> SUFFICES ASSUME NEW n \in 1 .. TwoSum + 25 PROVE p2test[n].op = TwoOp(n)
  OBVIOUS
<1>1. CASE n \in 1 .. Letters + 1
  <2>1. p2test[n] = Store(DdrBase + n, Hello[n])
    BY <1>1, TwoLines
  <2> QED BY ONLY <1>1, <2>1, Fields, Sizes, n \in 1 .. TwoSum + 25 DEF TwoOp, TwoFwd, TwoData, TwoSum, OneFwd, OnePark
<1>2. CASE n = Letters + 2
  <2>1. p2test[n] = Op("maint", 0, Dword("FLUSH", "text", 0))
    BY <1>2, TwoLines
  <2> QED BY ONLY <1>2, <2>1, Fields, Sizes, n \in 1 .. TwoSum + 25 DEF TwoOp, TwoFwd, TwoData, TwoSum, OneFwd, OnePark
<1>3. CASE n = Letters + 3
  <2>1. p2test[n] = Reg("mntWait", 0)
    BY <1>3, TwoLines
  <2> QED BY ONLY <1>3, <2>1, Fields, Sizes, n \in 1 .. TwoSum + 25 DEF TwoOp, TwoFwd, TwoData, TwoSum, OneFwd, OnePark
<1>4. CASE n = Letters + 4
  <2>1. p2test[n] = Reg("startPc", DdrBase + 1)
    BY <1>4, TwoLines
  <2> QED BY ONLY <1>4, <2>1, Fields, Sizes, n \in 1 .. TwoSum + 25 DEF TwoOp, TwoFwd, TwoData, TwoSum, OneFwd, OnePark
<1>5. CASE n = Letters + 5
  <2>1. p2test[n] = Reg("run", 0)
    BY <1>5, TwoLines
  <2> QED BY ONLY <1>5, <2>1, Fields, Sizes, n \in 1 .. TwoSum + 25 DEF TwoOp, TwoFwd, TwoData, TwoSum, OneFwd, OnePark
<1>6. CASE n = TwoFwd
  <2>1. p2test[n] = Reg("run", 1)
    BY <1>6, TwoLines
  <2> QED BY ONLY <1>6, <2>1, Fields, Sizes, n \in 1 .. TwoSum + 25 DEF TwoOp, TwoFwd, TwoData, TwoSum, OneFwd, OnePark
<1>7. CASE n \in TwoFwd + 1 .. TwoData - 2
  <2>1. p2test[n] = Reg(FwdOp(n - TwoFwd - 1), 0)
    BY <1>7, TwoLines
  <2> QED BY ONLY <1>7, <2>1, Fields, Sizes, n \in 1 .. TwoSum + 25 DEF TwoOp, TwoFwd, TwoData, TwoSum, OneFwd, OnePark
<1>8. CASE n = TwoData - 1
  <2>1. p2test[n] = Reg("parkWait", 0)
    BY <1>8, TwoLines
  <2> QED BY ONLY <1>8, <2>1, Fields, Sizes, n \in 1 .. TwoSum + 25 DEF TwoOp, TwoFwd, TwoData, TwoSum, OneFwd, OnePark
<1>9. CASE n = TwoData
  <2>1. p2test[n] = Reg("run", 0)
    BY <1>9, TwoLines
  <2> QED BY ONLY <1>9, <2>1, Fields, Sizes, n \in 1 .. TwoSum + 25 DEF TwoOp, TwoFwd, TwoData, TwoSum, OneFwd, OnePark
<1>10. CASE n \in TwoData + 1 .. TwoSum
  <2>1. p2test[n] = Store(DataBase + (n - TwoData), Data[n - TwoData])
    BY <1>10, TwoLines
  <2> QED BY ONLY <1>10, <2>1, Fields, Sizes, n \in 1 .. TwoSum + 25 DEF TwoOp, TwoFwd, TwoData, TwoSum, OneFwd, OnePark
<1>11. CASE n = TwoSum + 1
  <2>1. p2test[n] = Op("maint", 0, Dword("FLUSH", "text", 0))
    BY <1>11, TwoLines
  <2> QED BY ONLY <1>11, <2>1, Fields, Sizes, n \in 1 .. TwoSum + 25 DEF TwoOp, TwoFwd, TwoData, TwoSum, OneFwd, OnePark
<1>12. CASE n = TwoSum + 2
  <2>1. p2test[n] = Reg("mntWait", 0)
    BY <1>12, TwoLines
  <2> QED BY ONLY <1>12, <2>1, Fields, Sizes, n \in 1 .. TwoSum + 25 DEF TwoOp, TwoFwd, TwoData, TwoSum, OneFwd, OnePark
<1>13. CASE n = TwoSum + 3
  <2>1. p2test[n] = Reg("winAddr", 1)
    BY <1>13, TwoLines
  <2> QED BY ONLY <1>13, <2>1, Fields, Sizes, n \in 1 .. TwoSum + 25 DEF TwoOp, TwoFwd, TwoData, TwoSum, OneFwd, OnePark
<1>14. CASE n \in TwoSum + 4 .. TwoSum + 9
  <2>1. p2test[n] = Op("winData", 0, DdrSum[n - TwoSum - 3])
    BY <1>14, TwoLines
  <2> QED BY ONLY <1>14, <2>1, Fields, Sizes, n \in 1 .. TwoSum + 25 DEF TwoOp, TwoFwd, TwoData, TwoSum, OneFwd, OnePark
<1>15. CASE n = TwoSum + 10
  <2>1. p2test[n] = Reg("startPc", 1)
    BY <1>15, TwoLines
  <2> QED BY ONLY <1>15, <2>1, Fields, Sizes, n \in 1 .. TwoSum + 25 DEF TwoOp, TwoFwd, TwoData, TwoSum, OneFwd, OnePark
<1>16. CASE n = TwoSum + 11
  <2>1. p2test[n] = Reg("run", 0)
    BY <1>16, TwoLines
  <2> QED BY ONLY <1>16, <2>1, Fields, Sizes, n \in 1 .. TwoSum + 25 DEF TwoOp, TwoFwd, TwoData, TwoSum, OneFwd, OnePark
<1>17. CASE n = TwoSum + 12
  <2>1. p2test[n] = Reg("run", 1)
    BY <1>17, TwoLines
  <2> QED BY ONLY <1>17, <2>1, Fields, Sizes, n \in 1 .. TwoSum + 25 DEF TwoOp, TwoFwd, TwoData, TwoSum, OneFwd, OnePark
<1>18. CASE n \in TwoSum + 13 .. TwoSum + 15
  <2>1. p2test[n] = Reg(FwdOp(n - TwoSum - 13), 0)
    BY <1>18, TwoLines
  <2> QED BY ONLY <1>18, <2>1, Fields, Sizes, n \in 1 .. TwoSum + 25 DEF TwoOp, TwoFwd, TwoData, TwoSum, OneFwd, OnePark
<1>19. CASE n = TwoSum + 16
  <2>1. p2test[n] = Reg("parkWait", 0)
    BY <1>19, TwoLines
  <2> QED BY ONLY <1>19, <2>1, Fields, Sizes, n \in 1 .. TwoSum + 25 DEF TwoOp, TwoFwd, TwoData, TwoSum, OneFwd, OnePark
<1>20. CASE n = TwoSum + 17
  <2>1. p2test[n] = Reg("run", 0)
    BY <1>20, TwoLines
  <2> QED BY ONLY <1>20, <2>1, Fields, Sizes, n \in 1 .. TwoSum + 25 DEF TwoOp, TwoFwd, TwoData, TwoSum, OneFwd, OnePark
<1>21. CASE n = TwoSum + 18
  <2>1. p2test[n] = Op("maint", 0, Dword("INVALIDATE", "text", 0))
    BY <1>21, TwoLines
  <2> QED BY ONLY <1>21, <2>1, Fields, Sizes, n \in 1 .. TwoSum + 25 DEF TwoOp, TwoFwd, TwoData, TwoSum, OneFwd, OnePark
<1>22. CASE n = TwoSum + 19
  <2>1. p2test[n] = Reg("mntWait", 0)
    BY <1>22, TwoLines
  <2> QED BY ONLY <1>22, <2>1, Fields, Sizes, n \in 1 .. TwoSum + 25 DEF TwoOp, TwoFwd, TwoData, TwoSum, OneFwd, OnePark
<1>23. CASE n = TwoSum + 20
  <2>1. p2test[n] = Reg("load", Result)
    BY <1>23, TwoLines
  <2> QED BY ONLY <1>23, <2>1, Fields, Sizes, n \in 1 .. TwoSum + 25 DEF TwoOp, TwoFwd, TwoData, TwoSum, OneFwd, OnePark
<1>24. CASE n = TwoSum + 21
  <2>1. p2test[n] = Reg("checkSum", Total)
    BY <1>24, TwoLines
  <2> QED BY ONLY <1>24, <2>1, Fields, Sizes, n \in 1 .. TwoSum + 25 DEF TwoOp, TwoFwd, TwoData, TwoSum, OneFwd, OnePark
<1>25. CASE n = TwoSum + 22
  <2>1. p2test[n] = Put("P2_PASS")
    BY <1>25, TwoLines
  <2> QED BY ONLY <1>25, <2>1, Fields, Sizes, n \in 1 .. TwoSum + 25 DEF TwoOp, TwoFwd, TwoData, TwoSum, OneFwd, OnePark
<1>26. CASE n = TwoSum + 23
  <2>1. p2test[n] = Reg("halt", 0)
    BY <1>26, TwoLines
  <2> QED BY ONLY <1>26, <2>1, Fields, Sizes, n \in 1 .. TwoSum + 25 DEF TwoOp, TwoFwd, TwoData, TwoSum, OneFwd, OnePark
<1>27. CASE n = TwoSum + 24
  <2>1. p2test[n] = Put("P2_FAIL")
    BY <1>27, TwoLines
  <2> QED BY ONLY <1>27, <2>1, Fields, Sizes, n \in 1 .. TwoSum + 25 DEF TwoOp, TwoFwd, TwoData, TwoSum, OneFwd, OnePark
<1>28. CASE n = TwoSum + 25
  <2>1. p2test[n] = Reg("halt", 0)
    BY <1>28, TwoLines
  <2> QED BY ONLY <1>28, <2>1, Fields, Sizes, n \in 1 .. TwoSum + 25 DEF TwoOp, TwoFwd, TwoData, TwoSum, OneFwd, OnePark
<1> QED BY <1>1, <1>2, <1>3, <1>4, <1>5, <1>6, <1>7, <1>8, <1>9, <1>10, <1>11, <1>12, <1>13, <1>14, <1>15, <1>16, <1>17, <1>18, <1>19, <1>20, <1>21, <1>22, <1>23, <1>24, <1>25, <1>26, <1>27, <1>28, Sizes DEF TwoFwd, TwoData, TwoSum, OneFwd, OnePark

LEMMA TimedOps == \A n \in 1 .. 29 : p2btest[n].op = TimedOp(n)
<1> SUFFICES ASSUME NEW n \in 1 .. 29 PROVE p2btest[n].op = TimedOp(n)
  OBVIOUS
<1>1. CASE n = 1
  <2>1. p2btest[n] = Reg("winAddr", 1)
    BY <1>1, TimedLines
  <2> QED BY ONLY <1>1, <2>1, Fields, Sizes, n \in 1 .. 29 DEF TimedOp, TwoFwd, TwoData, TwoSum, OneFwd, OnePark
<1>2. CASE n \in 2 .. 4
  <2>1. p2btest[n] = Op("winData", 0, LoopLocal[n - 1])
    BY <1>2, TimedLines
  <2> QED BY ONLY <1>2, <2>1, Fields, Sizes, n \in 1 .. 29 DEF TimedOp, TwoFwd, TwoData, TwoSum, OneFwd, OnePark
<1>3. CASE n = 5
  <2>1. p2btest[n] = Reg("clock", 0)
    BY <1>3, TimedLines
  <2> QED BY ONLY <1>3, <2>1, Fields, Sizes, n \in 1 .. 29 DEF TimedOp, TwoFwd, TwoData, TwoSum, OneFwd, OnePark
<1>4. CASE n = 6
  <2>1. p2btest[n] = Reg("startPc", 1)
    BY <1>4, TimedLines
  <2> QED BY ONLY <1>4, <2>1, Fields, Sizes, n \in 1 .. 29 DEF TimedOp, TwoFwd, TwoData, TwoSum, OneFwd, OnePark
<1>5. CASE n = 7
  <2>1. p2btest[n] = Reg("run", 0)
    BY <1>5, TimedLines
  <2> QED BY ONLY <1>5, <2>1, Fields, Sizes, n \in 1 .. 29 DEF TimedOp, TwoFwd, TwoData, TwoSum, OneFwd, OnePark
<1>6. CASE n = 8
  <2>1. p2btest[n] = Reg("run", 1)
    BY <1>6, TimedLines
  <2> QED BY ONLY <1>6, <2>1, Fields, Sizes, n \in 1 .. 29 DEF TimedOp, TwoFwd, TwoData, TwoSum, OneFwd, OnePark
<1>7. CASE n = 9
  <2>1. p2btest[n] = Reg("parkWait", 0)
    BY <1>7, TimedLines
  <2> QED BY ONLY <1>7, <2>1, Fields, Sizes, n \in 1 .. 29 DEF TimedOp, TwoFwd, TwoData, TwoSum, OneFwd, OnePark
<1>8. CASE n = 10
  <2>1. p2btest[n] = Reg("run", 0)
    BY <1>8, TimedLines
  <2> QED BY ONLY <1>8, <2>1, Fields, Sizes, n \in 1 .. 29 DEF TimedOp, TwoFwd, TwoData, TwoSum, OneFwd, OnePark
<1>9. CASE n = 11
  <2>1. p2btest[n] = Reg("elapsed", 0)
    BY <1>9, TimedLines
  <2> QED BY ONLY <1>9, <2>1, Fields, Sizes, n \in 1 .. 29 DEF TimedOp, TwoFwd, TwoData, TwoSum, OneFwd, OnePark
<1>10. CASE n = 12
  <2>1. p2btest[n] = Put("L=")
    BY <1>10, TimedLines
  <2> QED BY ONLY <1>10, <2>1, Fields, Sizes, n \in 1 .. 29 DEF TimedOp, TwoFwd, TwoData, TwoSum, OneFwd, OnePark
<1>11. CASE n = 13
  <2>1. p2btest[n] = Reg("print_hex64", 0)
    BY <1>11, TimedLines
  <2> QED BY ONLY <1>11, <2>1, Fields, Sizes, n \in 1 .. 29 DEF TimedOp, TwoFwd, TwoData, TwoSum, OneFwd, OnePark
<1>12. CASE n \in 14 .. 16
  <2>1. p2btest[n] = Store(DdrBase + (n - 13), LoopDdr[n - 13])
    BY <1>12, TimedLines
  <2> QED BY ONLY <1>12, <2>1, Fields, Sizes, n \in 1 .. 29 DEF TimedOp, TwoFwd, TwoData, TwoSum, OneFwd, OnePark
<1>13. CASE n = 17
  <2>1. p2btest[n] = Op("maint", 0, Dword("FLUSH", "text", 0))
    BY <1>13, TimedLines
  <2> QED BY ONLY <1>13, <2>1, Fields, Sizes, n \in 1 .. 29 DEF TimedOp, TwoFwd, TwoData, TwoSum, OneFwd, OnePark
<1>14. CASE n = 18
  <2>1. p2btest[n] = Reg("mntWait", 0)
    BY <1>14, TimedLines
  <2> QED BY ONLY <1>14, <2>1, Fields, Sizes, n \in 1 .. 29 DEF TimedOp, TwoFwd, TwoData, TwoSum, OneFwd, OnePark
<1>15. CASE n = 19
  <2>1. p2btest[n] = Reg("clock", 0)
    BY <1>15, TimedLines
  <2> QED BY ONLY <1>15, <2>1, Fields, Sizes, n \in 1 .. 29 DEF TimedOp, TwoFwd, TwoData, TwoSum, OneFwd, OnePark
<1>16. CASE n = 20
  <2>1. p2btest[n] = Reg("startPc", DdrBase + 1)
    BY <1>16, TimedLines
  <2> QED BY ONLY <1>16, <2>1, Fields, Sizes, n \in 1 .. 29 DEF TimedOp, TwoFwd, TwoData, TwoSum, OneFwd, OnePark
<1>17. CASE n = 21
  <2>1. p2btest[n] = Reg("run", 0)
    BY <1>17, TimedLines
  <2> QED BY ONLY <1>17, <2>1, Fields, Sizes, n \in 1 .. 29 DEF TimedOp, TwoFwd, TwoData, TwoSum, OneFwd, OnePark
<1>18. CASE n = 22
  <2>1. p2btest[n] = Reg("run", 1)
    BY <1>18, TimedLines
  <2> QED BY ONLY <1>18, <2>1, Fields, Sizes, n \in 1 .. 29 DEF TimedOp, TwoFwd, TwoData, TwoSum, OneFwd, OnePark
<1>19. CASE n = 23
  <2>1. p2btest[n] = Reg("parkWait", 0)
    BY <1>19, TimedLines
  <2> QED BY ONLY <1>19, <2>1, Fields, Sizes, n \in 1 .. 29 DEF TimedOp, TwoFwd, TwoData, TwoSum, OneFwd, OnePark
<1>20. CASE n = 24
  <2>1. p2btest[n] = Reg("run", 0)
    BY <1>20, TimedLines
  <2> QED BY ONLY <1>20, <2>1, Fields, Sizes, n \in 1 .. 29 DEF TimedOp, TwoFwd, TwoData, TwoSum, OneFwd, OnePark
<1>21. CASE n = 25
  <2>1. p2btest[n] = Reg("elapsed", 0)
    BY <1>21, TimedLines
  <2> QED BY ONLY <1>21, <2>1, Fields, Sizes, n \in 1 .. 29 DEF TimedOp, TwoFwd, TwoData, TwoSum, OneFwd, OnePark
<1>22. CASE n = 26
  <2>1. p2btest[n] = Put("D=")
    BY <1>22, TimedLines
  <2> QED BY ONLY <1>22, <2>1, Fields, Sizes, n \in 1 .. 29 DEF TimedOp, TwoFwd, TwoData, TwoSum, OneFwd, OnePark
<1>23. CASE n = 27
  <2>1. p2btest[n] = Reg("print_hex64", 0)
    BY <1>23, TimedLines
  <2> QED BY ONLY <1>23, <2>1, Fields, Sizes, n \in 1 .. 29 DEF TimedOp, TwoFwd, TwoData, TwoSum, OneFwd, OnePark
<1>24. CASE n = 28
  <2>1. p2btest[n] = Put("P2B_DONE")
    BY <1>24, TimedLines
  <2> QED BY ONLY <1>24, <2>1, Fields, Sizes, n \in 1 .. 29 DEF TimedOp, TwoFwd, TwoData, TwoSum, OneFwd, OnePark
<1>25. CASE n = 29
  <2>1. p2btest[n] = Reg("halt", 0)
    BY <1>25, TimedLines
  <2> QED BY ONLY <1>25, <2>1, Fields, Sizes, n \in 1 .. 29 DEF TimedOp, TwoFwd, TwoData, TwoSum, OneFwd, OnePark
<1> QED BY <1>1, <1>2, <1>3, <1>4, <1>5, <1>6, <1>7, <1>8, <1>9, <1>10, <1>11, <1>12, <1>13, <1>14, <1>15, <1>16, <1>17, <1>18, <1>19, <1>20, <1>21, <1>22, <1>23, <1>24, <1>25, Sizes DEF TwoFwd, TwoData, TwoSum, OneFwd, OnePark

LEMMA SpinOps == \A n \in 1 .. 8 : spinload[n].op = SpinOp(n)
<1> SUFFICES ASSUME NEW n \in 1 .. 8 PROVE spinload[n].op = SpinOp(n)
  OBVIOUS
<1>1. CASE n = 1
  <2>1. spinload[n] = Reg("winAddr", 1)
    BY <1>1, SpinLines
  <2> QED BY ONLY <1>1, <2>1, Fields, Sizes, n \in 1 .. 8 DEF SpinOp, TwoFwd, TwoData, TwoSum, OneFwd, OnePark
<1>2. CASE n \in 2 .. 3
  <2>1. spinload[n] = Op("winData", 0, Spin[n - 1])
    BY <1>2, SpinLines
  <2> QED BY ONLY <1>2, <2>1, Fields, Sizes, n \in 1 .. 8 DEF SpinOp, TwoFwd, TwoData, TwoSum, OneFwd, OnePark
<1>3. CASE n = 4
  <2>1. spinload[n] = Reg("startPc", 1)
    BY <1>3, SpinLines
  <2> QED BY ONLY <1>3, <2>1, Fields, Sizes, n \in 1 .. 8 DEF SpinOp, TwoFwd, TwoData, TwoSum, OneFwd, OnePark
<1>4. CASE n = 5
  <2>1. spinload[n] = Reg("run", 0)
    BY <1>4, SpinLines
  <2> QED BY ONLY <1>4, <2>1, Fields, Sizes, n \in 1 .. 8 DEF SpinOp, TwoFwd, TwoData, TwoSum, OneFwd, OnePark
<1>5. CASE n = 6
  <2>1. spinload[n] = Reg("run", 1)
    BY <1>5, SpinLines
  <2> QED BY ONLY <1>5, <2>1, Fields, Sizes, n \in 1 .. 8 DEF SpinOp, TwoFwd, TwoData, TwoSum, OneFwd, OnePark
<1>6. CASE n = 7
  <2>1. spinload[n] = Put("core2_spinning")
    BY <1>6, SpinLines
  <2> QED BY ONLY <1>6, <2>1, Fields, Sizes, n \in 1 .. 8 DEF SpinOp, TwoFwd, TwoData, TwoSum, OneFwd, OnePark
<1>7. CASE n = 8
  <2>1. spinload[n] = Reg("halt", 0)
    BY <1>7, SpinLines
  <2> QED BY ONLY <1>7, <2>1, Fields, Sizes, n \in 1 .. 8 DEF SpinOp, TwoFwd, TwoData, TwoSum, OneFwd, OnePark
<1> QED BY <1>1, <1>2, <1>3, <1>4, <1>5, <1>6, <1>7, Sizes DEF TwoFwd, TwoData, TwoSum, OneFwd, OnePark

\* So the name of the access at n is known.
OpAt(p, n) == CASE p = "p1test" -> OneOp(n) [] p = "p2test" -> TwoOp(n)
                [] p = "p2btest" -> TimedOp(n) [] OTHER -> SpinOp(n)

LEMMA OpIs == \A p \in Programs : \A n \in Place(p) : At(p, n).op = OpAt(p, n)
<1> SUFFICES ASSUME NEW p \in Programs, NEW n \in Place(p) PROVE At(p, n).op = OpAt(p, n)
  OBVIOUS
<1>1. CASE p = "p1test"
  BY <1>1, CodeIs, PlaceIs, OneOps DEF At, OpAt
<1>2. CASE p = "p2test"
  BY <1>2, CodeIs, PlaceIs, TwoOps DEF At, OpAt
<1>3. CASE p = "p2btest"
  BY <1>3, CodeIs, PlaceIs, TimedOps DEF At, OpAt
<1>4. CASE p = "spinload"
  BY <1>4, CodeIs, PlaceIs, SpinOps DEF At, OpAt
<1> QED BY <1>1, <1>2, <1>3, <1>4 DEF Programs

LEMMA EndNat == OnePark \in Nat /\ TwoSum \in Nat
BY Sizes DEF OnePark, TwoSum, TwoData

LEMMA PlaceNat ==
  /\ OneFwd \in Nat /\ OnePark \in Nat /\ TwoFwd \in Nat /\ TwoData \in Nat /\ TwoSum \in Nat
  /\ Letters \in Nat \ {0} /\ Items \in Nat \ {0} /\ OneFwd = Letters + 4 /\ TwoFwd = Letters + 6
  /\ OnePark = OneFwd + 3 * Letters /\ TwoData = TwoFwd + 3 * Letters + 2 /\ TwoSum = TwoData + Items
  /\ OneFwd > 4 /\ TwoFwd > 6 /\ TwoData > TwoFwd + 4 /\ TwoSum > TwoData /\ OnePark > OneFwd + 2
BY Sizes DEF OneFwd, OnePark, TwoFwd, TwoData, TwoSum

\* What comes after what.
After == [store |-> {"store", "maint"},
   load |-> {"checkSum"},
   maint |-> {"mntWait"},
   mntWait |-> {"startPc", "winAddr", "load", "clock"},
   winAddr |-> {"winData"},
   winData |-> {"winData", "startPc", "clock"},
   startPc |-> {"run"},
   run |-> {"run", "logWait", "parkWait", "store", "maint", "elapsed", "puts"},
   logWait |-> {"putc"},
   putc |-> {"pop"},
   pop |-> {"logWait", "parkWait"},
   puts |-> {"print_hex64", "halt"},
   print_hex64 |-> {"store", "puts"},
   parkWait |-> {"checkCtrl", "run"},
   checkCtrl |-> {"puts"},
   checkSum |-> {"puts"},
   clock |-> {"startPc"},
   elapsed |-> {"puts"}, halt |-> {}]

LEMMA OneAfter ==
  \A n \in 1 .. OnePark + 6 :
    /\ OneOp(n) \in OpNames
    /\ n <= OnePark + 4 /\ OneOp(n) # "halt" => n + 1 \in 1 .. OnePark + 4
    /\ OneOp(n) # "halt" => n + 1 \in 1 .. OnePark + 6
    /\ OneOp(n) # "halt" => OneOp(n + 1) \in After[OneOp(n)]
<1> SUFFICES ASSUME NEW n \in 1 .. OnePark + 6
             PROVE  /\ OneOp(n) \in OpNames
                    /\ n <= OnePark + 4 /\ OneOp(n) # "halt" => n + 1 \in 1 .. OnePark + 4
                    /\ OneOp(n) # "halt" => n + 1 \in 1 .. OnePark + 6
                    /\ OneOp(n) # "halt" => OneOp(n + 1) \in After[OneOp(n)]
  OBVIOUS
<1>1. OneOp(n) \in OpNames
  BY Sizes DEF OpNames, OneOp, FwdOp
<1>2. n <= OnePark + 4 /\ OneOp(n) # "halt" => n + 1 \in 1 .. OnePark + 4
  <2>1. OneOp(OnePark + 4) = "halt"
    BY Sizes DEF OneOp, TwoFwd, TwoData, TwoSum, OneFwd, OnePark
  <2> QED BY <2>1, Sizes DEF TwoFwd, TwoData, TwoSum, OneFwd, OnePark
<1>4. OneOp(n) # "halt" => n + 1 \in 1 .. OnePark + 6
  <2>1. OneOp(OnePark + 6) = "halt"
    BY Sizes DEF OneOp, TwoFwd, TwoData, TwoSum, OneFwd, OnePark
  <2> QED BY <2>1, Sizes DEF TwoFwd, TwoData, TwoSum, OneFwd, OnePark
<1>3. ASSUME OneOp(n) # "halt" PROVE OneOp(n + 1) \in After[OneOp(n)]
  <2>1. CASE n <= OneFwd
    <3>1. \/ OneOp(n) = "winAddr" /\ OneOp(n + 1) = "winData"
          \/ OneOp(n) = "winData" /\ OneOp(n + 1) = "winData"
          \/ OneOp(n) = "winData" /\ OneOp(n + 1) = "startPc"
          \/ OneOp(n) = "startPc" /\ OneOp(n + 1) = "run"
          \/ OneOp(n) = "run" /\ OneOp(n + 1) = "logWait"
      BY <1>3, <2>1, Sizes DEF OneOp, FwdOp, TwoFwd, TwoData, TwoSum, OneFwd, OnePark
    <3> QED BY <3>1 DEF After
  <2>2. CASE n \in OneFwd + 1 .. OnePark
    <3>1. \/ OneOp(n) = "logWait" /\ OneOp(n + 1) = "putc"
          \/ OneOp(n) = "putc" /\ OneOp(n + 1) = "pop"
          \/ OneOp(n) = "pop" /\ OneOp(n + 1) = "logWait"
          \/ OneOp(n) = "pop" /\ OneOp(n + 1) = "parkWait"
      BY <1>3, <2>2, Sizes DEF OneOp, FwdOp, TwoFwd, TwoData, TwoSum, OneFwd, OnePark
    <3> QED BY <3>1 DEF After
  <2>3. CASE n > OnePark
    <3>1. \/ OneOp(n) = "parkWait" /\ OneOp(n + 1) = "checkCtrl"
          \/ OneOp(n) = "checkCtrl" /\ OneOp(n + 1) = "puts"
          \/ OneOp(n) = "puts" /\ OneOp(n + 1) = "halt"
      BY <1>3, <2>3, Sizes DEF OneOp, FwdOp, TwoFwd, TwoData, TwoSum, OneFwd, OnePark
    <3> QED BY <3>1 DEF After
  <2> QED BY <2>1, <2>2, <2>3, Sizes DEF TwoFwd, TwoData, TwoSum, OneFwd, OnePark
<1> QED BY <1>1, <1>3, <1>4, <1>2

LEMMA TwoAfter ==
  \A n \in 1 .. TwoSum + 25 :
    /\ TwoOp(n) \in OpNames
    /\ n <= TwoSum + 23 /\ TwoOp(n) # "halt" => n + 1 \in 1 .. TwoSum + 23
    /\ TwoOp(n) # "halt" => n + 1 \in 1 .. TwoSum + 25
    /\ TwoOp(n) # "halt" => TwoOp(n + 1) \in After[TwoOp(n)]
<1> SUFFICES ASSUME NEW n \in 1 .. TwoSum + 25
             PROVE  /\ TwoOp(n) \in OpNames
                    /\ n <= TwoSum + 23 /\ TwoOp(n) # "halt" => n + 1 \in 1 .. TwoSum + 23
                    /\ TwoOp(n) # "halt" => n + 1 \in 1 .. TwoSum + 25
                    /\ TwoOp(n) # "halt" => TwoOp(n + 1) \in After[TwoOp(n)]
  OBVIOUS
<1>1. TwoOp(n) \in OpNames
  BY Sizes DEF OpNames, TwoOp, FwdOp
<1>2. n <= TwoSum + 23 /\ TwoOp(n) # "halt" => n + 1 \in 1 .. TwoSum + 23
  <2>1. TwoOp(TwoSum + 23) = "halt"
    BY Sizes DEF TwoOp, TwoFwd, TwoData, TwoSum, OneFwd, OnePark
  <2> QED BY <2>1, Sizes DEF TwoFwd, TwoData, TwoSum, OneFwd, OnePark
<1>4. TwoOp(n) # "halt" => n + 1 \in 1 .. TwoSum + 25
  <2>1. TwoOp(TwoSum + 25) = "halt"
    BY Sizes DEF TwoOp, TwoFwd, TwoData, TwoSum, OneFwd, OnePark
  <2> QED BY <2>1, Sizes DEF TwoFwd, TwoData, TwoSum, OneFwd, OnePark
<1>3. ASSUME TwoOp(n) # "halt" PROVE TwoOp(n + 1) \in After[TwoOp(n)]
  <2>1. CASE n <= Letters + 3
    <3>1. \/ TwoOp(n) = "store" /\ TwoOp(n + 1) = "store"
          \/ TwoOp(n) = "store" /\ TwoOp(n + 1) = "maint"
          \/ TwoOp(n) = "maint" /\ TwoOp(n + 1) = "mntWait"
          \/ TwoOp(n) = "mntWait" /\ TwoOp(n + 1) = "startPc"
      BY <1>3, <2>1, Sizes DEF TwoOp, FwdOp, TwoFwd, TwoData, TwoSum, OneFwd, OnePark
    <3> QED BY <3>1 DEF After
  <2>2. CASE n \in Letters + 4 .. Letters + 6
    <3>1. \/ TwoOp(n) = "startPc" /\ TwoOp(n + 1) = "run"
          \/ TwoOp(n) = "run" /\ TwoOp(n + 1) = "run"
          \/ TwoOp(n) = "run" /\ TwoOp(n + 1) = "logWait"
      BY <1>3, <2>2, Sizes DEF TwoOp, FwdOp, TwoFwd, TwoData, TwoSum, OneFwd, OnePark
    <3> QED BY <3>1 DEF After
  <2>3. CASE n \in TwoFwd + 1 .. TwoData - 2
    <3>1. \/ TwoOp(n) = "logWait" /\ TwoOp(n + 1) = "putc"
          \/ TwoOp(n) = "putc" /\ TwoOp(n + 1) = "pop"
          \/ TwoOp(n) = "pop" /\ TwoOp(n + 1) = "logWait"
          \/ TwoOp(n) = "pop" /\ TwoOp(n + 1) = "parkWait"
      BY <1>3, <2>3, Sizes DEF TwoOp, FwdOp, TwoFwd, TwoData, TwoSum, OneFwd, OnePark
    <3> QED BY <3>1 DEF After
  <2>4. CASE n \in TwoData - 1 .. TwoSum
    <3>1. \/ TwoOp(n) = "parkWait" /\ TwoOp(n + 1) = "run"
          \/ TwoOp(n) = "run" /\ TwoOp(n + 1) = "store"
          \/ TwoOp(n) = "store" /\ TwoOp(n + 1) = "store"
          \/ TwoOp(n) = "store" /\ TwoOp(n + 1) = "maint"
      BY <1>3, <2>4, Sizes DEF TwoOp, FwdOp, TwoFwd, TwoData, TwoSum, OneFwd, OnePark
    <3> QED BY <3>1 DEF After
  <2>5. CASE n \in TwoSum + 1 .. TwoSum + 9
    <3>1. \/ TwoOp(n) = "maint" /\ TwoOp(n + 1) = "mntWait"
          \/ TwoOp(n) = "mntWait" /\ TwoOp(n + 1) = "winAddr"
          \/ TwoOp(n) = "winAddr" /\ TwoOp(n + 1) = "winData"
          \/ TwoOp(n) = "winData" /\ TwoOp(n + 1) = "winData"
          \/ TwoOp(n) = "winData" /\ TwoOp(n + 1) = "startPc"
      BY <1>3, <2>5, Sizes DEF TwoOp, FwdOp, TwoFwd, TwoData, TwoSum, OneFwd, OnePark
    <3> QED BY <3>1 DEF After
  <2>6. CASE n \in TwoSum + 10 .. TwoSum + 15
    <3>1. \/ TwoOp(n) = "startPc" /\ TwoOp(n + 1) = "run"
          \/ TwoOp(n) = "run" /\ TwoOp(n + 1) = "run"
          \/ TwoOp(n) = "run" /\ TwoOp(n + 1) = "logWait"
          \/ TwoOp(n) = "logWait" /\ TwoOp(n + 1) = "putc"
          \/ TwoOp(n) = "putc" /\ TwoOp(n + 1) = "pop"
          \/ TwoOp(n) = "pop" /\ TwoOp(n + 1) = "parkWait"
      BY <1>3, <2>6, Sizes DEF TwoOp, FwdOp, TwoFwd, TwoData, TwoSum, OneFwd, OnePark
    <3> QED BY <3>1 DEF After
  <2>7. CASE n > TwoSum + 15
    <3>1. \/ TwoOp(n) = "parkWait" /\ TwoOp(n + 1) = "run"
          \/ TwoOp(n) = "run" /\ TwoOp(n + 1) = "maint"
          \/ TwoOp(n) = "maint" /\ TwoOp(n + 1) = "mntWait"
          \/ TwoOp(n) = "mntWait" /\ TwoOp(n + 1) = "load"
          \/ TwoOp(n) = "load" /\ TwoOp(n + 1) = "checkSum"
          \/ TwoOp(n) = "checkSum" /\ TwoOp(n + 1) = "puts"
          \/ TwoOp(n) = "puts" /\ TwoOp(n + 1) = "halt"
      BY <1>3, <2>7, Sizes DEF TwoOp, FwdOp, TwoFwd, TwoData, TwoSum, OneFwd, OnePark
    <3> QED BY <3>1 DEF After
  <2> QED BY <2>1, <2>2, <2>3, <2>4, <2>5, <2>6, <2>7, Sizes DEF TwoFwd, TwoData, TwoSum, OneFwd, OnePark
<1> QED BY <1>1, <1>3, <1>4, <1>2

LEMMA TimedAfter ==
  \A n \in 1 .. 29 :
    /\ TimedOp(n) \in OpNames
    /\ TimedOp(n) # "halt" => n + 1 \in 1 .. 29
    /\ TimedOp(n) # "halt" => TimedOp(n + 1) \in After[TimedOp(n)]
<1> SUFFICES ASSUME NEW n \in 1 .. 29
             PROVE  /\ TimedOp(n) \in OpNames
                    /\ TimedOp(n) # "halt" => n + 1 \in 1 .. 29
                    /\ TimedOp(n) # "halt" => TimedOp(n + 1) \in After[TimedOp(n)]
  OBVIOUS
<1>1. TimedOp(n) \in OpNames
  BY Sizes DEF OpNames, TimedOp, FwdOp
<1>4. TimedOp(n) # "halt" => n + 1 \in 1 .. 29
  BY DEF TimedOp
<1>3. ASSUME TimedOp(n) # "halt" PROVE TimedOp(n + 1) \in After[TimedOp(n)]
  <2>1. CASE n <= 8
    <3>1. \/ TimedOp(n) = "winAddr" /\ TimedOp(n + 1) = "winData"
          \/ TimedOp(n) = "winData" /\ TimedOp(n + 1) = "winData"
          \/ TimedOp(n) = "winData" /\ TimedOp(n + 1) = "clock"
          \/ TimedOp(n) = "clock" /\ TimedOp(n + 1) = "startPc"
          \/ TimedOp(n) = "startPc" /\ TimedOp(n + 1) = "run"
          \/ TimedOp(n) = "run" /\ TimedOp(n + 1) = "run"
          \/ TimedOp(n) = "run" /\ TimedOp(n + 1) = "parkWait"
      BY <1>3, <2>1, Sizes DEF TimedOp, FwdOp, TwoFwd, TwoData, TwoSum, OneFwd, OnePark
    <3> QED BY <3>1 DEF After
  <2>2. CASE n \in 9 .. 13
    <3>1. \/ TimedOp(n) = "parkWait" /\ TimedOp(n + 1) = "run"
          \/ TimedOp(n) = "run" /\ TimedOp(n + 1) = "elapsed"
          \/ TimedOp(n) = "elapsed" /\ TimedOp(n + 1) = "puts"
          \/ TimedOp(n) = "puts" /\ TimedOp(n + 1) = "print_hex64"
          \/ TimedOp(n) = "print_hex64" /\ TimedOp(n + 1) = "store"
      BY <1>3, <2>2, Sizes DEF TimedOp, FwdOp, TwoFwd, TwoData, TwoSum, OneFwd, OnePark
    <3> QED BY <3>1 DEF After
  <2>3. CASE n \in 14 .. 20
    <3>1. \/ TimedOp(n) = "store" /\ TimedOp(n + 1) = "store"
          \/ TimedOp(n) = "store" /\ TimedOp(n + 1) = "maint"
          \/ TimedOp(n) = "maint" /\ TimedOp(n + 1) = "mntWait"
          \/ TimedOp(n) = "mntWait" /\ TimedOp(n + 1) = "clock"
          \/ TimedOp(n) = "clock" /\ TimedOp(n + 1) = "startPc"
          \/ TimedOp(n) = "startPc" /\ TimedOp(n + 1) = "run"
      BY <1>3, <2>3, Sizes DEF TimedOp, FwdOp, TwoFwd, TwoData, TwoSum, OneFwd, OnePark
    <3> QED BY <3>1 DEF After
  <2>4. CASE n > 20
    <3>1. \/ TimedOp(n) = "run" /\ TimedOp(n + 1) = "run"
          \/ TimedOp(n) = "run" /\ TimedOp(n + 1) = "parkWait"
          \/ TimedOp(n) = "parkWait" /\ TimedOp(n + 1) = "run"
          \/ TimedOp(n) = "run" /\ TimedOp(n + 1) = "elapsed"
          \/ TimedOp(n) = "elapsed" /\ TimedOp(n + 1) = "puts"
          \/ TimedOp(n) = "puts" /\ TimedOp(n + 1) = "print_hex64"
          \/ TimedOp(n) = "print_hex64" /\ TimedOp(n + 1) = "puts"
          \/ TimedOp(n) = "puts" /\ TimedOp(n + 1) = "halt"
      BY <1>3, <2>4, Sizes DEF TimedOp, FwdOp, TwoFwd, TwoData, TwoSum, OneFwd, OnePark
    <3> QED BY <3>1 DEF After
  <2> QED BY <2>1, <2>2, <2>3, <2>4, Sizes DEF TwoFwd, TwoData, TwoSum, OneFwd, OnePark
<1> QED BY <1>1, <1>3, <1>4

LEMMA SpinAfter ==
  \A n \in 1 .. 8 :
    /\ SpinOp(n) \in OpNames
    /\ SpinOp(n) # "halt" => n + 1 \in 1 .. 8
    /\ SpinOp(n) # "halt" => SpinOp(n + 1) \in After[SpinOp(n)]
<1> SUFFICES ASSUME NEW n \in 1 .. 8
             PROVE  /\ SpinOp(n) \in OpNames
                    /\ SpinOp(n) # "halt" => n + 1 \in 1 .. 8
                    /\ SpinOp(n) # "halt" => SpinOp(n + 1) \in After[SpinOp(n)]
  OBVIOUS
<1>1. SpinOp(n) \in OpNames
  BY Sizes DEF OpNames, SpinOp, FwdOp
<1>4. SpinOp(n) # "halt" => n + 1 \in 1 .. 8
  BY DEF SpinOp
<1>3. ASSUME SpinOp(n) # "halt" PROVE SpinOp(n + 1) \in After[SpinOp(n)]
  <2>1. CASE n <= 8
    <3>1. \/ SpinOp(n) = "winAddr" /\ SpinOp(n + 1) = "winData"
          \/ SpinOp(n) = "winData" /\ SpinOp(n + 1) = "winData"
          \/ SpinOp(n) = "winData" /\ SpinOp(n + 1) = "startPc"
          \/ SpinOp(n) = "startPc" /\ SpinOp(n + 1) = "run"
          \/ SpinOp(n) = "run" /\ SpinOp(n + 1) = "run"
          \/ SpinOp(n) = "run" /\ SpinOp(n + 1) = "puts"
          \/ SpinOp(n) = "puts" /\ SpinOp(n + 1) = "halt"
      BY <1>3, <2>1, Sizes DEF SpinOp, FwdOp, TwoFwd, TwoData, TwoSum, OneFwd, OnePark
    <3> QED BY <3>1 DEF After
  <2> QED BY <2>1, Sizes DEF TwoFwd, TwoData, TwoSum, OneFwd, OnePark
<1> QED BY <1>1, <1>3, <1>4

Proper(p, n) == (p = "p1test" => n <= OnePark + 4) /\ (p = "p2test" => n <= TwoSum + 23)

LEMMA Follows ==
  \A p \in Programs : \A n \in Place(p) :
    /\ At(p, n).op \in OpNames
    /\ At(p, n).op # "halt" => n + 1 \in Place(p) /\ At(p, n + 1).op \in After[At(p, n).op]
    /\ At(p, n).op # "halt" /\ Proper(p, n) => Proper(p, n + 1)
<1> SUFFICES ASSUME NEW p \in Programs, NEW n \in Place(p)
             PROVE  /\ OpAt(p, n) \in OpNames
                    /\ OpAt(p, n) # "halt" => n + 1 \in Place(p)
                                              /\ OpAt(p, n + 1) \in After[OpAt(p, n)]
                    /\ OpAt(p, n) # "halt" /\ Proper(p, n) => Proper(p, n + 1)
  BY OpIs
<1>1. CASE p = "p1test"
  BY <1>1, PlaceIs, OneAfter, EndNat DEF OpAt, Proper
<1>2. CASE p = "p2test"
  BY <1>2, PlaceIs, TwoAfter, EndNat DEF OpAt, Proper
<1>3. CASE p = "p2btest"
  BY <1>3, PlaceIs, TimedAfter, PlaceNat DEF OpAt, Proper
<1>4. CASE p = "spinload"
  BY <1>4, PlaceIs, SpinAfter, PlaceNat DEF OpAt, Proper
<1> QED BY <1>1, <1>2, <1>3, <1>4 DEF Programs

LEMMA PutIs == \A w : Put(w).val.img = w
BY DEF Put, Op, Dword

LEMMA MaintIs == \A w : Op("maint", 0, Dword(w, "text", 0)).val.img = w
BY DEF Op, Dword

\* Where each access is in the programs, and what it says.
LEMMA AtWinAddr ==
  ASSUME NEW p \in Programs, NEW n \in Place(p), At(p, n).op = "winAddr"
  PROVE  \/ p = "p1test" /\ n = 1 /\ At(p, n).at = 1
         \/ p = "p2test" /\ n = TwoSum + 3 /\ At(p, n).at = 1
         \/ p = "p2btest" /\ n = 1 /\ At(p, n).at = 1
         \/ p = "spinload" /\ n = 1 /\ At(p, n).at = 1
<1>1. OpAt(p, n) = "winAddr"
  BY OpIs
<1>2. ASSUME p = "p1test"
      PROVE  p = "p1test" /\ n = 1
  <2>1. OneOp(n) = "winAddr"
    BY <1>1, <1>2 DEF OpAt
  <2>2. n \in 1 .. OnePark + 6
    BY <1>2, PlaceIs
  <2>3. CASE n <= OneFwd
    BY <1>2, <2>1, <2>2, <2>3, PlaceNat DEF OneOp
  <2>4. CASE n \in OneFwd + 1 .. OnePark
    BY <1>2, <2>1, <2>2, <2>4, PlaceNat DEF OneOp, FwdOp
  <2>5. CASE n > OnePark
    BY <1>2, <2>1, <2>2, <2>5, PlaceNat DEF OneOp
  <2> QED BY <2>2, <2>3, <2>4, <2>5, PlaceNat
<1>3. ASSUME p = "p2test"
      PROVE  p = "p2test" /\ n = TwoSum + 3
  <2>1. TwoOp(n) = "winAddr"
    BY <1>1, <1>3 DEF OpAt
  <2>2. n \in 1 .. TwoSum + 25
    BY <1>3, PlaceIs
  <2>3. CASE n <= TwoFwd
    BY <1>3, <2>1, <2>2, <2>3, PlaceNat DEF TwoOp
  <2>4. CASE n \in TwoFwd + 1 .. TwoData - 2
    BY <1>3, <2>1, <2>2, <2>4, PlaceNat DEF TwoOp, FwdOp
  <2>5. CASE n \in TwoData - 1 .. TwoSum
    BY <1>3, <2>1, <2>2, <2>5, PlaceNat DEF TwoOp
  <2>6. CASE n \in TwoSum + 1 .. TwoSum + 12
    BY <1>3, <2>1, <2>2, <2>6, PlaceNat DEF TwoOp
  <2>7. CASE n > TwoSum + 12
    BY <1>3, <2>1, <2>2, <2>7, PlaceNat DEF TwoOp, FwdOp
  <2> QED BY <2>2, <2>3, <2>4, <2>5, <2>6, <2>7, PlaceNat
<1>4. ASSUME p = "p2btest"
      PROVE  p = "p2btest" /\ n = 1
  <2>1. TimedOp(n) = "winAddr"
    BY <1>1, <1>4 DEF OpAt
  <2>2. n \in 1 .. 29
    BY <1>4, PlaceIs
  <2>3. CASE n <= 10
    BY <1>4, <2>1, <2>2, <2>3, PlaceNat DEF TimedOp
  <2>4. CASE n \in 11 .. 20
    BY <1>4, <2>1, <2>2, <2>4, PlaceNat DEF TimedOp
  <2>5. CASE n > 20
    BY <1>4, <2>1, <2>2, <2>5, PlaceNat DEF TimedOp
  <2> QED BY <2>2, <2>3, <2>4, <2>5, PlaceNat
<1>5. ASSUME p = "spinload"
      PROVE  p = "spinload" /\ n = 1
  <2>1. SpinOp(n) = "winAddr"
    BY <1>1, <1>5 DEF OpAt
  <2> QED BY <1>5, <2>1, PlaceIs DEF SpinOp
<1>6. ASSUME p = "p1test" /\ n = 1
      PROVE  p = "p1test" /\ n = 1 /\ At(p, n).at = 1
  <2>1. p1test[n] = Reg("winAddr", 1)
    BY <1>6, OneLines
  <2>2. At(p, n) = p1test[n]
    BY <1>6, CodeIs DEF At
  <2> QED BY <1>6, <2>1, <2>2, Fields
<1>7. ASSUME p = "p2test" /\ n = TwoSum + 3
      PROVE  p = "p2test" /\ n = TwoSum + 3 /\ At(p, n).at = 1
  <2>1. p2test[n] = Reg("winAddr", 1)
    BY <1>7, TwoLines
  <2>2. At(p, n) = p2test[n]
    BY <1>7, CodeIs DEF At
  <2> QED BY <1>7, <2>1, <2>2, Fields
<1>8. ASSUME p = "p2btest" /\ n = 1
      PROVE  p = "p2btest" /\ n = 1 /\ At(p, n).at = 1
  <2>1. p2btest[n] = Reg("winAddr", 1)
    BY <1>8, TimedLines
  <2>2. At(p, n) = p2btest[n]
    BY <1>8, CodeIs DEF At
  <2> QED BY <1>8, <2>1, <2>2, Fields
<1>9. ASSUME p = "spinload" /\ n = 1
      PROVE  p = "spinload" /\ n = 1 /\ At(p, n).at = 1
  <2>1. spinload[n] = Reg("winAddr", 1)
    BY <1>9, SpinLines
  <2>2. At(p, n) = spinload[n]
    BY <1>9, CodeIs DEF At
  <2> QED BY <1>9, <2>1, <2>2, Fields
<1> QED BY <1>2, <1>3, <1>4, <1>5, <1>6, <1>7, <1>8, <1>9 DEF Programs

LEMMA AtWinData ==
  ASSUME NEW p \in Programs, NEW n \in Place(p), At(p, n).op = "winData"
  PROVE  \/ p = "p1test" /\ n \in 2 .. Letters + 2 /\ At(p, n).val = Hello[n - 1]
         \/ p = "p2test" /\ n \in TwoSum + 4 .. TwoSum + 9 /\ At(p, n).val = DdrSum[n - TwoSum - 3]
         \/ p = "p2btest" /\ n \in 2 .. 4 /\ At(p, n).val = LoopLocal[n - 1]
         \/ p = "spinload" /\ n \in 2 .. 3 /\ At(p, n).val = Spin[n - 1]
<1>1. OpAt(p, n) = "winData"
  BY OpIs
<1>2. ASSUME p = "p1test"
      PROVE  p = "p1test" /\ n \in 2 .. Letters + 2
  <2>1. OneOp(n) = "winData"
    BY <1>1, <1>2 DEF OpAt
  <2>2. n \in 1 .. OnePark + 6
    BY <1>2, PlaceIs
  <2>3. CASE n <= OneFwd
    BY <1>2, <2>1, <2>2, <2>3, PlaceNat DEF OneOp
  <2>4. CASE n \in OneFwd + 1 .. OnePark
    BY <1>2, <2>1, <2>2, <2>4, PlaceNat DEF OneOp, FwdOp
  <2>5. CASE n > OnePark
    BY <1>2, <2>1, <2>2, <2>5, PlaceNat DEF OneOp
  <2> QED BY <2>2, <2>3, <2>4, <2>5, PlaceNat
<1>3. ASSUME p = "p2test"
      PROVE  p = "p2test" /\ n \in TwoSum + 4 .. TwoSum + 9
  <2>1. TwoOp(n) = "winData"
    BY <1>1, <1>3 DEF OpAt
  <2>2. n \in 1 .. TwoSum + 25
    BY <1>3, PlaceIs
  <2>3. CASE n <= TwoFwd
    BY <1>3, <2>1, <2>2, <2>3, PlaceNat DEF TwoOp
  <2>4. CASE n \in TwoFwd + 1 .. TwoData - 2
    BY <1>3, <2>1, <2>2, <2>4, PlaceNat DEF TwoOp, FwdOp
  <2>5. CASE n \in TwoData - 1 .. TwoSum
    BY <1>3, <2>1, <2>2, <2>5, PlaceNat DEF TwoOp
  <2>6. CASE n \in TwoSum + 1 .. TwoSum + 12
    BY <1>3, <2>1, <2>2, <2>6, PlaceNat DEF TwoOp
  <2>7. CASE n > TwoSum + 12
    BY <1>3, <2>1, <2>2, <2>7, PlaceNat DEF TwoOp, FwdOp
  <2> QED BY <2>2, <2>3, <2>4, <2>5, <2>6, <2>7, PlaceNat
<1>4. ASSUME p = "p2btest"
      PROVE  p = "p2btest" /\ n \in 2 .. 4
  <2>1. TimedOp(n) = "winData"
    BY <1>1, <1>4 DEF OpAt
  <2>2. n \in 1 .. 29
    BY <1>4, PlaceIs
  <2>3. CASE n <= 10
    BY <1>4, <2>1, <2>2, <2>3, PlaceNat DEF TimedOp
  <2>4. CASE n \in 11 .. 20
    BY <1>4, <2>1, <2>2, <2>4, PlaceNat DEF TimedOp
  <2>5. CASE n > 20
    BY <1>4, <2>1, <2>2, <2>5, PlaceNat DEF TimedOp
  <2> QED BY <2>2, <2>3, <2>4, <2>5, PlaceNat
<1>5. ASSUME p = "spinload"
      PROVE  p = "spinload" /\ n \in 2 .. 3
  <2>1. SpinOp(n) = "winData"
    BY <1>1, <1>5 DEF OpAt
  <2> QED BY <1>5, <2>1, PlaceIs DEF SpinOp
<1>6. ASSUME p = "p1test" /\ n \in 2 .. Letters + 2
      PROVE  p = "p1test" /\ n \in 2 .. Letters + 2 /\ At(p, n).val = Hello[n - 1]
  <2>1. p1test[n] = Op("winData", 0, Hello[n - 1])
    BY <1>6, OneLines
  <2>2. At(p, n) = p1test[n]
    BY <1>6, CodeIs DEF At
  <2> QED BY <1>6, <2>1, <2>2, Fields
<1>7. ASSUME p = "p2test" /\ n \in TwoSum + 4 .. TwoSum + 9
      PROVE  p = "p2test" /\ n \in TwoSum + 4 .. TwoSum + 9 /\ At(p, n).val = DdrSum[n - TwoSum - 3]
  <2>1. p2test[n] = Op("winData", 0, DdrSum[n - TwoSum - 3])
    BY <1>7, TwoLines
  <2>2. At(p, n) = p2test[n]
    BY <1>7, CodeIs DEF At
  <2> QED BY <1>7, <2>1, <2>2, Fields
<1>8. ASSUME p = "p2btest" /\ n \in 2 .. 4
      PROVE  p = "p2btest" /\ n \in 2 .. 4 /\ At(p, n).val = LoopLocal[n - 1]
  <2>1. p2btest[n] = Op("winData", 0, LoopLocal[n - 1])
    BY <1>8, TimedLines
  <2>2. At(p, n) = p2btest[n]
    BY <1>8, CodeIs DEF At
  <2> QED BY <1>8, <2>1, <2>2, Fields
<1>9. ASSUME p = "spinload" /\ n \in 2 .. 3
      PROVE  p = "spinload" /\ n \in 2 .. 3 /\ At(p, n).val = Spin[n - 1]
  <2>1. spinload[n] = Op("winData", 0, Spin[n - 1])
    BY <1>9, SpinLines
  <2>2. At(p, n) = spinload[n]
    BY <1>9, CodeIs DEF At
  <2> QED BY <1>9, <2>1, <2>2, Fields
<1> QED BY <1>2, <1>3, <1>4, <1>5, <1>6, <1>7, <1>8, <1>9 DEF Programs

LEMMA AtStartPc ==
  ASSUME NEW p \in Programs, NEW n \in Place(p), At(p, n).op = "startPc"
  PROVE  \/ p = "p1test" /\ n = Letters + 3 /\ At(p, n).at = 1
         \/ p = "p2test" /\ n = Letters + 4 /\ At(p, n).at = DdrBase + 1
         \/ p = "p2test" /\ n = TwoSum + 10 /\ At(p, n).at = 1
         \/ p = "p2btest" /\ n = 6 /\ At(p, n).at = 1
         \/ p = "p2btest" /\ n = 20 /\ At(p, n).at = DdrBase + 1
         \/ p = "spinload" /\ n = 4 /\ At(p, n).at = 1
<1>1. OpAt(p, n) = "startPc"
  BY OpIs
<1>2. ASSUME p = "p1test"
      PROVE  p = "p1test" /\ n = Letters + 3
  <2>1. OneOp(n) = "startPc"
    BY <1>1, <1>2 DEF OpAt
  <2>2. n \in 1 .. OnePark + 6
    BY <1>2, PlaceIs
  <2>3. CASE n <= OneFwd
    BY <1>2, <2>1, <2>2, <2>3, PlaceNat DEF OneOp
  <2>4. CASE n \in OneFwd + 1 .. OnePark
    BY <1>2, <2>1, <2>2, <2>4, PlaceNat DEF OneOp, FwdOp
  <2>5. CASE n > OnePark
    BY <1>2, <2>1, <2>2, <2>5, PlaceNat DEF OneOp
  <2> QED BY <2>2, <2>3, <2>4, <2>5, PlaceNat
<1>3. ASSUME p = "p2test"
      PROVE  \/ p = "p2test" /\ n = Letters + 4
             \/ p = "p2test" /\ n = TwoSum + 10
  <2>1. TwoOp(n) = "startPc"
    BY <1>1, <1>3 DEF OpAt
  <2>2. n \in 1 .. TwoSum + 25
    BY <1>3, PlaceIs
  <2>3. CASE n <= TwoFwd
    BY <1>3, <2>1, <2>2, <2>3, PlaceNat DEF TwoOp
  <2>4. CASE n \in TwoFwd + 1 .. TwoData - 2
    BY <1>3, <2>1, <2>2, <2>4, PlaceNat DEF TwoOp, FwdOp
  <2>5. CASE n \in TwoData - 1 .. TwoSum
    BY <1>3, <2>1, <2>2, <2>5, PlaceNat DEF TwoOp
  <2>6. CASE n \in TwoSum + 1 .. TwoSum + 12
    BY <1>3, <2>1, <2>2, <2>6, PlaceNat DEF TwoOp
  <2>7. CASE n > TwoSum + 12
    BY <1>3, <2>1, <2>2, <2>7, PlaceNat DEF TwoOp, FwdOp
  <2> QED BY <2>2, <2>3, <2>4, <2>5, <2>6, <2>7, PlaceNat
<1>4. ASSUME p = "p2btest"
      PROVE  \/ p = "p2btest" /\ n = 6
             \/ p = "p2btest" /\ n = 20
  <2>1. TimedOp(n) = "startPc"
    BY <1>1, <1>4 DEF OpAt
  <2>2. n \in 1 .. 29
    BY <1>4, PlaceIs
  <2>3. CASE n <= 10
    BY <1>4, <2>1, <2>2, <2>3, PlaceNat DEF TimedOp
  <2>4. CASE n \in 11 .. 20
    BY <1>4, <2>1, <2>2, <2>4, PlaceNat DEF TimedOp
  <2>5. CASE n > 20
    BY <1>4, <2>1, <2>2, <2>5, PlaceNat DEF TimedOp
  <2> QED BY <2>2, <2>3, <2>4, <2>5, PlaceNat
<1>5. ASSUME p = "spinload"
      PROVE  p = "spinload" /\ n = 4
  <2>1. SpinOp(n) = "startPc"
    BY <1>1, <1>5 DEF OpAt
  <2> QED BY <1>5, <2>1, PlaceIs DEF SpinOp
<1>6. ASSUME p = "p1test" /\ n = Letters + 3
      PROVE  p = "p1test" /\ n = Letters + 3 /\ At(p, n).at = 1
  <2>1. p1test[n] = Reg("startPc", 1)
    BY <1>6, OneLines
  <2>2. At(p, n) = p1test[n]
    BY <1>6, CodeIs DEF At
  <2> QED BY <1>6, <2>1, <2>2, Fields
<1>7. ASSUME p = "p2test" /\ n = Letters + 4
      PROVE  p = "p2test" /\ n = Letters + 4 /\ At(p, n).at = DdrBase + 1
  <2>1. p2test[n] = Reg("startPc", DdrBase + 1)
    BY <1>7, TwoLines
  <2>2. At(p, n) = p2test[n]
    BY <1>7, CodeIs DEF At
  <2> QED BY <1>7, <2>1, <2>2, Fields
<1>8. ASSUME p = "p2test" /\ n = TwoSum + 10
      PROVE  p = "p2test" /\ n = TwoSum + 10 /\ At(p, n).at = 1
  <2>1. p2test[n] = Reg("startPc", 1)
    BY <1>8, TwoLines
  <2>2. At(p, n) = p2test[n]
    BY <1>8, CodeIs DEF At
  <2> QED BY <1>8, <2>1, <2>2, Fields
<1>9. ASSUME p = "p2btest" /\ n = 6
      PROVE  p = "p2btest" /\ n = 6 /\ At(p, n).at = 1
  <2>1. p2btest[n] = Reg("startPc", 1)
    BY <1>9, TimedLines
  <2>2. At(p, n) = p2btest[n]
    BY <1>9, CodeIs DEF At
  <2> QED BY <1>9, <2>1, <2>2, Fields
<1>10. ASSUME p = "p2btest" /\ n = 20
      PROVE  p = "p2btest" /\ n = 20 /\ At(p, n).at = DdrBase + 1
  <2>1. p2btest[n] = Reg("startPc", DdrBase + 1)
    BY <1>10, TimedLines
  <2>2. At(p, n) = p2btest[n]
    BY <1>10, CodeIs DEF At
  <2> QED BY <1>10, <2>1, <2>2, Fields
<1>11. ASSUME p = "spinload" /\ n = 4
      PROVE  p = "spinload" /\ n = 4 /\ At(p, n).at = 1
  <2>1. spinload[n] = Reg("startPc", 1)
    BY <1>11, SpinLines
  <2>2. At(p, n) = spinload[n]
    BY <1>11, CodeIs DEF At
  <2> QED BY <1>11, <2>1, <2>2, Fields
<1> QED BY <1>2, <1>3, <1>4, <1>5, <1>6, <1>7, <1>8, <1>9, <1>10, <1>11 DEF Programs

LEMMA AtRun ==
  ASSUME NEW p \in Programs, NEW n \in Place(p), At(p, n).op = "run"
  PROVE  \/ p = "p1test" /\ n = OneFwd /\ At(p, n).at = 1
         \/ p = "p2test" /\ n = Letters + 5 /\ At(p, n).at = 0
         \/ p = "p2test" /\ n = TwoFwd /\ At(p, n).at = 1
         \/ p = "p2test" /\ n = TwoData /\ At(p, n).at = 0
         \/ p = "p2test" /\ n = TwoSum + 11 /\ At(p, n).at = 0
         \/ p = "p2test" /\ n = TwoSum + 12 /\ At(p, n).at = 1
         \/ p = "p2test" /\ n = TwoSum + 17 /\ At(p, n).at = 0
         \/ p = "p2btest" /\ n = 7 /\ At(p, n).at = 0
         \/ p = "p2btest" /\ n = 8 /\ At(p, n).at = 1
         \/ p = "p2btest" /\ n = 10 /\ At(p, n).at = 0
         \/ p = "p2btest" /\ n = 21 /\ At(p, n).at = 0
         \/ p = "p2btest" /\ n = 22 /\ At(p, n).at = 1
         \/ p = "p2btest" /\ n = 24 /\ At(p, n).at = 0
         \/ p = "spinload" /\ n = 5 /\ At(p, n).at = 0
         \/ p = "spinload" /\ n = 6 /\ At(p, n).at = 1
<1>1. OpAt(p, n) = "run"
  BY OpIs
<1>2. ASSUME p = "p1test"
      PROVE  p = "p1test" /\ n = OneFwd
  <2>1. OneOp(n) = "run"
    BY <1>1, <1>2 DEF OpAt
  <2>2. n \in 1 .. OnePark + 6
    BY <1>2, PlaceIs
  <2>3. CASE n <= OneFwd
    BY <1>2, <2>1, <2>2, <2>3, PlaceNat DEF OneOp
  <2>4. CASE n \in OneFwd + 1 .. OnePark
    BY <1>2, <2>1, <2>2, <2>4, PlaceNat DEF OneOp, FwdOp
  <2>5. CASE n > OnePark
    BY <1>2, <2>1, <2>2, <2>5, PlaceNat DEF OneOp
  <2> QED BY <2>2, <2>3, <2>4, <2>5, PlaceNat
<1>3. ASSUME p = "p2test"
      PROVE  \/ p = "p2test" /\ n = Letters + 5
             \/ p = "p2test" /\ n = TwoFwd
             \/ p = "p2test" /\ n = TwoData
             \/ p = "p2test" /\ n = TwoSum + 11
             \/ p = "p2test" /\ n = TwoSum + 12
             \/ p = "p2test" /\ n = TwoSum + 17
  <2>1. TwoOp(n) = "run"
    BY <1>1, <1>3 DEF OpAt
  <2>2. n \in 1 .. TwoSum + 25
    BY <1>3, PlaceIs
  <2>3. CASE n <= TwoFwd
    BY <1>3, <2>1, <2>2, <2>3, PlaceNat DEF TwoOp
  <2>4. CASE n \in TwoFwd + 1 .. TwoData - 2
    BY <1>3, <2>1, <2>2, <2>4, PlaceNat DEF TwoOp, FwdOp
  <2>5. CASE n \in TwoData - 1 .. TwoSum
    BY <1>3, <2>1, <2>2, <2>5, PlaceNat DEF TwoOp
  <2>6. CASE n \in TwoSum + 1 .. TwoSum + 12
    BY <1>3, <2>1, <2>2, <2>6, PlaceNat DEF TwoOp
  <2>7. CASE n > TwoSum + 12
    BY <1>3, <2>1, <2>2, <2>7, PlaceNat DEF TwoOp, FwdOp
  <2> QED BY <2>2, <2>3, <2>4, <2>5, <2>6, <2>7, PlaceNat
<1>4. ASSUME p = "p2btest"
      PROVE  \/ p = "p2btest" /\ n = 7
             \/ p = "p2btest" /\ n = 8
             \/ p = "p2btest" /\ n = 10
             \/ p = "p2btest" /\ n = 21
             \/ p = "p2btest" /\ n = 22
             \/ p = "p2btest" /\ n = 24
  <2>1. TimedOp(n) = "run"
    BY <1>1, <1>4 DEF OpAt
  <2>2. n \in 1 .. 29
    BY <1>4, PlaceIs
  <2>3. CASE n <= 10
    BY <1>4, <2>1, <2>2, <2>3, PlaceNat DEF TimedOp
  <2>4. CASE n \in 11 .. 20
    BY <1>4, <2>1, <2>2, <2>4, PlaceNat DEF TimedOp
  <2>5. CASE n > 20
    BY <1>4, <2>1, <2>2, <2>5, PlaceNat DEF TimedOp
  <2> QED BY <2>2, <2>3, <2>4, <2>5, PlaceNat
<1>5. ASSUME p = "spinload"
      PROVE  \/ p = "spinload" /\ n = 5
             \/ p = "spinload" /\ n = 6
  <2>1. SpinOp(n) = "run"
    BY <1>1, <1>5 DEF OpAt
  <2> QED BY <1>5, <2>1, PlaceIs DEF SpinOp
<1>6. ASSUME p = "p1test" /\ n = OneFwd
      PROVE  p = "p1test" /\ n = OneFwd /\ At(p, n).at = 1
  <2>1. p1test[n] = Reg("run", 1)
    BY <1>6, OneLines
  <2>2. At(p, n) = p1test[n]
    BY <1>6, CodeIs DEF At
  <2> QED BY <1>6, <2>1, <2>2, Fields
<1>7. ASSUME p = "p2test" /\ n = Letters + 5
      PROVE  p = "p2test" /\ n = Letters + 5 /\ At(p, n).at = 0
  <2>1. p2test[n] = Reg("run", 0)
    BY <1>7, TwoLines
  <2>2. At(p, n) = p2test[n]
    BY <1>7, CodeIs DEF At
  <2> QED BY <1>7, <2>1, <2>2, Fields
<1>8. ASSUME p = "p2test" /\ n = TwoFwd
      PROVE  p = "p2test" /\ n = TwoFwd /\ At(p, n).at = 1
  <2>1. p2test[n] = Reg("run", 1)
    BY <1>8, TwoLines
  <2>2. At(p, n) = p2test[n]
    BY <1>8, CodeIs DEF At
  <2> QED BY <1>8, <2>1, <2>2, Fields
<1>9. ASSUME p = "p2test" /\ n = TwoData
      PROVE  p = "p2test" /\ n = TwoData /\ At(p, n).at = 0
  <2>1. p2test[n] = Reg("run", 0)
    BY <1>9, TwoLines
  <2>2. At(p, n) = p2test[n]
    BY <1>9, CodeIs DEF At
  <2> QED BY <1>9, <2>1, <2>2, Fields
<1>10. ASSUME p = "p2test" /\ n = TwoSum + 11
      PROVE  p = "p2test" /\ n = TwoSum + 11 /\ At(p, n).at = 0
  <2>1. p2test[n] = Reg("run", 0)
    BY <1>10, TwoLines
  <2>2. At(p, n) = p2test[n]
    BY <1>10, CodeIs DEF At
  <2> QED BY <1>10, <2>1, <2>2, Fields
<1>11. ASSUME p = "p2test" /\ n = TwoSum + 12
      PROVE  p = "p2test" /\ n = TwoSum + 12 /\ At(p, n).at = 1
  <2>1. p2test[n] = Reg("run", 1)
    BY <1>11, TwoLines
  <2>2. At(p, n) = p2test[n]
    BY <1>11, CodeIs DEF At
  <2> QED BY <1>11, <2>1, <2>2, Fields
<1>12. ASSUME p = "p2test" /\ n = TwoSum + 17
      PROVE  p = "p2test" /\ n = TwoSum + 17 /\ At(p, n).at = 0
  <2>1. p2test[n] = Reg("run", 0)
    BY <1>12, TwoLines
  <2>2. At(p, n) = p2test[n]
    BY <1>12, CodeIs DEF At
  <2> QED BY <1>12, <2>1, <2>2, Fields
<1>13. ASSUME p = "p2btest" /\ n = 7
      PROVE  p = "p2btest" /\ n = 7 /\ At(p, n).at = 0
  <2>1. p2btest[n] = Reg("run", 0)
    BY <1>13, TimedLines
  <2>2. At(p, n) = p2btest[n]
    BY <1>13, CodeIs DEF At
  <2> QED BY <1>13, <2>1, <2>2, Fields
<1>14. ASSUME p = "p2btest" /\ n = 8
      PROVE  p = "p2btest" /\ n = 8 /\ At(p, n).at = 1
  <2>1. p2btest[n] = Reg("run", 1)
    BY <1>14, TimedLines
  <2>2. At(p, n) = p2btest[n]
    BY <1>14, CodeIs DEF At
  <2> QED BY <1>14, <2>1, <2>2, Fields
<1>15. ASSUME p = "p2btest" /\ n = 10
      PROVE  p = "p2btest" /\ n = 10 /\ At(p, n).at = 0
  <2>1. p2btest[n] = Reg("run", 0)
    BY <1>15, TimedLines
  <2>2. At(p, n) = p2btest[n]
    BY <1>15, CodeIs DEF At
  <2> QED BY <1>15, <2>1, <2>2, Fields
<1>16. ASSUME p = "p2btest" /\ n = 21
      PROVE  p = "p2btest" /\ n = 21 /\ At(p, n).at = 0
  <2>1. p2btest[n] = Reg("run", 0)
    BY <1>16, TimedLines
  <2>2. At(p, n) = p2btest[n]
    BY <1>16, CodeIs DEF At
  <2> QED BY <1>16, <2>1, <2>2, Fields
<1>17. ASSUME p = "p2btest" /\ n = 22
      PROVE  p = "p2btest" /\ n = 22 /\ At(p, n).at = 1
  <2>1. p2btest[n] = Reg("run", 1)
    BY <1>17, TimedLines
  <2>2. At(p, n) = p2btest[n]
    BY <1>17, CodeIs DEF At
  <2> QED BY <1>17, <2>1, <2>2, Fields
<1>18. ASSUME p = "p2btest" /\ n = 24
      PROVE  p = "p2btest" /\ n = 24 /\ At(p, n).at = 0
  <2>1. p2btest[n] = Reg("run", 0)
    BY <1>18, TimedLines
  <2>2. At(p, n) = p2btest[n]
    BY <1>18, CodeIs DEF At
  <2> QED BY <1>18, <2>1, <2>2, Fields
<1>19. ASSUME p = "spinload" /\ n = 5
      PROVE  p = "spinload" /\ n = 5 /\ At(p, n).at = 0
  <2>1. spinload[n] = Reg("run", 0)
    BY <1>19, SpinLines
  <2>2. At(p, n) = spinload[n]
    BY <1>19, CodeIs DEF At
  <2> QED BY <1>19, <2>1, <2>2, Fields
<1>20. ASSUME p = "spinload" /\ n = 6
      PROVE  p = "spinload" /\ n = 6 /\ At(p, n).at = 1
  <2>1. spinload[n] = Reg("run", 1)
    BY <1>20, SpinLines
  <2>2. At(p, n) = spinload[n]
    BY <1>20, CodeIs DEF At
  <2> QED BY <1>20, <2>1, <2>2, Fields
<1> QED BY <1>2, <1>3, <1>4, <1>5, <1>6, <1>7, <1>8, <1>9, <1>10, <1>11, <1>12, <1>13, <1>14, <1>15, <1>16, <1>17, <1>18, <1>19, <1>20 DEF Programs

LEMMA AtLogWait ==
  ASSUME NEW p \in Programs, NEW n \in Place(p), At(p, n).op = "logWait"
  PROVE  \/ p = "p1test" /\ n \in OneFwd + 1 .. OnePark /\ (n - OneFwd - 1) % 3 = 0
         \/ p = "p2test" /\ n \in TwoFwd + 1 .. TwoData - 2 /\ (n - TwoFwd - 1) % 3 = 0
         \/ p = "p2test" /\ n = TwoSum + 13
<1>1. OpAt(p, n) = "logWait"
  BY OpIs
<1>2. ASSUME p = "p1test"
      PROVE  p = "p1test" /\ n \in OneFwd + 1 .. OnePark /\ (n - OneFwd - 1) % 3 = 0
  <2>1. OneOp(n) = "logWait"
    BY <1>1, <1>2 DEF OpAt
  <2>2. n \in 1 .. OnePark + 6
    BY <1>2, PlaceIs
  <2>3. CASE n <= OneFwd
    BY <1>2, <2>1, <2>2, <2>3, PlaceNat DEF OneOp
  <2>4. CASE n \in OneFwd + 1 .. OnePark
    BY <1>2, <2>1, <2>2, <2>4, PlaceNat DEF OneOp, FwdOp
  <2>5. CASE n > OnePark
    BY <1>2, <2>1, <2>2, <2>5, PlaceNat DEF OneOp
  <2> QED BY <2>2, <2>3, <2>4, <2>5, PlaceNat
<1>3. ASSUME p = "p2test"
      PROVE  \/ p = "p2test" /\ n \in TwoFwd + 1 .. TwoData - 2 /\ (n - TwoFwd - 1) % 3 = 0
             \/ p = "p2test" /\ n = TwoSum + 13
  <2>1. TwoOp(n) = "logWait"
    BY <1>1, <1>3 DEF OpAt
  <2>2. n \in 1 .. TwoSum + 25
    BY <1>3, PlaceIs
  <2>3. CASE n <= TwoFwd
    BY <1>3, <2>1, <2>2, <2>3, PlaceNat DEF TwoOp
  <2>4. CASE n \in TwoFwd + 1 .. TwoData - 2
    BY <1>3, <2>1, <2>2, <2>4, PlaceNat DEF TwoOp, FwdOp
  <2>5. CASE n \in TwoData - 1 .. TwoSum
    BY <1>3, <2>1, <2>2, <2>5, PlaceNat DEF TwoOp
  <2>6. CASE n \in TwoSum + 1 .. TwoSum + 12
    BY <1>3, <2>1, <2>2, <2>6, PlaceNat DEF TwoOp
  <2>7. CASE n > TwoSum + 12
    BY <1>3, <2>1, <2>2, <2>7, PlaceNat DEF TwoOp, FwdOp
  <2> QED BY <2>2, <2>3, <2>4, <2>5, <2>6, <2>7, PlaceNat
<1>4. ASSUME p = "p2btest"
      PROVE  FALSE
  <2>1. TimedOp(n) = "logWait"
    BY <1>1, <1>4 DEF OpAt
  <2>2. n \in 1 .. 29
    BY <1>4, PlaceIs
  <2>3. CASE n <= 10
    BY <1>4, <2>1, <2>2, <2>3, PlaceNat DEF TimedOp
  <2>4. CASE n \in 11 .. 20
    BY <1>4, <2>1, <2>2, <2>4, PlaceNat DEF TimedOp
  <2>5. CASE n > 20
    BY <1>4, <2>1, <2>2, <2>5, PlaceNat DEF TimedOp
  <2> QED BY <2>2, <2>3, <2>4, <2>5, PlaceNat
<1>5. ASSUME p = "spinload"
      PROVE  FALSE
  <2>1. SpinOp(n) = "logWait"
    BY <1>1, <1>5 DEF OpAt
  <2> QED BY <1>5, <2>1, PlaceIs DEF SpinOp
<1> QED BY <1>2, <1>3, <1>4, <1>5 DEF Programs

LEMMA AtPutc ==
  ASSUME NEW p \in Programs, NEW n \in Place(p), At(p, n).op = "putc"
  PROVE  \/ p = "p1test" /\ n \in OneFwd + 1 .. OnePark /\ (n - OneFwd - 1) % 3 = 1
         \/ p = "p2test" /\ n \in TwoFwd + 1 .. TwoData - 2 /\ (n - TwoFwd - 1) % 3 = 1
         \/ p = "p2test" /\ n = TwoSum + 14
<1>1. OpAt(p, n) = "putc"
  BY OpIs
<1>2. ASSUME p = "p1test"
      PROVE  p = "p1test" /\ n \in OneFwd + 1 .. OnePark /\ (n - OneFwd - 1) % 3 = 1
  <2>1. OneOp(n) = "putc"
    BY <1>1, <1>2 DEF OpAt
  <2>2. n \in 1 .. OnePark + 6
    BY <1>2, PlaceIs
  <2>3. CASE n <= OneFwd
    BY <1>2, <2>1, <2>2, <2>3, PlaceNat DEF OneOp
  <2>4. CASE n \in OneFwd + 1 .. OnePark
    BY <1>2, <2>1, <2>2, <2>4, PlaceNat DEF OneOp, FwdOp
  <2>5. CASE n > OnePark
    BY <1>2, <2>1, <2>2, <2>5, PlaceNat DEF OneOp
  <2> QED BY <2>2, <2>3, <2>4, <2>5, PlaceNat
<1>3. ASSUME p = "p2test"
      PROVE  \/ p = "p2test" /\ n \in TwoFwd + 1 .. TwoData - 2 /\ (n - TwoFwd - 1) % 3 = 1
             \/ p = "p2test" /\ n = TwoSum + 14
  <2>1. TwoOp(n) = "putc"
    BY <1>1, <1>3 DEF OpAt
  <2>2. n \in 1 .. TwoSum + 25
    BY <1>3, PlaceIs
  <2>3. CASE n <= TwoFwd
    BY <1>3, <2>1, <2>2, <2>3, PlaceNat DEF TwoOp
  <2>4. CASE n \in TwoFwd + 1 .. TwoData - 2
    BY <1>3, <2>1, <2>2, <2>4, PlaceNat DEF TwoOp, FwdOp
  <2>5. CASE n \in TwoData - 1 .. TwoSum
    BY <1>3, <2>1, <2>2, <2>5, PlaceNat DEF TwoOp
  <2>6. CASE n \in TwoSum + 1 .. TwoSum + 12
    BY <1>3, <2>1, <2>2, <2>6, PlaceNat DEF TwoOp
  <2>7. CASE n > TwoSum + 12
    BY <1>3, <2>1, <2>2, <2>7, PlaceNat DEF TwoOp, FwdOp
  <2> QED BY <2>2, <2>3, <2>4, <2>5, <2>6, <2>7, PlaceNat
<1>4. ASSUME p = "p2btest"
      PROVE  FALSE
  <2>1. TimedOp(n) = "putc"
    BY <1>1, <1>4 DEF OpAt
  <2>2. n \in 1 .. 29
    BY <1>4, PlaceIs
  <2>3. CASE n <= 10
    BY <1>4, <2>1, <2>2, <2>3, PlaceNat DEF TimedOp
  <2>4. CASE n \in 11 .. 20
    BY <1>4, <2>1, <2>2, <2>4, PlaceNat DEF TimedOp
  <2>5. CASE n > 20
    BY <1>4, <2>1, <2>2, <2>5, PlaceNat DEF TimedOp
  <2> QED BY <2>2, <2>3, <2>4, <2>5, PlaceNat
<1>5. ASSUME p = "spinload"
      PROVE  FALSE
  <2>1. SpinOp(n) = "putc"
    BY <1>1, <1>5 DEF OpAt
  <2> QED BY <1>5, <2>1, PlaceIs DEF SpinOp
<1> QED BY <1>2, <1>3, <1>4, <1>5 DEF Programs

LEMMA AtPop ==
  ASSUME NEW p \in Programs, NEW n \in Place(p), At(p, n).op = "pop"
  PROVE  \/ p = "p1test" /\ n \in OneFwd + 1 .. OnePark /\ (n - OneFwd - 1) % 3 = 2
         \/ p = "p2test" /\ n \in TwoFwd + 1 .. TwoData - 2 /\ (n - TwoFwd - 1) % 3 = 2
         \/ p = "p2test" /\ n = TwoSum + 15
<1>1. OpAt(p, n) = "pop"
  BY OpIs
<1>2. ASSUME p = "p1test"
      PROVE  p = "p1test" /\ n \in OneFwd + 1 .. OnePark /\ (n - OneFwd - 1) % 3 = 2
  <2>1. OneOp(n) = "pop"
    BY <1>1, <1>2 DEF OpAt
  <2>2. n \in 1 .. OnePark + 6
    BY <1>2, PlaceIs
  <2>3. CASE n <= OneFwd
    BY <1>2, <2>1, <2>2, <2>3, PlaceNat DEF OneOp
  <2>4. CASE n \in OneFwd + 1 .. OnePark
    BY <1>2, <2>1, <2>2, <2>4, PlaceNat DEF OneOp, FwdOp
  <2>5. CASE n > OnePark
    BY <1>2, <2>1, <2>2, <2>5, PlaceNat DEF OneOp
  <2> QED BY <2>2, <2>3, <2>4, <2>5, PlaceNat
<1>3. ASSUME p = "p2test"
      PROVE  \/ p = "p2test" /\ n \in TwoFwd + 1 .. TwoData - 2 /\ (n - TwoFwd - 1) % 3 = 2
             \/ p = "p2test" /\ n = TwoSum + 15
  <2>1. TwoOp(n) = "pop"
    BY <1>1, <1>3 DEF OpAt
  <2>2. n \in 1 .. TwoSum + 25
    BY <1>3, PlaceIs
  <2>3. CASE n <= TwoFwd
    BY <1>3, <2>1, <2>2, <2>3, PlaceNat DEF TwoOp
  <2>4. CASE n \in TwoFwd + 1 .. TwoData - 2
    BY <1>3, <2>1, <2>2, <2>4, PlaceNat DEF TwoOp, FwdOp
  <2>5. CASE n \in TwoData - 1 .. TwoSum
    BY <1>3, <2>1, <2>2, <2>5, PlaceNat DEF TwoOp
  <2>6. CASE n \in TwoSum + 1 .. TwoSum + 12
    BY <1>3, <2>1, <2>2, <2>6, PlaceNat DEF TwoOp
  <2>7. CASE n > TwoSum + 12
    BY <1>3, <2>1, <2>2, <2>7, PlaceNat DEF TwoOp, FwdOp
  <2> QED BY <2>2, <2>3, <2>4, <2>5, <2>6, <2>7, PlaceNat
<1>4. ASSUME p = "p2btest"
      PROVE  FALSE
  <2>1. TimedOp(n) = "pop"
    BY <1>1, <1>4 DEF OpAt
  <2>2. n \in 1 .. 29
    BY <1>4, PlaceIs
  <2>3. CASE n <= 10
    BY <1>4, <2>1, <2>2, <2>3, PlaceNat DEF TimedOp
  <2>4. CASE n \in 11 .. 20
    BY <1>4, <2>1, <2>2, <2>4, PlaceNat DEF TimedOp
  <2>5. CASE n > 20
    BY <1>4, <2>1, <2>2, <2>5, PlaceNat DEF TimedOp
  <2> QED BY <2>2, <2>3, <2>4, <2>5, PlaceNat
<1>5. ASSUME p = "spinload"
      PROVE  FALSE
  <2>1. SpinOp(n) = "pop"
    BY <1>1, <1>5 DEF OpAt
  <2> QED BY <1>5, <2>1, PlaceIs DEF SpinOp
<1> QED BY <1>2, <1>3, <1>4, <1>5 DEF Programs

LEMMA AtParkWait ==
  ASSUME NEW p \in Programs, NEW n \in Place(p), At(p, n).op = "parkWait"
  PROVE  \/ p = "p1test" /\ n = OnePark + 1
         \/ p = "p2test" /\ n = TwoData - 1
         \/ p = "p2test" /\ n = TwoSum + 16
         \/ p = "p2btest" /\ n = 9
         \/ p = "p2btest" /\ n = 23
<1>1. OpAt(p, n) = "parkWait"
  BY OpIs
<1>2. ASSUME p = "p1test"
      PROVE  p = "p1test" /\ n = OnePark + 1
  <2>1. OneOp(n) = "parkWait"
    BY <1>1, <1>2 DEF OpAt
  <2>2. n \in 1 .. OnePark + 6
    BY <1>2, PlaceIs
  <2>3. CASE n <= OneFwd
    BY <1>2, <2>1, <2>2, <2>3, PlaceNat DEF OneOp
  <2>4. CASE n \in OneFwd + 1 .. OnePark
    BY <1>2, <2>1, <2>2, <2>4, PlaceNat DEF OneOp, FwdOp
  <2>5. CASE n > OnePark
    BY <1>2, <2>1, <2>2, <2>5, PlaceNat DEF OneOp
  <2> QED BY <2>2, <2>3, <2>4, <2>5, PlaceNat
<1>3. ASSUME p = "p2test"
      PROVE  \/ p = "p2test" /\ n = TwoData - 1
             \/ p = "p2test" /\ n = TwoSum + 16
  <2>1. TwoOp(n) = "parkWait"
    BY <1>1, <1>3 DEF OpAt
  <2>2. n \in 1 .. TwoSum + 25
    BY <1>3, PlaceIs
  <2>3. CASE n <= TwoFwd
    BY <1>3, <2>1, <2>2, <2>3, PlaceNat DEF TwoOp
  <2>4. CASE n \in TwoFwd + 1 .. TwoData - 2
    BY <1>3, <2>1, <2>2, <2>4, PlaceNat DEF TwoOp, FwdOp
  <2>5. CASE n \in TwoData - 1 .. TwoSum
    BY <1>3, <2>1, <2>2, <2>5, PlaceNat DEF TwoOp
  <2>6. CASE n \in TwoSum + 1 .. TwoSum + 12
    BY <1>3, <2>1, <2>2, <2>6, PlaceNat DEF TwoOp
  <2>7. CASE n > TwoSum + 12
    BY <1>3, <2>1, <2>2, <2>7, PlaceNat DEF TwoOp, FwdOp
  <2> QED BY <2>2, <2>3, <2>4, <2>5, <2>6, <2>7, PlaceNat
<1>4. ASSUME p = "p2btest"
      PROVE  \/ p = "p2btest" /\ n = 9
             \/ p = "p2btest" /\ n = 23
  <2>1. TimedOp(n) = "parkWait"
    BY <1>1, <1>4 DEF OpAt
  <2>2. n \in 1 .. 29
    BY <1>4, PlaceIs
  <2>3. CASE n <= 10
    BY <1>4, <2>1, <2>2, <2>3, PlaceNat DEF TimedOp
  <2>4. CASE n \in 11 .. 20
    BY <1>4, <2>1, <2>2, <2>4, PlaceNat DEF TimedOp
  <2>5. CASE n > 20
    BY <1>4, <2>1, <2>2, <2>5, PlaceNat DEF TimedOp
  <2> QED BY <2>2, <2>3, <2>4, <2>5, PlaceNat
<1>5. ASSUME p = "spinload"
      PROVE  FALSE
  <2>1. SpinOp(n) = "parkWait"
    BY <1>1, <1>5 DEF OpAt
  <2> QED BY <1>5, <2>1, PlaceIs DEF SpinOp
<1> QED BY <1>2, <1>3, <1>4, <1>5 DEF Programs

LEMMA AtCheckCtrl ==
  ASSUME NEW p \in Programs, NEW n \in Place(p), At(p, n).op = "checkCtrl"
  PROVE  p = "p1test" /\ n = OnePark + 2
<1>1. OpAt(p, n) = "checkCtrl"
  BY OpIs
<1>2. ASSUME p = "p1test"
      PROVE  p = "p1test" /\ n = OnePark + 2
  <2>1. OneOp(n) = "checkCtrl"
    BY <1>1, <1>2 DEF OpAt
  <2>2. n \in 1 .. OnePark + 6
    BY <1>2, PlaceIs
  <2>3. CASE n <= OneFwd
    BY <1>2, <2>1, <2>2, <2>3, PlaceNat DEF OneOp
  <2>4. CASE n \in OneFwd + 1 .. OnePark
    BY <1>2, <2>1, <2>2, <2>4, PlaceNat DEF OneOp, FwdOp
  <2>5. CASE n > OnePark
    BY <1>2, <2>1, <2>2, <2>5, PlaceNat DEF OneOp
  <2> QED BY <2>2, <2>3, <2>4, <2>5, PlaceNat
<1>3. ASSUME p = "p2test"
      PROVE  FALSE
  <2>1. TwoOp(n) = "checkCtrl"
    BY <1>1, <1>3 DEF OpAt
  <2>2. n \in 1 .. TwoSum + 25
    BY <1>3, PlaceIs
  <2>3. CASE n <= TwoFwd
    BY <1>3, <2>1, <2>2, <2>3, PlaceNat DEF TwoOp
  <2>4. CASE n \in TwoFwd + 1 .. TwoData - 2
    BY <1>3, <2>1, <2>2, <2>4, PlaceNat DEF TwoOp, FwdOp
  <2>5. CASE n \in TwoData - 1 .. TwoSum
    BY <1>3, <2>1, <2>2, <2>5, PlaceNat DEF TwoOp
  <2>6. CASE n \in TwoSum + 1 .. TwoSum + 12
    BY <1>3, <2>1, <2>2, <2>6, PlaceNat DEF TwoOp
  <2>7. CASE n > TwoSum + 12
    BY <1>3, <2>1, <2>2, <2>7, PlaceNat DEF TwoOp, FwdOp
  <2> QED BY <2>2, <2>3, <2>4, <2>5, <2>6, <2>7, PlaceNat
<1>4. ASSUME p = "p2btest"
      PROVE  FALSE
  <2>1. TimedOp(n) = "checkCtrl"
    BY <1>1, <1>4 DEF OpAt
  <2>2. n \in 1 .. 29
    BY <1>4, PlaceIs
  <2>3. CASE n <= 10
    BY <1>4, <2>1, <2>2, <2>3, PlaceNat DEF TimedOp
  <2>4. CASE n \in 11 .. 20
    BY <1>4, <2>1, <2>2, <2>4, PlaceNat DEF TimedOp
  <2>5. CASE n > 20
    BY <1>4, <2>1, <2>2, <2>5, PlaceNat DEF TimedOp
  <2> QED BY <2>2, <2>3, <2>4, <2>5, PlaceNat
<1>5. ASSUME p = "spinload"
      PROVE  FALSE
  <2>1. SpinOp(n) = "checkCtrl"
    BY <1>1, <1>5 DEF OpAt
  <2> QED BY <1>5, <2>1, PlaceIs DEF SpinOp
<1> QED BY <1>2, <1>3, <1>4, <1>5 DEF Programs

LEMMA AtPuts ==
  ASSUME NEW p \in Programs, NEW n \in Place(p), At(p, n).op = "puts"
  PROVE  \/ p = "p1test" /\ n = OnePark + 3 /\ At(p, n).val.img = "P1_PASS"
         \/ p = "p1test" /\ n = OnePark + 5 /\ At(p, n).val.img = "P1_FAIL"
         \/ p = "p2test" /\ n = TwoSum + 22 /\ At(p, n).val.img = "P2_PASS"
         \/ p = "p2test" /\ n = TwoSum + 24 /\ At(p, n).val.img = "P2_FAIL"
         \/ p = "p2btest" /\ n = 12 /\ At(p, n).val.img = "L="
         \/ p = "p2btest" /\ n = 26 /\ At(p, n).val.img = "D="
         \/ p = "p2btest" /\ n = 28 /\ At(p, n).val.img = "P2B_DONE"
         \/ p = "spinload" /\ n = 7 /\ At(p, n).val.img = "core2_spinning"
<1>1. OpAt(p, n) = "puts"
  BY OpIs
<1>2. ASSUME p = "p1test"
      PROVE  \/ p = "p1test" /\ n = OnePark + 3
             \/ p = "p1test" /\ n = OnePark + 5
  <2>1. OneOp(n) = "puts"
    BY <1>1, <1>2 DEF OpAt
  <2>2. n \in 1 .. OnePark + 6
    BY <1>2, PlaceIs
  <2>3. CASE n <= OneFwd
    BY <1>2, <2>1, <2>2, <2>3, PlaceNat DEF OneOp
  <2>4. CASE n \in OneFwd + 1 .. OnePark
    BY <1>2, <2>1, <2>2, <2>4, PlaceNat DEF OneOp, FwdOp
  <2>5. CASE n > OnePark
    BY <1>2, <2>1, <2>2, <2>5, PlaceNat DEF OneOp
  <2> QED BY <2>2, <2>3, <2>4, <2>5, PlaceNat
<1>3. ASSUME p = "p2test"
      PROVE  \/ p = "p2test" /\ n = TwoSum + 22
             \/ p = "p2test" /\ n = TwoSum + 24
  <2>1. TwoOp(n) = "puts"
    BY <1>1, <1>3 DEF OpAt
  <2>2. n \in 1 .. TwoSum + 25
    BY <1>3, PlaceIs
  <2>3. CASE n <= TwoFwd
    BY <1>3, <2>1, <2>2, <2>3, PlaceNat DEF TwoOp
  <2>4. CASE n \in TwoFwd + 1 .. TwoData - 2
    BY <1>3, <2>1, <2>2, <2>4, PlaceNat DEF TwoOp, FwdOp
  <2>5. CASE n \in TwoData - 1 .. TwoSum
    BY <1>3, <2>1, <2>2, <2>5, PlaceNat DEF TwoOp
  <2>6. CASE n \in TwoSum + 1 .. TwoSum + 12
    BY <1>3, <2>1, <2>2, <2>6, PlaceNat DEF TwoOp
  <2>7. CASE n > TwoSum + 12
    BY <1>3, <2>1, <2>2, <2>7, PlaceNat DEF TwoOp, FwdOp
  <2> QED BY <2>2, <2>3, <2>4, <2>5, <2>6, <2>7, PlaceNat
<1>4. ASSUME p = "p2btest"
      PROVE  \/ p = "p2btest" /\ n = 12
             \/ p = "p2btest" /\ n = 26
             \/ p = "p2btest" /\ n = 28
  <2>1. TimedOp(n) = "puts"
    BY <1>1, <1>4 DEF OpAt
  <2>2. n \in 1 .. 29
    BY <1>4, PlaceIs
  <2>3. CASE n <= 10
    BY <1>4, <2>1, <2>2, <2>3, PlaceNat DEF TimedOp
  <2>4. CASE n \in 11 .. 20
    BY <1>4, <2>1, <2>2, <2>4, PlaceNat DEF TimedOp
  <2>5. CASE n > 20
    BY <1>4, <2>1, <2>2, <2>5, PlaceNat DEF TimedOp
  <2> QED BY <2>2, <2>3, <2>4, <2>5, PlaceNat
<1>5. ASSUME p = "spinload"
      PROVE  p = "spinload" /\ n = 7
  <2>1. SpinOp(n) = "puts"
    BY <1>1, <1>5 DEF OpAt
  <2> QED BY <1>5, <2>1, PlaceIs DEF SpinOp
<1>6. ASSUME p = "p1test" /\ n = OnePark + 3
      PROVE  p = "p1test" /\ n = OnePark + 3 /\ At(p, n).val.img = "P1_PASS"
  <2>1. p1test[n] = Put("P1_PASS")
    BY <1>6, OneLines
  <2>2. At(p, n) = p1test[n]
    BY <1>6, CodeIs DEF At
  <2> QED BY <1>6, <2>1, <2>2, Fields, PutIs
<1>7. ASSUME p = "p1test" /\ n = OnePark + 5
      PROVE  p = "p1test" /\ n = OnePark + 5 /\ At(p, n).val.img = "P1_FAIL"
  <2>1. p1test[n] = Put("P1_FAIL")
    BY <1>7, OneLines
  <2>2. At(p, n) = p1test[n]
    BY <1>7, CodeIs DEF At
  <2> QED BY <1>7, <2>1, <2>2, Fields, PutIs
<1>8. ASSUME p = "p2test" /\ n = TwoSum + 22
      PROVE  p = "p2test" /\ n = TwoSum + 22 /\ At(p, n).val.img = "P2_PASS"
  <2>1. p2test[n] = Put("P2_PASS")
    BY <1>8, TwoLines
  <2>2. At(p, n) = p2test[n]
    BY <1>8, CodeIs DEF At
  <2> QED BY <1>8, <2>1, <2>2, Fields, PutIs
<1>9. ASSUME p = "p2test" /\ n = TwoSum + 24
      PROVE  p = "p2test" /\ n = TwoSum + 24 /\ At(p, n).val.img = "P2_FAIL"
  <2>1. p2test[n] = Put("P2_FAIL")
    BY <1>9, TwoLines
  <2>2. At(p, n) = p2test[n]
    BY <1>9, CodeIs DEF At
  <2> QED BY <1>9, <2>1, <2>2, Fields, PutIs
<1>10. ASSUME p = "p2btest" /\ n = 12
      PROVE  p = "p2btest" /\ n = 12 /\ At(p, n).val.img = "L="
  <2>1. p2btest[n] = Put("L=")
    BY <1>10, TimedLines
  <2>2. At(p, n) = p2btest[n]
    BY <1>10, CodeIs DEF At
  <2> QED BY <1>10, <2>1, <2>2, Fields, PutIs
<1>11. ASSUME p = "p2btest" /\ n = 26
      PROVE  p = "p2btest" /\ n = 26 /\ At(p, n).val.img = "D="
  <2>1. p2btest[n] = Put("D=")
    BY <1>11, TimedLines
  <2>2. At(p, n) = p2btest[n]
    BY <1>11, CodeIs DEF At
  <2> QED BY <1>11, <2>1, <2>2, Fields, PutIs
<1>12. ASSUME p = "p2btest" /\ n = 28
      PROVE  p = "p2btest" /\ n = 28 /\ At(p, n).val.img = "P2B_DONE"
  <2>1. p2btest[n] = Put("P2B_DONE")
    BY <1>12, TimedLines
  <2>2. At(p, n) = p2btest[n]
    BY <1>12, CodeIs DEF At
  <2> QED BY <1>12, <2>1, <2>2, Fields, PutIs
<1>13. ASSUME p = "spinload" /\ n = 7
      PROVE  p = "spinload" /\ n = 7 /\ At(p, n).val.img = "core2_spinning"
  <2>1. spinload[n] = Put("core2_spinning")
    BY <1>13, SpinLines
  <2>2. At(p, n) = spinload[n]
    BY <1>13, CodeIs DEF At
  <2> QED BY <1>13, <2>1, <2>2, Fields, PutIs
<1> QED BY <1>2, <1>3, <1>4, <1>5, <1>6, <1>7, <1>8, <1>9, <1>10, <1>11, <1>12, <1>13 DEF Programs

LEMMA AtHalt ==
  ASSUME NEW p \in Programs, NEW n \in Place(p), At(p, n).op = "halt"
  PROVE  \/ p = "p1test" /\ n = OnePark + 4
         \/ p = "p1test" /\ n = OnePark + 6
         \/ p = "p2test" /\ n = TwoSum + 23
         \/ p = "p2test" /\ n = TwoSum + 25
         \/ p = "p2btest" /\ n = 29
         \/ p = "spinload" /\ n = 8
<1>1. OpAt(p, n) = "halt"
  BY OpIs
<1>2. ASSUME p = "p1test"
      PROVE  \/ p = "p1test" /\ n = OnePark + 4
             \/ p = "p1test" /\ n = OnePark + 6
  <2>1. OneOp(n) = "halt"
    BY <1>1, <1>2 DEF OpAt
  <2>2. n \in 1 .. OnePark + 6
    BY <1>2, PlaceIs
  <2>3. CASE n <= OneFwd
    BY <1>2, <2>1, <2>2, <2>3, PlaceNat DEF OneOp
  <2>4. CASE n \in OneFwd + 1 .. OnePark
    BY <1>2, <2>1, <2>2, <2>4, PlaceNat DEF OneOp, FwdOp
  <2>5. CASE n > OnePark
    BY <1>2, <2>1, <2>2, <2>5, PlaceNat DEF OneOp
  <2> QED BY <2>2, <2>3, <2>4, <2>5, PlaceNat
<1>3. ASSUME p = "p2test"
      PROVE  \/ p = "p2test" /\ n = TwoSum + 23
             \/ p = "p2test" /\ n = TwoSum + 25
  <2>1. TwoOp(n) = "halt"
    BY <1>1, <1>3 DEF OpAt
  <2>2. n \in 1 .. TwoSum + 25
    BY <1>3, PlaceIs
  <2>3. CASE n <= TwoFwd
    BY <1>3, <2>1, <2>2, <2>3, PlaceNat DEF TwoOp
  <2>4. CASE n \in TwoFwd + 1 .. TwoData - 2
    BY <1>3, <2>1, <2>2, <2>4, PlaceNat DEF TwoOp, FwdOp
  <2>5. CASE n \in TwoData - 1 .. TwoSum
    BY <1>3, <2>1, <2>2, <2>5, PlaceNat DEF TwoOp
  <2>6. CASE n \in TwoSum + 1 .. TwoSum + 12
    BY <1>3, <2>1, <2>2, <2>6, PlaceNat DEF TwoOp
  <2>7. CASE n > TwoSum + 12
    BY <1>3, <2>1, <2>2, <2>7, PlaceNat DEF TwoOp, FwdOp
  <2> QED BY <2>2, <2>3, <2>4, <2>5, <2>6, <2>7, PlaceNat
<1>4. ASSUME p = "p2btest"
      PROVE  p = "p2btest" /\ n = 29
  <2>1. TimedOp(n) = "halt"
    BY <1>1, <1>4 DEF OpAt
  <2>2. n \in 1 .. 29
    BY <1>4, PlaceIs
  <2>3. CASE n <= 10
    BY <1>4, <2>1, <2>2, <2>3, PlaceNat DEF TimedOp
  <2>4. CASE n \in 11 .. 20
    BY <1>4, <2>1, <2>2, <2>4, PlaceNat DEF TimedOp
  <2>5. CASE n > 20
    BY <1>4, <2>1, <2>2, <2>5, PlaceNat DEF TimedOp
  <2> QED BY <2>2, <2>3, <2>4, <2>5, PlaceNat
<1>5. ASSUME p = "spinload"
      PROVE  p = "spinload" /\ n = 8
  <2>1. SpinOp(n) = "halt"
    BY <1>1, <1>5 DEF OpAt
  <2> QED BY <1>5, <2>1, PlaceIs DEF SpinOp
<1> QED BY <1>2, <1>3, <1>4, <1>5 DEF Programs

LEMMA AtStore ==
  ASSUME NEW p \in Programs, NEW n \in Place(p), At(p, n).op = "store"
  PROVE  \/ p = "p2test" /\ n \in 1 .. Letters + 1 /\ At(p, n).at = DdrBase + n /\ At(p, n).val = Hello[n]
         \/ p = "p2test" /\ n \in TwoData + 1 .. TwoSum /\ At(p, n).at = DataBase + (n - TwoData) /\ At(p, n).val = Data[n - TwoData]
         \/ p = "p2btest" /\ n \in 14 .. 16 /\ At(p, n).at = DdrBase + (n - 13) /\ At(p, n).val = LoopDdr[n - 13]
<1>1. OpAt(p, n) = "store"
  BY OpIs
<1>2. ASSUME p = "p1test"
      PROVE  FALSE
  <2>1. OneOp(n) = "store"
    BY <1>1, <1>2 DEF OpAt
  <2>2. n \in 1 .. OnePark + 6
    BY <1>2, PlaceIs
  <2>3. CASE n <= OneFwd
    BY <1>2, <2>1, <2>2, <2>3, PlaceNat DEF OneOp
  <2>4. CASE n \in OneFwd + 1 .. OnePark
    BY <1>2, <2>1, <2>2, <2>4, PlaceNat DEF OneOp, FwdOp
  <2>5. CASE n > OnePark
    BY <1>2, <2>1, <2>2, <2>5, PlaceNat DEF OneOp
  <2> QED BY <2>2, <2>3, <2>4, <2>5, PlaceNat
<1>3. ASSUME p = "p2test"
      PROVE  \/ p = "p2test" /\ n \in 1 .. Letters + 1
             \/ p = "p2test" /\ n \in TwoData + 1 .. TwoSum
  <2>1. TwoOp(n) = "store"
    BY <1>1, <1>3 DEF OpAt
  <2>2. n \in 1 .. TwoSum + 25
    BY <1>3, PlaceIs
  <2>3. CASE n <= TwoFwd
    BY <1>3, <2>1, <2>2, <2>3, PlaceNat DEF TwoOp
  <2>4. CASE n \in TwoFwd + 1 .. TwoData - 2
    BY <1>3, <2>1, <2>2, <2>4, PlaceNat DEF TwoOp, FwdOp
  <2>5. CASE n \in TwoData - 1 .. TwoSum
    BY <1>3, <2>1, <2>2, <2>5, PlaceNat DEF TwoOp
  <2>6. CASE n \in TwoSum + 1 .. TwoSum + 12
    BY <1>3, <2>1, <2>2, <2>6, PlaceNat DEF TwoOp
  <2>7. CASE n > TwoSum + 12
    BY <1>3, <2>1, <2>2, <2>7, PlaceNat DEF TwoOp, FwdOp
  <2> QED BY <2>2, <2>3, <2>4, <2>5, <2>6, <2>7, PlaceNat
<1>4. ASSUME p = "p2btest"
      PROVE  p = "p2btest" /\ n \in 14 .. 16
  <2>1. TimedOp(n) = "store"
    BY <1>1, <1>4 DEF OpAt
  <2>2. n \in 1 .. 29
    BY <1>4, PlaceIs
  <2>3. CASE n <= 10
    BY <1>4, <2>1, <2>2, <2>3, PlaceNat DEF TimedOp
  <2>4. CASE n \in 11 .. 20
    BY <1>4, <2>1, <2>2, <2>4, PlaceNat DEF TimedOp
  <2>5. CASE n > 20
    BY <1>4, <2>1, <2>2, <2>5, PlaceNat DEF TimedOp
  <2> QED BY <2>2, <2>3, <2>4, <2>5, PlaceNat
<1>5. ASSUME p = "spinload"
      PROVE  FALSE
  <2>1. SpinOp(n) = "store"
    BY <1>1, <1>5 DEF OpAt
  <2> QED BY <1>5, <2>1, PlaceIs DEF SpinOp
<1>6. ASSUME p = "p2test" /\ n \in 1 .. Letters + 1
      PROVE  p = "p2test" /\ n \in 1 .. Letters + 1 /\ At(p, n).at = DdrBase + n /\ At(p, n).val = Hello[n]
  <2>1. p2test[n] = Store(DdrBase + n, Hello[n])
    BY <1>6, TwoLines
  <2>2. At(p, n) = p2test[n]
    BY <1>6, CodeIs DEF At
  <2> QED BY <1>6, <2>1, <2>2, Fields
<1>7. ASSUME p = "p2test" /\ n \in TwoData + 1 .. TwoSum
      PROVE  p = "p2test" /\ n \in TwoData + 1 .. TwoSum /\ At(p, n).at = DataBase + (n - TwoData) /\ At(p, n).val = Data[n - TwoData]
  <2>1. p2test[n] = Store(DataBase + (n - TwoData), Data[n - TwoData])
    BY <1>7, TwoLines
  <2>2. At(p, n) = p2test[n]
    BY <1>7, CodeIs DEF At
  <2> QED BY <1>7, <2>1, <2>2, Fields
<1>8. ASSUME p = "p2btest" /\ n \in 14 .. 16
      PROVE  p = "p2btest" /\ n \in 14 .. 16 /\ At(p, n).at = DdrBase + (n - 13) /\ At(p, n).val = LoopDdr[n - 13]
  <2>1. p2btest[n] = Store(DdrBase + (n - 13), LoopDdr[n - 13])
    BY <1>8, TimedLines
  <2>2. At(p, n) = p2btest[n]
    BY <1>8, CodeIs DEF At
  <2> QED BY <1>8, <2>1, <2>2, Fields
<1> QED BY <1>2, <1>3, <1>4, <1>5, <1>6, <1>7, <1>8 DEF Programs

LEMMA AtMaint ==
  ASSUME NEW p \in Programs, NEW n \in Place(p), At(p, n).op = "maint"
  PROVE  \/ p = "p2test" /\ n = Letters + 2 /\ At(p, n).val.img = "FLUSH"
         \/ p = "p2test" /\ n = TwoSum + 1 /\ At(p, n).val.img = "FLUSH"
         \/ p = "p2test" /\ n = TwoSum + 18 /\ At(p, n).val.img = "INVALIDATE"
         \/ p = "p2btest" /\ n = 17 /\ At(p, n).val.img = "FLUSH"
<1>1. OpAt(p, n) = "maint"
  BY OpIs
<1>2. ASSUME p = "p1test"
      PROVE  FALSE
  <2>1. OneOp(n) = "maint"
    BY <1>1, <1>2 DEF OpAt
  <2>2. n \in 1 .. OnePark + 6
    BY <1>2, PlaceIs
  <2>3. CASE n <= OneFwd
    BY <1>2, <2>1, <2>2, <2>3, PlaceNat DEF OneOp
  <2>4. CASE n \in OneFwd + 1 .. OnePark
    BY <1>2, <2>1, <2>2, <2>4, PlaceNat DEF OneOp, FwdOp
  <2>5. CASE n > OnePark
    BY <1>2, <2>1, <2>2, <2>5, PlaceNat DEF OneOp
  <2> QED BY <2>2, <2>3, <2>4, <2>5, PlaceNat
<1>3. ASSUME p = "p2test"
      PROVE  \/ p = "p2test" /\ n = Letters + 2
             \/ p = "p2test" /\ n = TwoSum + 1
             \/ p = "p2test" /\ n = TwoSum + 18
  <2>1. TwoOp(n) = "maint"
    BY <1>1, <1>3 DEF OpAt
  <2>2. n \in 1 .. TwoSum + 25
    BY <1>3, PlaceIs
  <2>3. CASE n <= TwoFwd
    BY <1>3, <2>1, <2>2, <2>3, PlaceNat DEF TwoOp
  <2>4. CASE n \in TwoFwd + 1 .. TwoData - 2
    BY <1>3, <2>1, <2>2, <2>4, PlaceNat DEF TwoOp, FwdOp
  <2>5. CASE n \in TwoData - 1 .. TwoSum
    BY <1>3, <2>1, <2>2, <2>5, PlaceNat DEF TwoOp
  <2>6. CASE n \in TwoSum + 1 .. TwoSum + 12
    BY <1>3, <2>1, <2>2, <2>6, PlaceNat DEF TwoOp
  <2>7. CASE n > TwoSum + 12
    BY <1>3, <2>1, <2>2, <2>7, PlaceNat DEF TwoOp, FwdOp
  <2> QED BY <2>2, <2>3, <2>4, <2>5, <2>6, <2>7, PlaceNat
<1>4. ASSUME p = "p2btest"
      PROVE  p = "p2btest" /\ n = 17
  <2>1. TimedOp(n) = "maint"
    BY <1>1, <1>4 DEF OpAt
  <2>2. n \in 1 .. 29
    BY <1>4, PlaceIs
  <2>3. CASE n <= 10
    BY <1>4, <2>1, <2>2, <2>3, PlaceNat DEF TimedOp
  <2>4. CASE n \in 11 .. 20
    BY <1>4, <2>1, <2>2, <2>4, PlaceNat DEF TimedOp
  <2>5. CASE n > 20
    BY <1>4, <2>1, <2>2, <2>5, PlaceNat DEF TimedOp
  <2> QED BY <2>2, <2>3, <2>4, <2>5, PlaceNat
<1>5. ASSUME p = "spinload"
      PROVE  FALSE
  <2>1. SpinOp(n) = "maint"
    BY <1>1, <1>5 DEF OpAt
  <2> QED BY <1>5, <2>1, PlaceIs DEF SpinOp
<1>6. ASSUME p = "p2test" /\ n = Letters + 2
      PROVE  p = "p2test" /\ n = Letters + 2 /\ At(p, n).val.img = "FLUSH"
  <2>1. p2test[n] = Op("maint", 0, Dword("FLUSH", "text", 0))
    BY <1>6, TwoLines
  <2>2. At(p, n) = p2test[n]
    BY <1>6, CodeIs DEF At
  <2> QED BY <1>6, <2>1, <2>2, Fields, MaintIs
<1>7. ASSUME p = "p2test" /\ n = TwoSum + 1
      PROVE  p = "p2test" /\ n = TwoSum + 1 /\ At(p, n).val.img = "FLUSH"
  <2>1. p2test[n] = Op("maint", 0, Dword("FLUSH", "text", 0))
    BY <1>7, TwoLines
  <2>2. At(p, n) = p2test[n]
    BY <1>7, CodeIs DEF At
  <2> QED BY <1>7, <2>1, <2>2, Fields, MaintIs
<1>8. ASSUME p = "p2test" /\ n = TwoSum + 18
      PROVE  p = "p2test" /\ n = TwoSum + 18 /\ At(p, n).val.img = "INVALIDATE"
  <2>1. p2test[n] = Op("maint", 0, Dword("INVALIDATE", "text", 0))
    BY <1>8, TwoLines
  <2>2. At(p, n) = p2test[n]
    BY <1>8, CodeIs DEF At
  <2> QED BY <1>8, <2>1, <2>2, Fields, MaintIs
<1>9. ASSUME p = "p2btest" /\ n = 17
      PROVE  p = "p2btest" /\ n = 17 /\ At(p, n).val.img = "FLUSH"
  <2>1. p2btest[n] = Op("maint", 0, Dword("FLUSH", "text", 0))
    BY <1>9, TimedLines
  <2>2. At(p, n) = p2btest[n]
    BY <1>9, CodeIs DEF At
  <2> QED BY <1>9, <2>1, <2>2, Fields, MaintIs
<1> QED BY <1>2, <1>3, <1>4, <1>5, <1>6, <1>7, <1>8, <1>9 DEF Programs

LEMMA AtMntWait ==
  ASSUME NEW p \in Programs, NEW n \in Place(p), At(p, n).op = "mntWait"
  PROVE  \/ p = "p2test" /\ n = Letters + 3
         \/ p = "p2test" /\ n = TwoSum + 2
         \/ p = "p2test" /\ n = TwoSum + 19
         \/ p = "p2btest" /\ n = 18
<1>1. OpAt(p, n) = "mntWait"
  BY OpIs
<1>2. ASSUME p = "p1test"
      PROVE  FALSE
  <2>1. OneOp(n) = "mntWait"
    BY <1>1, <1>2 DEF OpAt
  <2>2. n \in 1 .. OnePark + 6
    BY <1>2, PlaceIs
  <2>3. CASE n <= OneFwd
    BY <1>2, <2>1, <2>2, <2>3, PlaceNat DEF OneOp
  <2>4. CASE n \in OneFwd + 1 .. OnePark
    BY <1>2, <2>1, <2>2, <2>4, PlaceNat DEF OneOp, FwdOp
  <2>5. CASE n > OnePark
    BY <1>2, <2>1, <2>2, <2>5, PlaceNat DEF OneOp
  <2> QED BY <2>2, <2>3, <2>4, <2>5, PlaceNat
<1>3. ASSUME p = "p2test"
      PROVE  \/ p = "p2test" /\ n = Letters + 3
             \/ p = "p2test" /\ n = TwoSum + 2
             \/ p = "p2test" /\ n = TwoSum + 19
  <2>1. TwoOp(n) = "mntWait"
    BY <1>1, <1>3 DEF OpAt
  <2>2. n \in 1 .. TwoSum + 25
    BY <1>3, PlaceIs
  <2>3. CASE n <= TwoFwd
    BY <1>3, <2>1, <2>2, <2>3, PlaceNat DEF TwoOp
  <2>4. CASE n \in TwoFwd + 1 .. TwoData - 2
    BY <1>3, <2>1, <2>2, <2>4, PlaceNat DEF TwoOp, FwdOp
  <2>5. CASE n \in TwoData - 1 .. TwoSum
    BY <1>3, <2>1, <2>2, <2>5, PlaceNat DEF TwoOp
  <2>6. CASE n \in TwoSum + 1 .. TwoSum + 12
    BY <1>3, <2>1, <2>2, <2>6, PlaceNat DEF TwoOp
  <2>7. CASE n > TwoSum + 12
    BY <1>3, <2>1, <2>2, <2>7, PlaceNat DEF TwoOp, FwdOp
  <2> QED BY <2>2, <2>3, <2>4, <2>5, <2>6, <2>7, PlaceNat
<1>4. ASSUME p = "p2btest"
      PROVE  p = "p2btest" /\ n = 18
  <2>1. TimedOp(n) = "mntWait"
    BY <1>1, <1>4 DEF OpAt
  <2>2. n \in 1 .. 29
    BY <1>4, PlaceIs
  <2>3. CASE n <= 10
    BY <1>4, <2>1, <2>2, <2>3, PlaceNat DEF TimedOp
  <2>4. CASE n \in 11 .. 20
    BY <1>4, <2>1, <2>2, <2>4, PlaceNat DEF TimedOp
  <2>5. CASE n > 20
    BY <1>4, <2>1, <2>2, <2>5, PlaceNat DEF TimedOp
  <2> QED BY <2>2, <2>3, <2>4, <2>5, PlaceNat
<1>5. ASSUME p = "spinload"
      PROVE  FALSE
  <2>1. SpinOp(n) = "mntWait"
    BY <1>1, <1>5 DEF OpAt
  <2> QED BY <1>5, <2>1, PlaceIs DEF SpinOp
<1> QED BY <1>2, <1>3, <1>4, <1>5 DEF Programs

LEMMA AtLoad ==
  ASSUME NEW p \in Programs, NEW n \in Place(p), At(p, n).op = "load"
  PROVE  p = "p2test" /\ n = TwoSum + 20 /\ At(p, n).at = Result
<1>1. OpAt(p, n) = "load"
  BY OpIs
<1>2. ASSUME p = "p1test"
      PROVE  FALSE
  <2>1. OneOp(n) = "load"
    BY <1>1, <1>2 DEF OpAt
  <2>2. n \in 1 .. OnePark + 6
    BY <1>2, PlaceIs
  <2>3. CASE n <= OneFwd
    BY <1>2, <2>1, <2>2, <2>3, PlaceNat DEF OneOp
  <2>4. CASE n \in OneFwd + 1 .. OnePark
    BY <1>2, <2>1, <2>2, <2>4, PlaceNat DEF OneOp, FwdOp
  <2>5. CASE n > OnePark
    BY <1>2, <2>1, <2>2, <2>5, PlaceNat DEF OneOp
  <2> QED BY <2>2, <2>3, <2>4, <2>5, PlaceNat
<1>3. ASSUME p = "p2test"
      PROVE  p = "p2test" /\ n = TwoSum + 20
  <2>1. TwoOp(n) = "load"
    BY <1>1, <1>3 DEF OpAt
  <2>2. n \in 1 .. TwoSum + 25
    BY <1>3, PlaceIs
  <2>3. CASE n <= TwoFwd
    BY <1>3, <2>1, <2>2, <2>3, PlaceNat DEF TwoOp
  <2>4. CASE n \in TwoFwd + 1 .. TwoData - 2
    BY <1>3, <2>1, <2>2, <2>4, PlaceNat DEF TwoOp, FwdOp
  <2>5. CASE n \in TwoData - 1 .. TwoSum
    BY <1>3, <2>1, <2>2, <2>5, PlaceNat DEF TwoOp
  <2>6. CASE n \in TwoSum + 1 .. TwoSum + 12
    BY <1>3, <2>1, <2>2, <2>6, PlaceNat DEF TwoOp
  <2>7. CASE n > TwoSum + 12
    BY <1>3, <2>1, <2>2, <2>7, PlaceNat DEF TwoOp, FwdOp
  <2> QED BY <2>2, <2>3, <2>4, <2>5, <2>6, <2>7, PlaceNat
<1>4. ASSUME p = "p2btest"
      PROVE  FALSE
  <2>1. TimedOp(n) = "load"
    BY <1>1, <1>4 DEF OpAt
  <2>2. n \in 1 .. 29
    BY <1>4, PlaceIs
  <2>3. CASE n <= 10
    BY <1>4, <2>1, <2>2, <2>3, PlaceNat DEF TimedOp
  <2>4. CASE n \in 11 .. 20
    BY <1>4, <2>1, <2>2, <2>4, PlaceNat DEF TimedOp
  <2>5. CASE n > 20
    BY <1>4, <2>1, <2>2, <2>5, PlaceNat DEF TimedOp
  <2> QED BY <2>2, <2>3, <2>4, <2>5, PlaceNat
<1>5. ASSUME p = "spinload"
      PROVE  FALSE
  <2>1. SpinOp(n) = "load"
    BY <1>1, <1>5 DEF OpAt
  <2> QED BY <1>5, <2>1, PlaceIs DEF SpinOp
<1>6. ASSUME p = "p2test" /\ n = TwoSum + 20
      PROVE  p = "p2test" /\ n = TwoSum + 20 /\ At(p, n).at = Result
  <2>1. p2test[n] = Reg("load", Result)
    BY <1>6, TwoLines
  <2>2. At(p, n) = p2test[n]
    BY <1>6, CodeIs DEF At
  <2> QED BY <1>6, <2>1, <2>2, Fields
<1> QED BY <1>2, <1>3, <1>4, <1>5, <1>6 DEF Programs

LEMMA AtCheckSum ==
  ASSUME NEW p \in Programs, NEW n \in Place(p), At(p, n).op = "checkSum"
  PROVE  p = "p2test" /\ n = TwoSum + 21 /\ At(p, n).at = Total
<1>1. OpAt(p, n) = "checkSum"
  BY OpIs
<1>2. ASSUME p = "p1test"
      PROVE  FALSE
  <2>1. OneOp(n) = "checkSum"
    BY <1>1, <1>2 DEF OpAt
  <2>2. n \in 1 .. OnePark + 6
    BY <1>2, PlaceIs
  <2>3. CASE n <= OneFwd
    BY <1>2, <2>1, <2>2, <2>3, PlaceNat DEF OneOp
  <2>4. CASE n \in OneFwd + 1 .. OnePark
    BY <1>2, <2>1, <2>2, <2>4, PlaceNat DEF OneOp, FwdOp
  <2>5. CASE n > OnePark
    BY <1>2, <2>1, <2>2, <2>5, PlaceNat DEF OneOp
  <2> QED BY <2>2, <2>3, <2>4, <2>5, PlaceNat
<1>3. ASSUME p = "p2test"
      PROVE  p = "p2test" /\ n = TwoSum + 21
  <2>1. TwoOp(n) = "checkSum"
    BY <1>1, <1>3 DEF OpAt
  <2>2. n \in 1 .. TwoSum + 25
    BY <1>3, PlaceIs
  <2>3. CASE n <= TwoFwd
    BY <1>3, <2>1, <2>2, <2>3, PlaceNat DEF TwoOp
  <2>4. CASE n \in TwoFwd + 1 .. TwoData - 2
    BY <1>3, <2>1, <2>2, <2>4, PlaceNat DEF TwoOp, FwdOp
  <2>5. CASE n \in TwoData - 1 .. TwoSum
    BY <1>3, <2>1, <2>2, <2>5, PlaceNat DEF TwoOp
  <2>6. CASE n \in TwoSum + 1 .. TwoSum + 12
    BY <1>3, <2>1, <2>2, <2>6, PlaceNat DEF TwoOp
  <2>7. CASE n > TwoSum + 12
    BY <1>3, <2>1, <2>2, <2>7, PlaceNat DEF TwoOp, FwdOp
  <2> QED BY <2>2, <2>3, <2>4, <2>5, <2>6, <2>7, PlaceNat
<1>4. ASSUME p = "p2btest"
      PROVE  FALSE
  <2>1. TimedOp(n) = "checkSum"
    BY <1>1, <1>4 DEF OpAt
  <2>2. n \in 1 .. 29
    BY <1>4, PlaceIs
  <2>3. CASE n <= 10
    BY <1>4, <2>1, <2>2, <2>3, PlaceNat DEF TimedOp
  <2>4. CASE n \in 11 .. 20
    BY <1>4, <2>1, <2>2, <2>4, PlaceNat DEF TimedOp
  <2>5. CASE n > 20
    BY <1>4, <2>1, <2>2, <2>5, PlaceNat DEF TimedOp
  <2> QED BY <2>2, <2>3, <2>4, <2>5, PlaceNat
<1>5. ASSUME p = "spinload"
      PROVE  FALSE
  <2>1. SpinOp(n) = "checkSum"
    BY <1>1, <1>5 DEF OpAt
  <2> QED BY <1>5, <2>1, PlaceIs DEF SpinOp
<1>6. ASSUME p = "p2test" /\ n = TwoSum + 21
      PROVE  p = "p2test" /\ n = TwoSum + 21 /\ At(p, n).at = Total
  <2>1. p2test[n] = Reg("checkSum", Total)
    BY <1>6, TwoLines
  <2>2. At(p, n) = p2test[n]
    BY <1>6, CodeIs DEF At
  <2> QED BY <1>6, <2>1, <2>2, Fields
<1> QED BY <1>2, <1>3, <1>4, <1>5, <1>6 DEF Programs

LEMMA AtClock ==
  ASSUME NEW p \in Programs, NEW n \in Place(p), At(p, n).op = "clock"
  PROVE  \/ p = "p2btest" /\ n = 5
         \/ p = "p2btest" /\ n = 19
<1>1. OpAt(p, n) = "clock"
  BY OpIs
<1>2. ASSUME p = "p1test"
      PROVE  FALSE
  <2>1. OneOp(n) = "clock"
    BY <1>1, <1>2 DEF OpAt
  <2>2. n \in 1 .. OnePark + 6
    BY <1>2, PlaceIs
  <2>3. CASE n <= OneFwd
    BY <1>2, <2>1, <2>2, <2>3, PlaceNat DEF OneOp
  <2>4. CASE n \in OneFwd + 1 .. OnePark
    BY <1>2, <2>1, <2>2, <2>4, PlaceNat DEF OneOp, FwdOp
  <2>5. CASE n > OnePark
    BY <1>2, <2>1, <2>2, <2>5, PlaceNat DEF OneOp
  <2> QED BY <2>2, <2>3, <2>4, <2>5, PlaceNat
<1>3. ASSUME p = "p2test"
      PROVE  FALSE
  <2>1. TwoOp(n) = "clock"
    BY <1>1, <1>3 DEF OpAt
  <2>2. n \in 1 .. TwoSum + 25
    BY <1>3, PlaceIs
  <2>3. CASE n <= TwoFwd
    BY <1>3, <2>1, <2>2, <2>3, PlaceNat DEF TwoOp
  <2>4. CASE n \in TwoFwd + 1 .. TwoData - 2
    BY <1>3, <2>1, <2>2, <2>4, PlaceNat DEF TwoOp, FwdOp
  <2>5. CASE n \in TwoData - 1 .. TwoSum
    BY <1>3, <2>1, <2>2, <2>5, PlaceNat DEF TwoOp
  <2>6. CASE n \in TwoSum + 1 .. TwoSum + 12
    BY <1>3, <2>1, <2>2, <2>6, PlaceNat DEF TwoOp
  <2>7. CASE n > TwoSum + 12
    BY <1>3, <2>1, <2>2, <2>7, PlaceNat DEF TwoOp, FwdOp
  <2> QED BY <2>2, <2>3, <2>4, <2>5, <2>6, <2>7, PlaceNat
<1>4. ASSUME p = "p2btest"
      PROVE  \/ p = "p2btest" /\ n = 5
             \/ p = "p2btest" /\ n = 19
  <2>1. TimedOp(n) = "clock"
    BY <1>1, <1>4 DEF OpAt
  <2>2. n \in 1 .. 29
    BY <1>4, PlaceIs
  <2>3. CASE n <= 10
    BY <1>4, <2>1, <2>2, <2>3, PlaceNat DEF TimedOp
  <2>4. CASE n \in 11 .. 20
    BY <1>4, <2>1, <2>2, <2>4, PlaceNat DEF TimedOp
  <2>5. CASE n > 20
    BY <1>4, <2>1, <2>2, <2>5, PlaceNat DEF TimedOp
  <2> QED BY <2>2, <2>3, <2>4, <2>5, PlaceNat
<1>5. ASSUME p = "spinload"
      PROVE  FALSE
  <2>1. SpinOp(n) = "clock"
    BY <1>1, <1>5 DEF OpAt
  <2> QED BY <1>5, <2>1, PlaceIs DEF SpinOp
<1> QED BY <1>2, <1>3, <1>4, <1>5 DEF Programs

LEMMA AtElapsed ==
  ASSUME NEW p \in Programs, NEW n \in Place(p), At(p, n).op = "elapsed"
  PROVE  \/ p = "p2btest" /\ n = 11
         \/ p = "p2btest" /\ n = 25
<1>1. OpAt(p, n) = "elapsed"
  BY OpIs
<1>2. ASSUME p = "p1test"
      PROVE  FALSE
  <2>1. OneOp(n) = "elapsed"
    BY <1>1, <1>2 DEF OpAt
  <2>2. n \in 1 .. OnePark + 6
    BY <1>2, PlaceIs
  <2>3. CASE n <= OneFwd
    BY <1>2, <2>1, <2>2, <2>3, PlaceNat DEF OneOp
  <2>4. CASE n \in OneFwd + 1 .. OnePark
    BY <1>2, <2>1, <2>2, <2>4, PlaceNat DEF OneOp, FwdOp
  <2>5. CASE n > OnePark
    BY <1>2, <2>1, <2>2, <2>5, PlaceNat DEF OneOp
  <2> QED BY <2>2, <2>3, <2>4, <2>5, PlaceNat
<1>3. ASSUME p = "p2test"
      PROVE  FALSE
  <2>1. TwoOp(n) = "elapsed"
    BY <1>1, <1>3 DEF OpAt
  <2>2. n \in 1 .. TwoSum + 25
    BY <1>3, PlaceIs
  <2>3. CASE n <= TwoFwd
    BY <1>3, <2>1, <2>2, <2>3, PlaceNat DEF TwoOp
  <2>4. CASE n \in TwoFwd + 1 .. TwoData - 2
    BY <1>3, <2>1, <2>2, <2>4, PlaceNat DEF TwoOp, FwdOp
  <2>5. CASE n \in TwoData - 1 .. TwoSum
    BY <1>3, <2>1, <2>2, <2>5, PlaceNat DEF TwoOp
  <2>6. CASE n \in TwoSum + 1 .. TwoSum + 12
    BY <1>3, <2>1, <2>2, <2>6, PlaceNat DEF TwoOp
  <2>7. CASE n > TwoSum + 12
    BY <1>3, <2>1, <2>2, <2>7, PlaceNat DEF TwoOp, FwdOp
  <2> QED BY <2>2, <2>3, <2>4, <2>5, <2>6, <2>7, PlaceNat
<1>4. ASSUME p = "p2btest"
      PROVE  \/ p = "p2btest" /\ n = 11
             \/ p = "p2btest" /\ n = 25
  <2>1. TimedOp(n) = "elapsed"
    BY <1>1, <1>4 DEF OpAt
  <2>2. n \in 1 .. 29
    BY <1>4, PlaceIs
  <2>3. CASE n <= 10
    BY <1>4, <2>1, <2>2, <2>3, PlaceNat DEF TimedOp
  <2>4. CASE n \in 11 .. 20
    BY <1>4, <2>1, <2>2, <2>4, PlaceNat DEF TimedOp
  <2>5. CASE n > 20
    BY <1>4, <2>1, <2>2, <2>5, PlaceNat DEF TimedOp
  <2> QED BY <2>2, <2>3, <2>4, <2>5, PlaceNat
<1>5. ASSUME p = "spinload"
      PROVE  FALSE
  <2>1. SpinOp(n) = "elapsed"
    BY <1>1, <1>5 DEF OpAt
  <2> QED BY <1>5, <2>1, PlaceIs DEF SpinOp
<1> QED BY <1>2, <1>3, <1>4, <1>5 DEF Programs

LEMMA AtHex ==
  ASSUME NEW p \in Programs, NEW n \in Place(p), At(p, n).op = "print_hex64"
  PROVE  \/ p = "p2btest" /\ n = 13
         \/ p = "p2btest" /\ n = 27
<1>1. OpAt(p, n) = "print_hex64"
  BY OpIs
<1>2. ASSUME p = "p1test"
      PROVE  FALSE
  <2>1. OneOp(n) = "print_hex64"
    BY <1>1, <1>2 DEF OpAt
  <2>2. n \in 1 .. OnePark + 6
    BY <1>2, PlaceIs
  <2>3. CASE n <= OneFwd
    BY <1>2, <2>1, <2>2, <2>3, PlaceNat DEF OneOp
  <2>4. CASE n \in OneFwd + 1 .. OnePark
    BY <1>2, <2>1, <2>2, <2>4, PlaceNat DEF OneOp, FwdOp
  <2>5. CASE n > OnePark
    BY <1>2, <2>1, <2>2, <2>5, PlaceNat DEF OneOp
  <2> QED BY <2>2, <2>3, <2>4, <2>5, PlaceNat
<1>3. ASSUME p = "p2test"
      PROVE  FALSE
  <2>1. TwoOp(n) = "print_hex64"
    BY <1>1, <1>3 DEF OpAt
  <2>2. n \in 1 .. TwoSum + 25
    BY <1>3, PlaceIs
  <2>3. CASE n <= TwoFwd
    BY <1>3, <2>1, <2>2, <2>3, PlaceNat DEF TwoOp
  <2>4. CASE n \in TwoFwd + 1 .. TwoData - 2
    BY <1>3, <2>1, <2>2, <2>4, PlaceNat DEF TwoOp, FwdOp
  <2>5. CASE n \in TwoData - 1 .. TwoSum
    BY <1>3, <2>1, <2>2, <2>5, PlaceNat DEF TwoOp
  <2>6. CASE n \in TwoSum + 1 .. TwoSum + 12
    BY <1>3, <2>1, <2>2, <2>6, PlaceNat DEF TwoOp
  <2>7. CASE n > TwoSum + 12
    BY <1>3, <2>1, <2>2, <2>7, PlaceNat DEF TwoOp, FwdOp
  <2> QED BY <2>2, <2>3, <2>4, <2>5, <2>6, <2>7, PlaceNat
<1>4. ASSUME p = "p2btest"
      PROVE  \/ p = "p2btest" /\ n = 13
             \/ p = "p2btest" /\ n = 27
  <2>1. TimedOp(n) = "print_hex64"
    BY <1>1, <1>4 DEF OpAt
  <2>2. n \in 1 .. 29
    BY <1>4, PlaceIs
  <2>3. CASE n <= 10
    BY <1>4, <2>1, <2>2, <2>3, PlaceNat DEF TimedOp
  <2>4. CASE n \in 11 .. 20
    BY <1>4, <2>1, <2>2, <2>4, PlaceNat DEF TimedOp
  <2>5. CASE n > 20
    BY <1>4, <2>1, <2>2, <2>5, PlaceNat DEF TimedOp
  <2> QED BY <2>2, <2>3, <2>4, <2>5, PlaceNat
<1>5. ASSUME p = "spinload"
      PROVE  FALSE
  <2>1. SpinOp(n) = "print_hex64"
    BY <1>1, <1>5 DEF OpAt
  <2> QED BY <1>5, <2>1, PlaceIs DEF SpinOp
<1> QED BY <1>2, <1>3, <1>4, <1>5 DEF Programs

-----------------------------------------------------------------------------
(* Core 1's steps.                                                         *)

LEMMA CodeTypes == \A p \in Programs : \A n \in Place(p) : At(p, n) \in Ops
<1> SUFFICES ASSUME NEW p \in Programs, NEW n \in Place(p) PROVE At(p, n) \in Ops
  OBVIOUS
<1>1. p1test \in Seq(Ops) /\ p2test \in Seq(Ops) /\ p2btest \in Seq(Ops) /\ spinload \in Seq(Ops)
  BY CodeOne, CodeTwo, CodeTimed, CodeSpin
<1>2. ProgCode[p] \in Seq(Ops)
  BY <1>1, CodeIs DEF Programs
<1> QED BY <1>2, ElementOfSeq DEF At, Place

LEMMA NowIs == Now = At(prog, pc) /\ Now' = At(prog', pc')
BY DEF Now, At

\* Which actions change what.
LEMMA CoreFrame ==
  ASSUME Core1
  PROVE  /\ StoreDword \/ LoadDword \/ Maint \/ UNCHANGED memVars
         /\ WinAddr \/ WinData \/ StartPc \/ SetRun \/ Pop \/ UNCHANGED boxVars
         /\ SetRun \/ UNCHANGED <<twoVars, want>>
         /\ LoadDword \/ LogWait \/ ParkWait \/ Elapsed \/ UNCHANGED d
         /\ PutC \/ PutS \/ PutHex \/ UNCHANGED uart
         /\ Clock \/ UNCHANGED watch
<1> USE DEF memVars, boxVars, twoVars
<1>1. CASE StoreDword \/ LoadDword \/ Maint \/ MntWait
  BY <1>1 DEF StoreDword, LoadDword, Maint, MntWait
<1>2. CASE WinAddr \/ WinData \/ StartPc
  BY <1>2 DEF WinAddr, WinData, StartPc
<1>3. CASE SetRun
  BY <1>3 DEF SetRun
<1>4. CASE LogWait \/ Pop \/ ParkWait
  BY <1>4 DEF LogWait, Pop, ParkWait
<1>5. CASE PutC \/ PutS \/ PutHex
  BY <1>5 DEF PutC, PutS, PutHex, Send
<1>6. CASE CheckCtrl \/ CheckSum \/ Clock \/ Elapsed
  BY <1>6 DEF CheckCtrl, CheckSum, Clock, Elapsed
<1> QED BY <1>1, <1>2, <1>3, <1>4, <1>5, <1>6 DEF Core1

\* Core 1 goes on to the next access: the checks succeed.
LEMMA CoreSteps ==
  ASSUME BoardInv, Core1
  PROVE  /\ Step /\ prog' = prog /\ round' = round /\ pc' = pc + 1
         /\ prog \in Programs /\ pc \in Place(prog) /\ pc \in Nat /\ Now.op # "halt"
         /\ pc + 1 \in Place(prog) /\ PcInv'
         /\ At(prog, pc + 1).op \in After[At(prog, pc).op]
<1>1. Step
  <2> USE DEF Step
  <2>1. CASE StoreDword \/ LoadDword \/ Maint \/ MntWait
    BY <2>1 DEF StoreDword, LoadDword, Maint, MntWait
  <2>2. CASE WinAddr \/ WinData \/ StartPc
    BY <2>2 DEF WinAddr, WinData, StartPc
  <2>3. CASE SetRun
    BY <2>3 DEF SetRun
  <2>4. CASE LogWait \/ Pop \/ ParkWait
    BY <2>4 DEF LogWait, Pop, ParkWait
  <2>5. CASE PutC \/ PutS \/ PutHex
    BY <2>5 DEF PutC, PutS, PutHex
  <2>6. CASE CheckCtrl
    BY <2>6 DEF CheckCtrl, Branch, BoardInv, SaidInv, CheckInv
  <2>7. CASE CheckSum
    BY <2>7 DEF CheckSum, Branch, BoardInv, SaidInv, CheckInv
  <2>8. CASE Clock \/ Elapsed
    BY <2>8 DEF Clock, Elapsed
  <2> QED BY <2>1, <2>2, <2>3, <2>4, <2>5, <2>6, <2>7, <2>8 DEF Core1
<1>2. Now.op # "halt"
  BY DEF Core1, StoreDword, LoadDword, Maint, MntWait, WinAddr, WinData, StartPc, SetRun, LogWait,
         Pop, PutC, PutS, PutHex, ParkWait, CheckCtrl, CheckSum, Clock, Elapsed
<1>3. prog \in Programs /\ pc \in Place(prog) /\ Proper(prog, pc)
  BY DEF BoardInv, TypesOK, CoreTypes, PcInv, Proper
<1>4. prog' = prog /\ round' = round /\ pc' = pc + 1
  BY <1>1 DEF Step
<1>5. /\ pc + 1 \in Place(prog) /\ Proper(prog, pc + 1)
      /\ At(prog, pc + 1).op \in After[At(prog, pc).op]
  BY <1>2, <1>3, Follows, NowIs
<1>6. PcInv'
  BY <1>4, <1>5 DEF PcInv, Proper, OnePark, TwoSum, TwoData
<1>7. pc \in Nat
  BY <1>3 DEF Place
<1> QED BY <1>1, <1>2, <1>3, <1>4, <1>5, <1>6, <1>7

-----------------------------------------------------------------------------
(* Core 2's steps.                                                         *)

LEMMA BaseIs ==
  ASSUME core2.pc \in Nat
  PROVE  /\ core2.pc = Base + Spot /\ Spot \in Int
         /\ \/ Base = 0 /\ core2.pc < DdrBase /\ Spot = core2.pc
            \/ Base = DdrBase /\ core2.pc >= DdrBase /\ Spot = core2.pc - DdrBase
BY Sizes DEF Base, Spot

\* What runs, and from where.
LEMMA WantIs ==
  ASSUME BoardInv, run
  PROVE  \/ want = "hello" /\ (Base = 0 \/ Base = DdrBase)
         \/ want = "sum" /\ Base = 0
         \/ want = "local" /\ Base = 0
         \/ want = "ddr" /\ Base = DdrBase
         \/ want = "spin" /\ Base = 0
<1>1. Started \/ Leftover
  BY DEF BoardInv, TwoInv, RunInv
<1> QED BY <1>1 DEF Started, Leftover

LEMMA ImageIs ==
  /\ Image["hello"] = Hello /\ Image["sum"] = DdrSum /\ Image["local"] = LoopLocal
  /\ Image["ddr"] = LoopDdr /\ Image["spin"] = Spin
BY DEF Image

\* A dword of an image, by its place.
Meant(i, s, w) ==
  \/ i = "hello" /\ s \in 1 .. Letters /\ w.do = "emit" /\ w.arg = s
  \/ i = "hello" /\ s = Letters + 1 /\ w.do = "halt"
  \/ i = "sum" /\ s = 1 /\ w.do = "set" /\ w.arg = Items
  \/ i = "sum" /\ s = 2 /\ w.do = "add"
  \/ i = "sum" /\ s = 3 /\ w.do = "loop" /\ w.arg = 2
  \/ i = "sum" /\ s = 4 /\ w.do = "store"
  \/ i = "sum" /\ s = 5 /\ w.do = "emit" /\ w.arg = 1
  \/ i = "sum" /\ s = 6 /\ w.do = "halt"
  \/ i \in {"local", "ddr"} /\ s = 1 /\ w.do = "set" /\ w.arg = Iters
  \/ i = "local" /\ s = 2 /\ w.do = "loop" /\ w.arg = 2
  \/ i = "ddr" /\ s = 2 /\ w.do = "loop" /\ w.arg = DdrBase + 2
  \/ i \in {"local", "ddr"} /\ s = 3 /\ w.do = "halt"
  \/ i = "spin" /\ s = 1 /\ w.do = "add"
  \/ i = "spin" /\ s = 2 /\ w.do = "jump" /\ w.arg = 1

LEMMA ImageMeans ==
  ASSUME NEW i \in Images, NEW s \in 1 .. Len(Image[i])
  PROVE  Meant(i, s, Image[i][s]) /\ Image[i][s].img = i
<1>1. CASE i = "hello"
  <2>1. s \in 1 .. Letters + 1 /\ Image[i] = Hello
    BY <1>1, ImageIs, HelloIs
  <2>2. CASE s \in 1 .. Letters
    <3>1. Hello[s] = Dword("hello", "emit", s)
      BY <2>2, HelloIs
    <3> QED BY <1>1, <2>1, <2>2, <3>1 DEF Meant, Dword
  <2>3. CASE s = Letters + 1
    <3>1. Hello[s] = Dword("hello", "halt", 0)
      BY <2>3, HelloIs
    <3> QED BY <1>1, <2>1, <2>3, <3>1 DEF Meant, Dword
  <2> QED BY <2>1, <2>2, <2>3, Sizes
<1>2. CASE i = "sum"
  <2>1. s \in 1 .. 6 /\ Image[i] = DdrSum
    BY <1>2, ImageIs, SumIs
  <2>2. s = 1 \/ s = 2 \/ s = 3 \/ s = 4 \/ s = 5 \/ s = 6
    BY <2>1
  <2>3. \/ s = 1 /\ DdrSum[s] = Dword("sum", "set", Items)
        \/ s = 2 /\ DdrSum[s] = Dword("sum", "add", 0)
        \/ s = 3 /\ DdrSum[s] = Dword("sum", "loop", 2)
        \/ s = 4 /\ DdrSum[s] = Dword("sum", "store", 0)
        \/ s = 5 /\ DdrSum[s] = Dword("sum", "emit", 1)
        \/ s = 6 /\ DdrSum[s] = Dword("sum", "halt", 0)
    BY <2>2, SumIs
  <2> QED BY <1>2, <2>1, <2>3 DEF Meant, Dword
<1>3. CASE i = "local"
  <2>1. s \in 1 .. 3 /\ Image[i] = LoopLocal
    BY <1>3, ImageIs, LoopIs
  <2>2. \/ s = 1 /\ LoopLocal[s] = Dword("local", "set", Iters)
        \/ s = 2 /\ LoopLocal[s] = Dword("local", "loop", 2)
        \/ s = 3 /\ LoopLocal[s] = Dword("local", "halt", 0)
    BY <2>1, LoopIs
  <2> QED BY <1>3, <2>1, <2>2 DEF Meant, Dword
<1>4. CASE i = "ddr"
  <2>1. s \in 1 .. 3 /\ Image[i] = LoopDdr
    BY <1>4, ImageIs, LoopIs
  <2>2. \/ s = 1 /\ LoopDdr[s] = Dword("ddr", "set", Iters)
        \/ s = 2 /\ LoopDdr[s] = Dword("ddr", "loop", DdrBase + 2)
        \/ s = 3 /\ LoopDdr[s] = Dword("ddr", "halt", 0)
    BY <2>1, LoopIs
  <2> QED BY <1>4, <2>1, <2>2 DEF Meant, Dword
<1>5. CASE i = "spin"
  <2>1. s \in 1 .. 2 /\ Image[i] = Spin
    BY <1>5, ImageIs, SpinIs
  <2>2. \/ s = 1 /\ Spin[s] = Dword("spin", "add", 0)
        \/ s = 2 /\ Spin[s] = Dword("spin", "jump", 1)
    BY <2>1, SpinIs
  <2> QED BY <1>5, <2>1, <2>2 DEF Meant, Dword
<1> QED BY <1>1, <1>2, <1>3, <1>4, <1>5 DEF Images

LEMMA LenIs ==
  /\ Len(Image["hello"]) = Letters + 1 /\ Len(Image["sum"]) = 6 /\ Len(Image["local"]) = 3
  /\ Len(Image["ddr"]) = 3 /\ Len(Image["spin"]) = 2 /\ DOMAIN Image = Images
  /\ \A i \in Images : Image[i] \in Seq(Dwords) /\ Len(Image[i]) \in 1 .. Letters + 6
<1>1. DOMAIN Image = Images
  BY DEF Image, Images
<1>2. /\ Len(Hello) = Letters + 1 /\ Len(DdrSum) = 6 /\ Len(LoopLocal) = 3 /\ Len(LoopDdr) = 3
      /\ Len(Spin) = 2 /\ Hello \in Seq(Dwords) /\ DdrSum \in Seq(Dwords)
      /\ LoopLocal \in Seq(Dwords) /\ LoopDdr \in Seq(Dwords) /\ Spin \in Seq(Dwords)
  BY ImageLens
<1>3. /\ Len(Image["hello"]) = Letters + 1 /\ Len(Image["sum"]) = 6 /\ Len(Image["local"]) = 3
      /\ Len(Image["ddr"]) = 3 /\ Len(Image["spin"]) = 2
  BY <1>2, ImageIs
<1>4. ASSUME NEW i \in Images PROVE Image[i] \in Seq(Dwords) /\ Len(Image[i]) \in 1 .. Letters + 6
  <2>1. Image[i] \in Seq(Dwords)
    BY <1>2, ImageIs DEF Images
  <2>2. Letters \in Nat \ {0}
    BY Sizes
  <2>3. Len(Image[i]) \in {Letters + 1, 6, 3, 2}
    BY <1>3 DEF Images
  <2>4. ASSUME NEW m, m \in {Letters + 1, 6, 3, 2} PROVE m \in 1 .. Letters + 6
    BY <2>2, <2>4
  <2> QED BY Zenon, <2>1, <2>3, <2>4
<1> QED BY <1>1, <1>3, <1>4

\* What core 2 fetches is the dword of the image it should be.
LEMMA Fetches ==
  ASSUME BoardInv, Executing
  PROVE  /\ run /\ parked = "no" /\ want \in Images /\ Spot \in 1 .. Len(Image[want])
         /\ Is(Fetched, Image[want][Spot]) /\ Meant(want, Spot, Fetched) /\ Fetched.img = want
         /\ core2.pc \in Nat
<1>1. /\ run /\ parked = "no" /\ core2.pc \in Nat
  BY DEF Executing, BoardInv, TypesOK, TwoTypes
<1>2. /\ want \in Images /\ Spot \in 1 .. Len(Image[want])
      /\ \A i \in 1 .. Len(Image[want]) :
           IF Base = 0 THEN Is(ram[i], Image[want][i])
           ELSE /\ Is(ddr[DdrBase + i], Image[want][i])
                /\ text[DdrBase + i].held # "no" => Is(text[DdrBase + i].val, Image[want][i])
  BY <1>1, LenIs DEF BoardInv, TwoInv, PlacedInv
<1>3. IF Base = 0 THEN Is(ram[Spot], Image[want][Spot])
      ELSE /\ Is(ddr[DdrBase + Spot], Image[want][Spot])
           /\ text[DdrBase + Spot].held # "no" => Is(text[DdrBase + Spot].val, Image[want][Spot])
  BY <1>2
<1>4. Is(Fetched, Image[want][Spot])
  <2>1. CASE core2.pc < DdrBase
    <3>1. Base = 0 /\ Spot = core2.pc
      BY <1>1, <2>1, BaseIs, Sizes
    <3> QED BY <1>3, <2>1, <3>1 DEF Fetched
  <2>2. CASE core2.pc >= DdrBase
    <3>1. Base # 0 /\ DdrBase + Spot = core2.pc /\ ~(core2.pc < DdrBase)
      BY <1>1, <2>2, BaseIs, Sizes
    <3> QED BY <1>3, <3>1 DEF Fetched
  <2> QED BY <1>1, <2>1, <2>2, Sizes
<1>5. Meant(want, Spot, Image[want][Spot]) /\ Image[want][Spot].img = want
  BY <1>2, ImageMeans
<1>6. Meant(want, Spot, Fetched) /\ Fetched.img = want
  BY <1>4, <1>5 DEF Meant, Is
<1> QED BY <1>1, <1>2, <1>4, <1>6

\* A step within an image.
LEMMA SpotNext ==
  ASSUME core2.pc \in Nat, NEW m \in 0 .. Letters + 6, core2.pc' = Base + m
  PROVE  Base' = Base /\ Spot' = m /\ core2.pc' \in Nat
<1>1. Base = 0 \/ Base = DdrBase
  BY DEF Base
<1>2. Letters \in Nat /\ DdrBase \in Nat /\ DdrBase > Letters + 6
  BY Sizes
<1>3. Base' = Base
  BY <1>1, <1>2 DEF Base
<1>4. Spot' = core2.pc' - Base'
  BY DEF Spot
<1> QED BY <1>1, <1>2, <1>3, <1>4

\* One instruction of core 2, by image i and place s in it.
HelloEmits(i, s) ==
  /\ i = "hello" /\ s \in 1 .. Letters /\ Spot' = s + 1
  /\ log' = Append(log, Fetched) /\ Fetched.arg = s /\ UNCHANGED <<parked, watch, ddr>>

Halts(i, s) ==
  /\ \/ i = "hello" /\ s = Letters + 1
     \/ i = "sum" /\ s = 6
     \/ i \in {"local", "ddr"} /\ s = 3
  /\ parked' = "halt" /\ Spot' = s /\ UNCHANGED <<core2, watch, ddr, log>>

SumSets(i, s) ==
  /\ i = "sum" /\ s = 1 /\ Spot' = 2 /\ core2.count' = Items /\ core2.sum' = core2.sum
  /\ UNCHANGED <<parked, watch, ddr, log>>

SumAdds(i, s) ==
  /\ i = "sum" /\ s = 2 /\ Spot' = 3 /\ core2.count' = core2.count
  /\ core2.sum' = IF core2.count = 0 THEN 0
                  ELSE core2.sum + ddr[DataBase + Items + 1 - core2.count].arg
  /\ UNCHANGED <<parked, watch, ddr, log>>

SumLoops(i, s) ==
  /\ i = "sum" /\ s = 3 /\ Spot' = (IF core2.count > 1 THEN 2 ELSE 4)
  /\ core2.count' = core2.count - 1 /\ core2.sum' = core2.sum
  /\ watch' \in Nat /\ UNCHANGED <<parked, ddr, log>>

SumStores(i, s) ==
  /\ i = "sum" /\ s = 4 /\ Spot' = 5 /\ UNCHANGED <<parked, watch, log>>
  /\ ddr' = [ddr EXCEPT ![Result] = Mine(Dword("sum", "word", core2.sum))]

SumEmits(i, s) ==
  /\ i = "sum" /\ s = 5 /\ Spot' = 6 /\ log' = Append(log, Fetched) /\ Fetched.arg = 1
  /\ UNCHANGED <<parked, watch, ddr>>

LoopSets(i, s) ==
  /\ i \in {"local", "ddr"} /\ s = 1 /\ Spot' = 2 /\ core2.count' = Iters
  /\ UNCHANGED <<parked, watch, ddr, log>>

LoopLoops(i, s) ==
  /\ i \in {"local", "ddr"} /\ s = 2 /\ Spot' = (IF core2.count > 1 THEN 2 ELSE 3)
  /\ core2.count' = core2.count - 1
  /\ watch' = (IF watch > 2 * Iters THEN watch ELSE watch + 1) /\ UNCHANGED <<parked, ddr, log>>

Spins(i, s) ==
  /\ i = "spin" /\ s \in {1, 2} /\ Spot' \in {1, 2} /\ UNCHANGED <<parked, watch, ddr, log>>

Instruction(i, s) ==
  \/ HelloEmits(i, s) \/ Halts(i, s)
  \/ SumSets(i, s) \/ SumAdds(i, s) \/ SumLoops(i, s) \/ SumStores(i, s) \/ SumEmits(i, s)
  \/ LoopSets(i, s) \/ LoopLoops(i, s) \/ Spins(i, s)

LEMMA Executes ==
  ASSUME BoardInv, Execute
  PROVE  /\ Executing /\ Base' = Base /\ core2.pc' \in Nat /\ core2.count' \in Int
         /\ UNCHANGED <<coreVars, cache, walk, run, startPc, winAddr, ram, want>>
         /\ core2' = [pc |-> core2.pc', count |-> core2.count', sum |-> core2.sum']
         /\ Fill /\ Instruction(want, Spot)
<1>1. /\ Executing /\ Fill
      /\ UNCHANGED <<coreVars, cache, walk, run, startPc, winAddr, ram, want>>
  BY DEF Execute
<1>2. /\ run /\ want \in Images /\ Spot \in 1 .. Len(Image[want])
      /\ Meant(want, Spot, Fetched) /\ core2.pc \in Nat
  BY <1>1, Fetches
<1>3. /\ core2 = [pc |-> core2.pc, count |-> core2.count, sum |-> core2.sum]
      /\ core2.count \in Int /\ watch \in Nat
  BY DEF BoardInv, TypesOK, TwoTypes, CoreTypes
<1>4. core2.pc = Base + Spot /\ Spot \in Int /\ Letters \in Nat /\ Items \in Int /\ Iters \in Int /\ Base \in Nat
      /\ DdrBase \in Nat /\ Letters > 0
  BY <1>2, BaseIs, Sizes DEF Base
<1>5. \/ want = "hello"
      \/ want = "sum"
      \/ want = "local" /\ Base = 0
      \/ want = "ddr" /\ Base = DdrBase
      \/ want = "spin" /\ Base = 0
  BY Zenon, <1>2, WantIs
<1>14. NextPc = Base + (Spot + 1)
  BY <1>4 DEF NextPc
<1>12. want = "sum" => Base = 0
  BY <1>2, WantIs
<1>6. CASE Fetched.do = "emit"
  <2>1. Emit
    BY <1>6 DEF Execute, SetCounter, LoopBack, Add, StoreSum, JumpTo, HaltTwo, Illegal
  <2>2. core2' = [core2 EXCEPT !.pc = NextPc] /\ log' = Append(log, Fetched)
        /\ UNCHANGED <<parked, watch, ddr>>
    BY <2>1 DEF Emit
  <2>3. /\ core2.pc' = Base + (Spot + 1) /\ core2.count' = core2.count /\ core2.sum' = core2.sum
        /\ core2' = [pc |-> core2.pc', count |-> core2.count', sum |-> core2.sum']
    BY <1>3, <1>14, <2>2
  <2>4. \/ want = "hello" /\ Spot \in 1 .. Letters /\ Fetched.arg = Spot
        \/ want = "sum" /\ Spot = 5 /\ Fetched.arg = 1
    BY <1>2, <1>6 DEF Meant
  <2>5. Spot + 1 \in 0 .. Letters + 6
    BY <1>4, <2>4
  <2>6. Base' = Base /\ Spot' = Spot + 1 /\ core2.pc' \in Nat
    BY <1>2, <2>3, <2>5, SpotNext
  <2>7. Instruction(want, Spot)
    BY <2>2, <2>4, <2>6 DEF Instruction, HelloEmits, SumEmits
  <2> QED BY <1>1, <1>3, <2>3, <2>6, <2>7
<1>7. CASE Fetched.do = "halt"
  <2>1. HaltTwo
    BY <1>7 DEF Execute, SetCounter, LoopBack, Add, StoreSum, Emit, JumpTo, Illegal
  <2>2. parked' = "halt" /\ UNCHANGED <<core2, watch, ddr, log>>
    BY <2>1 DEF HaltTwo, Park
  <2>3. \/ want = "hello" /\ Spot = Letters + 1
        \/ want = "sum" /\ Spot = 6
        \/ want \in {"local", "ddr"} /\ Spot = 3
    BY <1>2, <1>7 DEF Meant
  <2>4. Base' = Base /\ Spot' = Spot
    BY <2>2 DEF Base, Spot
  <2>5. Instruction(want, Spot)
    BY <2>2, <2>3, <2>4 DEF Instruction, Halts
  <2> QED BY <1>1, <1>2, <1>3, <2>2, <2>4, <2>5
<1>8. CASE Fetched.do = "set"
  <2>1. SetCounter
    BY <1>8 DEF Execute, HaltTwo, LoopBack, Add, StoreSum, Emit, JumpTo, Illegal
  <2>2. core2' = [core2 EXCEPT !.pc = NextPc, !.count = Fetched.arg]
        /\ UNCHANGED <<parked, watch, ddr, log>>
    BY <2>1 DEF SetCounter
  <2>3. /\ core2.pc' = Base + (Spot + 1) /\ core2.count' = Fetched.arg /\ core2.sum' = core2.sum
        /\ core2' = [pc |-> core2.pc', count |-> core2.count', sum |-> core2.sum']
    BY <1>3, <1>14, <2>2
  <2>4. \/ want = "sum" /\ Spot = 1 /\ Fetched.arg = Items
        \/ want \in {"local", "ddr"} /\ Spot = 1 /\ Fetched.arg = Iters
    BY <1>2, <1>8 DEF Meant
  <2>5. Spot + 1 \in 0 .. Letters + 6
    BY <1>4, <2>4
  <2>6. Base' = Base /\ Spot' = Spot + 1 /\ core2.pc' \in Nat
    BY <1>2, <2>3, <2>5, SpotNext
  <2>7. Instruction(want, Spot) /\ core2.count' \in Int
    BY <1>4, <2>2, <2>3, <2>4, <2>6 DEF Instruction, SumSets, LoopSets
  <2> QED BY <1>1, <2>3, <2>6, <2>7
<1>9. CASE Fetched.do = "add"
  <2>1. Add
    BY <1>9 DEF Execute, HaltTwo, LoopBack, SetCounter, StoreSum, Emit, JumpTo, Illegal
  <2> DEFINE new == IF core2.count = 0 THEN 0
                    ELSE core2.sum + ddr[DataBase + Items + 1 - core2.count].arg
  <2>2. core2' = [core2 EXCEPT !.pc = NextPc, !.sum = new] /\ UNCHANGED <<parked, watch, ddr, log>>
    BY <1>3, <2>1 DEF Add
  <2> HIDE DEF new
  <2>3. /\ core2.pc' = Base + (Spot + 1) /\ core2.count' = core2.count /\ core2.sum' = new
        /\ core2' = [pc |-> core2.pc', count |-> core2.count', sum |-> core2.sum']
    BY <1>3, <1>14, <2>2
  <2>4. \/ want = "sum" /\ Spot = 2
        \/ want = "spin" /\ Spot = 1
    BY <1>2, <1>9 DEF Meant
  <2>5. Spot + 1 \in 0 .. Letters + 6
    BY <1>4, <2>4
  <2>6. Base' = Base /\ Spot' = Spot + 1 /\ core2.pc' \in Nat
    BY <1>2, <2>3, <2>5, SpotNext
  <2>7. Instruction(want, Spot)
    BY <2>2, <2>3, <2>4, <2>6 DEF Instruction, SumAdds, Spins, new
  <2> QED BY <1>1, <1>3, <2>3, <2>6, <2>7
<1>10. CASE Fetched.do = "loop"
  <2>1. LoopBack
    BY <1>10 DEF Execute, HaltTwo, Add, SetCounter, StoreSum, Emit, JumpTo, Illegal
  <2> DEFINE target == IF core2.count > 1 THEN Fetched.arg ELSE NextPc
  <2>2. /\ core2' = [core2 EXCEPT !.pc = target, !.count = core2.count - 1]
        /\ watch' = (IF watch > 2 * Iters THEN watch ELSE watch + 1)
        /\ UNCHANGED <<parked, ddr, log>>
    BY <1>3, <2>1 DEF LoopBack
  <2>3. \/ want = "sum" /\ Spot = 3 /\ Fetched.arg = Base + 2
        \/ want \in {"local", "ddr"} /\ Spot = 2 /\ Fetched.arg = Base + 2
    BY <1>2, <1>5, <1>10, <1>12, Sizes DEF Meant
  <2>4. target = Base + (IF core2.count > 1 THEN 2 ELSE Spot + 1)
    BY <1>4, <2>3 DEF NextPc
  <2> HIDE DEF target
  <2>5. /\ core2.pc' = target /\ core2.count' = core2.count - 1 /\ core2.sum' = core2.sum
        /\ core2' = [pc |-> core2.pc', count |-> core2.count', sum |-> core2.sum']
    BY <1>3, <2>2
  <2> DEFINE next == IF core2.count > 1 THEN 2 ELSE Spot + 1
  <2>6. next \in 0 .. Letters + 6
    BY <1>4, <2>3
  <2>7. core2.pc' = Base + next
    BY <2>4, <2>5
  <2> HIDE DEF next
  <2>8. Base' = Base /\ Spot' = next /\ core2.pc' \in Nat
    BY <1>2, <2>6, <2>7, SpotNext
  <2>9. core2.count' \in Int
    BY <1>3, <2>5
  <2>10. CASE want = "sum" /\ Spot = 3
    <3>1. Spot' = (IF core2.count > 1 THEN 2 ELSE 4) /\ watch' \in Nat
      BY <1>3, <1>4, <2>2, <2>8, <2>10 DEF next
    <3>2. core2.count' = core2.count - 1 /\ core2.sum' = core2.sum
      BY <2>5
    <3>3. UNCHANGED <<parked, ddr, log>>
      BY <2>2
    <3>4. SumLoops(want, Spot)
      BY <2>10, <3>1, <3>2, <3>3 DEF SumLoops
    <3> QED BY <1>1, <2>5, <2>8, <2>9, <3>4 DEF Instruction
  <2>11. CASE want \in {"local", "ddr"} /\ Spot = 2
    <3>1. Spot' = (IF core2.count > 1 THEN 2 ELSE 3)
      BY <2>8, <2>11 DEF next
    <3>2. core2.count' = core2.count - 1
      BY <2>5
    <3>3. /\ watch' = (IF watch > 2 * Iters THEN watch ELSE watch + 1)
          /\ UNCHANGED <<parked, ddr, log>>
      BY <2>2
    <3>4. LoopLoops(want, Spot)
      BY <2>11, <3>1, <3>2, <3>3 DEF LoopLoops
    <3> QED BY <1>1, <2>5, <2>8, <2>9, <3>4 DEF Instruction
  <2> QED BY <2>3, <2>10, <2>11
<1>11. CASE Fetched.do \in {"store", "jump"}
  <2>1. CASE Fetched.do = "store"
    <3>1. StoreSum
      BY <2>1 DEF Execute, HaltTwo, LoopBack, Add, SetCounter, Emit, JumpTo, Illegal
    <3>2. /\ ddr' = [ddr EXCEPT ![Result] = Mine(Dword("sum", "word", core2.sum))]
          /\ core2' = [core2 EXCEPT !.pc = NextPc] /\ UNCHANGED <<parked, watch, log>>
      BY <3>1 DEF StoreSum
    <3>3. /\ core2.pc' = Base + (Spot + 1) /\ core2.count' = core2.count
          /\ core2' = [pc |-> core2.pc', count |-> core2.count', sum |-> core2.sum']
      BY <1>3, <1>14, <3>2
    <3>4. want = "sum" /\ Spot = 4
      BY <1>2, <2>1 DEF Meant
    <3>5. Spot + 1 \in 0 .. Letters + 6
      BY <1>4, <3>4
    <3>6. Base' = Base /\ Spot' = Spot + 1 /\ core2.pc' \in Nat
      BY <1>2, <3>3, <3>5, SpotNext
    <3>7. Instruction(want, Spot)
      BY <3>2, <3>4, <3>6 DEF Instruction, SumStores
    <3> QED BY <1>1, <1>3, <3>3, <3>6, <3>7
  <2>2. CASE Fetched.do = "jump"
    <3>1. JumpTo
      BY <2>2 DEF Execute, HaltTwo, LoopBack, Add, SetCounter, Emit, StoreSum, Illegal
    <3>2. core2' = [core2 EXCEPT !.pc = Fetched.arg] /\ UNCHANGED <<parked, watch, ddr, log>>
      BY <3>1 DEF JumpTo, SetPc
    <3>3. want = "spin" /\ Spot = 2 /\ Fetched.arg = 1 /\ Base = 0
      BY <1>2, <1>5, <2>2 DEF Meant
    <3>4. /\ core2.pc' = Base + 1 /\ core2.count' = core2.count
          /\ core2' = [pc |-> core2.pc', count |-> core2.count', sum |-> core2.sum']
      BY <1>3, <3>2, <3>3
    <3>5. 1 \in 0 .. Letters + 6
      BY <1>4
    <3>6. Base' = Base /\ Spot' = 1 /\ core2.pc' \in Nat
      BY <1>2, <3>4, <3>5, SpotNext
    <3>7. Instruction(want, Spot)
      BY <3>2, <3>3, <3>6 DEF Instruction, Spins
    <3> QED BY <1>1, <1>3, <3>4, <3>6, <3>7
  <2> QED BY <1>11, <2>1, <2>2
<1>13. Fetched.do \in {"emit", "halt", "set", "add", "loop", "store", "jump"}
  BY <1>2 DEF Meant
<1> QED BY <1>6, <1>7, <1>8, <1>9, <1>10, <1>11, <1>13

-----------------------------------------------------------------------------
(* Types.                                                                  *)

LEMMA AddrIs ==
  /\ Result \in Addr /\ TextAddr \subseteq Addr /\ DataAddr \subseteq Addr
  /\ Result \notin TextAddr /\ Result \notin DataAddr /\ TextAddr \cap DataAddr = {}
  /\ \A i \in 1 .. Letters + 3 : DdrBase + i \in TextAddr
  /\ \A i \in 1 .. Items : DataBase + i \in DataAddr
<1>1. \A i \in 1 .. Letters + 3 : DdrBase + i \in TextAddr
  BY Sizes DEF TextAddr
<1>2. \A i \in 1 .. Items : DataBase + i \in DataAddr
  BY Sizes DEF DataAddr
<1> QED BY <1>1, <1>2, PlacesAssumption DEF Addr

\* What core 1 stores and loads lies in memory.
LEMMA NowAddr ==
  \A p \in Programs : \A n \in Place(p) :
    At(p, n).op \in {"store", "load"} => At(p, n).at \in Addr
<1> SUFFICES ASSUME NEW p \in Programs, NEW n \in Place(p), At(p, n).op \in {"store", "load"}
             PROVE  At(p, n).at \in Addr
  OBVIOUS
<1>1. CASE At(p, n).op = "load"
  BY <1>1, AtLoad, AddrIs
<1>2. CASE At(p, n).op = "store"
  <2>1. \/ \E i \in 1 .. Letters + 3 : At(p, n).at = DdrBase + i
        \/ \E i \in 1 .. Items : At(p, n).at = DataBase + i
    <3>1. CASE p = "p2test" /\ n \in 1 .. Letters + 1 /\ At(p, n).at = DdrBase + n
      BY <3>1, Sizes
    <3>2. CASE p = "p2test" /\ n \in TwoData + 1 .. TwoSum /\ At(p, n).at = DataBase + (n - TwoData)
      <4>1. n - TwoData \in 1 .. Items
        BY <3>2, PlaceNat
      <4> QED BY <3>2, <4>1
    <3>3. CASE p = "p2btest" /\ n \in 14 .. 16 /\ At(p, n).at = DdrBase + (n - 13)
      <4>1. n - 13 \in 1 .. Letters + 3
        BY <3>3, Sizes
      <4> QED BY <3>3, <4>1
    <3> QED BY <1>2, <3>1, <3>2, <3>3, AtStore
  <2> QED BY <2>1, AddrIs
<1> QED BY <1>1, <1>2

LEMMA NowTypes ==
  ASSUME BoardInv
  PROVE  /\ Now \in Ops /\ Now.at \in Int /\ Now.val \in Dwords
         /\ Now.op \in {"store", "load"} => Now.at \in Addr
<1>1. prog \in Programs /\ pc \in Place(prog)
  BY DEF BoardInv, TypesOK, CoreTypes
<1>2. Now \in Ops
  BY <1>1, CodeTypes, NowIs
<1>3. Now.op \in {"store", "load"} => Now.at \in Addr
  BY <1>1, NowAddr, NowIs
<1> QED BY <1>2, <1>3 DEF Ops

LEMMA LineTypes ==
  /\ \A v \in Dwords : /\ Clean(v) \in Lines /\ Clean(v).held = "clean" /\ Clean(v).val = v
                       /\ Dirty(v) \in Lines /\ Dirty(v).held = "dirty" /\ Dirty(v).val = v
  /\ Free \in Lines /\ Free.held = "no"
BY AnOp DEF Clean, Dirty, Free, Lines

LEMMA MineIs ==
  ASSUME round \in Nat, NEW v \in Dwords
  PROVE  Mine(v) \in Dwords /\ Is(Mine(v), v) /\ Mine(v).by = round
BY DEF Mine, Dwords, Is

LEMMA WalkLeft ==
  ASSUME MemTypes, WalkLine
  PROVE  /\ walk.left = {} \/ Min(walk.left) \in walk.left
         /\ walk.left \subseteq Addr
<1>1. walk.left \subseteq Addr /\ walk.left \subseteq Nat
  <2>1. walk.left \subseteq Addr
    BY DEF MemTypes
  <2>2. Addr \subseteq Nat
    BY Sizes DEF Addr, TextAddr, DataAddr
  <2> QED BY <2>1, <2>2
<1>2. ASSUME walk.left # {} PROVE Min(walk.left) \in walk.left
  <2>1. PICK a \in walk.left : \A b \in walk.left : ~(<<b, a>> \in OpToRel(<, Nat))
    BY <1>1, <1>2, NatLessThanWellFounded, WFMin
  <2>2. ASSUME NEW b \in walk.left PROVE a <= b
    <3>1. a \in Nat /\ b \in Nat /\ ~(<<b, a>> \in OpToRel(<, Nat))
      BY <1>1, <2>1
    <3>2. b < a => <<b, a>> \in OpToRel(<, Nat)
      BY <3>1 DEF OpToRel
    <3>3. a \in Nat /\ b \in Nat /\ ~(b < a)
      BY Zenon, <3>1, <3>2
    <3> QED BY <3>3
  <2>3. \E x \in walk.left : \A y \in walk.left : x <= y
    BY <2>2
  <2> QED BY <2>3 DEF Min
<1> QED BY <1>1, <1>2

LEMMA FetchedType ==
  ASSUME BoardInv, Executing
  PROVE  /\ Fetched \in Dwords
         /\ ~(core2.pc < DdrBase) => core2.pc \in TextAddr /\ Spot \in 1 .. Letters + 3
<1>1. /\ run /\ want \in Images /\ Spot \in 1 .. Len(Image[want]) /\ core2.pc \in Nat
  BY Fetches
<1>2. /\ ram \in [RamAddr -> Dwords] /\ ddr \in [Addr -> Dwords] /\ text \in [TextAddr -> Lines]
  BY DEF BoardInv, TypesOK, MemTypes, BoxTypes, TwoTypes
<1>3. RamAddr = 1 .. Letters + 6
  BY SumIs DEF RamAddr
<1>4. Len(Image[want]) \in 1 .. Letters + 6 /\ Letters \in Nat /\ Letters > 0
  BY <1>1, LenIs, Sizes
<1>5. CASE core2.pc < DdrBase
  <2>1. Spot = core2.pc
    BY <1>1, <1>5, BaseIs, Sizes
  <2>2. core2.pc \in RamAddr
    BY <1>1, <1>3, <1>4, <2>1
  <2>3. Fetched = ram[core2.pc]
    BY <1>5 DEF Fetched
  <2> QED BY <1>2, <1>5, <2>2, <2>3
<1>6. CASE ~(core2.pc < DdrBase)
  <2>1. Base = DdrBase /\ core2.pc = DdrBase + Spot /\ Base # 0
    BY <1>1, <1>6, BaseIs, Sizes
  <2>2. want = "hello" \/ want = "ddr"
    BY <1>1, <2>1, WantIs
  <2>3. Len(Image[want]) \in {Letters + 1, 3}
    BY <2>2, LenIs
  <2>8. ASSUME NEW m, m \in {Letters + 1, 3}, Spot \in 1 .. m PROVE Spot \in 1 .. Letters + 3
    BY <1>4, <2>8
  <2>4. Spot \in 1 .. Letters + 3
    BY Zenon, <1>1, <2>3, <2>8
  <2>5. core2.pc \in TextAddr
    BY <2>1, <2>4, AddrIs
  <2>6. text[core2.pc] \in Lines /\ ddr[core2.pc] \in Dwords
    BY <1>2, <2>5, AddrIs
  <2>7. Fetched = IF text[core2.pc].held = "no" THEN ddr[core2.pc] ELSE text[core2.pc].val
    BY <1>6 DEF Fetched
  <2> QED BY <2>4, <2>5, <2>6, <2>7 DEF Lines
<1> QED BY <1>5, <1>6

LEMMA TypesCore ==
  ASSUME BoardInv, Next
  PROVE  CoreTypes'
<1>1. /\ prog \in Programs /\ pc \in Place(prog) /\ round \in Nat
      /\ d \in Dwords /\ watch \in Nat /\ uart \in Seq(Names \X Int)
  BY DEF BoardInv, TypesOK, CoreTypes
<1>2. CASE LoadProgram
  <2>1. PICK p \in Programs : prog' = p
    BY <1>2 DEF LoadProgram
  <2>2. prog' \in Programs /\ pc' = 1 /\ round' = round + 1 /\ uart' = <<>> /\ UNCHANGED <<d, watch>>
    BY <1>2, <2>1 DEF LoadProgram
  <2>3. 1 \in Place(prog')
    BY <2>2, PlaceIs, PlaceNat DEF Programs
  <2> QED BY <1>1, <2>2, <2>3 DEF CoreTypes
<1>3. CASE Core1
  <2>1. prog' = prog /\ round' = round /\ pc' = pc + 1 /\ pc + 1 \in Place(prog)
    BY <1>3, CoreSteps
  <2>2. d' \in Dwords
    <3>1. CASE LoadDword
      <4> DEFINE line == IF cache[Now.at].held = "no" THEN Clean(ddr[Now.at]) ELSE cache[Now.at]
      <4>1. d' = line.val /\ Now.at \in Addr
        BY <3>1, NowTypes DEF LoadDword
      <4>2. ddr[Now.at] \in Dwords /\ cache[Now.at] \in Lines
        BY <4>1 DEF BoardInv, TypesOK, MemTypes
      <4>3. line \in Lines
        BY <4>2, LineTypes
      <4> HIDE DEF line
      <4> QED BY <4>1, <4>3 DEF Lines
    <3>2. CASE LogWait
      <4>1. log \in Seq(Dwords) /\ log # <<>> /\ d' = Head(log)
        BY <3>2 DEF LogWait, BoardInv, TypesOK, BoxTypes
      <4> QED BY <4>1, HeadTailProperties
    <3>3. CASE ParkWait
      <4>1. d' = Dword("ctrl", parked, IF run THEN 1 ELSE 0) /\ parked \in {"halt", "fault"}
        BY <3>3 DEF ParkWait, BoardInv, TypesOK, TwoTypes
      <4> QED BY <4>1, ADword, InNames, InDoes
    <3>4. CASE Elapsed
      <4>1. d' = Dword("ms", "word", watch) /\ watch \in Int
        BY <1>1, <3>4 DEF Elapsed
      <4> QED BY <4>1, ADword, InNames, InDoes
    <3> QED BY <1>1, <1>3, <3>1, <3>2, <3>3, <3>4, CoreFrame
  <2>3. uart' \in Seq(Names \X Int)
    <3>1. ASSUME NEW i \in Names, NEW n \in Int, uart' = Append(uart, <<i, n>>)
          PROVE  uart' \in Seq(Names \X Int)
      BY <1>1, <3>1, AppendProperties
    <3>2. CASE PutC
      <4>1. d.img \in Names /\ d.arg \in Int /\ uart' = Append(uart, <<d.img, d.arg>>)
        BY <1>1, <3>2 DEF PutC, Send, Dwords
      <4> QED BY <3>1, <4>1
    <3>3. CASE PutS
      <4>1. Now.val.img \in Names /\ 0 \in Int /\ uart' = Append(uart, <<Now.val.img, 0>>)
        BY <3>3, NowTypes DEF PutS, Send, Dwords
      <4> QED BY <3>1, <4>1
    <3>4. CASE PutHex
      <4>1. "hex" \in Names /\ d.arg \in Int /\ uart' = Append(uart, <<"hex", d.arg>>)
        BY <1>1, <3>4, InNames DEF PutHex, Send, Dwords
      <4> QED BY <3>1, <4>1
    <3> QED BY <1>1, <1>3, <3>2, <3>3, <3>4, CoreFrame
  <2>4. watch' \in Nat
    <3>1. CASE Clock
      BY <3>1 DEF Clock
    <3> QED BY <1>1, <1>3, <3>1, CoreFrame
  <2> QED BY <1>1, <2>1, <2>2, <2>3, <2>4 DEF CoreTypes
<1>4. CASE Evict \/ WalkLine
  <2>1. UNCHANGED <<coreVars, watch>>
    BY <1>4 DEF Evict, WalkLine
  <2> QED BY <1>1, <2>1 DEF coreVars, CoreTypes
<1>5. CASE Execute
  <2>1. UNCHANGED coreVars /\ Instruction(want, Spot)
    BY <1>5, Executes
  <2>2. watch' \in Nat
    <3>1. watch + 1 \in Nat
      BY <1>1
    <3> QED BY <1>1, <2>1, <3>1 DEF Instruction, HelloEmits, Halts, SumSets, SumAdds, SumLoops,
               SumStores, SumEmits, LoopSets, LoopLoops, Spins
  <2> QED BY <1>1, <2>1, <2>2 DEF coreVars, CoreTypes
<1> QED BY <1>2, <1>3, <1>4, <1>5 DEF Next

LEMMA TotalInt == Total \in Int
<1> DEFINE m == Items * (Items + 1)
<1>1. m \in Int
  BY Sizes
<1> HIDE DEF m
<1>2. m \div 2 \in Int
  BY <1>1
<1> QED BY <1>2 DEF Total, m

LEMMA BackTypes ==
  ASSUME MemTypes, NEW a \in Addr
  PROVE  WrittenBack(a) \in [Addr -> Dwords]
BY DEF MemTypes, WrittenBack, Lines

LEMMA ProgTypes == BoardInv => prog \in Programs /\ pc \in Place(prog) /\ Now = At(prog, pc)
BY NowIs DEF BoardInv, TypesOK, CoreTypes

LEMMA TypesMem ==
  ASSUME BoardInv, Next
  PROVE  MemTypes'
<1>1. MemTypes /\ prog \in Programs /\ pc \in Place(prog) /\ round \in Nat
  BY DEF BoardInv, TypesOK, CoreTypes
<1>2. /\ cache \in [Addr -> Lines] /\ ddr \in [Addr -> Dwords]
      /\ walk \in [kind : Walks \cup {"none"}, left : SUBSET Addr]
  BY <1>1 DEF MemTypes
<1>3. CASE LoadProgram
  <2>1. UNCHANGED memVars
    BY <1>3 DEF LoadProgram
  <2> QED BY <1>2, <2>1 DEF memVars, MemTypes
<1>4. CASE Core1
  <2>1. CASE StoreDword
    <3>1. Dirty(Mine(Now.val)) \in Lines
      BY <1>1, NowTypes, MineIs, LineTypes
    <3>2. cache' = [cache EXCEPT ![Now.at] = Dirty(Mine(Now.val))] /\ UNCHANGED <<ddr, walk>>
      BY <2>1 DEF StoreDword
    <3> QED BY <1>2, <3>1, <3>2 DEF MemTypes
  <2>2. CASE LoadDword
    <3> DEFINE line == IF cache[Now.at].held = "no" THEN Clean(ddr[Now.at]) ELSE cache[Now.at]
    <3>1. cache' = [cache EXCEPT ![Now.at] = line] /\ UNCHANGED <<ddr, walk>> /\ Now.at \in Addr
      BY <2>2, NowTypes DEF LoadDword
    <3>2. line \in Lines
      BY <1>2, <3>1, LineTypes
    <3> HIDE DEF line
    <3> QED BY <1>2, <3>1, <3>2 DEF MemTypes
  <2>3. CASE Maint
    <3>1. At(prog, pc).op = "maint" /\ Now = At(prog, pc)
      BY <2>3, NowIs DEF Maint
    <3>2. Now.val.img \in Walks
      BY <1>1, <3>1, AtMaint DEF Walks
    <3>3. walk' = [kind |-> Now.val.img, left |-> Addr] /\ UNCHANGED <<cache, ddr>>
      BY <2>3 DEF Maint
    <3> QED BY <1>2, <3>2, <3>3 DEF MemTypes
  <2> QED BY <1>2, <1>4, <2>1, <2>2, <2>3, CoreFrame DEF memVars, MemTypes
<1>5. CASE Evict
  <2>1. PICK a \in Addr : ddr' = WrittenBack(a) /\ cache' = [cache EXCEPT ![a] = Free]
    BY <1>5 DEF Evict
  <2>2. walk' = walk
    BY <1>5 DEF Evict
  <2>3. WrittenBack(a) \in [Addr -> Dwords] /\ Free \in Lines
    BY <1>1, BackTypes, LineTypes
  <2> QED BY <1>2, <2>1, <2>2, <2>3 DEF MemTypes
<1>6. CASE WalkLine
  <2>1. CASE walk.left = {}
    <3>1. walk' = Idle /\ UNCHANGED <<cache, ddr>>
      BY <1>6, <2>1 DEF WalkLine
    <3> QED BY <1>2, <3>1 DEF MemTypes, Idle
  <2>2. CASE walk.left # {}
    <3> DEFINE a == Min(walk.left)
               line == IF walk.kind = "INVALIDATE" THEN Free
                       ELSE IF cache[a].held = "dirty" THEN Clean(cache[a].val) ELSE cache[a]
    <3>1. a \in Addr
      BY <1>1, <1>6, <2>2, WalkLeft
    <3>2. /\ walk' = [walk EXCEPT !.left = walk.left \ {a}] /\ ddr' = WrittenBack(a)
          /\ cache' = [cache EXCEPT ![a] = line]
      BY <1>2, <1>6, <2>2, <3>1 DEF WalkLine
    <3>3. cache[a] \in Lines /\ line \in Lines
      BY <1>2, <3>1, LineTypes DEF Lines
    <3>4. WrittenBack(a) \in [Addr -> Dwords]
      BY <1>1, <3>1, BackTypes
    <3> HIDE DEF a, line
    <3> QED BY <1>2, <3>2, <3>3, <3>4 DEF MemTypes
  <2> QED BY <2>1, <2>2
<1>7. CASE Execute
  <2>1. UNCHANGED <<cache, walk>> /\ Instruction(want, Spot)
    BY <1>7, Executes
  <2>2. CASE SumStores(want, Spot)
    <3>1. run /\ want = "sum" /\ Spot = 4
      BY <1>7, <2>2, Executes DEF SumStores, Executing
    <3>2. core2.sum \in Int
      BY <3>1, TotalInt DEF BoardInv, TwoInv, SumInv
    <3>3. Mine(Dword("sum", "word", core2.sum)) \in Dwords
      BY <1>1, <3>2, MineIs, ADword, InNames, InDoes
    <3> QED BY <1>2, <2>1, <2>2, <3>3 DEF MemTypes, SumStores
  <2>3. CASE ~SumStores(want, Spot)
    <3>1. UNCHANGED ddr
      BY <2>1, <2>3 DEF Instruction, HelloEmits, Halts, SumSets, SumAdds, SumLoops, SumEmits,
                        LoopSets, LoopLoops, Spins
    <3> QED BY <1>2, <2>1, <3>1 DEF MemTypes
  <2> QED BY <2>2, <2>3
<1> QED BY <1>3, <1>4, <1>5, <1>6, <1>7 DEF Next

LEMMA TypesBox ==
  ASSUME BoardInv, Next
  PROVE  BoxTypes'
<1>1. /\ run \in BOOLEAN /\ startPc \in Nat /\ winAddr \in Nat
      /\ ram \in [RamAddr -> Dwords] /\ log \in Seq(Dwords) /\ round \in Nat
      /\ prog \in Programs /\ pc \in Place(prog)
  BY DEF BoardInv, TypesOK, CoreTypes, BoxTypes
<1>2. CASE UNCHANGED boxVars
  BY <1>1, <1>2 DEF boxVars, BoxTypes
<1>3. CASE LoadProgram \/ Evict \/ WalkLine
  BY <1>2, <1>3 DEF LoadProgram, Evict, WalkLine
<1>4. CASE Core1
  <2>1. CASE WinAddr
    <3>1. At(prog, pc).op = "winAddr" /\ Now = At(prog, pc)
      BY <2>1, NowIs DEF WinAddr
    <3>2. Now.at \in Nat
      BY <1>1, <3>1, AtWinAddr
    <3> QED BY <1>1, <2>1, <3>2 DEF WinAddr, BoxTypes
  <2>2. CASE WinData
    <3>1. Mine(Now.val) \in Dwords
      BY <1>1, NowTypes, MineIs
    <3>2. /\ UNCHANGED <<run, startPc, log>>
          /\ IF run THEN UNCHANGED <<ram, winAddr>>
             ELSE ram' = [ram EXCEPT ![winAddr] = Mine(Now.val)] /\ winAddr' = winAddr + 1
      BY <2>2 DEF WinData
    <3> QED BY <1>1, <3>1, <3>2 DEF BoxTypes
  <2>3. CASE StartPc
    <3>1. At(prog, pc).op = "startPc" /\ Now = At(prog, pc)
      BY <2>3, NowIs DEF StartPc
    <3>2. Now.at \in Nat
      BY <1>1, <3>1, AtStartPc, Sizes
    <3> QED BY <1>1, <2>3, <3>2 DEF StartPc, BoxTypes
  <2>4. CASE SetRun
    BY <1>1, <2>4 DEF SetRun, BoxTypes
  <2>5. CASE Pop
    <3>1. log' \in Seq(Dwords)
      BY <1>1, <2>5, HeadTailProperties DEF Pop
    <3> QED BY <1>1, <2>5, <3>1 DEF Pop, BoxTypes
  <2> QED BY <1>2, <1>4, <2>1, <2>2, <2>3, <2>4, <2>5, CoreFrame
<1>5. CASE Execute
  <2>1. UNCHANGED <<run, startPc, winAddr, ram>> /\ Instruction(want, Spot) /\ Fetched \in Dwords
    BY <1>5, Executes, FetchedType
  <2>2. log' = log \/ log' = Append(log, Fetched)
    BY <2>1 DEF Instruction, HelloEmits, Halts, SumSets, SumAdds, SumLoops, SumStores, SumEmits,
                LoopSets, LoopLoops, Spins
  <2>3. log' \in Seq(Dwords)
    BY <1>1, <2>1, <2>2, AppendProperties
  <2> QED BY <1>1, <2>1, <2>3 DEF BoxTypes
<1> QED BY <1>3, <1>4, <1>5 DEF Next

LEMMA TypesTwo ==
  ASSUME BoardInv, Next
  PROVE  TwoTypes'
<1>1. /\ parked \in {"no", "halt", "fault"} /\ text \in [TextAddr -> Lines]
      /\ core2 = [pc |-> core2.pc, count |-> core2.count, sum |-> core2.sum]
      /\ core2.pc \in Nat /\ core2.count \in Int
      /\ startPc \in Nat
  BY DEF BoardInv, TypesOK, TwoTypes, BoxTypes
<1>2. CASE UNCHANGED twoVars
  BY <1>1, <1>2 DEF twoVars, TwoTypes
<1>3. CASE LoadProgram \/ Evict \/ WalkLine
  BY <1>2, <1>3 DEF LoadProgram, Evict, WalkLine
<1>4. CASE Core1
  <2>1. CASE SetRun
    <3>1. CASE run' /\ run
      BY <1>2, <2>1, <3>1 DEF SetRun
    <3>2. CASE run' /\ ~run
      <4>1. core2' = [pc |-> startPc, count |-> 0, sum |-> 0] /\ UNCHANGED <<parked, text>>
        BY <2>1, <3>2 DEF SetRun, Stopped
      <4> QED BY <1>1, <4>1 DEF TwoTypes
    <3>3. CASE ~run'
      <4>1. /\ core2' = [pc |-> 0, count |-> 0, sum |-> 0] /\ parked' = "no"
            /\ text' = [a \in TextAddr |-> Free]
        BY <2>1, <3>3 DEF SetRun, Stopped
      <4> QED BY <4>1, LineTypes DEF TwoTypes
    <3> QED BY <3>1, <3>2, <3>3
  <2> QED BY <1>2, <1>4, <2>1, CoreFrame
<1>5. CASE Execute
  <2>1. /\ core2.pc' \in Nat /\ core2.count' \in Int /\ Instruction(want, Spot) /\ Fill
        /\ core2' = [pc |-> core2.pc', count |-> core2.count', sum |-> core2.sum']
    BY <1>5, Executes
  <2>2. parked' \in {"no", "halt", "fault"}
    BY <1>1, <2>1 DEF Instruction, HelloEmits, Halts, SumSets, SumAdds, SumLoops, SumStores, SumEmits,
                LoopSets, LoopLoops, Spins
  <2>3. Clean(Fetched) \in Lines
    BY <1>5, Executes, FetchedType, LineTypes
  <2>4. text' \in [TextAddr -> Lines]
    BY <1>1, <2>1, <2>3 DEF Fill
  <2> QED BY <2>1, <2>2, <2>4 DEF TwoTypes
<1> QED BY <1>3, <1>4, <1>5 DEF Next

LEMMA TypesStep == BoardInv /\ Next => TypesOK'
BY TypesCore, TypesMem, TypesBox, TypesTwo DEF TypesOK

-----------------------------------------------------------------------------
(* Memory.                                                                 *)

\* What goes before what.
LEMMA Before ==
  ASSUME NEW x \in OpNames
  PROVE  /\ x = "maint" => After[x] = {"mntWait"}
         /\ "mntWait" \in After[x] => x = "maint"
         /\ "load" \in After[x] => x = "mntWait"
         /\ "winData" \in After[x] => x \in {"winAddr", "winData"}
         /\ "checkSum" \in After[x] => x = "load"
         /\ "checkCtrl" \in After[x] => x = "parkWait"
         /\ "putc" \in After[x] => x = "logWait"
         /\ "pop" \in After[x] => x = "putc"
BY DEF OpNames, After

LEMMA FirstOp == \A p \in Programs : 1 \in Place(p) /\ At(p, 1).op \in {"winAddr", "store"}
<1> SUFFICES ASSUME NEW p \in Programs
             PROVE  1 \in Place(p) /\ At(p, 1).op \in {"winAddr", "store"}
  OBVIOUS
<1>1. 1 \in Place(p)
  BY PlaceIs, PlaceNat DEF Programs
<1>2. OpAt(p, 1) \in {"winAddr", "store"}
  BY PlaceNat DEF Programs, OpAt, OneOp, TwoOp, TimedOp, SpinOp
<1> QED BY <1>1, <1>2, OpIs

\* Which places are stored to: each once, and not the sum's.
LEMMA Stores ==
  ASSUME NEW p \in Programs, NEW j \in Place(p), At(p, j).op = "store"
  PROVE  /\ At(p, j).at \in Addr /\ At(p, j).at # Result /\ At(p, j).val \in Dwords
         /\ \A k \in Place(p) : At(p, k).op = "store" /\ At(p, k).at = At(p, j).at => k = j
<1>1. At(p, j).at \in Addr /\ At(p, j).val \in Dwords
  BY NowAddr, CodeTypes DEF Ops
<1> DEFINE InText(k) == /\ \/ p = "p2test" /\ k \in 1 .. Letters + 1 /\ At(p, k).at = DdrBase + k
                           \/ p = "p2btest" /\ k \in 14 .. 16 /\ At(p, k).at = DdrBase + (k - 13)
                        /\ At(p, k).at \in TextAddr
           InData(k) == /\ p = "p2test" /\ k \in TwoData + 1 .. TwoSum
                        /\ At(p, k).at = DataBase + (k - TwoData) /\ At(p, k).at \in DataAddr
<1>2. ASSUME NEW k \in Place(p), At(p, k).op = "store" PROVE InText(k) \/ InData(k)
  <2>1. CASE p = "p2test" /\ k \in 1 .. Letters + 1 /\ At(p, k).at = DdrBase + k
    <3>1. k \in 1 .. Letters + 3
      BY <2>1, Sizes
    <3>2. DdrBase + k \in TextAddr
      BY <3>1, AddrIs
    <3> QED BY <2>1, <3>2
  <2>2. CASE p = "p2test" /\ k \in TwoData + 1 .. TwoSum /\ At(p, k).at = DataBase + (k - TwoData)
    <3>1. k - TwoData \in 1 .. Items
      BY <2>2, PlaceNat
    <3>2. DataBase + (k - TwoData) \in DataAddr
      BY <3>1, AddrIs
    <3> QED BY <2>2, <3>2
  <2>3. CASE p = "p2btest" /\ k \in 14 .. 16 /\ At(p, k).at = DdrBase + (k - 13)
    <3>1. k - 13 \in 1 .. Letters + 3
      BY <2>3, Sizes
    <3>2. DdrBase + (k - 13) \in TextAddr
      BY <3>1, AddrIs
    <3> QED BY <2>3, <3>2
  <2> QED BY <1>2, <2>1, <2>2, <2>3, AtStore
<1>3. InText(j) \/ InData(j)
  BY <1>2
<1>4. At(p, j).at # Result
  BY <1>3, AddrIs
<1>5. ASSUME NEW k \in Place(p), At(p, k).op = "store", At(p, k).at = At(p, j).at PROVE k = j
  <2>1. InText(k) \/ InData(k)
    BY <1>5, <1>2
  <2>2. (InText(k) /\ InText(j)) \/ (InData(k) /\ InData(j))
    BY <1>3, <1>5, <2>1, AddrIs
  <2>3. CASE InText(k) /\ InText(j)
    BY <1>5, <2>3, Sizes
  <2>4. CASE InData(k) /\ InData(j)
    BY <1>5, <2>4, PlaceNat, Sizes
  <2> QED BY <2>2, <2>3, <2>4
<1> QED BY <1>1, <1>4, <1>5

\* Steps that are not core 1's.
LEMMA Others ==
  ASSUME BoardInv, Evict \/ WalkLine \/ Execute
  PROVE  /\ UNCHANGED <<prog, pc, round, d, uart, run, startPc, winAddr, ram, want>>
         /\ Now' = Now /\ Base' = Base /\ pc \in Nat /\ core2.pc' \in Nat
<1>1. CASE Evict \/ WalkLine
  <2>1. UNCHANGED <<coreVars, boxVars, twoVars, want>>
    BY <1>1 DEF Evict, WalkLine
  <2> QED BY <2>1 DEF coreVars, boxVars, twoVars, Now, Base, BoardInv, TypesOK, CoreTypes, TwoTypes, Place
<1>2. CASE Execute
  <2>1. UNCHANGED <<coreVars, run, startPc, winAddr, ram, want>> /\ Base' = Base /\ core2.pc' \in Nat
    BY <1>2, Executes
  <2> QED BY <2>1 DEF coreVars, Now, BoardInv, TypesOK, CoreTypes, Place
<1> QED BY <1>1, <1>2

LEMMA Loads ==
  ASSUME BoardInv, LoadProgram
  PROVE  /\ UNCHANGED <<d, watch, memVars, boxVars, twoVars, want>> /\ Now.op = "halt"
         /\ pc' = 1 /\ round' = round + 1 /\ round' > 0 /\ uart' = <<>> /\ prog' \in Programs
         /\ run => prog' = "p2test"
         /\ Now'.op \in {"winAddr", "store"} /\ 1 .. pc' - 1 = {}
<1>1. /\ UNCHANGED <<d, watch, memVars, boxVars, twoVars, want>> /\ Now.op = "halt"
      /\ pc' = 1 /\ round' = round + 1 /\ uart' = <<>> /\ prog' \in Programs
      /\ run => prog' = "p2test"
  BY DEF LoadProgram, Halted
<1>2. round \in Nat
  BY DEF BoardInv, TypesOK, CoreTypes
<1>3. Now' = At(prog', 1)
  BY <1>1, NowIs
<1>4. Now'.op \in {"winAddr", "store"}
  BY <1>1, <1>3, FirstOp
<1>5. 1 .. pc' - 1 = {}
  BY <1>1
<1> QED BY <1>1, <1>2, <1>4, <1>5

LEMMA StartStep == BoardInv /\ Next => StartInv'
<1> SUFFICES ASSUME BoardInv, Next PROVE StartInv'
  OBVIOUS
<1>1. CASE LoadProgram
  BY <1>1, Loads DEF StartInv
<1>2. CASE Evict \/ WalkLine \/ Execute
  BY <1>2, Others DEF BoardInv, StartInv
<1>3. CASE Core1
  <2>1. /\ prog' = prog /\ round' = round /\ pc' = pc + 1 /\ pc \in Nat /\ Now = At(prog, pc)
    BY <1>3, CoreSteps, NowIs
  <2> SUFFICES ASSUME round > 0, NEW j \in 1 .. pc, At(prog, j).op = "startPc",
                      \A k \in j + 1 .. pc : At(prog, k).op # "startPc"
               PROVE  startPc' = At(prog, j).at
    BY <2>1 DEF StartInv
  <2>2. CASE StartPc
    <3>1. startPc' = Now.at /\ Now.op = "startPc"
      BY <2>2 DEF StartPc
    <3>2. j = pc
      <4>1. j # pc => pc \in j + 1 .. pc
        BY <2>1
      <4> QED BY <2>1, <3>1, <4>1
    <3> QED BY <2>1, <3>1, <3>2
  <2>3. CASE ~StartPc
    <3>1. startPc' = startPc
      BY <1>3, <2>3, CoreFrame DEF boxVars, WinAddr, WinData, SetRun, Pop
    <3>2. j # pc
      <4>1. Now.op # "startPc"
        BY <1>3, <2>3 DEF Core1, StoreDword, LoadDword, Maint, MntWait, WinAddr, WinData, SetRun,
           LogWait, Pop, PutC, PutS, PutHex, ParkWait, CheckCtrl, CheckSum, Clock, Elapsed
      <4> QED BY <2>1, <4>1
    <3>3. j \in 1 .. pc - 1 /\ \A k \in j + 1 .. pc - 1 : At(prog, k).op # "startPc"
      BY <2>1, <3>2
    <3> QED BY <3>1, <3>3 DEF BoardInv, StartInv
  <2> QED BY <2>2, <2>3
<1> QED BY <1>1, <1>2, <1>3 DEF Next

\* The cache on its own neither dirties a line nor changes what is stored.
LEMMA Keeps ==
  ASSUME BoardInv, NEW a \in Addr,
         \/ LoadDword
         \/ Evict
         \/ WalkLine
         \/ UNCHANGED <<cache, ddr>>
  PROVE  View(a)' = View(a) /\ (cache[a].held # "dirty" => cache'[a].held # "dirty")
<1>1. cache \in [Addr -> Lines] /\ ddr \in [Addr -> Dwords] /\ MemTypes
  BY DEF BoardInv, TypesOK, MemTypes
<1>2. View(a)' = IF cache'[a].held = "dirty" THEN cache'[a].val ELSE ddr'[a]
  BY DEF View
<1>3. View(a) = IF cache[a].held = "dirty" THEN cache[a].val ELSE ddr[a]
  BY DEF View
<1>4. CASE LoadDword
  <2> DEFINE line == IF cache[Now.at].held = "no" THEN Clean(ddr[Now.at]) ELSE cache[Now.at]
  <2>1. cache' = [cache EXCEPT ![Now.at] = line] /\ ddr' = ddr /\ Now.at \in Addr
    BY <1>4, NowTypes DEF LoadDword
  <2>2. cache[Now.at].held = "no" => line.held = "clean"
    BY DEF Clean
  <2>3. cache[Now.at].held # "no" => line = cache[Now.at]
    OBVIOUS
  <2> HIDE DEF line
  <2> QED BY <1>1, <1>2, <1>3, <2>1, <2>2, <2>3
<1>5. ASSUME NEW b \in Addr, NEW line, line.held # "dirty" \/ line = cache[b],
             cache[b].held = "dirty" => line.held # "dirty",
             ddr' = WrittenBack(b), cache' = [cache EXCEPT ![b] = line]
      PROVE  View(a)' = View(a) /\ (cache[a].held # "dirty" => cache'[a].held # "dirty")
  BY <1>1, <1>2, <1>3, <1>5 DEF WrittenBack
<1>6. CASE Evict
  <2>1. PICK b \in Addr : ddr' = WrittenBack(b) /\ cache' = [cache EXCEPT ![b] = Free]
    BY <1>6 DEF Evict
  <2>2. Free.held # "dirty"
    BY LineTypes
  <2> QED BY <1>5, <2>1, <2>2
<1>7. CASE WalkLine
  <2>1. CASE walk.left = {}
    <3>1. UNCHANGED <<cache, ddr>>
      BY <1>7, <2>1 DEF WalkLine
    <3> QED BY <1>2, <1>3, <3>1
  <2>2. CASE walk.left # {}
    <3> DEFINE b == Min(walk.left)
               line == IF walk.kind = "INVALIDATE" THEN Free
                       ELSE IF cache[b].held = "dirty" THEN Clean(cache[b].val) ELSE cache[b]
    <3>1. b \in Addr
      BY <1>1, <1>7, <2>2, WalkLeft
    <3>2. ddr' = WrittenBack(b) /\ cache' = [cache EXCEPT ![b] = line]
      BY <1>1, <1>7, <2>2, <3>1 DEF WalkLine
    <3>3. line.held # "dirty"
      BY <1>1, <3>1, LineTypes DEF Lines
    <3> HIDE DEF b, line
    <3> QED BY <1>5, <3>1, <3>2, <3>3
  <2> QED BY <2>1, <2>2
<1>8. CASE UNCHANGED <<cache, ddr>>
  BY <1>2, <1>3, <1>8
<1> QED BY <1>4, <1>6, <1>7, <1>8

\* Core 2 writes the sum and nothing else.
LEMMA TwoWrites ==
  ASSUME BoardInv, Execute
  PROVE  /\ UNCHANGED <<cache, walk>> /\ ddr' \in [Addr -> Dwords]
         /\ \A a \in Addr : a # Result => ddr'[a] = ddr[a]
         /\ ddr' = ddr \/ SumStores(want, Spot)
<1>1. UNCHANGED <<cache, walk>> /\ Instruction(want, Spot)
  BY Executes
<1>2. ddr' \in [Addr -> Dwords] /\ ddr \in [Addr -> Dwords]
  BY TypesMem DEF Next, MemTypes, BoardInv, TypesOK
<1>3. ddr' = ddr \/ SumStores(want, Spot)
  BY <1>1 DEF Instruction, HelloEmits, Halts, SumSets, SumAdds, SumLoops, SumEmits,
              LoopSets, LoopLoops, Spins
<1>4. \A a \in Addr : a # Result => ddr'[a] = ddr[a]
  BY <1>2, <1>3 DEF SumStores
<1> QED BY <1>1, <1>2, <1>3, <1>4

\* Core 1 writes through its cache only: what the action is to memory.
LEMMA CoreMem ==
  ASSUME BoardInv, Core1
  PROVE  /\ \/ /\ Now.op = "store" /\ Now.at \in Addr /\ UNCHANGED <<ddr, walk>>
               /\ cache' = [cache EXCEPT ![Now.at] = Dirty(Mine(Now.val))]
            \/ Now.op # "store" /\ (LoadDword \/ UNCHANGED <<cache, ddr>>)
         /\ \/ Now.op = "maint" /\ walk' = [kind |-> Now.val.img, left |-> Addr] /\ UNCHANGED <<cache, ddr>>
            \/ Now.op = "mntWait" /\ walk = Idle /\ UNCHANGED memVars
            \/ Now.op \notin {"maint", "mntWait"} /\ walk' = walk
<1>1. Now.op = "store" => Now.at \in Addr
  BY NowTypes
<1>2. CASE StoreDword
  BY <1>1, <1>2 DEF StoreDword
<1>3. CASE LoadDword
  BY <1>3 DEF LoadDword
<1>4. CASE Maint
  BY <1>4 DEF Maint
<1>5. CASE MntWait
  BY <1>5 DEF MntWait, memVars
<1>6. CASE ~(StoreDword \/ LoadDword \/ Maint \/ MntWait)
  <2>1. UNCHANGED memVars
    BY <1>6, CoreFrame
  <2>2. Now.op \notin {"store", "maint", "mntWait"}
    BY <1>6 DEF Core1, WinAddr, WinData, StartPc, SetRun, LogWait, Pop, PutC, PutS, PutHex, ParkWait,
                CheckCtrl, CheckSum, Clock, Elapsed
  <2> QED BY <2>1, <2>2 DEF memVars
<1> QED BY <1>2, <1>3, <1>4, <1>5, <1>6

LEMMA StoredStep == BoardInv /\ Next => StoredInv'
<1> SUFFICES ASSUME BoardInv, Next PROVE StoredInv'
  OBVIOUS
<1>0. /\ prog \in Programs /\ pc \in Place(prog) /\ pc \in Nat /\ round \in Nat
      /\ cache \in [Addr -> Lines] /\ ddr \in [Addr -> Dwords]
  BY DEF BoardInv, TypesOK, CoreTypes, MemTypes, Place
<1>1. CASE LoadProgram
  BY <1>1, Loads DEF StoredInv
<1>2. ASSUME NEW j \in 1 .. pc - 1, At(prog, j).op = "store"
      PROVE  /\ At(prog, j).at \in Addr /\ At(prog, j).at # Result
             /\ Is(View(At(prog, j).at), At(prog, j).val) /\ j \in Place(prog)
  <2>1. j \in Place(prog)
    BY <1>0 DEF Place
  <2> QED BY <1>0, <1>2, <2>1, Stores DEF BoardInv, MemInv, StoredInv
<1>3. CASE Evict \/ WalkLine
  <2>1. prog' = prog /\ pc' = pc
    BY <1>3, Others
  <2>2. ASSUME NEW j \in 1 .. pc - 1, At(prog, j).op = "store"
        PROVE  Is(View(At(prog, j).at)', At(prog, j).val)
    <3>1. View(At(prog, j).at)' = View(At(prog, j).at)
      BY <1>2, <1>3, <2>1, <2>2, Keeps DEF View
    <3> QED BY <1>2, <2>2, <3>1
  <2> QED BY <2>1, <2>2 DEF StoredInv, View
<1>4. CASE Execute
  <2>1. prog' = prog /\ pc' = pc
    BY <1>4, Others
  <2>2. ASSUME NEW j \in 1 .. pc - 1, At(prog, j).op = "store"
        PROVE  Is(View(At(prog, j).at)', At(prog, j).val)
    <3>1. cache' = cache /\ ddr'[At(prog, j).at] = ddr[At(prog, j).at]
      BY <1>2, <1>4, <2>2, TwoWrites
    <3>2. View(At(prog, j).at)' = View(At(prog, j).at)
      BY <2>1, <3>1 DEF View
    <3> QED BY <1>2, <2>2, <3>2
  <2> QED BY <2>1, <2>2 DEF StoredInv, View
<1>5. CASE Core1
  <2>1. prog' = prog /\ pc' = pc + 1 /\ Now = At(prog, pc)
    BY <1>5, CoreSteps, NowIs
  <2>2. ASSUME NEW j \in 1 .. pc, At(prog, j).op = "store"
        PROVE  Is(View(At(prog, j).at)', At(prog, j).val)
    <3>1. CASE Now.op = "store"
      <4>1. /\ Now.at \in Addr /\ UNCHANGED ddr
            /\ cache' = [cache EXCEPT ![Now.at] = Dirty(Mine(Now.val))]
        BY <1>5, <3>1, CoreMem
      <4>2. CASE j = pc
        <5>1. Now.val \in Dwords
          BY NowTypes
        <5>2. /\ Mine(Now.val) \in Dwords /\ Is(Mine(Now.val), Now.val)
              /\ Dirty(Mine(Now.val)).held = "dirty" /\ Dirty(Mine(Now.val)).val = Mine(Now.val)
          BY <1>0, <5>1, MineIs, LineTypes
        <5>3. cache'[Now.at] = Dirty(Mine(Now.val))
          BY <1>0, <4>1
        <5> QED BY <2>1, <4>2, <5>2, <5>3 DEF View
      <4>3. CASE j # pc
        <5>1. j \in 1 .. pc - 1 /\ j \in Place(prog)
          BY <1>0, <4>3 DEF Place
        <5>2. At(prog, j).at # Now.at
          BY <1>0, <2>1, <2>2, <3>1, <4>3, <5>1, Stores
        <5>3. cache'[At(prog, j).at] = cache[At(prog, j).at] /\ ddr' = ddr
          BY <1>0, <4>1, <5>2
        <5>4. View(At(prog, j).at)' = View(At(prog, j).at)
          BY <2>1, <5>3 DEF View
        <5> QED BY <1>2, <2>2, <5>1, <5>4
      <4> QED BY <4>2, <4>3
    <3>2. CASE Now.op # "store"
      <4>1. LoadDword \/ UNCHANGED <<cache, ddr>>
        BY <1>5, <3>2, CoreMem
      <4>2. j \in 1 .. pc - 1
        BY <1>0, <2>1, <2>2, <3>2
      <4>3. View(At(prog, j).at)' = View(At(prog, j).at)
        BY <1>2, <2>1, <2>2, <4>1, <4>2, Keeps DEF View
      <4> QED BY <1>2, <2>2, <4>2, <4>3
    <3> QED BY <3>1, <3>2
  <2>3. 1 .. pc' - 1 = 1 .. pc
    BY <1>0, <2>1
  <2> QED BY <2>1, <2>2, <2>3 DEF StoredInv, View
<1> QED BY <1>1, <1>3, <1>4, <1>5 DEF Next

LEMMA FlushedStep == BoardInv /\ Next => FlushedInv'
<1> SUFFICES ASSUME BoardInv, Next PROVE FlushedInv'
  OBVIOUS
<1>0. /\ prog \in Programs /\ pc \in Place(prog) /\ pc \in Nat /\ cache \in [Addr -> Lines]
  BY DEF BoardInv, TypesOK, CoreTypes, MemTypes, Place
<1>1. CASE LoadProgram
  BY <1>1, Loads DEF FlushedInv
<1>2. ASSUME NEW k \in 1 .. pc - 1, NEW a \in Addr, At(prog, k).op = "mntWait",
             \A j \in k .. pc - 1 : At(prog, j).op = "store" => At(prog, j).at # a
      PROVE  cache[a].held # "dirty"
  BY <1>2 DEF BoardInv, MemInv, FlushedInv
<1>3. CASE Evict \/ WalkLine \/ Execute
  <2>1. prog' = prog /\ pc' = pc
    BY <1>3, Others
  <2>2. ASSUME NEW a \in Addr, cache[a].held # "dirty" PROVE cache'[a].held # "dirty"
    <3>1. Evict \/ WalkLine \/ cache' = cache
      BY <1>3, TwoWrites
    <3> QED BY <2>2, <3>1, Keeps
  <2> QED BY <1>2, <2>1, <2>2 DEF FlushedInv
<1>4. CASE Core1
  <2>1. prog' = prog /\ pc' = pc + 1 /\ Now = At(prog, pc)
    BY <1>4, CoreSteps, NowIs
  <2>2. ASSUME NEW k \in 1 .. pc, NEW a \in Addr, At(prog, k).op = "mntWait",
               \A j \in k .. pc : At(prog, j).op = "store" => At(prog, j).at # a
        PROVE  cache'[a].held # "dirty"
    <3>1. CASE k = pc
      <4>1. Now.op = "mntWait" /\ Now.op \notin {"store", "maint"}
        BY <2>1, <2>2, <3>1
      <4>2. walk = Idle /\ UNCHANGED memVars
        BY <1>4, <4>1, CoreMem
      <4>3. a \in Addr \ walk.left
        BY <4>2 DEF Idle
      <4>4. cache[a].held # "dirty"
        BY <4>1, <4>3 DEF BoardInv, MemInv, WalkInv
      <4> QED BY <4>2, <4>4 DEF memVars
    <3>2. CASE k # pc
      <4>1. k \in 1 .. pc - 1 /\ pc \in k .. pc
        BY <1>0, <3>2
      <4>2. \A j \in k .. pc - 1 : At(prog, j).op = "store" => At(prog, j).at # a
        BY <1>0, <2>2, <4>1
      <4>3. cache[a].held # "dirty"
        BY <1>2, <2>2, <4>1, <4>2
      <4>4. CASE Now.op = "store"
        <5>1. Now.at # a
          BY <2>1, <2>2, <4>1, <4>4
        <5>2. Now.at \in Addr /\ cache' = [cache EXCEPT ![Now.at] = Dirty(Mine(Now.val))]
          BY <1>4, <4>4, CoreMem
        <5> QED BY <1>0, <4>3, <5>1, <5>2
      <4>5. CASE Now.op # "store"
        <5>1. LoadDword \/ UNCHANGED <<cache, ddr>>
          BY <1>4, <4>5, CoreMem
        <5> QED BY <4>3, <5>1, Keeps
      <4> QED BY <4>4, <4>5
    <3> QED BY <3>1, <3>2
  <2>3. pc' - 1 = pc
    BY <1>0, <2>1
  <2> QED BY <2>1, <2>2, <2>3 DEF FlushedInv
<1> QED BY <1>1, <1>3, <1>4 DEF Next

LEMMA WalkStep == BoardInv /\ Next => WalkInv'
<1> SUFFICES ASSUME BoardInv, Next PROVE WalkInv'
  OBVIOUS
<1>0. /\ prog \in Programs /\ pc \in Place(prog) /\ pc \in Nat /\ cache \in [Addr -> Lines]
      /\ Now = At(prog, pc) /\ At(prog, pc).op \in OpNames /\ MemTypes
      /\ walk \in [kind : Walks \cup {"none"}, left : SUBSET Addr]
  BY NowIs, Follows DEF BoardInv, TypesOK, CoreTypes, MemTypes, Place
<1>1. IF Now.op = "mntWait"
      THEN /\ walk # Idle => walk.kind = At(prog, pc - 1).val.img
           /\ \A a \in Addr \ walk.left :
                /\ cache[a].held # "dirty"
                /\ At(prog, pc - 1).val.img = "INVALIDATE" => cache[a].held = "no"
      ELSE walk = Idle
  BY DEF BoardInv, MemInv, WalkInv
<1>2. CASE LoadProgram
  <2>1. walk = Idle /\ walk' = walk /\ Now'.op # "mntWait"
    BY <1>1, <1>2, Loads DEF memVars
  <2> QED BY <2>1 DEF WalkInv
<1>3. CASE Core1
  <2>1. /\ prog' = prog /\ pc' = pc + 1 /\ Now' = At(prog, pc + 1)
        /\ At(prog, pc + 1).op \in After[At(prog, pc).op]
    BY <1>3, CoreSteps, NowIs
  <2>2. CASE Now.op = "maint"
    <3>1. walk' = [kind |-> Now.val.img, left |-> Addr]
      BY <1>3, <2>2, CoreMem
    <3>2. Now'.op = "mntWait"
      BY <1>0, <2>1, <2>2, Before
    <3>3. walk'.kind = At(prog', pc' - 1).val.img /\ Addr \ walk'.left = {}
      <4>1. pc' - 1 = pc
        BY <1>0, <2>1
      <4> QED BY <1>0, <2>1, <3>1, <4>1
    <3> QED BY <3>2, <3>3 DEF WalkInv
  <2>3. CASE Now.op # "maint"
    <3>1. Now'.op # "mntWait"
      BY <1>0, <2>1, <2>3, Before
    <3>2. walk' = walk /\ walk = Idle
      BY <1>1, <1>3, <2>3, CoreMem DEF memVars
    <3> QED BY <3>1, <3>2 DEF WalkInv
  <2> QED BY <2>2, <2>3
<1>4. CASE Evict
  <2>1. PICK a \in Addr : cache' = [cache EXCEPT ![a] = Free]
    BY <1>4 DEF Evict
  <2>2. prog' = prog /\ pc' = pc /\ Now' = Now /\ walk' = walk
    BY <1>4, Others DEF Evict
  <2>3. Free.held = "no"
    BY LineTypes
  <2>4. \A b \in Addr : cache'[b] = IF b = a THEN Free ELSE cache[b]
    BY <1>0, <2>1
  <2> QED BY <1>1, <2>2, <2>3, <2>4 DEF WalkInv
<1>5. CASE Execute
  <2>1. prog' = prog /\ pc' = pc /\ Now' = Now /\ UNCHANGED <<cache, walk>>
    BY <1>5, Others, TwoWrites
  <2> QED BY <1>1, <2>1 DEF WalkInv
<1>6. CASE WalkLine
  <2>1. prog' = prog /\ pc' = pc /\ Now' = Now /\ walk # Idle
    BY <1>6, Others DEF WalkLine
  <2>2. /\ Now.op = "mntWait" /\ walk.kind = At(prog, pc - 1).val.img
        /\ \A a \in Addr \ walk.left :
             /\ cache[a].held # "dirty"
             /\ At(prog, pc - 1).val.img = "INVALIDATE" => cache[a].held = "no"
    BY <1>1, <2>1
  <2>3. CASE walk.left = {}
    <3>1. walk' = Idle /\ cache' = cache
      BY <1>6, <2>3 DEF WalkLine
    <3>2. \A a \in Addr : /\ cache'[a].held # "dirty"
                          /\ At(prog, pc - 1).val.img = "INVALIDATE" => cache'[a].held = "no"
      BY <2>2, <2>3, <3>1
    <3> QED BY <2>1, <2>2, <3>1, <3>2 DEF WalkInv
  <2>4. CASE walk.left # {}
    <3> DEFINE a == Min(walk.left)
               line == IF walk.kind = "INVALIDATE" THEN Free
                       ELSE IF cache[a].held = "dirty" THEN Clean(cache[a].val) ELSE cache[a]
    <3>1. a \in Addr
      BY <1>0, <1>6, <2>4, WalkLeft
    <3>2. walk' = [walk EXCEPT !.left = walk.left \ {a}] /\ cache' = [cache EXCEPT ![a] = line]
      BY <1>0, <1>6, <2>4, <3>1 DEF WalkLine
    <3>3. line.held # "dirty" /\ (walk.kind = "INVALIDATE" => line.held = "no")
      BY <1>0, <3>1, LineTypes DEF Lines
    <3> HIDE DEF a, line
    <3>4. walk'.kind = walk.kind /\ walk'.left = walk.left \ {a}
      BY <1>0, <3>2
    <3>5. ASSUME NEW b \in Addr \ walk'.left
          PROVE  /\ cache'[b].held # "dirty"
                 /\ At(prog, pc - 1).val.img = "INVALIDATE" => cache'[b].held = "no"
      <4>1. cache'[b] = IF b = a THEN line ELSE cache[b]
        BY <1>0, <3>1, <3>2
      <4>2. CASE b = a
        BY <2>2, <3>3, <4>1, <4>2
      <4>3. CASE b # a
        <5>1. b \in Addr \ walk.left
          BY <3>4, <4>3
        <5> QED BY <2>2, <4>1, <4>3, <5>1
      <4> QED BY <4>2, <4>3
    <3> QED BY <2>1, <2>2, <3>4, <3>5 DEF WalkInv
  <2> QED BY <2>3, <2>4
<1> QED BY <1>2, <1>3, <1>4, <1>5, <1>6 DEF Next

LEMMA LoadStep == BoardInv /\ Next => LoadInv'
<1> SUFFICES ASSUME BoardInv, Next, Now'.op = "load" PROVE cache'[Now'.at].held = "no"
  BY DEF LoadInv
<1>0. /\ prog \in Programs /\ pc \in Place(prog) /\ pc \in Nat /\ cache \in [Addr -> Lines]
      /\ Now = At(prog, pc) /\ At(prog, pc).op \in OpNames
  BY NowIs, Follows DEF BoardInv, TypesOK, CoreTypes, MemTypes, Place
<1>1. CASE LoadProgram
  BY <1>1, Loads
<1>2. CASE Core1
  <2>1. /\ prog' = prog /\ pc' = pc + 1 /\ Now' = At(prog, pc + 1) /\ pc + 1 \in Place(prog)
        /\ At(prog, pc + 1).op \in After[At(prog, pc).op]
    BY <1>2, CoreSteps, NowIs
  <2>2. Now.op = "mntWait"
    BY <1>0, <2>1, Before
  <2>3. walk = Idle /\ cache' = cache
    BY <1>2, <2>2, CoreMem DEF memVars
  <2>4. prog = "p2test" /\ pc + 1 = TwoSum + 20 /\ Now'.at = Result
    BY <1>0, <2>1, AtLoad
  <2>5. pc - 1 = TwoSum + 18 /\ TwoSum + 18 \in Place("p2test")
    BY <1>0, <2>4, PlaceIs, PlaceNat
  <2>6. At(prog, pc - 1).val.img = "INVALIDATE"
    BY <2>4, <2>5, TwoLines, CodeIs, MaintIs DEF At
  <2>7. Result \in Addr \ walk.left
    BY <2>3, AddrIs DEF Idle
  <2>8. cache[Result].held = "no"
    BY <2>2, <2>6, <2>7 DEF BoardInv, MemInv, WalkInv
  <2> QED BY <2>3, <2>4, <2>8
<1>3. CASE Evict \/ WalkLine \/ Execute
  <2>1. Now' = Now
    BY <1>3, Others
  <2>2. cache[Now.at].held = "no" /\ walk = Idle /\ Now.at \in Addr
    BY <2>1, NowTypes DEF BoardInv, MemInv, LoadInv, WalkInv
  <2>3. CASE Evict
    <3>1. PICK a \in Addr : cache' = [cache EXCEPT ![a] = Free]
      BY <2>3 DEF Evict
    <3> QED BY <1>0, <2>1, <2>2, <3>1, LineTypes
  <2>4. CASE Execute
    BY <2>1, <2>2, <2>4, TwoWrites
  <2>5. ~WalkLine
    BY <2>2 DEF WalkLine
  <2> QED BY <1>3, <2>3, <2>4, <2>5
<1> QED BY <1>1, <1>2, <1>3 DEF Next

LEMMA WindowStep == BoardInv /\ Next => WindowInv'
<1> SUFFICES ASSUME BoardInv, Next PROVE WindowInv'
  OBVIOUS
<1>0. /\ prog \in Programs /\ pc \in Place(prog) /\ pc \in Nat /\ round \in Nat
      /\ Now = At(prog, pc) /\ At(prog, pc).op \in OpNames
      /\ ram \in [RamAddr -> Dwords] /\ RamAddr = 1 .. Letters + 6 /\ winAddr \in Nat
      /\ WinStart \in Nat
  BY NowIs, Follows, SumIs, PlaceNat DEF BoardInv, TypesOK, CoreTypes, BoxTypes, Place, RamAddr, WinStart
<1>1. /\ Now.op = "winData" => winAddr = pc - WinStart
      /\ round > 0 => \A j \in 1 .. pc - 1 :
           At(prog, j).op = "winData" => Is(ram[j - WinStart], At(prog, j).val)
  BY DEF BoardInv, MemInv, WindowInv
<1>2. CASE LoadProgram
  BY <1>2, Loads DEF WindowInv
<1>3. CASE Evict \/ WalkLine \/ Execute
  <2>1. UNCHANGED <<prog, pc, round, ram, winAddr>> /\ Now' = Now
    BY <1>3, Others
  <2> QED BY <1>1, <2>1 DEF WindowInv, WinStart
<1>4. CASE Core1
  <2>1. /\ prog' = prog /\ pc' = pc + 1 /\ Now' = At(prog, pc + 1) /\ round' = round
        /\ At(prog, pc + 1).op \in After[At(prog, pc).op] /\ WinStart' = WinStart
        /\ 1 .. pc' - 1 = 1 .. pc
    BY <1>0, <1>4, CoreSteps, NowIs DEF WinStart
  <2>2. CASE Now.op = "winData"
    <3>1. ~run /\ pc - WinStart \in RamAddr
      <4>1. \/ prog = "p1test" /\ pc \in 2 .. Letters + 2
            \/ prog = "p2test" /\ pc \in TwoSum + 4 .. TwoSum + 9
            \/ prog = "p2btest" /\ pc \in 2 .. 4
            \/ prog = "spinload" /\ pc \in 2 .. 3
        BY <1>0, <2>2, AtWinData
      <4>2. ~Started /\ ~Leftover
        BY <4>1, PlaceNat DEF Started, Leftover
      <4>3. pc - WinStart \in 1 .. Letters + 6
        BY <4>1, PlaceNat DEF WinStart
      <4> QED BY <1>0, <4>2, <4>3 DEF BoardInv, TwoInv, RunInv
    <3>2. WinData
      BY <1>4, <2>2 DEF Core1, StoreDword, LoadDword, Maint, MntWait, WinAddr, StartPc, SetRun,
           LogWait, Pop, PutC, PutS, PutHex, ParkWait, CheckCtrl, CheckSum, Clock, Elapsed
    <3>3. ram' = [ram EXCEPT ![winAddr] = Mine(Now.val)] /\ winAddr' = winAddr + 1
      BY <3>1, <3>2 DEF WinData
    <3>4. winAddr = pc - WinStart
      BY <1>1, <2>2
    <3>5. winAddr' = pc' - WinStart
      BY <1>0, <2>1, <3>3, <3>4
    <3>6. ASSUME round > 0, NEW j \in 1 .. pc, At(prog, j).op = "winData"
          PROVE  Is(ram'[j - WinStart], At(prog, j).val)
      <4>1. CASE j = pc
        <5>1. ram'[j - WinStart] = Mine(Now.val)
          BY <1>0, <3>1, <3>3, <3>4, <4>1
        <5>2. Is(Mine(Now.val), Now.val)
          BY <1>0, NowTypes, MineIs
        <5> QED BY <1>0, <4>1, <5>1, <5>2
      <4>2. CASE j # pc
        <5>1. j \in 1 .. pc - 1 /\ j - WinStart # winAddr
          BY <1>0, <3>4, <4>2
        <5>2. ram'[j - WinStart] = ram[j - WinStart]
          <6>1. j \in Place(prog)
            BY <1>0, <5>1 DEF Place
          <6>2. \/ prog = "p1test" /\ j \in 2 .. Letters + 2
                \/ prog = "p2test" /\ j \in TwoSum + 4 .. TwoSum + 9
                \/ prog = "p2btest" /\ j \in 2 .. 4
                \/ prog = "spinload" /\ j \in 2 .. 3
            BY <1>0, <3>6, <6>1, AtWinData
          <6>3. j - WinStart \in 1 .. Letters + 6
            BY <6>2, PlaceNat DEF WinStart
          <6> QED BY <1>0, <3>3, <5>1, <6>3
        <5> QED BY <1>1, <3>6, <5>1, <5>2
      <4> QED BY <4>1, <4>2
    <3> QED BY <2>1, <3>5, <3>6 DEF WindowInv
  <2>3. CASE Now.op # "winData"
    <3>1. ram' = ram
      BY <1>4, <2>3, CoreFrame DEF boxVars, WinAddr, WinData, StartPc, SetRun, Pop
    <3>2. Now'.op = "winData" => winAddr' = pc' - WinStart
      <4> SUFFICES ASSUME Now'.op = "winData" PROVE winAddr' = pc' - WinStart
        OBVIOUS
      <4>1. At(prog, pc).op = "winAddr"
        BY <1>0, <2>1, <2>3, Before
      <4>2. pc = WinStart /\ Now.at = 1
        BY <1>0, <4>1, AtWinAddr DEF WinStart
      <4>3. winAddr' = Now.at
        BY <1>0, <1>4, <4>1 DEF Core1, StoreDword, LoadDword, Maint, MntWait, WinAddr, WinData,
           StartPc, SetRun,
           LogWait, Pop, PutC, PutS, PutHex, ParkWait, CheckCtrl, CheckSum, Clock, Elapsed
      <4> QED BY <1>0, <2>1, <4>2, <4>3
    <3>3. ASSUME round > 0, NEW j \in 1 .. pc, At(prog, j).op = "winData"
          PROVE  Is(ram'[j - WinStart], At(prog, j).val)
      <4>1. j \in 1 .. pc - 1
        BY <1>0, <2>3, <3>3
      <4> QED BY <1>1, <3>1, <3>3, <4>1
    <3> QED BY <2>1, <3>2, <3>3 DEF WindowInv
  <2> QED BY <2>2, <2>3
<1> QED BY <1>2, <1>3, <1>4 DEF Next

-----------------------------------------------------------------------------
(* Core 2 started and stopped.                                             *)

LEMMA RunAt ==
  /\ At("p1test", OneFwd).op = "run"
  /\ At("p2test", Letters + 5).op = "run" /\ At("p2test", TwoFwd).op = "run"
  /\ At("p2test", TwoData).op = "run" /\ At("p2test", TwoSum + 11).op = "run"
  /\ At("p2test", TwoSum + 12).op = "run" /\ At("p2test", TwoSum + 17).op = "run"
  /\ At("p2btest", 8).op = "run" /\ At("p2btest", 10).op = "run"
  /\ At("p2btest", 22).op = "run" /\ At("p2btest", 24).op = "run"
  /\ At("spinload", 6).op = "run" /\ At("spinload", 8).op = "halt"
<1>1. At("p1test", OneFwd).op = "run"
  BY OneLines, CodeIs, Fields DEF At
<1>2. /\ At("p2test", Letters + 5).op = "run" /\ At("p2test", TwoFwd).op = "run"
      /\ At("p2test", TwoData).op = "run" /\ At("p2test", TwoSum + 11).op = "run"
      /\ At("p2test", TwoSum + 12).op = "run" /\ At("p2test", TwoSum + 17).op = "run"
  BY TwoLines, CodeIs, Fields DEF At
<1>3. /\ At("p2btest", 8).op = "run" /\ At("p2btest", 10).op = "run"
      /\ At("p2btest", 22).op = "run" /\ At("p2btest", 24).op = "run"
  BY TimedLines, CodeIs, Fields DEF At
<1>4. At("spinload", 6).op = "run" /\ At("spinload", 8).op = "halt"
  BY SpinLines, CodeIs, Fields DEF At
<1> QED BY <1>1, <1>2, <1>3, <1>4

\* Core 1 waits at no other access for core 2 to start or stop.
LEMMA CoreOps ==
  ASSUME Core1
  PROVE  /\ Now.op = "store" <=> StoreDword
         /\ Now.op = "maint" <=> Maint
         /\ Now.op = "mntWait" <=> MntWait
         /\ Now.op = "run" <=> SetRun
         /\ Now.op = "logWait" <=> LogWait
         /\ Now.op = "putc" <=> PutC
         /\ Now.op = "pop" <=> Pop
         /\ Now.op = "parkWait" <=> ParkWait
         /\ Now.op = "load" <=> LoadDword
BY DEF Core1, StoreDword, LoadDword, Maint, MntWait, WinAddr, WinData, StartPc, SetRun, LogWait,
       Pop, PutC, PutS, PutHex, ParkWait, CheckCtrl, CheckSum, Clock, Elapsed

LEMMA MaxIs ==
  ASSUME NEW S \in SUBSET Int, NEW m \in S, \A x \in S : x <= m
  PROVE  Max(S) = m
<1>1. \A x \in S : (\A y \in S : x >= y) => x = m
  OBVIOUS
<1>2. \A y \in S : m >= y
  OBVIOUS
<1> QED BY <1>1, <1>2 DEF Max

LEMMA LastAt ==
  ASSUME BoardInv, NEW m \in 1 .. pc,
         At(prog, m).op \in {"store", "winData"}, At(prog, m).val.do # "word",
         \A i \in m + 1 .. pc : At(prog, i).op \notin {"store", "winData"}
  PROVE  LastImage = At(prog, m).val.img
<1>0. pc \in Nat /\ m \in Nat
  BY DEF BoardInv, TypesOK, CoreTypes, Place
<1> DEFINE stores == {i \in 1 .. pc : ProgCode[prog][i].op \in {"store", "winData"}
                                       /\ ProgCode[prog][i].val.do # "word"}
<1>1. m \in stores /\ stores \in SUBSET Int
  BY <1>0 DEF At
<1>2. \A x \in stores : x <= m
  <2> SUFFICES ASSUME NEW x \in 1 .. pc, At(prog, x).op \in {"store", "winData"} PROVE x <= m
    BY DEF At
  <2> QED BY <1>0
<1> HIDE DEF stores
<1>3. Max(stores) = m
  BY <1>1, <1>2, MaxIs
<1> QED BY <1>3 DEF LastImage, stores, At

\* The six places core 2 is started at, where from and with which image.
StartPlace(at, wanted) ==
  \/ prog = "p1test" /\ pc = OneFwd /\ at = 0 /\ wanted = "hello"
  \/ prog = "p2test" /\ pc = TwoFwd /\ at = DdrBase /\ wanted = "hello"
  \/ prog = "p2test" /\ pc = TwoSum + 12 /\ at = 0 /\ wanted = "sum"
  \/ prog = "p2btest" /\ pc = 8 /\ at = 0 /\ wanted = "local"
  \/ prog = "p2btest" /\ pc = 22 /\ at = DdrBase /\ wanted = "ddr"
  \/ prog = "spinload" /\ pc = 6 /\ at = 0 /\ wanted = "spin"

\* There the image stored last, and the address to start at, are these.
LEMMA StartUp ==
  ASSUME BoardInv, NEW at, NEW wanted, StartPlace(at, wanted)
  PROVE  LastImage = wanted /\ (round > 0 => startPc = at + 1)
<1>0. /\ prog \in Programs /\ pc \in Place(prog) /\ pc \in Nat
      /\ \A j \in 1 .. pc : j \in Place(prog)
  BY DEF BoardInv, TypesOK, CoreTypes, Place
<1> DEFINE Last(m, i) ==
             /\ m \in 1 .. pc /\ At(prog, m).op \in {"store", "winData"}
             /\ At(prog, m).val.do # "word" /\ At(prog, m).val.img = i
             /\ \A k \in m + 1 .. pc : At(prog, k).op \notin {"store", "winData"}
           First(m, a) ==
             /\ m \in 1 .. pc - 1 /\ At(prog, m).op = "startPc" /\ At(prog, m).at = a
             /\ \A k \in m + 1 .. pc - 1 : At(prog, k).op # "startPc"
<1>1. ASSUME NEW m, NEW i, Last(m, i) PROVE LastImage = i
  BY <1>1, LastAt
<1>2. ASSUME NEW m, NEW a, First(m, a) PROVE round > 0 => startPc = a
  BY <1>2 DEF BoardInv, StartInv
<1>3. ASSUME NEW m \in 1 .. pc, NEW k \in m + 1 .. pc
      PROVE  /\ At(prog, k).op = "store" =>
                  \/ prog = "p2test" /\ (k <= Letters + 1 \/ k \in TwoData + 1 .. TwoSum)
                  \/ prog = "p2btest" /\ k \in 14 .. 16
             /\ At(prog, k).op = "winData" =>
                  \/ prog = "p1test" /\ k <= Letters + 2
                  \/ prog = "p2test" /\ k \in TwoSum + 4 .. TwoSum + 9
                  \/ prog = "p2btest" /\ k <= 4
                  \/ prog = "spinload" /\ k <= 3
             /\ At(prog, k).op = "startPc" =>
                  \/ prog = "p1test" /\ k = Letters + 3
                  \/ prog = "p2test" /\ (k = Letters + 4 \/ k = TwoSum + 10)
                  \/ prog = "p2btest" /\ (k = 6 \/ k = 20)
                  \/ prog = "spinload" /\ k = 4
  <2>1. k \in Place(prog) /\ k \in Nat
    BY <1>0, <1>3
  <2>2. At(prog, k).op = "store" =>
          \/ prog = "p2test" /\ (k <= Letters + 1 \/ k \in TwoData + 1 .. TwoSum)
          \/ prog = "p2btest" /\ k \in 14 .. 16
    BY <1>0, <2>1, AtStore, PlaceNat
  <2>3. At(prog, k).op = "winData" =>
          \/ prog = "p1test" /\ k <= Letters + 2
          \/ prog = "p2test" /\ k \in TwoSum + 4 .. TwoSum + 9
          \/ prog = "p2btest" /\ k <= 4
          \/ prog = "spinload" /\ k <= 3
    BY <1>0, <2>1, AtWinData, PlaceNat
  <2>4. At(prog, k).op = "startPc" =>
          \/ prog = "p1test" /\ k = Letters + 3
          \/ prog = "p2test" /\ (k = Letters + 4 \/ k = TwoSum + 10)
          \/ prog = "p2btest" /\ (k = 6 \/ k = 20)
          \/ prog = "spinload" /\ k = 4
    BY <1>0, <2>1, AtStartPc, PlaceNat
  <2> QED BY <2>2, <2>3, <2>4
<1>4. CASE prog = "p1test" /\ pc = OneFwd /\ at = 0 /\ wanted = "hello"
  <2>1. /\ At(prog, Letters + 2) = Op("winData", 0, Hello[Letters + 1])
        /\ At(prog, Letters + 3) = Reg("startPc", 1)
        /\ Hello[Letters + 1] = Dword("hello", "halt", 0)
    <3>1. Letters \in Nat /\ Letters + 2 \in 2 .. Letters + 2 /\ Letters + 2 - 1 = Letters + 1
      BY PlaceNat
    <3>2. ASSUME NEW n \in 2 .. Letters + 2, n - 1 = Letters + 1
          PROVE  p1test[n] = Op("winData", 0, Hello[Letters + 1])
      BY <3>2, OneLines
    <3>3. p1test[Letters + 2] = Op("winData", 0, Hello[Letters + 1])
      BY <3>1, <3>2
    <3> QED BY <1>4, <3>3, OneLines, CodeIs, HelloIs DEF At
  <2>2. Letters + 2 \in 1 .. pc /\ Letters + 3 \in 1 .. pc - 1 /\ Letters + 3 \in 1 .. pc
    BY <1>4, PlaceNat
  <2>3. /\ \A k \in Letters + 2 + 1 .. pc : At(prog, k).op \notin {"store", "winData"}
        /\ \A k \in Letters + 3 + 1 .. pc - 1 : At(prog, k).op # "startPc"
    BY <1>3, <1>4, <2>2, PlaceNat
  <2>4. Last(Letters + 2, "hello") /\ First(Letters + 3, 1)
    BY <2>1, <2>2, <2>3, Fields DEF Dword
  <2> QED BY <1>1, <1>2, <1>4, <2>4
<1>5. CASE prog = "p2test" /\ pc = TwoFwd /\ at = DdrBase /\ wanted = "hello"
  <2>1. /\ At(prog, Letters + 1) = Store(DdrBase + (Letters + 1), Hello[Letters + 1])
        /\ At(prog, Letters + 4) = Reg("startPc", DdrBase + 1)
        /\ Hello[Letters + 1] = Dword("hello", "halt", 0)
    <3>1. Letters + 1 \in 1 .. Letters + 1
      BY PlaceNat
    <3> QED BY <1>5, <3>1, TwoLines, CodeIs, HelloIs DEF At
  <2>2. Letters + 1 \in 1 .. pc /\ Letters + 4 \in 1 .. pc - 1 /\ Letters + 4 \in 1 .. pc
    BY <1>5, PlaceNat
  <2>3. /\ \A k \in Letters + 1 + 1 .. pc : At(prog, k).op \notin {"store", "winData"}
        /\ \A k \in Letters + 4 + 1 .. pc - 1 : At(prog, k).op # "startPc"
    BY <1>3, <1>5, <2>2, PlaceNat
  <2>4. Last(Letters + 1, "hello") /\ First(Letters + 4, DdrBase + 1)
    BY <2>1, <2>2, <2>3, Fields DEF Dword
  <2> QED BY <1>1, <1>2, <1>5, <2>4
<1>6. CASE prog = "p2test" /\ pc = TwoSum + 12 /\ at = 0 /\ wanted = "sum"
  <2>1. /\ At(prog, TwoSum + 9) = Op("winData", 0, DdrSum[6])
        /\ At(prog, TwoSum + 10) = Reg("startPc", 1)
        /\ DdrSum[6] = Dword("sum", "halt", 0)
    <3>1. TwoSum \in Nat /\ TwoSum + 9 \in TwoSum + 4 .. TwoSum + 9 /\ TwoSum + 9 - TwoSum - 3 = 6
      BY PlaceNat
    <3>2. ASSUME NEW n \in TwoSum + 4 .. TwoSum + 9, n - TwoSum - 3 = 6
          PROVE  p2test[n] = Op("winData", 0, DdrSum[6])
      BY <3>2, TwoLines
    <3>3. p2test[TwoSum + 9] = Op("winData", 0, DdrSum[6])
      BY <3>1, <3>2
    <3> QED BY <1>6, <3>3, TwoLines, CodeIs, SumIs DEF At
  <2>2. TwoSum + 9 \in 1 .. pc /\ TwoSum + 10 \in 1 .. pc - 1 /\ TwoSum + 10 \in 1 .. pc
    BY <1>6, PlaceNat
  <2>3. /\ \A k \in TwoSum + 9 + 1 .. pc : At(prog, k).op \notin {"store", "winData"}
        /\ \A k \in TwoSum + 10 + 1 .. pc - 1 : At(prog, k).op # "startPc"
    BY <1>3, <1>6, <2>2, PlaceNat
  <2>4. Last(TwoSum + 9, "sum") /\ First(TwoSum + 10, 1)
    BY <2>1, <2>2, <2>3, Fields DEF Dword
  <2> QED BY <1>1, <1>2, <1>6, <2>4
<1>7. CASE prog = "p2btest" /\ pc = 8 /\ at = 0 /\ wanted = "local"
  <2>1. /\ At(prog, 4) = Op("winData", 0, LoopLocal[3]) /\ At(prog, 6) = Reg("startPc", 1)
        /\ LoopLocal[3] = Dword("local", "halt", 0)
    <3>1. 4 \in 2 .. 4 /\ 4 - 1 = 3
      OBVIOUS
    <3> QED BY <1>7, <3>1, TimedLines, CodeIs, LoopIs DEF At
  <2>2. 4 \in 1 .. pc /\ 6 \in 1 .. pc - 1 /\ 6 \in 1 .. pc
    BY <1>7
  <2>3. /\ \A k \in 4 + 1 .. pc : At(prog, k).op \notin {"store", "winData"}
        /\ \A k \in 6 + 1 .. pc - 1 : At(prog, k).op # "startPc"
    BY <1>3, <1>7, <2>2
  <2>4. Last(4, "local") /\ First(6, 1)
    BY <2>1, <2>2, <2>3, Fields DEF Dword
  <2> QED BY <1>1, <1>2, <1>7, <2>4
<1>8. CASE prog = "p2btest" /\ pc = 22 /\ at = DdrBase /\ wanted = "ddr"
  <2>1. /\ At(prog, 16) = Store(DdrBase + 3, LoopDdr[3]) /\ At(prog, 20) = Reg("startPc", DdrBase + 1)
        /\ LoopDdr[3] = Dword("ddr", "halt", 0)
    <3>1. 16 \in 14 .. 16 /\ 16 - 13 = 3
      OBVIOUS
    <3> QED BY <1>8, <3>1, TimedLines, CodeIs, LoopIs DEF At
  <2>2. 16 \in 1 .. pc /\ 20 \in 1 .. pc - 1 /\ 20 \in 1 .. pc
    BY <1>8
  <2>3. /\ \A k \in 16 + 1 .. pc : At(prog, k).op \notin {"store", "winData"}
        /\ \A k \in 20 + 1 .. pc - 1 : At(prog, k).op # "startPc"
    BY <1>3, <1>8, <2>2
  <2>4. Last(16, "ddr") /\ First(20, DdrBase + 1)
    BY <2>1, <2>2, <2>3, Fields DEF Dword
  <2> QED BY <1>1, <1>2, <1>8, <2>4
<1>9. CASE prog = "spinload" /\ pc = 6 /\ at = 0 /\ wanted = "spin"
  <2>1. /\ At(prog, 3) = Op("winData", 0, Spin[2]) /\ At(prog, 4) = Reg("startPc", 1)
        /\ Spin[2] = Dword("spin", "jump", 1)
    <3>1. 3 \in 2 .. 3 /\ 3 - 1 = 2
      OBVIOUS
    <3> QED BY <1>9, <3>1, SpinLines, CodeIs, SpinIs DEF At
  <2>2. 3 \in 1 .. pc /\ 4 \in 1 .. pc - 1 /\ 4 \in 1 .. pc
    BY <1>9
  <2>3. /\ \A k \in 3 + 1 .. pc : At(prog, k).op \notin {"store", "winData"}
        /\ \A k \in 4 + 1 .. pc - 1 : At(prog, k).op # "startPc"
    BY <1>3, <1>9, <2>2
  <2>4. Last(3, "spin") /\ First(4, 1)
    BY <2>1, <2>2, <2>3, Fields DEF Dword
  <2> QED BY <1>1, <1>2, <1>9, <2>4
<1> QED BY <1>4, <1>5, <1>6, <1>7, <1>8, <1>9 DEF StartPlace

StopPlace ==
  \/ prog = "p2test" /\ pc \in {Letters + 5, TwoData, TwoSum + 11, TwoSum + 17}
  \/ prog = "p2btest" /\ pc \in {7, 10, 21, 24}
  \/ prog = "spinload" /\ pc = 5

Starts(at, wanted) ==
  /\ StartPlace(at, wanted) /\ ~run /\ run' /\ want' = wanted /\ parked = "no"
  /\ core2' = [pc |-> at + 1, count |-> 0, sum |-> 0] /\ Base' = at /\ Spot' = 1
  /\ \A a \in TextAddr : text[a].held = "no"
  /\ UNCHANGED <<parked, text>>

Stops ==
  /\ StopPlace /\ ~run' /\ parked' = "no" /\ core2' = Stopped /\ want' = want
  /\ \A a \in TextAddr : text'[a].held = "no"

LEMMA NotBegun == BoardInv /\ Now.op # "halt" => round \in Nat /\ round > 0
<1> SUFFICES ASSUME BoardInv, Now.op # "halt" PROVE round \in Nat /\ round > 0
  OBVIOUS
<1>1. round \in Nat /\ (round = 0 => prog = "spinload" /\ pc = 8)
  BY DEF BoardInv, TypesOK, CoreTypes, TwoInv, RunInv
<1>2. round # 0
  BY <1>1, NowIs, RunAt
<1> QED BY <1>1, <1>2

LEMMA Edges ==
  ASSUME BoardInv, SetRun
  PROVE  /\ Core1 /\ UNCHANGED <<d, uart, watch, memVars, startPc, winAddr, ram, log>>
         /\ \/ Stops
            \/ \E at \in {0, DdrBase} : \E wanted \in Images : Starts(at, wanted)
<1>0. /\ prog \in Programs /\ pc \in Place(prog) /\ Now = At(prog, pc) /\ At(prog, pc).op = "run"
      /\ run \in BOOLEAN
  BY NowIs DEF BoardInv, TypesOK, CoreTypes, BoxTypes, SetRun
<1>1. Core1 /\ UNCHANGED <<d, uart, watch, memVars, startPc, winAddr, ram, log>>
  BY DEF Core1, SetRun
<1>2. run' = (Now.at = 1)
  BY DEF SetRun
<1>3. (StopPlace /\ Now.at = 0)
      \/ (Now.at = 1 /\ \E at \in {0, DdrBase} : \E wanted \in Images : StartPlace(at, wanted))
  BY <1>0, AtRun DEF StopPlace, StartPlace, Images
<1>4. CASE StopPlace /\ Now.at = 0
  <2>4. Now.at # 1
    BY <1>4
  <2>1. ~run'
    BY Zenon, <1>2, <2>4
  <2>2. parked' = "no" /\ core2' = Stopped /\ text' = [a \in TextAddr |-> Free] /\ want' = want
    BY <2>1 DEF SetRun
  <2>3. \A a \in TextAddr : text'[a].held = "no"
    BY <2>2, LineTypes
  <2> QED BY <1>1, <1>4, <2>1, <2>2, <2>3 DEF Stops
<1>5. ASSUME Now.at = 1, NEW at \in {0, DdrBase}, NEW wanted \in Images, StartPlace(at, wanted)
      PROVE  Starts(at, wanted)
  <2>1. run'
    BY <1>2, <1>5
  <2>2. ~run
    <3>1. run => Started \/ Leftover
      BY DEF BoardInv, TwoInv, RunInv
    <3>2. ~Started /\ ~Leftover
      BY <1>5, PlaceNat DEF StartPlace, Started, Leftover
    <3> QED BY <3>1, <3>2
  <2>3. core2' = [pc |-> startPc, count |-> 0, sum |-> 0] /\ want' = LastImage /\ UNCHANGED <<parked, text>>
    BY <2>1, <2>2 DEF SetRun, Stopped
  <2>4. LastImage = wanted /\ startPc = at + 1
    BY <1>0, <1>5, StartUp, NotBegun
  <2>5. parked = "no" /\ \A a \in TextAddr : text[a].held = "no"
    BY <2>2 DEF BoardInv, TwoInv, OffInv
  <2>6. core2.pc' = at + 1
    BY <2>3, <2>4
  <2>7. Base' = at /\ Spot' = 1
    <3>1. Base' = IF core2.pc' < DdrBase THEN 0 ELSE DdrBase
      BY DEF Base
    <3>2. Spot' = core2.pc' - Base'
      BY DEF Spot
    <3> QED BY <1>5, <2>6, <3>1, <3>2, Sizes
  <2> QED BY <1>5, <2>1, <2>2, <2>3, <2>4, <2>5, <2>7 DEF Starts
<1> QED BY <1>1, <1>3, <1>4, <1>5

LEMMA PcStep == BoardInv /\ Next => PcInv'
<1> SUFFICES ASSUME BoardInv, Next PROVE PcInv'
  OBVIOUS
<1>1. CASE LoadProgram
  BY <1>1, Loads, PlaceNat DEF PcInv
<1>2. CASE Core1
  BY <1>2, CoreSteps
<1>3. CASE Evict \/ WalkLine \/ Execute
  BY <1>3, Others DEF BoardInv, PcInv
<1> QED BY <1>1, <1>2, <1>3 DEF Next

\* Core 1's steps but the writes to RUN leave core 2 as it is.
LEMMA Away ==
  ASSUME BoardInv, Core1, ~SetRun
  PROVE  /\ UNCHANGED <<twoVars, want, run>> /\ Base' = Base /\ Spot' = Spot
         /\ prog' = prog /\ round' = round /\ pc' = pc + 1 /\ pc \in Nat
         /\ Now.op \notin {"run", "halt"} /\ Now = At(prog, pc) /\ prog \in Programs
         /\ pc \in Place(prog)
<1>1. UNCHANGED <<twoVars, want>>
  BY CoreFrame
<1>2. UNCHANGED run
  BY CoreFrame DEF boxVars, WinAddr, WinData, StartPc, Pop
<1>3. Base' = Base /\ Spot' = Spot
  BY <1>1 DEF twoVars, Base, Spot
<1> QED BY <1>1, <1>2, <1>3, CoreSteps, CoreOps, NowIs

LEMMA RunStep == BoardInv /\ Next => RunInv'
<1> SUFFICES ASSUME BoardInv, Next PROVE RunInv'
  OBVIOUS
<1>0. /\ (run => Started \/ Leftover) /\ (RunPlace => run) /\ round \in Nat
      /\ (round = 0 => prog = "spinload" /\ pc = 8 /\ ~run)
      /\ prog \in Programs /\ pc \in Place(prog) /\ Now = At(prog, pc)
  BY NowIs DEF BoardInv, TwoInv, RunInv, TypesOK, CoreTypes
<1>1. CASE LoadProgram
  <2>1. /\ UNCHANGED <<boxVars, twoVars, want>> /\ At(prog, pc).op = "halt"
        /\ pc' = 1 /\ round' > 0 /\ round' # 0 /\ (run => prog' = "p2test")
    BY <1>0, <1>1, Loads
  <2>2. run' = run /\ want' = want /\ Base' = Base
    BY <2>1 DEF boxVars, twoVars, Base
  <2>3. ~RunPlace'
    BY <2>1, PlaceNat DEF RunPlace
  <2>4. run => Leftover'
    <3>1. \/ prog = "p1test" /\ (pc = OnePark + 4 \/ pc = OnePark + 6)
          \/ prog = "p2test" /\ (pc = TwoSum + 23 \/ pc = TwoSum + 25)
          \/ prog = "p2btest" /\ pc = 29
          \/ prog = "spinload" /\ pc = 8
      BY <1>0, <2>1, AtHalt
    <3>2. run => Base = 0 /\ want \in {"hello", "spin"}
      BY <1>0, <3>1, PlaceNat DEF Started, Leftover
    <3> QED BY <2>1, <2>2, <3>2, PlaceNat DEF Leftover
  <2> QED BY <2>1, <2>2, <2>3, <2>4 DEF RunInv
<1>2. CASE SetRun
  <2>1. prog' = prog /\ pc' = pc + 1 /\ pc \in Nat /\ round' = round /\ round > 0
    BY <1>0, <1>2, Edges, CoreSteps, NotBegun
  <2>2. CASE Stops
    <3>1. ~run' /\ ~RunPlace'
      BY <2>1, <2>2, PlaceNat DEF Stops, StopPlace, RunPlace
    <3> QED BY <1>0, <2>1, <3>1 DEF RunInv
  <2>3. CASE ~Stops
    <3>1. PICK at \in {0, DdrBase} : \E wanted \in Images : Starts(at, wanted)
      BY <1>2, <2>3, Edges
    <3>2. PICK wanted \in Images : Starts(at, wanted)
      BY <3>1
    <3>3. StartPlace(at, wanted) /\ run' /\ want' = wanted /\ Base' = at
      BY <3>2 DEF Starts
    <3>4. Started'
      BY <2>1, <3>3, PlaceNat DEF StartPlace, Started
    <3> QED BY <1>0, <2>1, <3>3, <3>4 DEF RunInv
  <2> QED BY <2>2, <2>3
<1>3. CASE Core1 /\ ~SetRun
  <2>1. /\ UNCHANGED <<want, run>> /\ Base' = Base /\ prog' = prog /\ round' = round /\ pc' = pc + 1
        /\ pc \in Nat /\ Now.op \notin {"run", "halt"}
    BY <1>3, Away
  <2>2. /\ prog = "p1test" => pc # OneFwd
        /\ prog = "p2test" => pc \notin {Letters + 5, TwoFwd, TwoData, TwoSum + 11, TwoSum + 12, TwoSum + 17}
        /\ prog = "p2btest" => pc \notin {8, 10, 22, 24}
        /\ prog = "spinload" => pc \notin {6, 8}
    BY <1>0, <2>1, RunAt
  <2>3. Started => Started'
    BY <2>1, <2>2, PlaceNat DEF Started
  <2>4. Leftover => Leftover'
    BY <2>1, <2>2, PlaceNat DEF Leftover
  <2>5. RunPlace' => RunPlace
    BY <2>1, <2>2, PlaceNat DEF RunPlace
  <2>6. round > 0
    BY <2>1, NotBegun
  <2> QED BY <1>0, <2>1, <2>3, <2>4, <2>5, <2>6 DEF RunInv
<1>4. CASE Evict \/ WalkLine \/ Execute
  <2>1. UNCHANGED <<prog, pc, round, run, want>> /\ Base' = Base
    BY <1>4, Others
  <2> QED BY <1>0, <2>1 DEF RunInv, Started, Leftover, RunPlace
<1>5. SetRun => Core1
  BY DEF Core1
<1> QED BY <1>1, <1>2, <1>3, <1>4 DEF Next

LEMMA OffStep == BoardInv /\ Next => OffInv'
<1> SUFFICES ASSUME BoardInv, Next, ~run'
             PROVE  parked' = "no" /\ core2' = Stopped /\ \A a \in TextAddr : text'[a].held = "no"
  BY DEF OffInv, Stopped
<1>0. ~run => parked = "no" /\ core2 = Stopped /\ \A a \in TextAddr : text[a].held = "no"
  BY DEF BoardInv, TwoInv, OffInv
<1>1. CASE SetRun
  BY <1>1, Edges DEF Starts, Stops
<1>2. CASE ~SetRun
  <2>1. UNCHANGED <<run, twoVars>>
    <3>1. CASE LoadProgram
      BY <3>1 DEF LoadProgram, boxVars
    <3>2. CASE Core1
      BY <1>2, <3>2, Away
    <3>3. CASE Evict \/ WalkLine
      BY <3>3 DEF Evict, WalkLine, boxVars
    <3>4. CASE Execute
      BY <3>4, Executes DEF Executing
    <3> QED BY <3>1, <3>2, <3>3, <3>4 DEF Next
  <2> QED BY <1>0, <2>1 DEF twoVars
<1> QED BY <1>1, <1>2

\* The window has filled local RAM, and a flush has taken the image to DDR.
LEMMA ReadyRam ==
  ASSUME BoardInv, round > 0, NEW image, NEW m \in Nat, WinStart + m < pc,
         \A i \in 1 .. m : /\ At(prog, WinStart + i).op = "winData"
                           /\ At(prog, WinStart + i).val = image[i]
  PROVE  \A i \in 1 .. m : Is(ram[i], image[i])
<1>1. WinStart \in Nat /\ pc \in Nat
  BY PlaceNat DEF BoardInv, TypesOK, CoreTypes, Place, WinStart
<1>2. ASSUME NEW i \in 1 .. m PROVE Is(ram[i], image[i])
  <2>1. PICK j \in 1 .. pc - 1 : j = WinStart + i
    BY <1>1
  <2>2. At(prog, j).op = "winData" /\ At(prog, j).val = image[i] /\ j - WinStart = i
    BY <1>1, <2>1
  <2>3. Is(ram[j - WinStart], At(prog, j).val)
    BY <2>2 DEF BoardInv, MemInv, WindowInv
  <2> QED BY <2>2, <2>3
<1> QED BY <1>2

\* The m stores behind place s have put an image at base, the flush that ended at
\* place k is behind them, and nothing has been stored since.
Stored(image, base, m, s, k) ==
  /\ base \in Nat /\ m \in Nat /\ s \in Nat /\ k \in 1 .. pc - 1
  /\ At(prog, k).op = "mntWait" /\ s + m < k
  /\ \A i \in 1 .. m : base + i \in Addr
  /\ \A i \in 1 .. m : At(prog, s + i) = Store(base + i, image[i])
  /\ \A j \in k .. pc - 1 : At(prog, j).op # "store"

LEMMA ReadyDdr ==
  ASSUME BoardInv, NEW image, NEW base, NEW m, NEW s, NEW k, Stored(image, base, m, s, k)
  PROVE  \A i \in 1 .. m : Is(ddr[base + i], image[i]) /\ cache[base + i].held # "dirty"
<1> USE DEF Stored
<1>1. pc \in Nat
  BY DEF BoardInv, TypesOK, CoreTypes, Place
<1>2. ASSUME NEW i \in 1 .. m PROVE Is(ddr[base + i], image[i]) /\ cache[base + i].held # "dirty"
  <2>1. s + i \in 1 .. pc - 1
    BY <1>1
  <2>2. /\ At(prog, s + i).op = "store" /\ At(prog, s + i).at = base + i
        /\ At(prog, s + i).val = image[i]
    BY Fields
  <2>3. Is(View(At(prog, s + i).at), At(prog, s + i).val)
    BY <2>1, <2>2 DEF BoardInv, MemInv, StoredInv
  <2>4. cache[base + i].held # "dirty"
    BY DEF BoardInv, MemInv, FlushedInv
  <2> QED BY <2>2, <2>3, <2>4 DEF View
<1> QED BY <1>2

Ready(at, wanted) ==
  \A i \in 1 .. Len(Image[wanted]) :
    IF at = 0 THEN Is(ram[i], Image[wanted][i])
    ELSE Is(ddr[DdrBase + i], Image[wanted][i]) /\ cache[DdrBase + i].held # "dirty"

LEMMA StartReady ==
  ASSUME BoardInv, round > 0, NEW at, NEW wanted, StartPlace(at, wanted)
  PROVE  Ready(at, wanted)
<1>0. prog \in Programs /\ pc \in Place(prog) /\ pc \in Nat
  BY DEF BoardInv, TypesOK, CoreTypes, Place
<1>1. ASSUME NEW i \in Images, at = 0, wanted = i, WinStart + Len(Image[i]) < pc,
             \A n \in 1 .. Len(Image[i]) : At(prog, WinStart + n) = Op("winData", 0, Image[i][n])
      PROVE  Ready(at, wanted)
  <2>1. Len(Image[i]) \in Nat
    BY LenIs
  <2>2. \A n \in 1 .. Len(Image[i]) : At(prog, WinStart + n).op = "winData" /\ At(prog, WinStart + n).val = Image[i][n]
    BY <1>1, Fields
  <2>3. \A n \in 1 .. Len(Image[i]) : Is(ram[n], Image[i][n])
    BY <1>1, <2>1, <2>2, ReadyRam
  <2> QED BY <1>1, <2>3 DEF Ready
<1>2. CASE prog = "p1test" /\ pc = OneFwd /\ at = 0 /\ wanted = "hello"
  <2>1. WinStart = 1 /\ Image["hello"] = Hello /\ Len(Hello) = Letters + 1
    BY <1>2, ImageIs, HelloIs DEF WinStart
  <2>2. ASSUME NEW n \in 1 .. Letters + 1 PROVE At(prog, 1 + n) = Op("winData", 0, Hello[n])
    <3>1. 1 + n \in 2 .. Letters + 2 /\ 1 + n - 1 = n
      BY PlaceNat
    <3>2. p1test[1 + n] = Op("winData", 0, Hello[1 + n - 1])
      BY <3>1, OneLines
    <3> QED BY <1>2, <3>1, <3>2, CodeIs DEF At
  <2>3. 1 + (Letters + 1) < pc
    BY <1>2, PlaceNat
  <2> QED BY <1>1, <1>2, <2>1, <2>2, <2>3 DEF Images
<1>3. CASE prog = "p2test" /\ pc = TwoFwd /\ at = DdrBase /\ wanted = "hello"
  <2>1. Image["hello"] = Hello /\ Len(Hello) = Letters + 1 /\ Letters + 1 \in Nat /\ DdrBase # 0 /\ DdrBase \in Nat
    BY ImageIs, HelloIs, Sizes
  <2>2. \A i \in 1 .. Letters + 1 : At(prog, 0 + i) = Store(DdrBase + i, Hello[i])
    BY <1>3, <2>1, TwoLines, CodeIs DEF At
  <2>3. \A i \in 1 .. Letters + 1 : DdrBase + i \in Addr
    <3>1. \A i \in 1 .. Letters + 1 : i \in 1 .. Letters + 3
      BY Sizes
    <3> QED BY <3>1, AddrIs
  <2>4. At(prog, Letters + 3).op = "mntWait" /\ Letters + 3 \in 1 .. pc - 1 /\ 0 + (Letters + 1) < Letters + 3
    BY <1>3, PlaceNat, TwoLines, CodeIs, Fields DEF At
  <2>5. ASSUME NEW j \in Letters + 3 .. pc - 1 PROVE At(prog, j).op # "store"
    <3>1. j \in Place(prog) /\ ~(j \in 1 .. Letters + 1) /\ ~(j \in TwoData + 1 .. TwoSum)
      BY <1>0, <1>3, PlaceNat DEF Place
    <3> QED BY <1>0, <1>3, <3>1, AtStore
  <2>6. 0 \in Nat
    OBVIOUS
  <2>7. \A i \in 1 .. Letters + 1 : Is(ddr[DdrBase + i], Hello[i]) /\ cache[DdrBase + i].held # "dirty"
    <3>1. Stored(Hello, DdrBase, Letters + 1, 0, Letters + 3)
      BY <2>1, <2>2, <2>3, <2>4, <2>5, <2>6 DEF Stored
    <3> QED BY <3>1, ReadyDdr
  <2> QED BY <1>3, <2>1, <2>7 DEF Ready
<1>4. CASE prog = "p2test" /\ pc = TwoSum + 12 /\ at = 0 /\ wanted = "sum"
  <2>1. WinStart = TwoSum + 3 /\ Image["sum"] = DdrSum /\ Len(DdrSum) = 6
    BY <1>4, ImageIs, SumIs DEF WinStart
  <2>2. ASSUME NEW n \in 1 .. 6 PROVE At(prog, TwoSum + 3 + n) = Op("winData", 0, DdrSum[n])
    <3>1. TwoSum \in Nat /\ TwoSum + 3 + n \in TwoSum + 4 .. TwoSum + 9 /\ TwoSum + 3 + n - TwoSum - 3 = n
      BY PlaceNat
    <3>2. ASSUME NEW k \in TwoSum + 4 .. TwoSum + 9, k - TwoSum - 3 = n
          PROVE  p2test[k] = Op("winData", 0, DdrSum[n])
      BY <3>2, TwoLines
    <3>3. p2test[TwoSum + 3 + n] = Op("winData", 0, DdrSum[n])
      BY <3>1, <3>2
    <3> QED BY <1>4, <3>3, CodeIs DEF At
  <2>3. TwoSum + 3 + 6 < pc
    BY <1>4, PlaceNat
  <2> QED BY <1>1, <1>4, <2>1, <2>2, <2>3 DEF Images
<1>5. CASE prog = "p2btest" /\ pc = 8 /\ at = 0 /\ wanted = "local"
  <2>1. WinStart = 1 /\ Image["local"] = LoopLocal /\ Len(LoopLocal) = 3
    BY <1>5, ImageIs, LoopIs DEF WinStart
  <2>2. ASSUME NEW n \in 1 .. 3 PROVE At(prog, 1 + n) = Op("winData", 0, LoopLocal[n])
    <3>1. 1 + n \in 2 .. 4 /\ 1 + n - 1 = n
      OBVIOUS
    <3>2. p2btest[1 + n] = Op("winData", 0, LoopLocal[1 + n - 1])
      BY <3>1, TimedLines
    <3> QED BY <1>5, <3>1, <3>2, CodeIs DEF At
  <2>3. 1 + 3 < pc
    BY <1>5
  <2> QED BY <1>1, <1>5, <2>1, <2>2, <2>3 DEF Images
<1>6. CASE prog = "p2btest" /\ pc = 22 /\ at = DdrBase /\ wanted = "ddr"
  <2>1. Image["ddr"] = LoopDdr /\ Len(LoopDdr) = 3 /\ DdrBase # 0 /\ DdrBase \in Nat
    BY ImageIs, LoopIs, Sizes
  <2>2. ASSUME NEW i \in 1 .. 3 PROVE At(prog, 13 + i) = Store(DdrBase + i, LoopDdr[i])
    <3>1. 13 + i \in 14 .. 16 /\ 13 + i - 13 = i
      OBVIOUS
    <3>2. p2btest[13 + i] = Store(DdrBase + (13 + i - 13), LoopDdr[13 + i - 13])
      BY <3>1, TimedLines
    <3> QED BY <1>6, <3>1, <3>2, CodeIs DEF At
  <2>3. \A i \in 1 .. 3 : DdrBase + i \in Addr
    <3>1. \A i \in 1 .. 3 : i \in 1 .. Letters + 3
      BY Sizes
    <3> QED BY <3>1, AddrIs
  <2>4. At(prog, 18).op = "mntWait" /\ 18 \in 1 .. pc - 1 /\ 13 + 3 < 18
    BY <1>6, TimedLines, CodeIs, Fields DEF At
  <2>5. ASSUME NEW j \in 18 .. pc - 1 PROVE At(prog, j).op # "store"
    <3>1. j \in Place(prog) /\ ~(j \in 14 .. 16)
      BY <1>0, <1>6 DEF Place
    <3> QED BY <1>0, <1>6, <3>1, AtStore
  <2>6. 13 \in Nat /\ 3 \in Nat
    OBVIOUS
  <2>7. \A i \in 1 .. 3 : Is(ddr[DdrBase + i], LoopDdr[i]) /\ cache[DdrBase + i].held # "dirty"
    <3>1. Stored(LoopDdr, DdrBase, 3, 13, 18)
      BY <2>1, <2>2, <2>3, <2>4, <2>5, <2>6 DEF Stored
    <3> QED BY <3>1, ReadyDdr
  <2> QED BY <1>6, <2>1, <2>7 DEF Ready
<1>7. CASE prog = "spinload" /\ pc = 6 /\ at = 0 /\ wanted = "spin"
  <2>1. WinStart = 1 /\ Image["spin"] = Spin /\ Len(Spin) = 2
    BY <1>7, ImageIs, SpinIs DEF WinStart
  <2>2. ASSUME NEW n \in 1 .. 2 PROVE At(prog, 1 + n) = Op("winData", 0, Spin[n])
    <3>1. 1 + n \in 2 .. 3 /\ 1 + n - 1 = n
      OBVIOUS
    <3>2. spinload[1 + n] = Op("winData", 0, Spin[1 + n - 1])
      BY <3>1, SpinLines
    <3> QED BY <1>7, <3>1, <3>2, CodeIs DEF At
  <2>3. 1 + 2 < pc
    BY <1>7
  <2> QED BY <1>1, <1>7, <2>1, <2>2, <2>3 DEF Images
<1> QED BY <1>2, <1>3, <1>4, <1>5, <1>6, <1>7 DEF StartPlace

\* What core 2 runs lies in RAM, or in lines of DDR.
LEMMA PlacedAt ==
  ASSUME BoardInv, run
  PROVE  /\ want \in Images /\ Spot \in 1 .. Len(Image[want])
         /\ Base = 0 \/ \A i \in 1 .. Len(Image[want]) : DdrBase + i \in TextAddr
<1>1. want \in Images /\ Spot \in 1 .. Len(Image[want])
  BY LenIs DEF BoardInv, TwoInv, PlacedInv
<1>2. Base = 0 \/ want = "hello" \/ want = "ddr"
  BY WantIs
<1>3. ASSUME NEW m, m \in {Letters + 1, 3}, NEW i \in 1 .. m PROVE i \in 1 .. Letters + 3
  BY <1>3, Sizes
<1>4. Base = 0 \/ Len(Image[want]) \in {Letters + 1, 3}
  BY <1>2, LenIs
<1>5. Base = 0 \/ \A i \in 1 .. Len(Image[want]) : i \in 1 .. Letters + 3
  BY Zenon, <1>3, <1>4
<1>6. Base = 0 \/ \A i \in 1 .. Len(Image[want]) : DdrBase + i \in TextAddr
  BY <1>5, AddrIs
<1> QED BY <1>1, <1>6

LEMMA PlacedStep == BoardInv /\ Next => PlacedInv'
<1> SUFFICES ASSUME BoardInv, Next, run' PROVE PlacedInv'
  BY DEF PlacedInv
<1>0. /\ cache \in [Addr -> Lines] /\ text \in [TextAddr -> Lines] /\ ddr \in [Addr -> Dwords]
      /\ ram \in [RamAddr -> Dwords] /\ DOMAIN Image = Images
  BY LenIs DEF BoardInv, TypesOK, MemTypes, TwoTypes, BoxTypes
\* It is enough that each dword is kept where it is.
<1>1. ASSUME run, want' = want, Base' = Base, Spot' \in 1 .. Len(Image[want]), ram' = ram,
             Base # 0 => \A i \in 1 .. Len(Image[want]) :
               /\ ddr'[DdrBase + i] = ddr[DdrBase + i] /\ cache'[DdrBase + i].held # "dirty"
               /\ \/ text'[DdrBase + i] = text[DdrBase + i]
                  \/ Is(text'[DdrBase + i].val, Image[want][i])
      PROVE  PlacedInv'
  <2>1. want \in Images
    BY <1>1, PlacedAt
  <2>2. ASSUME NEW i \in 1 .. Len(Image[want])
        PROVE  IF Base = 0 THEN Is(ram[i], Image[want][i])
               ELSE /\ Is(ddr[DdrBase + i], Image[want][i]) /\ cache[DdrBase + i].held # "dirty"
                    /\ text[DdrBase + i].held # "no" => Is(text[DdrBase + i].val, Image[want][i])
    BY <1>1 DEF BoardInv, TwoInv, PlacedInv
  <2>3. ASSUME NEW i \in 1 .. Len(Image[want])
        PROVE  IF Base = 0 THEN Is(ram'[i], Image[want][i])
               ELSE /\ Is(ddr'[DdrBase + i], Image[want][i]) /\ cache'[DdrBase + i].held # "dirty"
                    /\ text'[DdrBase + i].held # "no" => Is(text'[DdrBase + i].val, Image[want][i])
    BY <1>1, <2>2
  <2> QED BY <1>0, <1>1, <2>1, <2>3 DEF PlacedInv
<1>2. ASSUME run PROVE /\ want \in Images /\ Spot \in 1 .. Len(Image[want])
                       /\ Base = 0 \/ \A i \in 1 .. Len(Image[want]) :
                            /\ DdrBase + i \in TextAddr /\ DdrBase + i \in Addr
                            /\ cache[DdrBase + i].held # "dirty"
  BY <1>2, PlacedAt, AddrIs DEF BoardInv, TwoInv, PlacedInv
<1>3. CASE SetRun
  <2>1. PICK at \in {0, DdrBase} : \E wanted \in Images : Starts(at, wanted)
    BY <1>3, Edges DEF Stops
  <2>2. PICK wanted \in Images : Starts(at, wanted)
    BY <2>1
  <2>3. /\ StartPlace(at, wanted) /\ want' = wanted /\ Base' = at /\ Spot' = 1 /\ text' = text
        /\ \A a \in TextAddr : text[a].held = "no"
    BY <2>2 DEF Starts
  <2>4. round > 0 /\ UNCHANGED <<ram, ddr, cache>>
    BY <1>3, Edges, NotBegun DEF memVars, SetRun
  <2>5. Ready(at, wanted)
    BY <2>3, <2>4, StartReady
  <2>6. 1 \in 1 .. Len(Image[wanted]) /\ Len(Image[wanted]) \in Nat
    BY LenIs, Sizes
  <2>7. at = 0 \/ \A i \in 1 .. Len(Image[wanted]) : text[DdrBase + i].held = "no"
    <3>1. at = 0 \/ Len(Image[wanted]) \in {Letters + 1, 3}
      BY <2>3, LenIs, Sizes DEF StartPlace
    <3>2. ASSUME NEW m, m \in {Letters + 1, 3}, NEW i \in 1 .. m PROVE i \in 1 .. Letters + 3
      BY <3>2, Sizes
    <3>3. at = 0 \/ \A i \in 1 .. Len(Image[wanted]) : i \in 1 .. Letters + 3
      BY Zenon, <3>1, <3>2
    <3> QED BY <2>3, <3>3, AddrIs
  <2> QED BY <1>0, <2>3, <2>4, <2>5, <2>6, <2>7 DEF PlacedInv, Ready
<1>4. CASE LoadProgram
  <2>1. UNCHANGED <<memVars, boxVars, twoVars, want>>
    BY <1>4, Loads
  <2>2. UNCHANGED <<run, want, ram, ddr, cache, text, core2>> /\ Base' = Base /\ Spot' = Spot
    BY <2>1 DEF memVars, boxVars, twoVars, Base, Spot
  <2> QED BY <1>1, <1>2, <2>2
<1>5. CASE Core1 /\ ~SetRun
  <2>1. UNCHANGED <<run, want, text>> /\ Base' = Base /\ Spot' = Spot /\ run /\ Now.op # "run"
    BY <1>5, Away DEF twoVars
  <2>2. ram' = ram
    BY <1>5, <2>1, CoreFrame DEF boxVars, WinAddr, WinData, StartPc, Pop
  <2>3. Base # 0 => Now.op # "store"
    <3> SUFFICES ASSUME Now.op = "store" PROVE Base = 0
      OBVIOUS
    <3>1. prog \in Programs /\ pc \in Place(prog) /\ At(prog, pc).op = "store"
      BY <1>5, Away
    <3>2. \/ prog = "p2test" /\ pc \in 1 .. Letters + 1
          \/ prog = "p2test" /\ pc \in TwoData + 1 .. TwoSum
          \/ prog = "p2btest" /\ pc \in 14 .. 16
      BY <3>1, AtStore
    <3>3. Started \/ Leftover
      BY <2>1 DEF BoardInv, TwoInv, RunInv
    <3> QED BY <3>2, <3>3, PlaceNat DEF Started, Leftover
  <2>4. ASSUME Base # 0, NEW i \in 1 .. Len(Image[want])
        PROVE  ddr'[DdrBase + i] = ddr[DdrBase + i] /\ cache'[DdrBase + i].held # "dirty"
    <3>1. LoadDword \/ UNCHANGED <<cache, ddr>>
      BY <1>5, <2>3, <2>4, CoreMem
    <3>2. DdrBase + i \in Addr /\ cache[DdrBase + i].held # "dirty"
      BY <1>2, <2>1, <2>4
    <3> QED BY <3>1, <3>2, Keeps DEF View
  <2> QED BY <1>1, <1>2, <2>1, <2>2, <2>4
<1>6. CASE Evict \/ WalkLine
  <2>1. UNCHANGED <<run, want, ram, text, core2>> /\ run /\ Base' = Base /\ Spot' = Spot
    BY <1>6 DEF Evict, WalkLine, boxVars, twoVars, Base, Spot
  <2>2. ASSUME Base # 0, NEW i \in 1 .. Len(Image[want])
        PROVE  ddr'[DdrBase + i] = ddr[DdrBase + i] /\ cache'[DdrBase + i].held # "dirty"
    <3>2. DdrBase + i \in Addr /\ cache[DdrBase + i].held # "dirty"
      BY <1>2, <2>1, <2>2
    <3> QED BY <1>6, <3>2, Keeps DEF View
  <2> QED BY <1>1, <1>2, <2>1, <2>2
<1>7. CASE Execute
  <2>1. /\ Executing /\ run /\ UNCHANGED <<cache, ram, want>> /\ Base' = Base /\ Fill
        /\ Instruction(want, Spot)
    BY <1>7, Executes DEF Executing
  <2>2. /\ want \in Images /\ Spot \in 1 .. Len(Image[want]) /\ Is(Fetched, Image[want][Spot])
        /\ core2.pc \in Nat
    BY <2>1, Fetches
  <2>3. Spot' \in 1 .. Len(Image[want])
    <3>1. \/ want = "hello" /\ Spot' \in 1 .. Letters + 1
          \/ want = "sum" /\ Spot' \in 1 .. 6
          \/ want \in {"local", "ddr"} /\ Spot' \in 1 .. 3
          \/ want = "spin" /\ Spot' \in 1 .. 2
      BY <2>1, Sizes DEF Instruction, HelloEmits, Halts, SumSets, SumAdds, SumLoops, SumStores, SumEmits,
                         LoopSets, LoopLoops, Spins
    <3> QED BY <3>1, LenIs
  <2>4. ASSUME Base # 0, NEW i \in 1 .. Len(Image[want])
        PROVE  /\ ddr'[DdrBase + i] = ddr[DdrBase + i] /\ cache'[DdrBase + i].held # "dirty"
               /\ \/ text'[DdrBase + i] = text[DdrBase + i]
                  \/ Is(text'[DdrBase + i].val, Image[want][i])
    <3>1. DdrBase + i \in TextAddr /\ DdrBase + i \in Addr /\ cache[DdrBase + i].held # "dirty"
      BY <1>2, <2>1, <2>4
    <3>2. DdrBase + i # Result
      BY <3>1, AddrIs
    <3>3. ddr'[DdrBase + i] = ddr[DdrBase + i] /\ cache'[DdrBase + i].held # "dirty"
      BY <1>7, <3>1, <3>2, TwoWrites
    <3>4. ~(core2.pc < DdrBase) /\ core2.pc = DdrBase + Spot
      BY <2>2, <2>4, BaseIs, Sizes
    <3>5. text' = [text EXCEPT ![core2.pc] = Clean(Fetched)]
      BY <2>1, <3>4 DEF Fill
    <3>6. CASE DdrBase + i = core2.pc
      <4>1. i = Spot
        BY <2>2, <3>4, <3>6, BaseIs, Sizes
      <4>2. text'[DdrBase + i] = Clean(Fetched)
        BY <1>0, <3>1, <3>5, <3>6
      <4> QED BY <2>2, <3>3, <4>1, <4>2 DEF Clean
    <3>7. CASE DdrBase + i # core2.pc
      <4>1. text'[DdrBase + i] = text[DdrBase + i]
        BY <1>0, <3>1, <3>5, <3>7
      <4> QED BY <3>3, <4>1
    <3> QED BY <3>6, <3>7
  <2> QED BY <1>1, <2>1, <2>3, <2>4
<1> QED BY <1>3, <1>4, <1>5, <1>6, <1>7 DEF Next

-----------------------------------------------------------------------------
(* Core 2 parked.                                                          *)

LEMMA RunsWhere ==
  ASSUME BoardInv, run
  PROVE  /\ round \in Nat /\ (Started \/ Leftover)
         /\ want = "sum" => prog = "p2test" /\ pc \in TwoSum + 13 .. TwoSum + 17
         /\ want = "local" => prog = "p2btest" /\ pc \in {9, 10}
         /\ want = "ddr" => prog = "p2btest" /\ pc \in {23, 24}
         /\ prog = "p2btest" => pc \in {9, 10, 23, 24}
         /\ prog = "p2test" /\ pc > TwoData => pc \in TwoSum + 13 .. TwoSum + 17 /\ want = "sum"
<1>1. Started \/ Leftover
  BY DEF BoardInv, TwoInv, RunInv
<1>2. round \in Nat /\ pc \in Nat
  BY DEF BoardInv, TypesOK, CoreTypes, Place
<1>3. CASE Started
  BY <1>1, <1>2, <1>3, PlaceNat DEF Started
<1>4. CASE Leftover
  BY <1>1, <1>2, <1>4, PlaceNat DEF Leftover
<1> QED BY <1>1, <1>3, <1>4

\* Where a HALT is in an image.
LEMMA HaltSpot ==
  ASSUME BoardInv, run, parked # "no"
  PROVE  /\ want = "hello" => Spot = Letters + 1
         /\ want = "sum" => Spot = 6
         /\ want \in {"local", "ddr"} => Spot = 3
         /\ want # "spin"
<1>1. want \in Images /\ Spot \in 1 .. Len(Image[want]) /\ Image[want][Spot].do = "halt"
  BY PlacedAt DEF BoardInv, TwoInv, ParkInv
<1>2. Meant(want, Spot, Image[want][Spot])
  BY <1>1, ImageMeans
<1> QED BY <1>1, <1>2 DEF Meant

LEMMA ParkStep == BoardInv /\ Next => ParkInv'
<1> SUFFICES ASSUME BoardInv, Next PROVE ParkInv'
  OBVIOUS
<1>0. /\ parked # "no" => parked = "halt" /\ Image[want][Spot].do = "halt"
      /\ ParkPlace => parked = "halt"
      /\ prog \in Programs /\ pc \in Place(prog) /\ pc \in Nat /\ Now = At(prog, pc)
  BY NowIs DEF BoardInv, TwoInv, ParkInv, TypesOK, CoreTypes, Place
<1>1. CASE LoadProgram
  <2>1. /\ UNCHANGED <<boxVars, twoVars, want>> /\ At(prog, pc).op = "halt" /\ pc' = 1
        /\ run => prog' = "p2test"
    BY <1>0, <1>1, Loads
  <2>2. UNCHANGED <<run, parked, want, core2>> /\ Spot' = Spot
    BY <2>1 DEF boxVars, twoVars, Base, Spot
  <2>3. ParkPlace' => run /\ want = "hello"
    BY <2>1, <2>2, PlaceNat DEF ParkPlace
  <2>4. run /\ want = "hello" => ParkPlace
    <3>1. \/ prog = "p1test" /\ (pc = OnePark + 4 \/ pc = OnePark + 6)
          \/ prog = "p2test" /\ (pc = TwoSum + 23 \/ pc = TwoSum + 25)
          \/ prog = "p2btest" /\ pc = 29
          \/ prog = "spinload" /\ pc = 8
      BY <1>0, <2>1, AtHalt
    <3>2. run => Started \/ Leftover
      BY RunsWhere
    <3> QED BY <3>1, <3>2, PlaceNat DEF Started, Leftover, ParkPlace
  <2> QED BY <1>0, <2>2, <2>3, <2>4 DEF ParkInv
<1>2. CASE SetRun
  <2>1. prog' = prog /\ pc' = pc + 1 /\ parked' = "no"
    BY <1>2, Edges, CoreSteps DEF Starts, Stops
  <2>2. CASE Stops
    <3>1. ~ParkPlace'
      BY <2>1, <2>2, PlaceNat DEF Stops, StopPlace, ParkPlace
    <3> QED BY <2>1, <3>1 DEF ParkInv
  <2>3. CASE ~Stops
    <3>1. PICK at \in {0, DdrBase} : \E wanted \in Images : Starts(at, wanted)
      BY <1>2, <2>3, Edges
    <3>2. PICK wanted \in Images : Starts(at, wanted)
      BY <3>1
    <3>3. ~ParkPlace'
      BY <2>1, <3>2, PlaceNat DEF Starts, StartPlace, ParkPlace, Leftover
    <3> QED BY <2>1, <3>3 DEF ParkInv
  <2> QED BY <2>2, <2>3
<1>3. CASE Core1 /\ ~SetRun
  <2>1. /\ UNCHANGED <<want, run, parked>> /\ Spot' = Spot /\ Base' = Base /\ prog' = prog /\ pc' = pc + 1
        /\ Now.op # "run"
    BY <1>3, Away DEF twoVars
  <2>2. CASE Now.op = "parkWait"
    <3>1. parked # "no"
      BY <1>3, <2>2, CoreOps DEF ParkWait
    <3> QED BY <1>0, <2>1, <3>1 DEF ParkInv
  <2>3. CASE Now.op # "parkWait"
    <3>1. /\ At("p1test", OnePark + 1).op = "parkWait"
          /\ At("p2test", TwoData - 1).op = "parkWait" /\ At("p2test", TwoSum + 16).op = "parkWait"
          /\ At("p2btest", 9).op = "parkWait" /\ At("p2btest", 23).op = "parkWait"
      BY OneLines, TwoLines, TimedLines, CodeIs, Fields DEF At
    <3>2. /\ prog = "p1test" => pc # OnePark + 1
          /\ prog = "p2test" => pc # TwoData - 1 /\ pc # TwoSum + 16
          /\ prog = "p2btest" => pc # 9 /\ pc # 23
      BY <1>0, <2>3, <3>1
    <3>3. ParkPlace' => ParkPlace
      BY <1>0, <2>1, <3>2, PlaceNat DEF ParkPlace, Leftover
    <3> QED BY <1>0, <2>1, <3>3 DEF ParkInv
  <2> QED BY <2>2, <2>3
<1>4. CASE Evict \/ WalkLine
  <2>1. UNCHANGED <<prog, pc, run, want, parked>> /\ Spot' = Spot /\ Base' = Base
    BY <1>4 DEF Evict, WalkLine, coreVars, boxVars, twoVars, Base, Spot
  <2> QED BY <1>0, <2>1 DEF ParkInv, ParkPlace, Leftover
<1>5. CASE Execute
  <2>1. /\ UNCHANGED <<prog, pc, run, want>> /\ Base' = Base /\ parked = "no" /\ run
        /\ Instruction(want, Spot) /\ want \in Images /\ Spot \in 1 .. Len(Image[want])
    BY <1>5, Others, Executes, Fetches
  <2>2. ~ParkPlace'
    BY <1>0, <2>1 DEF ParkPlace, Leftover
  <2>3. CASE Halts(want, Spot)
    <3>1. parked' = "halt" /\ Spot' = Spot
      BY <2>3 DEF Halts
    <3>2. Meant(want, Spot, Image[want][Spot])
      BY <2>1, ImageMeans
    <3>3. Image[want][Spot].do = "halt"
      BY <2>3, <3>2, Sizes DEF Halts, Meant
    <3> QED BY <2>1, <2>2, <3>1, <3>3 DEF ParkInv
  <2>4. CASE ~Halts(want, Spot)
    <3>1. parked' = "no"
      BY <2>1, <2>4 DEF Instruction, HelloEmits, SumSets, SumAdds, SumLoops, SumStores, SumEmits,
                        LoopSets, LoopLoops, Spins
    <3> QED BY <2>2, <3>1 DEF ParkInv
  <2> QED BY <2>3, <2>4
<1> QED BY <1>1, <1>2, <1>3, <1>4, <1>5 DEF Next
-----------------------------------------------------------------------------
(* The timed loops.                                                        *)

\* Core 2 in a loop.
Looping ==
  run /\ want \in {"local", "ddr"} =>
    CASE Spot = 1 -> watch = 0
      [] Spot = 2 -> core2.count \in 1 .. Iters /\ watch = Iters - core2.count
      [] OTHER    -> watch = Iters

\* Core 1 between the clock and what it prints of it.
Timing ==
  prog = "p2btest" => /\ pc \in (6 .. 8) \cup (20 .. 22) => watch = 0
                      /\ pc \in {11, 25} => watch = Iters
                      /\ pc \in {12, 13, 26, 27} => d.arg = Iters

LEMMA WatchIs == /\ WatchInv <=> Looping /\ Timing
                 /\ WatchInv' <=> Looping' /\ Timing'
<1>1. WatchInv <=> Looping /\ Timing
  BY DEF WatchInv, Looping, Timing
<1>2. WatchInv' <=> Looping' /\ Timing'
  BY <1>1, PTL
<1> QED BY <1>1, <1>2

LEMMA LoopingStep ==
  ASSUME BoardInv, Next
  PROVE  Looping'
<1>0. Looping /\ Timing
  BY WatchIs DEF BoardInv, TwoInv
<1>6. Iters \in Nat /\ Iters > 0
  BY Sizes
<1>1. CASE LoadProgram
  <2>1. UNCHANGED <<boxVars, twoVars, want>> /\ pc' = 1
    BY <1>1, Loads
  <2>2. run' => Started' \/ Leftover'
    BY RunStep DEF RunInv
  <2>3. run' => want' \notin {"local", "ddr"}
    BY <2>1, <2>2, PlaceNat DEF Started, Leftover
  <2> QED BY <2>3 DEF Looping
<1>2. CASE SetRun
  <2>1. CASE Stops
    BY <2>1 DEF Stops, Looping
  <2>2. CASE ~Stops
    <3>1. PICK at \in {0, DdrBase} : \E wanted \in Images : Starts(at, wanted)
      BY <1>2, <2>2, Edges
    <3>2. PICK wanted \in Images : Starts(at, wanted)
      BY <3>1
    <3>3. Spot' = 1 /\ want' = wanted /\ watch' = watch
      BY <1>2, <3>2, Edges DEF Starts
    <3>4. wanted \in {"local", "ddr"} => prog = "p2btest" /\ pc \in {8, 22}
      BY <3>2 DEF Starts, StartPlace
    <3> QED BY <1>0, <3>3, <3>4 DEF Looping, Timing
  <2> QED BY <2>1, <2>2
<1>3. CASE Core1 /\ ~SetRun
  <2>1. UNCHANGED <<want, run, core2>> /\ Spot' = Spot
    BY <1>3, Away DEF twoVars
  <2>2. CASE Clock
    <3>1. prog \in Programs /\ pc \in Place(prog) /\ At(prog, pc).op = "clock"
      BY <1>3, <2>2, Away DEF Clock
    <3>2. prog = "p2btest" /\ pc \in {5, 19}
      BY <3>1, AtClock
    <3>3. ~run
      BY <3>2, RunsWhere
    <3> QED BY <2>1, <3>3 DEF Looping
  <2>3. CASE ~Clock
    <3>1. watch' = watch
      BY <1>3, <2>3, CoreFrame
    <3> QED BY <1>0, <2>1, <3>1 DEF Looping
  <2> QED BY <2>2, <2>3
<1>4. CASE Evict \/ WalkLine
  <2>1. UNCHANGED <<want, run, core2, watch>> /\ Spot' = Spot
    BY <1>4 DEF Evict, WalkLine, boxVars, twoVars, Base, Spot
  <2> QED BY <1>0, <2>1 DEF Looping
<1>5. CASE Execute
  <2>1. UNCHANGED <<run, want>> /\ run /\ Instruction(want, Spot)
    BY <1>5, Others, Executes DEF Executing
  <2>2. SUFFICES ASSUME want \in {"local", "ddr"} PROVE Looping'
    BY <2>1 DEF Looping
  <2>3. LoopSets(want, Spot) \/ LoopLoops(want, Spot) \/ Halts(want, Spot)
    BY <2>1, <2>2 DEF Instruction, HelloEmits, SumSets, SumAdds, SumLoops, SumStores, SumEmits, Spins
  <2>4. CASE LoopSets(want, Spot)
    <3>1. Spot = 1 /\ Spot' = 2 /\ core2.count' = Iters /\ watch' = watch
      BY <2>4 DEF LoopSets
    <3>2. watch = 0
      BY <1>0, <2>1, <2>2, <3>1 DEF Looping
    <3> QED BY <1>6, <3>1, <3>2 DEF Looping
  <2>5. CASE LoopLoops(want, Spot)
    <3>1. /\ Spot = 2 /\ Spot' = (IF core2.count > 1 THEN 2 ELSE 3) /\ core2.count' = core2.count - 1
          /\ watch' = (IF watch > 2 * Iters THEN watch ELSE watch + 1)
      BY <2>5 DEF LoopLoops
    <3>2. core2.count \in 1 .. Iters /\ watch = Iters - core2.count
      BY <1>0, <2>1, <2>2, <3>1 DEF Looping
    <3>3. watch' = watch + 1
      BY <1>6, <3>1, <3>2
    <3> QED BY <1>6, <3>1, <3>2, <3>3 DEF Looping
  <2>6. CASE Halts(want, Spot)
    <3>1. Spot = 3 /\ Spot' = 3 /\ watch' = watch
      BY <2>2, <2>6 DEF Halts
    <3>2. watch = Iters
      BY <1>0, <2>1, <2>2, <3>1 DEF Looping
    <3> QED BY <3>1, <3>2 DEF Looping
  <2> QED BY <2>3, <2>4, <2>5, <2>6
<1> QED BY <1>1, <1>2, <1>3, <1>4, <1>5 DEF Next

LEMMA TimingStep ==
  ASSUME BoardInv, Next
  PROVE  Timing'
<1>0. /\ Looping /\ Timing /\ prog \in Programs /\ pc \in Place(prog) /\ pc \in Nat
      /\ Now = At(prog, pc)
  BY WatchIs, NowIs DEF BoardInv, TwoInv, TypesOK, CoreTypes, Place
<1>1. CASE LoadProgram
  BY <1>1, Loads DEF Timing
<1>2. CASE SetRun
  <2>1. prog' = prog /\ pc' = pc + 1 /\ UNCHANGED <<watch, d>>
    BY <1>2, Edges, CoreSteps
  <2>2. SUFFICES ASSUME prog = "p2btest" PROVE Timing'
    BY <2>1 DEF Timing
  <2>3. pc \in {7, 8, 10, 21, 22, 24}
    BY <1>2, <2>2, Edges, PlaceNat DEF Starts, Stops, StartPlace, StopPlace
  <2>4. pc \in {10, 24} => watch = Iters
    <3> SUFFICES ASSUME pc \in {10, 24} PROVE watch = Iters
      OBVIOUS
    <3>1. run /\ parked # "no"
      BY <2>2 DEF RunPlace, ParkPlace, BoardInv, TwoInv, RunInv, ParkInv
    <3>2. want \in {"local", "ddr"}
      BY <2>2, <3>1, RunsWhere, PlaceNat DEF Started, Leftover
    <3>3. Spot = 3
      BY <3>1, <3>2, HaltSpot
    <3> QED BY <1>0, <3>1, <3>2, <3>3 DEF Looping
  <2> QED BY <1>0, <2>1, <2>2, <2>3, <2>4 DEF Timing
<1>3. CASE Core1 /\ ~SetRun
  <2>1. prog' = prog /\ pc' = pc + 1 /\ Now.op # "run"
    BY <1>3, Away
  <2>2. SUFFICES ASSUME prog = "p2btest" PROVE Timing'
    BY <2>1 DEF Timing
  <2>3. /\ pc \notin {10, 24} /\ (pc \in {5, 19} => Now.op = "clock")
        /\ pc \in {11, 25} => Now.op = "elapsed"
        /\ pc \in {12, 26} => Now.op = "puts"
    BY <1>0, <2>1, <2>2, RunAt, TimedLines, CodeIs, Fields DEF At
  <2>4. CASE Clock
    <3>1. watch' = 0 /\ pc \in {5, 19}
      BY <1>0, <2>2, <2>4, AtClock DEF Clock
    <3> QED BY <2>1, <3>1 DEF Timing
  <2>5. CASE Elapsed
    <3>1. d' = Dword("ms", "word", watch) /\ pc \in {11, 25}
      BY <1>0, <2>2, <2>5, AtElapsed DEF Elapsed
    <3>2. d'.arg = Iters /\ pc' \notin 6 .. 8 /\ pc' \notin 20 .. 22 /\ pc' \notin {11, 25}
      BY <1>0, <2>1, <2>2, <3>1 DEF Timing, Dword
    <3> QED BY <2>1, <3>2 DEF Timing
  <2>6. CASE ~Clock /\ ~Elapsed
    <3>1. watch' = watch /\ pc \notin {5, 19, 11, 25}
      BY <1>3, <2>3, <2>6, CoreFrame
         DEF Core1, StoreDword, LoadDword, Maint, MntWait, WinAddr, WinData, StartPc, SetRun,
           LogWait, Pop, PutC, PutS, PutHex, ParkWait, CheckCtrl, CheckSum
    <3>2. pc \in {12, 26} => d' = d
      BY <1>3, <2>3, <2>6, CoreFrame DEF LoadDword, LogWait, ParkWait
    <3> QED BY <1>0, <2>1, <2>2, <2>3, <3>1, <3>2 DEF Timing
  <2> QED BY <2>4, <2>5, <2>6
<1>4. CASE Evict \/ WalkLine
  <2>1. UNCHANGED <<prog, pc, d, watch>>
    BY <1>4 DEF Evict, WalkLine, coreVars
  <2> QED BY <1>0, <2>1 DEF Timing
<1>5. CASE Execute
  <2>1. UNCHANGED <<prog, pc, d>> /\ run
    BY <1>5, Others, Executes DEF Executing
  <2>2. prog = "p2btest" => pc \in {9, 10, 23, 24}
    BY <2>1, RunsWhere
  <2> QED BY <2>1, <2>2 DEF Timing
<1> QED BY <1>1, <1>2, <1>3, <1>4, <1>5 DEF Next

LEMMA WatchStep == BoardInv /\ Next => WatchInv'
BY LoopingStep, TimingStep, WatchIs

-----------------------------------------------------------------------------
(* The sum.                                                                *)

\* After the flush the items are in memory and the sum's line is not dirty.
LEMMA DataThere ==
  ASSUME BoardInv, prog = "p2test", pc > TwoSum + 2
  PROVE  /\ cache[Result].held # "dirty"
         /\ \A i \in 1 .. Items : ddr[DataBase + i].arg = i
<1>0. prog \in Programs /\ pc \in Place(prog) /\ pc \in Nat
  BY DEF BoardInv, TypesOK, CoreTypes, Place
<1>1. TwoSum + 2 \in 1 .. pc - 1 /\ At(prog, TwoSum + 2).op = "mntWait"
  BY <1>0, PlaceNat, TwoLines, CodeIs, Fields DEF At
<1>2. ASSUME NEW j \in TwoSum + 2 .. pc - 1 PROVE At(prog, j).op # "store"
  <2>1. j \in Place(prog) /\ ~(j \in 1 .. Letters + 1) /\ ~(j \in TwoData + 1 .. TwoSum)
    BY <1>0, PlaceNat DEF Place
  <2> QED BY <1>0, <2>1, AtStore
<1>3. cache[Result].held # "dirty"
  BY <1>1, <1>2, AddrIs DEF BoardInv, MemInv, FlushedInv
<1>4. \A i \in 1 .. Items : Data[i] = Dword("data", "word", i)
  BY DataIs
<1>5. ASSUME NEW i \in 1 .. Items PROVE At(prog, TwoData + i) = Store(DataBase + i, Data[i])
  <2>1. TwoData \in Nat /\ TwoData + i \in TwoData + 1 .. TwoSum /\ TwoData + i - TwoData = i
    BY PlaceNat
  <2>2. ASSUME NEW n \in TwoData + 1 .. TwoSum, n - TwoData = i
        PROVE  p2test[n] = Store(DataBase + i, Data[i])
    BY <2>2, TwoLines
  <2>3. p2test[TwoData + i] = Store(DataBase + i, Data[i])
    BY <2>1, <2>2
  <2> QED BY <2>3, CodeIs DEF At
<1>6. \A i \in 1 .. Items : DataBase + i \in Addr
  BY AddrIs
<1>7. DataBase \in Nat /\ Items \in Nat /\ TwoData \in Nat /\ TwoData + Items < TwoSum + 2
  BY PlaceNat, Sizes
<1>8. \A i \in 1 .. Items : Is(ddr[DataBase + i], Data[i]) /\ cache[DataBase + i].held # "dirty"
  <2>1. Stored(Data, DataBase, Items, TwoData, TwoSum + 2)
    BY <1>1, <1>2, <1>5, <1>6, <1>7 DEF Stored
  <2> QED BY <2>1, ReadyDdr
<1>9. ASSUME NEW i \in 1 .. Items PROVE ddr[DataBase + i].arg = i
  <2>1. Data[i].arg = i
    <3>1. Data[i] = Dword("data", "word", i)
      BY <1>4
    <3>2. Dword("data", "word", i).arg = i
      BY Sizes, ADword, InNames, InDoes
    <3> QED BY <3>1, <3>2
  <2>2. ddr[DataBase + i].arg = Data[i].arg
    BY <1>8 DEF Is
  <2> QED BY <2>1, <2>2
<1> QED BY <1>3, <1>9

LEMMA Halves ==
  ASSUME NEW n \in Int, NEW s \in Int, 2 * s = n * (n + 1)
  PROVE  s = (n * (n + 1)) \div 2
<1> DEFINE m == n * (n + 1)
<1>1. m \in Int /\ 2 * s = m
  OBVIOUS
<1> HIDE DEF m
<1>2. s = m \div 2
  BY <1>1
<1> QED BY <1>2 DEF m

\* Core 1 does not write the sum, nor does its cache.
LEMMA ResultStays ==
  ASSUME BoardInv, Core1 \/ Evict \/ WalkLine, prog = "p2test", pc > TwoSum + 2
  PROVE  ddr'[Result] = ddr[Result]
<1>1. CASE Core1
  <2>1. Now.op = "store" => ddr' = ddr
    BY <1>1, CoreMem
  <2>2. Now.op # "store" => ddr' = ddr
    BY <1>1, CoreMem DEF LoadDword
  <2> QED BY <2>1, <2>2
<1>2. CASE Evict \/ WalkLine
  <2>1. cache[Result].held # "dirty" /\ Result \in Addr
    BY DataThere, AddrIs
  <2> QED BY <1>2, <2>1, Keeps DEF View
<1> QED BY <1>1, <1>2

LEMMA SumStep == BoardInv /\ Next => SumInv'
<1> SUFFICES ASSUME BoardInv, Next, run', want' = "sum" PROVE SumInv'
  BY DEF SumInv
<1>0. SumInv /\ round \in Nat /\ prog \in Programs /\ pc \in Nat
  BY DEF BoardInv, TwoInv, TypesOK, CoreTypes, Place
<1>1. ~LoadProgram
  <2>1. CASE LoadProgram
    <3>1. pc' = 1
      BY <2>1, Loads
    <3>2. Started' \/ Leftover'
      BY RunStep DEF RunInv
    <3> QED BY <3>1, <3>2, PlaceNat DEF Started, Leftover
  <2> QED BY <2>1
<1>2. CASE SetRun
  <2>1. PICK at \in {0, DdrBase} : \E wanted \in Images : Starts(at, wanted)
    BY <1>2, Edges DEF Stops
  <2>2. PICK wanted \in Images : Starts(at, wanted)
    BY <2>1
  <2>3. Spot' = 1 /\ core2.count' = 0 /\ core2.sum' = 0
    BY <2>2 DEF Starts
  <2> QED BY <2>3 DEF SumInv
\* The sum so far stays when core 2 does.
<1>3. CASE (Core1 /\ ~SetRun) \/ Evict \/ WalkLine
  <2>1. UNCHANGED <<run, want, core2, round>> /\ Spot' = Spot
    <3>1. CASE Core1 /\ ~SetRun
      BY <3>1, Away DEF twoVars
    <3>2. CASE Evict \/ WalkLine
      BY <3>2 DEF Evict, WalkLine, coreVars, boxVars, twoVars, Base, Spot
    <3> QED BY <1>3, <3>1, <3>2
  <2>2. prog = "p2test" /\ pc > TwoSum + 2
    BY <2>1, RunsWhere, PlaceNat
  <2>3. ddr'[Result] = ddr[Result]
    BY <1>3, <2>2, ResultStays
  <2> QED BY <1>0, <2>1, <2>3 DEF SumInv
<1>4. CASE Execute
  <2>1. /\ UNCHANGED <<run, want, round>> /\ run /\ want = "sum" /\ Instruction(want, Spot)
    BY <1>4, Others, Executes DEF Executing
  <2>2. prog = "p2test" /\ pc > TwoSum + 2
    BY <2>1, RunsWhere, PlaceNat
  <2>3. Items \in Nat /\ Items > 0 /\ DataBase \in Nat
    BY Sizes
  <2>4. \/ SumSets(want, Spot) \/ SumAdds(want, Spot) \/ SumLoops(want, Spot) \/ SumStores(want, Spot)
        \/ SumEmits(want, Spot) \/ Halts(want, Spot)
    BY <2>1 DEF Instruction, HelloEmits, LoopSets, LoopLoops, Spins
  <2>5. CASE SumSets(want, Spot)
    <3>1. Spot = 1 /\ Spot' = 2 /\ core2.count' = Items /\ core2.sum' = core2.sum
      BY <2>5 DEF SumSets
    <3>2. core2.sum = 0
      BY <1>0, <2>1, <3>1 DEF SumInv
    <3>3. Items - core2.count' = 0 /\ core2.count' \in 1 .. Items /\ core2.sum' = 0
      BY <2>3, <3>1, <3>2
    <3> QED BY <3>1, <3>3 DEF SumInv
  <2>6. CASE SumAdds(want, Spot)
    <3> DEFINE k == Items - core2.count
    <3>1. /\ Spot = 2 /\ Spot' = 3 /\ core2.count' = core2.count
          /\ core2.sum' = IF core2.count = 0 THEN 0
                          ELSE core2.sum + ddr[DataBase + Items + 1 - core2.count].arg
      BY <2>6 DEF SumAdds
    <3>2. core2.count \in 1 .. Items /\ core2.sum \in Int /\ 2 * core2.sum = k * (k + 1)
      BY <1>0, <2>1, <3>1 DEF SumInv
    <3>10. core2.count \in 1 .. Items /\ core2.sum \in Int
      BY <3>2
    <3>3. k + 1 \in 1 .. Items /\ DataBase + Items + 1 - core2.count = DataBase + (k + 1) /\ core2.count # 0
      BY <2>3, <3>10
    <3>4. ddr[DataBase + (k + 1)].arg = k + 1
      BY <2>2, <3>3, DataThere
    <3>5. core2.sum' = core2.sum + (k + 1)
      BY <3>1, <3>3, <3>4
    <3>6. k \in Int /\ Items - core2.count' = k
      BY <2>3, <3>1, <3>10
    <3> HIDE DEF k
    <3>7. (k + 1) * (k + 2) = k * (k + 1) + 2 * (k + 1)
      BY <3>6
    <3>9. k * (k + 1) \in Int
      BY <3>6
    <3>8. core2.sum' \in Int /\ 2 * core2.sum' = (k + 1) * (k + 2)
      <4> DEFINE p == k * (k + 1)
                 q == (k + 1) * (k + 2)
      <4>1. p \in Int /\ q = p + 2 * (k + 1) /\ 2 * core2.sum = p
        BY <3>2, <3>7, <3>9
      <4> HIDE DEF p, q
      <4>2. core2.sum' \in Int /\ 2 * core2.sum' = q
        BY <3>5, <3>6, <3>10, <4>1
      <4> QED BY <4>2 DEF q
    <3> QED BY <3>1, <3>2, <3>6, <3>8 DEF SumInv
  <2>7. CASE SumLoops(want, Spot)
    <3> DEFINE k == Items - core2.count
    <3>1. /\ Spot = 3 /\ Spot' = (IF core2.count > 1 THEN 2 ELSE 4)
          /\ core2.count' = core2.count - 1 /\ core2.sum' = core2.sum
      BY <2>7 DEF SumLoops
    <3>2. core2.count \in 1 .. Items /\ core2.sum \in Int /\ 2 * core2.sum = (k + 1) * (k + 2)
      BY <1>0, <2>1, <3>1 DEF SumInv
    <3>6. core2.count \in 1 .. Items
      BY <3>2
    <3>3. Items - core2.count' = k + 1 /\ k + 1 + 1 = k + 2
      BY <2>3, <3>1, <3>6
    <3>4. CASE core2.count > 1
      <4>1. Spot' = 2 /\ core2.count' \in 1 .. Items
        BY <2>3, <3>1, <3>4, <3>6
      <4>2. 2 * core2.sum' = (Items - core2.count') * (Items - core2.count' + 1)
        BY <3>1, <3>2, <3>3
      <4> QED BY <3>1, <3>2, <4>1, <4>2 DEF SumInv
    <3>5. CASE core2.count = 1
      <4>1. Spot' = 4 /\ k + 1 = Items /\ k + 2 = Items + 1
        BY <2>3, <3>1, <3>5
      <4>2. 2 * core2.sum' = Items * (Items + 1)
        BY <3>1, <3>2, <4>1
      <4>3. core2.sum' = Total
        BY <2>3, <3>1, <3>2, <4>2, Halves DEF Total
      <4> QED BY <4>1, <4>3 DEF SumInv
    <3> QED BY <2>3, <3>4, <3>5, <3>6
  <2>8. CASE SumStores(want, Spot)
    <3>1. /\ Spot = 4 /\ Spot' = 5
          /\ ddr' = [ddr EXCEPT ![Result] = Mine(Dword("sum", "word", core2.sum))]
      BY <2>8 DEF SumStores
    <3>2. core2.sum = Total
      BY <1>0, <2>1, <3>1 DEF SumInv
    <3>3. ddr \in [Addr -> Dwords] /\ Result \in Addr
      BY AddrIs DEF BoardInv, TypesOK, MemTypes
    <3>4. Dword("sum", "word", Total) \in Dwords /\ Dword("sum", "word", Total).arg = Total
      BY TotalInt, ADword, InNames, InDoes
    <3>5. ddr'[Result] = Mine(Dword("sum", "word", Total))
      BY <3>1, <3>2, <3>3
    <3>6. ddr'[Result].arg = Total /\ ddr'[Result].by = round
      BY <1>0, <3>4, <3>5, MineIs DEF Is
    <3> QED BY <2>1, <3>1, <3>6 DEF SumInv
  <2>9. CASE SumEmits(want, Spot) \/ Halts(want, Spot)
    <3>1. Spot \in {5, 6} /\ Spot' = 6 /\ ddr' = ddr
      BY <2>1, <2>9 DEF SumEmits, Halts
    <3>2. ddr[Result].arg = Total /\ ddr[Result].by = round
      BY <1>0, <2>1, <3>1 DEF SumInv
    <3> QED BY <2>1, <3>1, <3>2 DEF SumInv
  <2> QED BY <2>4, <2>5, <2>6, <2>7, <2>8, <2>9
<1>5. SetRun => Core1
  BY DEF Core1
<1> QED BY <1>1, <1>2, <1>3, <1>4, <1>5 DEF Next

LEMMA ResultStep == BoardInv /\ Next => ResultInv'
<1> SUFFICES ASSUME BoardInv, Next, prog' = "p2test" PROVE ResultInv'
  BY DEF ResultInv
<1>0. /\ round \in Nat /\ prog \in Programs /\ pc \in Place(prog) /\ pc \in Nat /\ Now = At(prog, pc)
      /\ prog = "p2test" =>
           /\ pc \in TwoSum + 18 .. TwoSum + 20 => ddr[Result].arg = Total /\ ddr[Result].by = round
           /\ pc = TwoSum + 21 => d.arg = Total /\ d.by = round
  BY NowIs DEF BoardInv, TwoInv, ResultInv, TypesOK, CoreTypes, Place
<1>1. CASE LoadProgram
  BY <1>1, Loads, PlaceNat DEF ResultInv
<1>2. CASE SetRun
  <2>1. prog' = prog /\ pc' = pc + 1 /\ round' = round /\ ddr' = ddr
    BY <1>2, Edges, CoreSteps DEF memVars
  <2>2. pc \in {Letters + 5, TwoFwd, TwoData, TwoSum + 11, TwoSum + 12, TwoSum + 17}
    BY <1>2, <2>1, Edges DEF Starts, Stops, StartPlace, StopPlace
  <2>3. CASE pc = TwoSum + 17
    <3>1. run /\ parked # "no"
      BY <2>1, <2>3, PlaceNat DEF RunPlace, ParkPlace, BoardInv, TwoInv, RunInv, ParkInv
    <3>2. want = "sum"
      BY <2>1, <2>3, <3>1, RunsWhere, PlaceNat
    <3>3. Spot = 6
      BY <3>1, <3>2, HaltSpot
    <3>4. ddr[Result].arg = Total /\ ddr[Result].by = round
      BY <3>1, <3>2, <3>3 DEF BoardInv, TwoInv, SumInv
    <3> QED BY <2>1, <2>3, <3>4, PlaceNat DEF ResultInv
  <2>4. CASE pc # TwoSum + 17
    BY <2>1, <2>2, <2>4, PlaceNat DEF ResultInv
  <2> QED BY <2>3, <2>4
<1>3. CASE Core1 /\ ~SetRun
  <2>1. prog' = prog /\ pc' = pc + 1 /\ round' = round /\ Now.op # "run" /\ prog = "p2test"
    BY <1>3, Away
  <2>2. pc # TwoSum + 17
    BY <1>0, <2>1, RunAt
  <2>3. pc > TwoSum + 2 => ddr'[Result] = ddr[Result]
    BY <1>3, <2>1, ResultStays
  <2>4. pc = TwoSum + 20 => d' = ddr[Result]
    <3> SUFFICES ASSUME pc = TwoSum + 20 PROVE d' = ddr[Result]
      OBVIOUS
    <3>1. Now.op = "load" /\ Now.at = Result
      BY <1>0, <2>1, TwoLines, CodeIs, Fields DEF At
    <3>2. cache[Result].held = "no"
      BY <3>1 DEF BoardInv, MemInv, LoadInv
    <3>3. LoadDword
      BY <1>3, <3>1, CoreOps
    <3> QED BY <3>1, <3>2, <3>3 DEF LoadDword, Clean
  <2> QED BY <1>0, <2>1, <2>2, <2>3, <2>4, PlaceNat DEF ResultInv
<1>4. CASE Evict \/ WalkLine
  <2>1. UNCHANGED <<prog, pc, d, round>>
    BY <1>4 DEF Evict, WalkLine, coreVars
  <2>2. pc > TwoSum + 2 => ddr'[Result] = ddr[Result]
    BY <1>4, <2>1, ResultStays
  <2> QED BY <1>0, <2>1, <2>2, PlaceNat DEF ResultInv
<1>5. CASE Execute
  <2>1. UNCHANGED <<prog, pc, d, round>> /\ run
    BY <1>5, Others, Executes DEF Executing
  <2>2. pc > TwoData => pc \in TwoSum + 13 .. TwoSum + 17
    BY <2>1, RunsWhere
  <2> QED BY <1>0, <2>1, <2>2, PlaceNat DEF ResultInv
<1> QED BY <1>1, <1>2, <1>3, <1>4, <1>5 DEF Next

-----------------------------------------------------------------------------
(* What is said.                                                           *)

LEMMA Thirds ==
  ASSUME NEW m \in Nat
  PROVE  /\ m \div 3 \in Nat /\ m % 3 \in 0 .. 2
         /\ (m + 1) \div 3 = m \div 3 + IF m % 3 = 2 THEN 1 ELSE 0
         /\ (m + 2) \div 3 = (m + 1) \div 3 + IF m % 3 = 1 THEN 1 ELSE 0
<1>1. m \div 3 \in Nat /\ m % 3 \in 0 .. 2
  OBVIOUS
<1>2. CASE m % 3 = 0
  <2>1. (m + 1) \div 3 = m \div 3
    BY <1>2
  <2>2. (m + 2) \div 3 = m \div 3
    BY <1>2
  <2> QED BY <1>1, <1>2, <2>1, <2>2
<1>3. CASE m % 3 = 1
  <2>1. (m + 1) \div 3 = m \div 3
    BY <1>3
  <2>2. (m + 2) \div 3 = m \div 3 + 1
    BY <1>3
  <2> QED BY <1>1, <1>3, <2>1, <2>2
<1>4. CASE m % 3 = 2
  <2>1. (m + 1) \div 3 = m \div 3 + 1
    BY <1>4
  <2>2. (m + 2) \div 3 = m \div 3 + 1
    BY <1>4
  <2> QED BY <1>1, <1>4, <2>1, <2>2
<1> QED BY <1>1, <1>2, <1>3, <1>4

LEMMA ThirdOf == \A m \in Nat : (3 * m) \div 3 = m /\ (3 * m + 1) \div 3 = m
OBVIOUS

\* Program by program.
LEMMA PoppedIs ==
  ASSUME NEW n \in Nat, NEW i
  PROVE  /\ PoppedAt("p1test", n, i) = IF n <= OnePark + 1 THEN (n - OneFwd - 1) \div 3 ELSE Letters
         /\ PoppedAt("p2test", n, i) = IF n < TwoFwd THEN IF i = "hello" THEN Letters ELSE 0
                                       ELSE IF n < TwoData THEN (n - TwoFwd - 1) \div 3
                                       ELSE IF n = TwoData THEN Letters
                                       ELSE IF n > TwoSum + 15 THEN 1 ELSE 0
         /\ PoppedAt("p2btest", n, i) = 0 /\ PoppedAt("spinload", n, i) = 0
<1>1. PoppedAt("p1test", n, i) = IF n <= OnePark + 1 THEN (n - OneFwd - 1) \div 3 ELSE Letters
  BY Zenon DEF PoppedAt
<1>2. PoppedAt("p2test", n, i) = IF n < TwoFwd THEN IF i = "hello" THEN Letters ELSE 0
                                 ELSE IF n < TwoData THEN (n - TwoFwd - 1) \div 3
                                 ELSE IF n = TwoData THEN Letters
                                 ELSE IF n > TwoSum + 15 THEN 1 ELSE 0
  BY Zenon DEF PoppedAt
<1>3. PoppedAt("p2btest", n, i) = 0 /\ PoppedAt("spinload", n, i) = 0
  BY Zenon DEF PoppedAt
<1> QED BY <1>1, <1>2, <1>3

LEMMA SendsIs ==
  ASSUME NEW n \in Nat
  PROVE  /\ Sends("p1test", n) = IF n <= OneFwd THEN 0 ELSE IF n <= OnePark + 1 THEN (n - OneFwd) \div 3
                                 ELSE IF n <= OnePark + 3 THEN Letters ELSE Letters + 1
         /\ Sends("p2test", n) = IF n <= TwoFwd THEN 0 ELSE IF n < TwoData THEN (n - TwoFwd) \div 3
                                 ELSE IF n <= TwoSum + 14 THEN Letters
                                 ELSE IF n <= TwoSum + 22 THEN Letters + 1 ELSE Letters + 2
         /\ Sends("p2btest", n) = IF n <= 12 THEN 0 ELSE IF n = 13 THEN 1 ELSE IF n <= 26 THEN 2
                                  ELSE n - 24
         /\ Sends("spinload", n) = IF n = 8 THEN 1 ELSE 0
<1>1. Sends("p1test", n) = IF n <= OneFwd THEN 0 ELSE IF n <= OnePark + 1 THEN (n - OneFwd) \div 3
                           ELSE IF n <= OnePark + 3 THEN Letters ELSE Letters + 1
  BY Zenon DEF Sends
<1>2. Sends("p2test", n) = IF n <= TwoFwd THEN 0 ELSE IF n < TwoData THEN (n - TwoFwd) \div 3
                           ELSE IF n <= TwoSum + 14 THEN Letters
                           ELSE IF n <= TwoSum + 22 THEN Letters + 1 ELSE Letters + 2
  BY Zenon DEF Sends
<1>3. Sends("p2btest", n) = IF n <= 12 THEN 0 ELSE IF n = 13 THEN 1 ELSE IF n <= 26 THEN 2
                            ELSE n - 24
  BY Zenon DEF Sends
<1>4. Sends("spinload", n) = IF n = 8 THEN 1 ELSE 0
  BY Zenon DEF Sends
<1> QED BY <1>1, <1>2, <1>3, <1>4

\* By the number of accesses forwarded.
LEMMA Forwarded ==
  ASSUME NEW n \in Nat, NEW m \in Nat, NEW i
  PROVE  /\ n - OneFwd = m /\ m > 0 /\ n <= OnePark + 1 => Sends("p1test", n) = m \div 3
         /\ n - TwoFwd = m /\ m > 0 /\ n < TwoData => Sends("p2test", n) = m \div 3
         /\ n - OneFwd - 1 = m /\ n <= OnePark + 1 => PoppedAt("p1test", n, i) = m \div 3
         /\ n - TwoFwd - 1 = m /\ n < TwoData => PoppedAt("p2test", n, i) = m \div 3
<1>1. ASSUME n - OneFwd = m, m > 0, n <= OnePark + 1 PROVE Sends("p1test", n) = m \div 3
  <2>1. ~(n <= OneFwd)
    BY <1>1, PlaceNat
  <2> QED BY Zenon, <1>1, <2>1, SendsIs
<1>2. ASSUME n - TwoFwd = m, m > 0, n < TwoData PROVE Sends("p2test", n) = m \div 3
  <2>1. ~(n <= TwoFwd)
    BY <1>2, PlaceNat
  <2> QED BY Zenon, <1>2, <2>1, SendsIs
<1>3. ASSUME n - OneFwd - 1 = m, n <= OnePark + 1 PROVE PoppedAt("p1test", n, i) = m \div 3
  BY Zenon, <1>3, PoppedIs
<1>4. ASSUME n - TwoFwd - 1 = m, n < TwoData PROVE PoppedAt("p2test", n, i) = m \div 3
  <2>1. ~(n < TwoFwd)
    BY <1>4, PlaceNat
  <2> QED BY Zenon, <1>4, <2>1, PoppedIs
<1> QED BY <1>1, <1>2, <1>3, <1>4

\* The forwarding loops, by place.
LEMMA Forwards ==
  /\ \A n \in OneFwd + 1 .. OnePark : At("p1test", n).op = FwdOp(n - OneFwd - 1)
  /\ \A n \in TwoFwd + 1 .. TwoData - 2 : At("p2test", n).op = FwdOp(n - TwoFwd - 1)
BY OneLines, TwoLines, CodeIs, Fields DEF At

\* Each pop adds one to the bytes popped.
LEMMA Pops ==
  ASSUME NEW p \in Programs, NEW n \in Place(p), NEW i, At(p, n).op \notin {"run", "halt"},
         p = "p1test" => n > OneFwd
  PROVE  PoppedAt(p, n + 1, i) = PoppedAt(p, n, i) + IF At(p, n).op = "pop" THEN 1 ELSE 0
<1> DEFINE more == IF At(p, n).op = "pop" THEN 1 ELSE 0
<1>0. n \in Nat
  BY DEF Place
<1>00. PICK k \in Nat : k = n + 1
  BY <1>0
<1>01. k \in Nat
  BY <1>00
<1> SUFFICES PoppedAt(p, k, i) = PoppedAt(p, n, i) + more
  BY Zenon, <1>00
<1>1. CASE p = "p1test"
  <2>1. CASE n <= OnePark
    <3>1. n \in OneFwd + 1 .. OnePark
      BY <1>0, <1>00, <1>1, <2>1, PlaceNat
    <3>2. PICK m \in Nat : m = n - OneFwd - 1
      BY <3>1, PlaceNat
    <3>3. At(p, n).op = FwdOp(m)
      BY <1>1, <3>1, <3>2, Forwards
    <3>4. PoppedAt(p, n, i) = m \div 3 /\ PoppedAt(p, k, i) = (m + 1) \div 3
      <4>1. n <= OnePark + 1 /\ k <= OnePark + 1 /\ k - OneFwd - 1 = m + 1
        BY <1>0, <1>00, <2>1, <3>2, PlaceNat
      <4>2. PoppedAt(p, n, i) = m \div 3
        BY <1>0, <1>1, <3>2, <4>1, Forwarded
      <4>3. PoppedAt(p, k, i) = (m + 1) \div 3
        BY <1>1, <3>2, <4>1, <1>01, Forwarded
      <4> QED BY <4>2, <4>3
    <3>5. At(p, n).op = "pop" <=> m % 3 = 2
      BY <3>2, <3>3, Thirds DEF FwdOp
    <3> QED BY <3>4, <3>5, Thirds
  <2>2. CASE n = OnePark + 1
    <3>1. n - OneFwd - 1 = 3 * Letters /\ n <= OnePark + 1 /\ ~(k <= OnePark + 1) /\ Letters \in Nat
      BY <1>00, <2>2, PlaceNat
    <3>2. PoppedAt(p, n, i) = Letters /\ PoppedAt(p, k, i) = Letters
      <4>1. PoppedAt(p, n, i) = (3 * Letters) \div 3
        BY Zenon, <1>0, <1>1, <3>1, PoppedIs
      <4>2. PoppedAt(p, k, i) = Letters
        BY Zenon, <1>01, <1>1, <3>1, PoppedIs
      <4> QED BY Zenon, <3>1, <4>1, <4>2, ThirdOf
    <3>3. At(p, n).op = "parkWait"
      BY <1>1, <2>2, OneLines, CodeIs, Fields DEF At
    <3> QED BY <3>1, <3>2, <3>3
  <2>3. CASE n > OnePark + 1
    <3>1. PoppedAt(p, n, i) = Letters /\ PoppedAt(p, k, i) = Letters /\ Letters \in Nat
      BY <1>0, <1>00, <1>1, <2>3, PoppedIs, PlaceNat
    <3>2. At(p, n).op # "pop"
      BY <1>0, <1>00, <1>1, <2>3, AtPop, PlaceNat
    <3> QED BY <3>1, <3>2
  <2> QED BY <1>0, <1>00, <2>1, <2>2, <2>3, PlaceNat
<1>2. CASE p = "p2test"
  <2>0. n \notin {Letters + 5, TwoFwd, TwoData, TwoSum + 11, TwoSum + 12, TwoSum + 17}
    BY <1>2, RunAt
  <2>1. CASE n \in TwoFwd + 1 .. TwoData - 2
    <3>2. PICK m \in Nat : m = n - TwoFwd - 1
      BY <1>00, <2>1, PlaceNat
    <3>3. At(p, n).op = FwdOp(m)
      BY <1>2, <2>1, <3>2, Forwards
    <3>4. PoppedAt(p, n, i) = m \div 3 /\ PoppedAt(p, k, i) = (m + 1) \div 3
      <4>1. /\ ~(n < TwoFwd) /\ n < TwoData /\ ~(k < TwoFwd) /\ k < TwoData
            /\ k - TwoFwd - 1 = m + 1
        BY <1>0, <1>00, <2>1, <3>2, PlaceNat
      <4>2. PoppedAt(p, n, i) = m \div 3
        BY <1>0, <1>2, <3>2, <4>1, Forwarded
      <4>3. PoppedAt(p, k, i) = (m + 1) \div 3
        BY <1>2, <3>2, <4>1, <1>01, Forwarded
      <4> QED BY <4>2, <4>3
    <3>5. At(p, n).op = "pop" <=> m % 3 = 2
      BY <3>2, <3>3, Thirds DEF FwdOp
    <3> QED BY <3>4, <3>5, Thirds
  <2>2. CASE n = TwoData - 1
    <3>1. /\ n - TwoFwd - 1 = 3 * Letters /\ Letters \in Nat /\ k = TwoData
          /\ ~(n < TwoFwd) /\ n < TwoData /\ ~(k < TwoFwd) /\ ~(k < TwoData)
      BY <1>00, <2>2, PlaceNat
    <3>2. PoppedAt(p, n, i) = Letters /\ PoppedAt(p, k, i) = Letters
      <4>1. PoppedAt(p, n, i) = (3 * Letters) \div 3
        BY Zenon, <1>0, <1>2, <3>1, PoppedIs
      <4>2. PoppedAt(p, k, i) = Letters
        BY Zenon, <1>01, <1>2, <3>1, PoppedIs
      <4> QED BY Zenon, <3>1, <4>1, <4>2, ThirdOf
    <3>3. At(p, n).op = "parkWait"
      BY <1>2, <2>2, TwoLines, CodeIs, Fields DEF At
    <3> QED BY <3>1, <3>2, <3>3
  <2>3. CASE n < TwoFwd
    <3>1. k < TwoFwd
      BY <1>0, <1>00, <2>0, <2>3, PlaceNat
    <3>2. PoppedAt(p, k, i) = PoppedAt(p, n, i) /\ PoppedAt(p, n, i) \in Nat
      BY <1>0, <1>00, <1>2, <2>3, <3>1, PoppedIs, PlaceNat
    <3>3. At(p, n).op # "pop"
      BY <1>0, <1>00, <1>2, <2>3, AtPop, PlaceNat
    <3> QED BY <3>2, <3>3
  <2>4. CASE n > TwoData
    <3>1. At(p, n).op = "pop" <=> n = TwoSum + 15
      <4>1. At("p2test", TwoSum + 15).op = "pop"
        <5>1. TwoSum \in Nat /\ TwoSum + 15 \in TwoSum + 13 .. TwoSum + 15
          BY PlaceNat
        <5>2. ASSUME NEW j \in TwoSum + 13 .. TwoSum + 15, j - TwoSum - 13 = 2 PROVE p2test[j].op = "pop"
          BY <5>2, TwoLines, Fields DEF FwdOp
        <5> QED BY <5>1, <5>2, CodeIs DEF At
      <4> QED BY <1>0, <1>00, <1>2, <2>4, <4>1, AtPop, PlaceNat
    <3>2. /\ PoppedAt(p, n, i) = IF n > TwoSum + 15 THEN 1 ELSE 0
          /\ PoppedAt(p, k, i) = IF k > TwoSum + 15 THEN 1 ELSE 0
      BY <1>0, <1>00, <1>2, <2>4, PoppedIs, PlaceNat
    <3> QED BY <1>0, <1>00, <3>1, <3>2, PlaceNat
  <2> QED BY <1>0, <1>00, <2>0, <2>1, <2>2, <2>3, <2>4, PlaceNat
<1>3. CASE p \in {"p2btest", "spinload"}
  <2>1. PoppedAt(p, n, i) = 0 /\ PoppedAt(p, k, i) = 0
    BY <1>0, <1>00, <1>3, PoppedIs
  <2>2. At(p, n).op # "pop"
    BY <1>3, AtPop
  <2> QED BY <2>1, <2>2
<1> QED BY <1>1, <1>2, <1>3 DEF Programs

Says == {"putc", "puts", "print_hex64"}

\* Each access that prints adds one to what is printed.
LEMMA SendsNext ==
  ASSUME NEW p \in Programs, NEW n \in Place(p), At(p, n).op # "halt", Proper(p, n)
  PROVE  Sends(p, n + 1) = Sends(p, n) + IF At(p, n).op \in Says THEN 1 ELSE 0
<1>0. n \in Nat
  BY DEF Place
<1>00. PICK k \in Nat : k = n + 1
  BY <1>0
<1>01. k \in Nat
  BY <1>00
<1> DEFINE more == IF At(p, n).op \in Says THEN 1 ELSE 0
<1> SUFFICES Sends(p, k) = Sends(p, n) + more
  BY Zenon, <1>00
<1>1. At(p, n).op = OpAt(p, n)
  BY OpIs
<1>2. CASE p = "p1test"
  <2>0. n <= OnePark + 3
    <3>1. At("p1test", OnePark + 4).op = "halt" /\ n <= OnePark + 4
      BY <1>2, OneLines, CodeIs, Fields DEF At, Proper
    <3> QED BY <1>0, <1>00, <1>2, <3>1, PlaceNat
  <2>1. CASE n <= OneFwd
    <3>1. At(p, n).op \notin Says
      BY <1>0, <1>00, <1>1, <1>2, <2>1, PlaceNat DEF OpAt, OneOp, Says
    <3>2. Sends(p, n) = 0 /\ Sends(p, k) = 0
      <4>1. CASE n = OneFwd
        <5>1. ~(k <= OneFwd) /\ k <= OnePark + 1 /\ k - OneFwd = 1 /\ n <= OneFwd
          BY <1>00, <4>1, PlaceNat
        <5>2. Sends(p, n) = 0
          BY Zenon, <1>0, <1>2, <5>1, SendsIs
        <5>3. Sends(p, k) = 1 \div 3
          BY <1>2, <5>1, <1>01, Forwarded
        <5> QED BY <5>2, <5>3
      <4>2. CASE n < OneFwd
        <5>1. k <= OneFwd
          BY <1>0, <1>00, <4>2, PlaceNat
        <5> QED BY <1>0, <1>00, <1>2, <2>1, <5>1, SendsIs, PlaceNat
      <4> QED BY <1>0, <1>00, <2>1, <4>1, <4>2, PlaceNat
    <3> QED BY <3>1, <3>2
  <2>2. CASE n \in OneFwd + 1 .. OnePark
    <3>2. PICK m \in Nat : m = n - OneFwd - 1
      BY <1>00, <2>2, PlaceNat
    <3>3. At(p, n).op = FwdOp(m)
      BY <1>2, <2>2, <3>2, Forwards
    <3>4. Sends(p, n) = (m + 1) \div 3 /\ Sends(p, k) = (m + 2) \div 3
      <4>1. /\ ~(n <= OneFwd) /\ n <= OnePark + 1 /\ n - OneFwd = m + 1
            /\ ~(k <= OneFwd) /\ k <= OnePark + 1 /\ k - OneFwd = m + 2
        BY <1>0, <1>00, <2>2, <3>2, PlaceNat
      <4>2. Sends(p, n) = (m + 1) \div 3
        BY <1>0, <1>2, <3>2, <4>1, Forwarded
      <4>3. Sends(p, k) = (m + 2) \div 3
        BY <1>2, <3>2, <4>1, <1>01, Forwarded
      <4> QED BY <4>2, <4>3
    <3>5. At(p, n).op \in Says <=> m % 3 = 1
      BY <3>2, <3>3, Thirds DEF FwdOp, Says
    <3> QED BY <3>4, <3>5, Thirds
  <2>3. CASE n > OnePark
    <3>1. At(p, n).op \in Says <=> n = OnePark + 3
      BY <1>0, <1>00, <1>1, <1>2, <2>0, <2>3, PlaceNat DEF OpAt, OneOp, Says
    <3>2. CASE n = OnePark + 1
      <4>1. /\ ~(n <= OneFwd) /\ n <= OnePark + 1 /\ n - OneFwd = 3 * Letters + 1 /\ Letters \in Nat
            /\ ~(k <= OneFwd) /\ ~(k <= OnePark + 1) /\ k <= OnePark + 3 /\ n # OnePark + 3
        BY <1>00, <3>2, PlaceNat
      <4>2. Sends(p, n) = Letters /\ Sends(p, k) = Letters
        <5>1. Sends(p, n) = (3 * Letters + 1) \div 3
          BY Zenon, <1>0, <1>2, <4>1, SendsIs
        <5>2. Sends(p, k) = Letters
          BY Zenon, <1>01, <1>2, <4>1, SendsIs
        <5> QED BY Zenon, <4>1, <5>1, <5>2, ThirdOf
      <4> QED BY <3>1, <4>1, <4>2
    <3>3. CASE n > OnePark + 1
      <4>1. Sends(p, n) = Letters /\ Sends(p, k) = IF n = OnePark + 3 THEN Letters + 1 ELSE Letters
        BY <1>0, <1>00, <1>2, <2>0, <3>3, SendsIs, PlaceNat
      <4> QED BY <3>1, <4>1, Sizes
    <3> QED BY <1>0, <1>00, <2>3, <3>2, <3>3, PlaceNat
  <2> QED BY <1>0, <1>00, <2>0, <2>1, <2>2, <2>3, PlaceNat
<1>3. CASE p = "p2test"
  <2>0. n <= TwoSum + 22
    <3>1. At("p2test", TwoSum + 23).op = "halt" /\ n <= TwoSum + 23
      BY <1>3, TwoLines, CodeIs, Fields DEF At, Proper
    <3> QED BY <1>0, <1>00, <1>3, <3>1, PlaceNat
  <2>1. CASE n <= TwoFwd
    <3>1. At(p, n).op \notin Says
      BY <1>0, <1>00, <1>1, <1>3, <2>1, PlaceNat DEF OpAt, TwoOp, Says
    <3>2. Sends(p, n) = 0 /\ Sends(p, k) = 0
      <4>1. CASE n = TwoFwd
        <5>1. ~(k <= TwoFwd) /\ k < TwoData /\ k - TwoFwd = 1 /\ n <= TwoFwd
          BY <1>00, <4>1, PlaceNat
        <5>2. Sends(p, n) = 0
          BY Zenon, <1>0, <1>3, <5>1, SendsIs
        <5>3. Sends(p, k) = 1 \div 3
          BY <1>3, <5>1, <1>01, Forwarded
        <5> QED BY <5>2, <5>3
      <4>2. CASE n < TwoFwd
        <5>1. k <= TwoFwd
          BY <1>0, <1>00, <4>2, PlaceNat
        <5> QED BY <1>0, <1>00, <1>3, <2>1, <5>1, SendsIs, PlaceNat
      <4> QED BY <1>0, <1>00, <2>1, <4>1, <4>2, PlaceNat
    <3> QED BY <3>1, <3>2
  <2>2. CASE n \in TwoFwd + 1 .. TwoData - 2
    <3>2. PICK m \in Nat : m = n - TwoFwd - 1
      BY <1>00, <2>2, PlaceNat
    <3>3. At(p, n).op = FwdOp(m)
      BY <1>3, <2>2, <3>2, Forwards
    <3>4. Sends(p, n) = (m + 1) \div 3 /\ Sends(p, k) = (m + 2) \div 3
      <4>1. /\ ~(n <= TwoFwd) /\ n < TwoData /\ n - TwoFwd = m + 1
            /\ ~(k <= TwoFwd) /\ k < TwoData /\ k - TwoFwd = m + 2
        BY <1>0, <1>00, <2>2, <3>2, PlaceNat
      <4>2. Sends(p, n) = (m + 1) \div 3
        BY <1>0, <1>3, <3>2, <4>1, Forwarded
      <4>3. Sends(p, k) = (m + 2) \div 3
        BY <1>3, <3>2, <4>1, <1>01, Forwarded
      <4> QED BY <4>2, <4>3
    <3>5. At(p, n).op \in Says <=> m % 3 = 1
      BY <3>2, <3>3, Thirds DEF FwdOp, Says
    <3> QED BY <3>4, <3>5, Thirds
  <2>3. CASE n = TwoData - 1
    <3>1. At(p, n).op \notin Says
      BY <1>3, <2>3, TwoLines, CodeIs, Fields DEF At, Says
    <3>2. /\ ~(n <= TwoFwd) /\ n < TwoData /\ n - TwoFwd = 3 * Letters + 1 /\ Letters \in Nat
          /\ ~(k <= TwoFwd) /\ ~(k < TwoData) /\ k <= TwoSum + 14
      BY <1>00, <2>3, PlaceNat
    <3>3. Sends(p, n) = Letters /\ Sends(p, k) = Letters
      <4>1. Sends(p, n) = (3 * Letters + 1) \div 3
        BY Zenon, <1>0, <1>3, <3>2, SendsIs
      <4>2. Sends(p, k) = Letters
        BY Zenon, <1>01, <1>3, <3>2, SendsIs
      <4> QED BY Zenon, <3>2, <4>1, <4>2, ThirdOf
    <3> QED BY <3>1, <3>2, <3>3
  <2>4. CASE n >= TwoData
    <3>1. At(p, n).op \in Says <=> n = TwoSum + 14 \/ n = TwoSum + 22
      <4>1. CASE n <= TwoSum + 12
        BY <1>0, <1>00, <1>1, <1>3, <2>4, <4>1, PlaceNat DEF OpAt, TwoOp, Says
      <4>2. CASE n \in TwoSum + 13 .. TwoSum + 15
        <5>1. At(p, n).op = FwdOp(n - TwoSum - 13)
          BY <1>3, <4>2, TwoLines, CodeIs, Fields DEF At
        <5>2. n - TwoSum - 13 \in 0 .. 2 /\ (n - TwoSum - 13 = 1 <=> n = TwoSum + 14)
          BY <4>2, PlaceNat
        <5>3. \A j \in 0 .. 2 : FwdOp(j) \in Says <=> j = 1
          BY DEF FwdOp, Says
        <5> QED BY <4>2, <5>1, <5>2, <5>3, PlaceNat
      <4>3. CASE n > TwoSum + 15
        BY <1>0, <1>00, <1>1, <1>3, <2>0, <4>3, PlaceNat DEF OpAt, TwoOp, Says
      <4> QED BY <1>0, <1>00, <4>1, <4>2, <4>3, PlaceNat
    <3>2. /\ Sends(p, n) = Letters + IF n <= TwoSum + 14 THEN 0 ELSE 1
          /\ Sends(p, k) = Letters + IF k <= TwoSum + 14 THEN 0 ELSE IF k <= TwoSum + 22 THEN 1 ELSE 2
      BY <1>0, <1>00, <1>3, <2>0, <2>4, SendsIs, PlaceNat
    <3> QED BY <1>0, <1>00, <2>0, <3>1, <3>2, PlaceNat
  <2> QED BY <1>0, <1>00, <2>1, <2>2, <2>3, <2>4, PlaceNat
<1>4. CASE p = "p2btest"
  <2>0. n \in 1 .. 28
    <3>1. n # 29
      BY <1>1, <1>4 DEF OpAt, TimedOp
    <3> QED BY <1>4, <3>1, PlaceIs
  <2>1. At(p, n).op \in Says <=> n \in {12, 13, 26, 27, 28}
    <3>1. CASE n <= 13
      BY <1>1, <1>4, <2>0, <3>1 DEF OpAt, TimedOp, Says
    <3>2. CASE n > 13
      BY <1>1, <1>4, <2>0, <3>2 DEF OpAt, TimedOp, Says
    <3> QED BY <2>0, <3>1, <3>2
  <2>2. /\ Sends(p, n) = IF n <= 12 THEN 0 ELSE IF n = 13 THEN 1 ELSE IF n <= 26 THEN 2 ELSE n - 24
        /\ Sends(p, k) = IF k <= 12 THEN 0 ELSE IF k = 13 THEN 1
                             ELSE IF k <= 26 THEN 2 ELSE k - 24
    BY <1>0, <1>00, <1>4, SendsIs
  <2> QED BY <1>00, <2>0, <2>1, <2>2
<1>5. CASE p = "spinload"
  <2>0. n \in 1 .. 7
    BY <1>1, <1>5, PlaceIs DEF OpAt, SpinOp
  <2>1. At(p, n).op \in Says <=> n = 7
    BY <1>1, <1>5, <2>0 DEF OpAt, SpinOp, Says
  <2> QED BY <1>0, <1>00, <1>5, <2>0, <2>1, SendsIs
<1> QED BY <1>2, <1>3, <1>4, <1>5 DEF Programs

-----------------------------------------------------------------------------
(* The log.                                                                *)

Logged(l, e, p, w) ==
  Len(l) = e - p /\ \A k \in 1 .. Len(l) : l[k].img = w /\ l[k].arg = p + k

LEMMA LogIs == /\ LogInv <=> IF run THEN Logged(log, Emitted, Popped, want) ELSE log = <<>>
               /\ LogInv' <=> IF run' THEN Logged(log', Emitted', Popped', want') ELSE log' = <<>>
BY DEF LogInv, Logged

LEMMA LogNow ==
  ASSUME BoardInv
  PROVE  /\ log \in Seq(Dwords) /\ prog \in Programs /\ pc \in Place(prog) /\ pc \in Nat
         /\ run \in BOOLEAN /\ (run => Logged(log, Emitted, Popped, want)) /\ (~run => log = <<>>)
<1>1. log \in Seq(Dwords) /\ run \in BOOLEAN
  BY DEF BoardInv, TypesOK, BoxTypes
<1>2. prog \in Programs /\ pc \in Place(prog)
  BY ProgTypes
<1>3. pc \in Nat
  BY <1>2 DEF Place
<1>4. LogInv
  BY DEF BoardInv, SaidInv
<1> QED BY <1>1, <1>2, <1>3, <1>4, LogIs

\* By image: what core 2 has sent.
LEMMA EmittedIs ==
  /\ want = "hello" => Emitted = Spot - 1
  /\ want = "sum" => Emitted = IF Spot > 5 THEN 1 ELSE 0
  /\ want \in {"local", "ddr", "spin"} => Emitted = 0
  /\ want' = "hello" => Emitted' = Spot' - 1
  /\ want' = "sum" => Emitted' = IF Spot' > 5 THEN 1 ELSE 0
  /\ want' \in {"local", "ddr", "spin"} => Emitted' = 0
<1>1. /\ want = "hello" => Emitted = Spot - 1
      /\ want = "sum" => Emitted = IF Spot > 5 THEN 1 ELSE 0
      /\ want \in {"local", "ddr", "spin"} => Emitted = 0
  BY DEF Emitted
<1>2. /\ want' = "hello" => Emitted' = Spot' - 1
      /\ want' = "sum" => Emitted' = IF Spot' > 5 THEN 1 ELSE 0
      /\ want' \in {"local", "ddr", "spin"} => Emitted' = 0
  BY DEF Emitted
<1> QED BY <1>1, <1>2

\* The places where core 2 may run.
LEMMA RunSpots ==
  ASSUME BoardInv, run
  PROVE  \/ prog = "p1test" /\ pc > OneFwd /\ want = "hello"
         \/ prog = "p2test" /\ pc < TwoFwd /\ want \in {"hello", "spin"} /\ Leftover
         \/ prog = "p2test" /\ pc \in TwoFwd + 1 .. TwoData /\ want = "hello"
         \/ prog = "p2test" /\ pc \in TwoSum + 13 .. TwoSum + 17 /\ want = "sum"
         \/ prog = "p2btest" /\ pc \in {9, 10, 23, 24} /\ want \in {"local", "ddr"}
         \/ prog = "spinload" /\ pc \in {7, 8} /\ want = "spin"
<1>1. Started \/ Leftover
  BY RunsWhere
<1>2. CASE Started
  BY <1>2 DEF Started
<1>3. CASE Leftover
  <2>1. prog = "p2test" /\ pc <= TwoFwd - 1 /\ want \in {"hello", "spin"}
    BY <1>3 DEF Leftover
  <2>2. pc < TwoFwd
    BY <2>1, LogNow, PlaceNat
  <2> QED BY Zenon, <1>3, <2>1, <2>2
<1> QED BY <1>1, <1>2, <1>3

\* Nothing in the log when core 2 is stopped.
LEMMA LogStops ==
  ASSUME BoardInv, StopPlace
  PROVE  log = <<>>
<1>1. CASE ~run
  BY <1>1, LogNow
<1>2. CASE run
  <2>0. Len(log) = Emitted - Popped /\ log \in Seq(Dwords) /\ pc \in Nat
    BY <1>2, LogNow DEF Logged
  <2>1. ParkInv /\ Popped = PoppedAt(prog, pc, want)
    BY DEF BoardInv, TwoInv, Popped
  <2>2. SUFFICES Emitted \in Nat /\ Popped = Emitted
    <3>1. ASSUME Emitted \in Nat, Popped = Emitted PROVE Len(log) = 0
      BY <2>0, <3>1
    <3> QED BY <2>0, <3>1, EmptySeq
  <2>3. CASE prog = "p2test" /\ pc < TwoFwd /\ want \in {"hello", "spin"} /\ Leftover
    <3>1. CASE want = "hello"
      <4>1. parked = "halt"
        BY <1>2, <2>1, <2>3, <3>1 DEF ParkInv, ParkPlace
      <4>2. Spot = Letters + 1
        BY <1>2, <3>1, <4>1, HaltSpot
      <4>3. Emitted = Letters /\ Letters \in Nat
        BY <3>1, <4>2, EmittedIs, Sizes
      <4>4. Popped = Letters
        BY Zenon, <2>0, <2>1, <2>3, <3>1, PoppedIs
      <4> QED BY <4>3, <4>4
    <3>2. CASE want = "spin"
      <4>1. Emitted = 0
        BY <3>2, EmittedIs
      <4>2. want # "hello"
        BY <3>2
      <4>3. Popped = 0
        BY Zenon, <2>0, <2>1, <2>3, <4>2, PoppedIs
      <4> QED BY <4>1, <4>3
    <3> QED BY <2>3, <3>1, <3>2
  <2>4. CASE prog = "p2test" /\ pc \in TwoFwd + 1 .. TwoData /\ want = "hello"
    <3>1. pc = TwoData
      BY <2>4, PlaceNat DEF StopPlace
    <3>2. parked = "halt"
      BY <2>1, <2>4, <3>1 DEF ParkInv, ParkPlace
    <3>3. Spot = Letters + 1
      BY <1>2, <2>4, <3>2, HaltSpot
    <3>4. Emitted = Letters /\ Letters \in Nat
      BY <2>4, <3>3, EmittedIs, Sizes
    <3>5. ~(pc < TwoFwd) /\ ~(pc < TwoData)
      BY <3>1, PlaceNat
    <3>6. Popped = Letters
      BY Zenon, <2>0, <2>1, <2>4, <3>1, <3>5, PoppedIs
    <3> QED BY <3>4, <3>6
  <2>5. CASE prog = "p2test" /\ pc \in TwoSum + 13 .. TwoSum + 17 /\ want = "sum"
    <3>1. pc = TwoSum + 17
      BY <2>5, PlaceNat DEF StopPlace
    <3>2. parked = "halt"
      BY <2>1, <2>5, <3>1 DEF ParkInv, ParkPlace
    <3>3. Spot = 6
      BY <1>2, <2>5, <3>2, HaltSpot
    <3>4. Emitted = 1
      BY <2>5, <3>3, EmittedIs
    <3>5. ~(pc < TwoFwd) /\ ~(pc < TwoData) /\ pc # TwoData /\ pc > TwoSum + 15
      BY <3>1, PlaceNat
    <3>6. Popped = 1
      BY Zenon, <2>0, <2>1, <2>5, <3>5, PoppedIs
    <3> QED BY <3>4, <3>6
  <2>6. CASE prog = "p2btest" /\ want \in {"local", "ddr"}
    <3>1. Emitted = 0
      BY <2>6, EmittedIs
    <3>2. Popped = 0
      BY Zenon, <2>0, <2>1, <2>6, PoppedIs
    <3> QED BY <3>1, <3>2
  <2>7. ~(prog = "p1test") /\ ~(prog = "spinload" /\ pc \in {7, 8})
    BY DEF StopPlace
  <2> QED BY Zenon, <1>2, <2>3, <2>4, <2>5, <2>6, <2>7, RunSpots
<1> QED BY <1>1, <1>2

\* An empty log when it starts.
LEMMA LogStarts ==
  ASSUME BoardInv, SetRun, NEW at \in {0, DdrBase}, NEW wanted \in Images, Starts(at, wanted)
  PROVE  LogInv'
<1>1. log' = log /\ log = <<>> /\ run' /\ want' = wanted /\ Spot' = 1 /\ StartPlace(at, wanted)
  BY LogNow, Edges DEF Starts
<1>2. prog' = prog /\ pc' = pc + 1 /\ pc \in Nat
  BY CoreSteps, Edges
<1>3. Emitted' = 0
  BY <1>1, EmittedIs DEF Images
<1>4. Popped' = PoppedAt(prog, pc', wanted) /\ pc' \in Nat
  BY <1>1, <1>2 DEF Popped
<1>5. Popped' = 0
  <2>1. CASE prog = "p1test" /\ pc = OneFwd
    <3>1. pc' - OneFwd - 1 = 0 /\ pc' <= OnePark + 1
      BY <1>2, <2>1, PlaceNat
    <3>2. PoppedAt("p1test", pc', wanted) = 0 \div 3
      BY Zenon, <1>4, <3>1, PoppedIs
    <3> QED BY <1>4, <2>1, <3>2
  <2>2. CASE prog = "p2test" /\ pc = TwoFwd
    <3>1. pc' - TwoFwd - 1 = 0 /\ ~(pc' < TwoFwd) /\ pc' < TwoData
      BY <1>2, <2>2, PlaceNat
    <3>2. PoppedAt("p2test", pc', wanted) = 0 \div 3
      BY Zenon, <1>4, <3>1, PoppedIs
    <3> QED BY <1>4, <2>2, <3>2
  <2>3. CASE prog = "p2test" /\ pc = TwoSum + 12
    <3>1. ~(pc' < TwoFwd) /\ ~(pc' < TwoData) /\ pc' # TwoData /\ ~(pc' > TwoSum + 15)
      BY <1>2, <2>3, PlaceNat
    <3> QED BY Zenon, <1>4, <2>3, <3>1, PoppedIs
  <2>4. CASE prog \in {"p2btest", "spinload"}
    BY <1>4, <2>4, PoppedIs
  <2> QED BY <1>1, <2>1, <2>2, <2>3, <2>4 DEF StartPlace
<1>6. Logged(log', Emitted', Popped', want')
  BY <1>1, <1>3, <1>5 DEF Logged
<1> QED BY <1>1, <1>6, LogIs

LEMMA PoppedNat ==
  ASSUME BoardInv, run
  PROVE  Popped \in Nat
<1>0. Popped = PoppedAt(prog, pc, want) /\ pc \in Nat /\ Letters \in Nat
  BY LogNow, Sizes DEF Popped
<1>1. CASE prog = "p1test" /\ pc > OneFwd
  <2>1. PICK m \in Nat : m = pc - OneFwd - 1
    BY <1>0, <1>1, PlaceNat
  <2>2. m \div 3 \in Nat
    BY Thirds
  <2>3. Popped = IF pc <= OnePark + 1 THEN m \div 3 ELSE Letters
    BY Zenon, <1>0, <1>1, <2>1, PoppedIs
  <2> QED BY <1>0, <2>2, <2>3
<1>2. CASE prog = "p2test"
  <2>1. CASE pc < TwoFwd
    <3>1. Popped = IF want = "hello" THEN Letters ELSE 0
      BY Zenon, <1>0, <1>2, <2>1, PoppedIs
    <3> QED BY <1>0, <3>1
  <2>2. CASE ~(pc < TwoFwd) /\ pc # TwoFwd
    <3>1. PICK m \in Nat : m = pc - TwoFwd - 1
      BY <1>0, <2>2, PlaceNat
    <3>2. m \div 3 \in Nat
      BY Thirds
    <3>3. Popped = IF pc < TwoData THEN m \div 3 ELSE IF pc = TwoData THEN Letters
                   ELSE IF pc > TwoSum + 15 THEN 1 ELSE 0
      BY Zenon, <1>0, <1>2, <2>2, <3>1, PoppedIs
    <3> QED BY <1>0, <3>2, <3>3
  <2>3. pc # TwoFwd
    BY <1>2, RunSpots, PlaceNat
  <2> QED BY <2>1, <2>2, <2>3
<1>3. CASE prog \in {"p2btest", "spinload"}
  BY <1>0, <1>3, PoppedIs
<1> QED BY <1>1, <1>2, <1>3, RunSpots

LEMMA PoppedNext ==
  ASSUME BoardInv, run, Core1, ~SetRun
  PROVE  Popped' = Popped + IF Now.op = "pop" THEN 1 ELSE 0
<1>1. /\ prog' = prog /\ pc' = pc + 1 /\ want' = want /\ Now.op \notin {"run", "halt"}
      /\ Now = At(prog, pc) /\ prog \in Programs /\ pc \in Place(prog)
  BY Away
<1>2. prog = "p1test" => pc > OneFwd
  BY RunSpots
<1>3. PoppedAt(prog, pc + 1, want) = PoppedAt(prog, pc, want) + IF At(prog, pc).op = "pop" THEN 1 ELSE 0
  BY <1>1, <1>2, Pops
<1> QED BY Zenon, <1>1, <1>3 DEF Popped

\* Nothing sent and nothing popped.
LEMMA LogStays ==
  ASSUME BoardInv, log' = log, run' = run, want' = want, Spot' = Spot, run => Popped' = Popped
  PROVE  LogInv'
<1>1. Emitted' = Emitted
  BY DEF Emitted
<1> QED BY <1>1, LogNow, LogIs

LEMMA LogAppend ==
  ASSUME BoardInv, run, Fetched \in Dwords, log' = Append(log, Fetched), run' = run, want' = want,
         Emitted \in Int, Emitted' = Emitted + 1, Popped' = Popped,
         Fetched.img = want, Fetched.arg = Emitted + 1
  PROVE  LogInv'
<1> DEFINE item == Fetched
           sent == Emitted
           gone == Popped
           next == log'
<1>1. log \in Seq(Dwords) /\ item \in Dwords /\ Logged(log, sent, gone, want) /\ gone \in Nat /\ sent \in Int
  BY LogNow, PoppedNat
<1>2. item.img = want /\ item.arg = sent + 1 /\ next = Append(log, item)
  OBVIOUS
<1>3. Emitted' = sent + 1 /\ Popped' = gone
  OBVIOUS
<1>0. next = log'
  OBVIOUS
<1> HIDE DEF item, sent, gone, next
<1>4. Len(log) \in Nat /\ Len(log) = sent - gone
  BY <1>1 DEF Logged
<1>5. /\ Len(next) = Len(log) + 1 /\ next[Len(log) + 1] = item
      /\ \A k \in 1 .. Len(log) : next[k] = log[k]
  BY <1>1, <1>2, AppendProperties
<1>6. ASSUME NEW k \in 1 .. Len(next) PROVE next[k].img = want /\ next[k].arg = gone + k
  <2>1. CASE k \in 1 .. Len(log)
    BY <1>1, <1>5, <2>1 DEF Logged
  <2>2. CASE k = Len(log) + 1
    <3>1. next[k] = item
      BY <1>5, <2>2
    <3>2. gone + k = sent + 1
      BY <1>1, <1>4, <2>2
    <3> QED BY <1>2, <3>1, <3>2
  <2> QED BY <1>4, <1>5, <2>1, <2>2
<1>7. Len(next) = (sent + 1) - gone
  BY <1>1, <1>4, <1>5
<1>8. Logged(next, sent + 1, gone, want)
  BY <1>6, <1>7 DEF Logged
<1> QED BY Zenon, <1>0, <1>3, <1>8, LogIs

LEMMA LogPop ==
  ASSUME BoardInv, run, log # <<>>, log' = Tail(log), run' = run, want' = want, Spot' = Spot,
         Popped' = Popped + 1
  PROVE  LogInv'
<1> DEFINE p == Popped
<1>1. log \in Seq(Dwords) /\ Logged(log, Emitted, p, want) /\ p \in Nat
  BY LogNow, PoppedNat
<1>2. Emitted' = Emitted /\ Popped' = p + 1
  BY DEF Emitted
<1> HIDE DEF p
<1>3. Len(log) \in Nat /\ Len(log) > 0 /\ Len(log) = Emitted - p
  BY <1>1, EmptySeq DEF Logged
<1>4. Len(log') = Len(log) - 1 /\ \A k \in 1 .. Len(log) - 1 : log'[k] = log[k + 1]
  BY <1>1, HeadTailProperties
<1>5. ASSUME NEW k \in 1 .. Len(log') PROVE log'[k].img = want /\ log'[k].arg = p + 1 + k
  <2>1. k \in 1 .. Len(log) - 1 /\ k + 1 \in 1 .. Len(log) /\ p + (k + 1) = p + 1 + k
    BY <1>1, <1>3, <1>4
  <2>2. log'[k] = log[k + 1]
    BY <1>4, <2>1
  <2> QED BY <1>1, <2>1, <2>2 DEF Logged
<1>6. Emitted \in Int
  <2>1. want \in Images /\ Spot \in 1 .. Len(Image[want])
    BY PlacedAt
  <2>2. Spot \in Int
    <3>1. Len(Image[want]) \in Nat
      BY <2>1, LenIs
    <3> QED BY <2>1, <3>1
  <2> QED BY <2>1, <2>2, EmittedIs DEF Images
<1>7. Len(log') = Emitted - (p + 1)
  BY <1>1, <1>3, <1>4, <1>6
<1>8. Logged(log', Emitted, p + 1, want)
  BY <1>5, <1>7 DEF Logged
<1> QED BY Zenon, <1>2, <1>8, LogIs

LEMMA LogLoads == BoardInv /\ LoadProgram => LogInv'
<1> SUFFICES ASSUME BoardInv, LoadProgram PROVE LogInv'
  OBVIOUS
<1>1. UNCHANGED <<boxVars, twoVars, want>> /\ Now.op = "halt" /\ pc' = 1 /\ (run => prog' = "p2test")
  BY Loads
<1>2. log' = log /\ run' = run /\ want' = want /\ Spot' = Spot
  BY <1>1 DEF boxVars, twoVars, Spot, Base
<1>3. ASSUME run PROVE Popped' = Popped
  <2>0. Popped' = PoppedAt("p2test", 1, want) /\ Popped = PoppedAt(prog, pc, want)
    BY Zenon, <1>1, <1>2, <1>3 DEF Popped
  <2>1. prog \in Programs /\ pc \in Place(prog) /\ At(prog, pc).op = "halt" /\ PcInv /\ pc \in Nat
    BY <1>1, ProgTypes, LogNow DEF BoardInv
  <2>2. Popped' = IF want = "hello" THEN Letters ELSE 0
    <3>1. 1 < TwoFwd /\ 1 \in Nat
      BY PlaceNat
    <3> QED BY Zenon, <2>0, <3>1, PoppedIs
  <2>3. CASE prog = "p1test"
    <3>1. pc = OnePark + 4
      <4>1. pc = OnePark + 4 \/ pc = OnePark + 6
        BY <2>1, <2>3, AtHalt
      <4> QED BY <2>1, <2>3, <4>1, PlaceNat DEF PcInv
    <3>2. ~(pc <= OnePark + 1)
      BY <3>1, PlaceNat
    <3>3. Popped = Letters
      BY Zenon, <2>0, <2>1, <2>3, <3>2, PoppedIs
    <3>4. want = "hello"
      BY <1>3, <2>3, RunSpots
    <3> QED BY <2>2, <3>3, <3>4
  <2>4. CASE prog = "spinload"
    <3>1. Popped = 0
      BY Zenon, <2>0, <2>1, <2>4, PoppedIs
    <3>2. want # "hello"
      BY <1>3, <2>4, RunSpots
    <3> QED BY <2>2, <3>1, <3>2
  <2>5. prog # "p2btest"
    <3>1. prog = "p2btest" => pc = 29
      BY <2>1, AtHalt
    <3> QED BY <1>3, <3>1, RunsWhere
  <2>6. prog # "p2test"
    <3>1. prog = "p2test" => pc = TwoSum + 23 \/ pc = TwoSum + 25
      BY <2>1, AtHalt
    <3>2. prog = "p2test" => pc < TwoFwd \/ pc \in TwoFwd + 1 .. TwoData \/ pc \in TwoSum + 13 .. TwoSum + 17
      BY <1>3, RunSpots
    <3> QED BY <3>1, <3>2, PlaceNat
  <2> QED BY <2>1, <2>3, <2>4, <2>5, <2>6 DEF Programs
<1> QED BY <1>2, <1>3, LogStays

LEMMA LogCore == BoardInv /\ Core1 => LogInv'
<1> SUFFICES ASSUME BoardInv, Core1 PROVE LogInv'
  OBVIOUS
<1>1. CASE SetRun
  <2>1. CASE Stops
    <3>1. log' = log /\ ~run' /\ StopPlace
      BY <1>1, <2>1, Edges DEF Stops
    <3> QED BY <3>1, LogStops, LogIs
  <2>2. CASE \E at \in {0, DdrBase} : \E wanted \in Images : Starts(at, wanted)
    BY <1>1, <2>2, LogStarts
  <2> QED BY <1>1, <2>1, <2>2, Edges
<1>2. CASE ~SetRun
  <2>1. run' = run /\ want' = want /\ Spot' = Spot
    BY <1>2, Away
  <2>2. CASE Pop
    <3>1. Now.op = "pop"
      BY <2>2 DEF Pop
    <3>2. log # <<>>
      BY <3>1 DEF BoardInv, SaidInv, HeadInv
    <3>3. run
      BY <3>2, LogNow
    <3>4. log' = Tail(log)
      BY <2>2, <3>2 DEF Pop
    <3>5. Popped' = Popped + 1
      BY <1>2, <3>1, <3>3, PoppedNext
    <3> QED BY Zenon, <2>1, <3>2, <3>3, <3>4, <3>5, LogPop
  <2>3. CASE ~Pop
    <3>1. log' = log
      BY <1>2, <2>3, CoreFrame DEF boxVars, WinAddr, WinData, StartPc
    <3>2. Now.op # "pop"
      BY <2>3, CoreOps
    <3>3. ASSUME run PROVE Popped' = Popped
      <4>1. Popped' = Popped + 0 /\ Popped \in Nat
        BY <1>2, <3>2, <3>3, PoppedNext, PoppedNat
      <4> QED BY <4>1
    <3> QED BY Zenon, <2>1, <3>1, <3>3, LogStays
  <2> QED BY <2>2, <2>3
<1> QED BY <1>1, <1>2

LEMMA LogTwo == BoardInv /\ Execute => LogInv'
<1> SUFFICES ASSUME BoardInv, Execute PROVE LogInv'
  OBVIOUS
<1>1. Executing /\ run' = run /\ want' = want /\ Instruction(want, Spot)
  BY Executes
<1>2. run /\ want \in Images /\ Fetched \in Dwords /\ Fetched.img = want
  BY <1>1, Fetches, FetchedType
<1>3. Popped' = Popped
  BY Others DEF Popped
<1>4. CASE HelloEmits(want, Spot)
  <2>1. /\ want = "hello" /\ Spot \in 1 .. Letters /\ Spot' = Spot + 1 /\ log' = Append(log, Fetched)
        /\ Fetched.arg = Spot
    BY <1>4 DEF HelloEmits
  <2>2. Emitted = Spot - 1 /\ Emitted' = Spot' - 1
    BY <1>1, <2>1, EmittedIs
  <2>3. Emitted \in Int /\ Emitted' = Emitted + 1 /\ Fetched.arg = Emitted + 1
    BY <2>1, <2>2, Sizes
  <2> QED BY Zenon, <1>1, <1>2, <1>3, <2>1, <2>3, LogAppend
<1>5. CASE SumEmits(want, Spot)
  <2>1. /\ want = "sum" /\ Spot = 5 /\ Spot' = 6 /\ log' = Append(log, Fetched) /\ Fetched.arg = 1
    BY <1>5 DEF SumEmits
  <2>2. Emitted = 0 /\ Emitted' = 1
    BY <1>1, <2>1, EmittedIs
  <2>3. Emitted \in Int /\ Emitted' = Emitted + 1 /\ Fetched.arg = Emitted + 1
    BY <2>1, <2>2
  <2> QED BY Zenon, <1>1, <1>2, <1>3, <2>1, <2>3, LogAppend
<1>6. ASSUME ~HelloEmits(want, Spot), ~SumEmits(want, Spot) PROVE LogInv'
  <2>1. log' = log
    BY <1>1, <1>6 DEF Instruction, Halts, SumSets, SumAdds, SumLoops, SumStores, LoopSets, LoopLoops, Spins
  <2>2. Emitted' = Emitted
    <3>1. CASE Halts(want, Spot)
      <4>1. Spot' = Spot
        BY <3>1 DEF Halts
      <4> QED BY <1>1, <4>1 DEF Emitted
    <3>2. CASE want = "sum" /\ Spot \in 1 .. 4 /\ Spot' \in 1 .. 5
      <4>1. Emitted = 0 /\ Emitted' = 0
        BY <1>1, <3>2, EmittedIs
      <4> QED BY <4>1
    <3>3. CASE want \in {"local", "ddr", "spin"}
      BY <1>1, <3>3, EmittedIs
    <3>4. Halts(want, Spot) \/ (want = "sum" /\ Spot \in 1 .. 4 /\ Spot' \in 1 .. 5)
            \/ want \in {"local", "ddr", "spin"}
      BY <1>1, <1>6 DEF Instruction, SumSets, SumAdds, SumLoops, SumStores, LoopSets, LoopLoops, Spins
    <3> QED BY <3>1, <3>2, <3>3, <3>4
  <2> QED BY <1>1, <1>2, <1>3, <2>1, <2>2, LogNow, LogIs
<1> QED BY <1>4, <1>5, <1>6

LEMMA LogStep == BoardInv /\ Next => LogInv'
<1> SUFFICES ASSUME BoardInv, Next PROVE LogInv'
  OBVIOUS
<1>1. CASE Evict \/ WalkLine
  <2>1. log' = log /\ core2' = core2
    BY <1>1 DEF Evict, WalkLine, boxVars, twoVars
  <2>2. run' = run /\ want' = want /\ Spot' = Spot /\ Popped' = Popped
    BY <1>1, <2>1, Others DEF Spot, Popped
  <2> QED BY Zenon, <2>1, <2>2, LogStays
<1> QED BY <1>1, LogLoads, LogCore, LogTwo DEF Next

\* The head of the log is the next byte to pop.
LEMMA LogHead ==
  ASSUME BoardInv, log # <<>>
  PROVE  run /\ Head(log).img = want /\ Head(log).arg = Popped + 1
<1>1. run /\ Logged(log, Emitted, Popped, want) /\ log \in Seq(Dwords)
  BY LogNow
<1>2. Len(log) \in Nat \ {0} /\ Head(log) = log[1]
  BY <1>1, EmptySeq
<1> QED BY <1>1, <1>2 DEF Logged

LEMMA HeadStep == BoardInv /\ Next => HeadInv'
<1> SUFFICES ASSUME BoardInv, Next PROVE HeadInv'
  OBVIOUS
<1>0. HeadInv
  BY DEF BoardInv, SaidInv
<1>1. CASE LoadProgram
  <2>1. Now'.op \in {"winAddr", "store"}
    BY <1>1, Loads
  <2> QED BY <2>1 DEF HeadInv
<1>2. CASE Core1
  <2>1. /\ prog' = prog /\ pc' = pc + 1 /\ prog \in Programs /\ pc \in Place(prog)
        /\ At(prog, pc + 1).op \in After[At(prog, pc).op]
    BY <1>2, CoreSteps
  <2>2. Now = At(prog, pc) /\ Now' = At(prog, pc + 1) /\ Now.op \in OpNames
    BY <2>1, NowIs, Follows
  <2>3. Now'.op \in After[Now.op]
    BY <2>1, <2>2
  <2>4. ASSUME Now'.op = "putc" PROVE log' # <<>> /\ d'.img = want' /\ d'.arg = Popped' + 1
    <3>1. Now.op = "logWait"
      BY <2>2, <2>3, <2>4, Before
    <3>2. LogWait /\ ~SetRun
      BY <1>2, <3>1, CoreOps
    <3>3. log # <<>> /\ d' = Head(log) /\ log' = log /\ want' = want
      BY <3>2 DEF LogWait, boxVars
    <3>4. run /\ Head(log).img = want /\ Head(log).arg = Popped + 1
      BY <3>3, LogHead
    <3>5. Popped' = Popped + 0 /\ Popped \in Nat
      BY <1>2, <3>1, <3>2, <3>4, PoppedNext, PoppedNat
    <3> QED BY <3>3, <3>4, <3>5
  <2>5. ASSUME Now'.op = "pop" PROVE log' # <<>>
    <3>1. Now.op = "putc"
      BY <2>2, <2>3, <2>5, Before
    <3>2. PutC
      BY <1>2, <3>1, CoreOps
    <3>3. log' = log
      BY <3>2 DEF PutC, Send, boxVars
    <3> QED BY <1>0, <3>1, <3>3 DEF HeadInv
  <2> QED BY <2>4, <2>5 DEF HeadInv
<1>3. CASE Evict \/ WalkLine \/ Execute
  <2>1. Now' = Now /\ d' = d /\ want' = want /\ Popped' = Popped
    BY <1>3, Others DEF Popped
  <2>2. ASSUME log # <<>> PROVE log' # <<>>
    <3>1. CASE log' = log
      BY <2>2, <3>1
    <3>2. CASE log' = Append(log, Fetched)
      <4>1. log \in Seq(Dwords)
        BY LogNow
      <4>2. Fetched \in Dwords \/ log' = log
        BY <1>3, Executes, FetchedType DEF Evict, WalkLine, boxVars
      <4> QED BY <3>1, <3>2, <4>1, <4>2, AppendProperties
    <3>3. log' = log \/ log' = Append(log, Fetched)
      BY <1>3 DEF Evict, WalkLine, Execute, boxVars, SetCounter, LoopBack, Add, StoreSum, Emit, JumpTo,
                  SetPc, HaltTwo, Park, Illegal
    <3> QED BY <3>1, <3>2, <3>3
  <2> QED BY <1>0, <2>1, <2>2 DEF HeadInv
<1> QED BY <1>1, <1>2, <1>3 DEF Next

-----------------------------------------------------------------------------
(* The UART and the verdict.                                               *)

LEMMA BytesIs == \A w, n : n \in Nat => /\ Bytes(w, n) = [i \in 1 .. n |-> <<w, i>>]
                                        /\ Len(Bytes(w, n)) = n
<1>1. \A w, n : Bytes(w, n) = [i \in 1 .. n |-> <<w, i>>]
  BY DEF Bytes
<1>2. ASSUME NEW w, NEW n \in Nat PROVE Len(Bytes(w, n)) = n
  <2>1. Bytes(w, n) \in Seq({<<w, i>> : i \in 1 .. n}) /\ DOMAIN Bytes(w, n) = 1 .. n
    BY <1>1
  <2> QED BY <2>1, LenProperties, <1>1
<1> QED BY <1>1, <1>2

\* What the gates look for, by place.
LEMMA ExpectedIs ==
  /\ \A i \in 1 .. Letters : /\ Expected["p1test"][i] = <<"hello", i>>
                             /\ Expected["p2test"][i] = <<"hello", i>>
  /\ Expected["p1test"][Letters + 1] = <<"P1_PASS", 0>>
  /\ Expected["p2test"][Letters + 1] = <<"sum", 1>>
  /\ Expected["p2test"][Letters + 2] = <<"P2_PASS", 0>>
  /\ Expected["p2btest"][1] = <<"L=", 0>> /\ Expected["p2btest"][2] = <<"hex", Iters>>
  /\ Expected["p2btest"][3] = <<"D=", 0>> /\ Expected["p2btest"][4] = <<"hex", Iters>>
  /\ Expected["p2btest"][5] = <<"P2B_DONE", 0>>
  /\ Expected["spinload"][1] = <<"core2_spinning", 0>>
  /\ Expected \in [Programs -> Seq(Names \X Int)]
  /\ Len(Expected["p1test"]) = Letters + 1 /\ Len(Expected["p2test"]) = Letters + 2
  /\ Len(Expected["p2btest"]) = 5 /\ Len(Expected["spinload"]) = 1
<1> DEFINE bytes == Bytes("hello", Letters)
           one   == <<<<"P1_PASS", 0>>>>
           two   == <<<<"sum", 1>>, <<"P2_PASS", 0>>>>
           timed == <<<<"L=", 0>>, <<"hex", Iters>>, <<"D=", 0>>, <<"hex", Iters>>, <<"P2B_DONE", 0>>>>
           spin  == <<<<"core2_spinning", 0>>>>
           Said  == Names \X Int
<1>0. Letters \in Nat /\ Iters \in Nat
  BY Sizes
<1>1. /\ Expected["p1test"] = bytes \o one /\ Expected["p2test"] = bytes \o two
      /\ Expected["p2btest"] = timed /\ Expected["spinload"] = spin
  BY DEF Expected, Programs
<1>2. bytes = [i \in 1 .. Letters |-> <<"hello", i>>]
  BY <1>0, BytesIs
<1>3. "hello" \in Names /\ "sum" \in Names /\ "hex" \in Names /\ \A m \in Messages : m \in Names
  BY InNames
<1>4. bytes \in Seq(Said) /\ Len(bytes) = Letters /\ \A i \in 1 .. Letters : bytes[i] = <<"hello", i>>
  <2>1. \A i \in 1 .. Letters : <<"hello", i>> \in Said
    BY <1>0, <1>3
  <2> HIDE DEF Said
  <2> QED BY <1>0, <1>2, <2>1
<1>5. one \in Seq(Said) /\ Len(one) = 1 /\ one[1] = <<"P1_PASS", 0>>
  BY <1>3 DEF Messages
<1>6. two \in Seq(Said) /\ Len(two) = 2 /\ two[1] = <<"sum", 1>> /\ two[2] = <<"P2_PASS", 0>>
  BY <1>3 DEF Messages
<1>7. /\ timed \in Seq(Said) /\ Len(timed) = 5 /\ timed[1] = <<"L=", 0>> /\ timed[2] = <<"hex", Iters>>
      /\ timed[3] = <<"D=", 0>> /\ timed[4] = <<"hex", Iters>> /\ timed[5] = <<"P2B_DONE", 0>>
  BY <1>0, <1>3 DEF Messages
<1>8. spin \in Seq(Said) /\ Len(spin) = 1 /\ spin[1] = <<"core2_spinning", 0>>
  BY <1>3 DEF Messages
<1>9. DOMAIN Expected = Programs
  BY DEF Expected
<1>10. \E f : Expected = [q \in Programs |-> f[q]]
  <2>1. Expected = [q \in Programs |-> Expected[q]]
    BY DEF Expected
  <2> QED BY <2>1
<1> HIDE DEF bytes, one, two, timed, spin, Said
<1>11. /\ bytes \o one \in Seq(Said) /\ Len(bytes \o one) = Letters + 1
       /\ \A i \in 1 .. Letters + 1 : (bytes \o one)[i] = IF i <= Letters THEN bytes[i] ELSE one[i - Letters]
  <2>1. /\ bytes \o one \in Seq(Said) /\ Len(bytes \o one) = Len(bytes) + Len(one)
        /\ \A i \in 1 .. Len(bytes) + Len(one) :
             (bytes \o one)[i] = IF i <= Len(bytes) THEN bytes[i] ELSE one[i - Len(bytes)]
    <3>1. bytes \in Seq(Said) /\ one \in Seq(Said)
      BY <1>4, <1>5
    <3> QED BY Zenon, <3>1, ConcatProperties
  <2>2. Len(bytes) = Letters /\ Len(one) = 1
    BY <1>4, <1>5
  <2> QED BY Zenon, <2>1, <2>2
<1>12. /\ bytes \o two \in Seq(Said) /\ Len(bytes \o two) = Letters + 2
       /\ \A i \in 1 .. Letters + 2 : (bytes \o two)[i] = IF i <= Letters THEN bytes[i] ELSE two[i - Letters]
  <2>1. /\ bytes \o two \in Seq(Said) /\ Len(bytes \o two) = Len(bytes) + Len(two)
        /\ \A i \in 1 .. Len(bytes) + Len(two) :
             (bytes \o two)[i] = IF i <= Len(bytes) THEN bytes[i] ELSE two[i - Len(bytes)]
    <3>1. bytes \in Seq(Said) /\ two \in Seq(Said)
      BY <1>4, <1>6
    <3> QED BY Zenon, <3>1, ConcatProperties
  <2>2. Len(bytes) = Letters /\ Len(two) = 2
    BY <1>4, <1>6
  <2> QED BY Zenon, <2>1, <2>2
<1>13. \A i \in 1 .. Letters : Expected["p1test"][i] = <<"hello", i>> /\ Expected["p2test"][i] = <<"hello", i>>
  <2> SUFFICES ASSUME NEW i \in 1 .. Letters
               PROVE  Expected["p1test"][i] = <<"hello", i>> /\ Expected["p2test"][i] = <<"hello", i>>
    OBVIOUS
  <2>1. i \in 1 .. Letters + 1 /\ i \in 1 .. Letters + 2 /\ i <= Letters
    BY <1>0
  <2> QED BY Zenon, <1>1, <1>4, <1>11, <1>12, <2>1
<1>14. Expected["p1test"][Letters + 1] = <<"P1_PASS", 0>>
  <2>1. Letters + 1 \in 1 .. Letters + 1 /\ ~(Letters + 1 <= Letters) /\ (Letters + 1) - Letters = 1
    BY <1>0
  <2> QED BY <1>0, <1>1, <1>5, <1>11, <2>1
<1>15. Expected["p2test"][Letters + 1] = <<"sum", 1>>
  <2>1. Letters + 1 \in 1 .. Letters + 2 /\ ~(Letters + 1 <= Letters) /\ (Letters + 1) - Letters = 1
    BY <1>0
  <2> QED BY <1>0, <1>1, <1>6, <1>12, <2>1
<1>16. Expected["p2test"][Letters + 2] = <<"P2_PASS", 0>>
  <2>1. Letters + 2 \in 1 .. Letters + 2 /\ ~(Letters + 2 <= Letters) /\ (Letters + 2) - Letters = 2
    BY <1>0
  <2> QED BY <1>0, <1>1, <1>6, <1>12, <2>1
<1>17. \A q \in Programs : Expected[q] \in Seq(Said)
  BY Zenon, <1>1, <1>7, <1>8, <1>11, <1>12 DEF Programs
<1>18. Expected \in [Programs -> Seq(Said)]
  BY Zenon, <1>9, <1>10, <1>17
<1>19. Said = Names \X Int
  BY DEF Said
<1> QED BY Zenon, <1>1, <1>7, <1>8, <1>11, <1>12, <1>13, <1>14, <1>15, <1>16, <1>18, <1>19

LEMMA SayOps ==
  ASSUME Core1
  PROVE  /\ Now.op = "puts" <=> PutS
         /\ Now.op = "print_hex64" <=> PutHex
BY DEF Core1, StoreDword, LoadDword, Maint, MntWait, WinAddr, WinData, StartPc, SetRun, LogWait,
       Pop, PutC, PutS, PutHex, ParkWait, CheckCtrl, CheckSum, Clock, Elapsed

\* What an access prints is what the gate looks for next.
LEMMA UartAdds ==
  ASSUME BoardInv, Core1, Now.op \in Says, NEW item \in Names \X Int,
         uart' = Append(uart, item), item = Expected[prog][Sends(prog, pc) + 1]
  PROVE  UartInv'
<1>1. prog' = prog /\ pc' = pc + 1 /\ Now.op # "halt" /\ PcInv /\ Now = At(prog, pc)
      /\ prog \in Programs /\ pc \in Place(prog) /\ uart \in Seq(Names \X Int)
  BY CoreSteps, NowIs DEF BoardInv, TypesOK, CoreTypes
<1>2. Sends(prog', pc') = Sends(prog, pc) + 1
  <2>1. Proper(prog, pc)
    BY <1>1 DEF Proper, PcInv
  <2> QED BY <1>1, <2>1, SendsNext
<1>3. Len(uart) = Sends(prog, pc) /\ \A i \in 1 .. Len(uart) : uart[i] = Expected[prog][i]
  BY <1>1, NotBegun DEF BoardInv, SaidInv, UartInv
<1> DEFINE next == uart'
           n == Sends(prog, pc)
<1>4. /\ Len(next) = Len(uart) + 1 /\ next[Len(uart) + 1] = item
      /\ \A i \in 1 .. Len(uart) : next[i] = uart[i]
  BY <1>1, AppendProperties
<1>5. Len(uart) \in Nat
  BY <1>1, LenProperties
<1>6. next = uart' /\ n = Sends(prog, pc)
  OBVIOUS
<1> HIDE DEF next, n
<1>7. ASSUME NEW i \in 1 .. Len(next) PROVE next[i] = Expected[prog][i]
  <2>1. CASE i \in 1 .. Len(uart)
    BY <1>3, <1>4, <2>1
  <2>2. CASE i = Len(uart) + 1
    BY Zenon, <1>3, <1>4, <2>2
  <2> QED BY <1>4, <1>5, <2>1, <2>2
<1>8. Len(next) = n + 1
  BY <1>3, <1>4, <1>6
<1> QED BY Zenon, <1>1, <1>2, <1>6, <1>7, <1>8 DEF UartInv

\* A third of less than three times as much is less.
LEMMA ThirdBelow == \A m \in Nat : \A n \in Nat : m < 3 * n => m \div 3 < n
OBVIOUS

LEMMA PutCSays ==
  ASSUME BoardInv, Core1, PutC
  PROVE  <<d.img, d.arg>> \in Names \X Int /\ <<d.img, d.arg>> = Expected[prog][Sends(prog, pc) + 1]
<1>1. /\ Now.op = "putc" /\ prog \in Programs /\ pc \in Place(prog) /\ pc \in Nat
      /\ At(prog, pc).op = "putc"
  BY CoreSteps, NowIs DEF PutC
<1>2. d.img \in Names /\ d.arg \in Int
  BY DEF BoardInv, TypesOK, CoreTypes, Dwords
<1>3. d.img = want /\ d.arg = Popped + 1 /\ run
  BY <1>1, LogHead DEF BoardInv, SaidInv, HeadInv
<1>4. Popped = PoppedAt(prog, pc, want) /\ Letters \in Nat
  BY Sizes DEF Popped
<1>5. CASE prog = "p1test" /\ pc \in OneFwd + 1 .. OnePark /\ (pc - OneFwd - 1) % 3 = 1
  <2>1. PICK m \in Nat : m = pc - OneFwd - 1
    BY <1>1, <1>5, PlaceNat
  <2>2. m % 3 = 1
    BY Zenon, <1>5, <2>1
  <2>3. m < 3 * Letters /\ pc - OneFwd = m + 1 /\ m + 1 \in Nat /\ m + 1 > 0 /\ pc <= OnePark + 1
    BY <1>1, <1>5, <2>1, PlaceNat
  <2>4. m \div 3 \in Nat /\ m \div 3 < Letters /\ (m + 1) \div 3 = m \div 3 + 0
    BY <1>4, <2>2, <2>3, Thirds, ThirdBelow
  <2>5. Sends("p1test", pc) = (m + 1) \div 3
    BY Zenon, <1>1, <2>3, Forwarded
  <2>6. PoppedAt("p1test", pc, want) = m \div 3
    BY Zenon, <1>1, <2>1, <2>3, Forwarded
  <2>7. want = "hello"
    BY <1>3, <1>5, RunSpots
  <2>8. prog = "p1test"
    BY <1>5
  <2>9. Popped + 1 \in 1 .. Letters /\ Sends(prog, pc) + 1 = Popped + 1
    BY <1>4, <2>4, <2>5, <2>6, <2>8
  <2>10. Expected["p1test"][Popped + 1] = <<"hello", Popped + 1>>
    BY <2>9, ExpectedIs
  <2> QED BY Zenon, <1>2, <1>3, <2>7, <2>8, <2>9, <2>10
<1>6. CASE prog = "p2test" /\ pc \in TwoFwd + 1 .. TwoData - 2 /\ (pc - TwoFwd - 1) % 3 = 1
  <2>1. PICK m \in Nat : m = pc - TwoFwd - 1
    BY <1>1, <1>6, PlaceNat
  <2>2. m % 3 = 1
    BY Zenon, <1>6, <2>1
  <2>3. m < 3 * Letters /\ pc - TwoFwd = m + 1 /\ m + 1 \in Nat /\ m + 1 > 0 /\ pc < TwoData
    BY <1>1, <1>6, <2>1, PlaceNat
  <2>4. m \div 3 \in Nat /\ m \div 3 < Letters /\ (m + 1) \div 3 = m \div 3 + 0
    BY <1>4, <2>2, <2>3, Thirds, ThirdBelow
  <2>5. Sends("p2test", pc) = (m + 1) \div 3
    BY Zenon, <1>1, <2>3, Forwarded
  <2>6. PoppedAt("p2test", pc, want) = m \div 3
    BY Zenon, <1>1, <2>1, <2>3, Forwarded
  <2>7. want = "hello"
    BY <1>3, <1>6, RunSpots, PlaceNat
  <2>8. prog = "p2test"
    BY <1>6
  <2>9. Popped + 1 \in 1 .. Letters /\ Sends(prog, pc) + 1 = Popped + 1
    BY <1>4, <2>4, <2>5, <2>6, <2>8
  <2>10. Expected["p2test"][Popped + 1] = <<"hello", Popped + 1>>
    BY <2>9, ExpectedIs
  <2> QED BY Zenon, <1>2, <1>3, <2>7, <2>8, <2>9, <2>10
<1>7. CASE prog = "p2test" /\ pc = TwoSum + 14
  <2>1. want = "sum"
    BY <1>3, <1>7, RunSpots, PlaceNat
  <2>2. ~(pc <= TwoFwd) /\ ~(pc < TwoFwd) /\ ~(pc < TwoData) /\ pc # TwoData /\ pc <= TwoSum + 14
        /\ ~(pc > TwoSum + 15)
    BY <1>7, PlaceNat
  <2>3. Popped = 0
    BY Zenon, <1>1, <1>4, <1>7, <2>2, PoppedIs
  <2>4. Sends(prog, pc) = Letters
    BY Zenon, <1>1, <1>7, <2>2, SendsIs
  <2>5. Expected["p2test"][Letters + 1] = <<"sum", 1>>
    BY ExpectedIs
  <2>6. Popped + 1 = 1
    BY <2>3
  <2> QED BY Zenon, <1>2, <1>3, <1>7, <2>1, <2>4, <2>5, <2>6
<1> QED BY <1>1, <1>5, <1>6, <1>7, AtPutc

LEMMA PutSSays ==
  ASSUME BoardInv, Core1, PutS
  PROVE  /\ <<Now.val.img, 0>> \in Names \X Int
         /\ <<Now.val.img, 0>> = Expected[prog][Sends(prog, pc) + 1]
<1>1. /\ Now = At(prog, pc) /\ prog \in Programs /\ pc \in Place(prog) /\ pc \in Nat
      /\ At(prog, pc).op = "puts" /\ PcInv
  BY CoreSteps, NowIs DEF PutS, BoardInv
<1>2. Now.val.img \in Names
  BY NowTypes DEF Dwords
<1>3. Letters \in Nat /\ <<Now.val.img, 0>> \in Names \X Int
  BY <1>2, Sizes
<1> DEFINE says(w) == Now.val.img = w
<1>4. \/ prog = "p1test" /\ pc = OnePark + 3 /\ says("P1_PASS")
      \/ prog = "p2test" /\ pc = TwoSum + 22 /\ says("P2_PASS")
      \/ prog = "p2btest" /\ pc = 12 /\ says("L=")
      \/ prog = "p2btest" /\ pc = 26 /\ says("D=")
      \/ prog = "p2btest" /\ pc = 28 /\ says("P2B_DONE")
      \/ prog = "spinload" /\ pc = 7 /\ says("core2_spinning")
  <2>1. /\ ~(prog = "p1test" /\ pc = OnePark + 5)
        /\ ~(prog = "p2test" /\ pc = TwoSum + 24)
    BY <1>1, PlaceNat DEF PcInv
  <2>2. \/ prog = "p1test" /\ pc = OnePark + 3 /\ says("P1_PASS")
        \/ prog = "p1test" /\ pc = OnePark + 5
        \/ prog = "p2test" /\ pc = TwoSum + 22 /\ says("P2_PASS")
        \/ prog = "p2test" /\ pc = TwoSum + 24
        \/ prog = "p2btest" /\ pc = 12 /\ says("L=")
        \/ prog = "p2btest" /\ pc = 26 /\ says("D=")
        \/ prog = "p2btest" /\ pc = 28 /\ says("P2B_DONE")
        \/ prog = "spinload" /\ pc = 7 /\ says("core2_spinning")
    BY <1>1, AtPuts
  <2> HIDE DEF says
  <2> QED BY <2>1, <2>2
<1>5. CASE prog = "p1test" /\ pc = OnePark + 3 /\ says("P1_PASS")
  <2>1. ~(pc <= OneFwd) /\ ~(pc <= OnePark + 1) /\ pc <= OnePark + 3
    BY <1>5, PlaceNat
  <2>2. Sends(prog, pc) = Letters
    BY Zenon, <1>1, <1>5, <2>1, SendsIs
  <2> QED BY <1>2, <1>5, <2>2, ExpectedIs
<1>6. CASE prog = "p2test" /\ pc = TwoSum + 22 /\ says("P2_PASS")
  <2>1. ~(pc <= TwoFwd) /\ ~(pc < TwoData) /\ ~(pc <= TwoSum + 14) /\ pc <= TwoSum + 22
    BY <1>6, PlaceNat
  <2>2. Sends(prog, pc) = Letters + 1
    BY Zenon, <1>1, <1>6, <2>1, SendsIs
  <2>3. Sends(prog, pc) + 1 = Letters + 2
    BY <1>3, <2>2
  <2> QED BY Zenon, <1>3, <1>6, <2>3, ExpectedIs
<1>7. CASE prog = "p2btest"
  <2>1. Sends("p2btest", 12) + 1 = 1 /\ Sends("p2btest", 26) + 1 = 3 /\ Sends("p2btest", 28) + 1 = 5
    BY SendsIs
  <2>2. CASE pc = 12 /\ says("L=")
    BY Zenon, <1>3, <1>7, <2>1, <2>2, ExpectedIs
  <2>3. CASE pc = 26 /\ says("D=")
    BY Zenon, <1>3, <1>7, <2>1, <2>3, ExpectedIs
  <2>4. CASE pc = 28 /\ says("P2B_DONE")
    BY Zenon, <1>3, <1>7, <2>1, <2>4, ExpectedIs
  <2> QED BY <1>4, <1>7, <2>2, <2>3, <2>4
<1>8. CASE prog = "spinload"
  <2>1. Sends("spinload", 7) + 1 = 1
    BY SendsIs
  <2>2. pc = 7 /\ says("core2_spinning")
    BY <1>4, <1>8
  <2> QED BY Zenon, <1>3, <1>8, <2>1, <2>2, ExpectedIs
<1> QED BY <1>4, <1>5, <1>6, <1>7, <1>8

LEMMA PutHexSays ==
  ASSUME BoardInv, Core1, PutHex
  PROVE  /\ <<"hex", d.arg>> \in Names \X Int
         /\ <<"hex", d.arg>> = Expected[prog][Sends(prog, pc) + 1]
<1>1. /\ prog \in Programs /\ pc \in Place(prog) /\ At(prog, pc).op = "print_hex64"
  BY CoreSteps, NowIs DEF PutHex
<1>2. prog = "p2btest" /\ pc \in {13, 27}
  BY <1>1, AtHex
<1>3. d.arg = Iters /\ Iters \in Nat
  BY <1>2, WatchIs, Sizes DEF BoardInv, TwoInv, Timing
<1>4. Sends("p2btest", 13) + 1 = 2 /\ Sends("p2btest", 27) + 1 = 4
  BY SendsIs
<1>5. <<"hex", d.arg>> \in Names \X Int
  BY <1>3, InNames
<1>6. Expected["p2btest"][2] = <<"hex", Iters>> /\ Expected["p2btest"][4] = <<"hex", Iters>>
  BY ExpectedIs
<1> QED BY <1>2, <1>3, <1>4, <1>5, <1>6

LEMMA UartStep == BoardInv /\ Next => UartInv'
<1> SUFFICES ASSUME BoardInv, Next PROVE UartInv'
  OBVIOUS
<1>0. UartInv
  BY DEF BoardInv, SaidInv
<1>1. CASE LoadProgram
  <2>1. uart' = <<>> /\ pc' = 1 /\ prog' \in Programs
    BY <1>1, Loads
  <2>2. Sends(prog', 1) = 0
    <3>1. 1 <= OneFwd /\ 1 <= TwoFwd /\ 1 \in Nat
      BY PlaceNat
    <3> QED BY <2>1, <3>1, SendsIs DEF Programs
  <2>3. Len(uart') = 0 /\ 1 .. Len(uart') = {}
    BY <2>1
  <2> QED BY Zenon, <2>1, <2>2, <2>3 DEF UartInv
<1>2. CASE Core1
  <2>1. CASE PutC
    <3>1. Now.op \in Says /\ uart' = Append(uart, <<d.img, d.arg>>)
      BY <2>1 DEF PutC, Send, Says
    <3> QED BY <1>2, <2>1, <3>1, PutCSays, UartAdds
  <2>2. CASE PutS
    <3>1. Now.op \in Says /\ uart' = Append(uart, <<Now.val.img, 0>>)
      BY <2>2 DEF PutS, Send, Says
    <3> QED BY <1>2, <2>2, <3>1, PutSSays, UartAdds
  <2>3. CASE PutHex
    <3>1. Now.op \in Says /\ uart' = Append(uart, <<"hex", d.arg>>)
      BY <2>3 DEF PutHex, Send, Says
    <3> QED BY <1>2, <2>3, <3>1, PutHexSays, UartAdds
  <2>4. CASE ~PutC /\ ~PutS /\ ~PutHex
    <3>1. uart' = uart /\ Now.op \notin Says
      BY <1>2, <2>4, CoreFrame, CoreOps, SayOps DEF Says
    <3>2. /\ prog' = prog /\ round' = round /\ pc' = pc + 1 /\ Now.op # "halt" /\ PcInv /\ Now = At(prog, pc)
          /\ prog \in Programs /\ pc \in Place(prog)
      BY <1>2, CoreSteps, NowIs DEF BoardInv
    <3>3. Sends(prog, pc + 1) = Sends(prog, pc) + 0
      <4>1. Proper(prog, pc)
        BY <3>2 DEF Proper, PcInv
      <4> QED BY <3>1, <3>2, <4>1, SendsNext
    <3>4. Len(uart) = Sends(prog, pc) /\ Len(uart) \in Nat
      BY <1>0, <3>2, NotBegun, LenProperties DEF UartInv, BoardInv, TypesOK, CoreTypes
    <3>5. Len(uart) = Sends(prog, pc + 1)
      BY <3>3, <3>4
    <3> QED BY <1>0, <3>1, <3>2, <3>5 DEF UartInv
  <2> QED BY <2>1, <2>2, <2>3, <2>4
<1>3. CASE Evict \/ WalkLine \/ Execute
  BY <1>0, <1>3, Others DEF UartInv
<1> QED BY <1>1, <1>2, <1>3 DEF Next

LEMMA CheckStep == BoardInv /\ Next => CheckInv'
<1> SUFFICES ASSUME BoardInv, Next PROVE CheckInv'
  OBVIOUS
<1>0. CheckInv
  BY DEF BoardInv, SaidInv
<1>1. CASE LoadProgram
  BY <1>1, Loads DEF CheckInv
<1>2. CASE Core1
  <2>1. /\ prog' = prog /\ pc' = pc + 1 /\ prog \in Programs /\ pc \in Place(prog)
        /\ pc + 1 \in Place(prog) /\ At(prog, pc + 1).op \in After[At(prog, pc).op]
    BY <1>2, CoreSteps
  <2>2. Now = At(prog, pc) /\ Now' = At(prog, pc + 1) /\ Now.op \in OpNames
    BY <2>1, NowIs, Follows
  <2>3. ASSUME Now'.op = "checkCtrl" PROVE d'.do = "halt" /\ d'.arg = 1
    <3>1. Now.op = "parkWait"
      BY <2>1, <2>2, <2>3, Before
    <3>2. parked # "no" /\ d' = Dword("ctrl", parked, IF run THEN 1 ELSE 0)
      BY <1>2, <3>1, CoreOps DEF ParkWait
    <3>3. run /\ parked = "halt"
      BY <3>2 DEF BoardInv, TwoInv, OffInv, ParkInv
    <3> QED BY <3>2, <3>3 DEF Dword
  <2>4. ASSUME Now'.op = "checkSum" PROVE d'.arg = Now'.at
    <3>1. prog = "p2test" /\ pc + 1 = TwoSum + 21 /\ Now'.at = Total
      BY <2>1, <2>2, <2>4, AtCheckSum
    <3>2. ResultInv'
      BY ResultStep
    <3> QED BY <2>1, <3>1, <3>2 DEF ResultInv
  <2> QED BY <2>3, <2>4 DEF CheckInv
<1>3. CASE Evict \/ WalkLine \/ Execute
  BY <1>0, <1>3, Others DEF CheckInv
<1> QED BY <1>1, <1>2, <1>3 DEF Next

-----------------------------------------------------------------------------
(* The theorems.                                                           *)

LEMMA InitInv == Init => BoardInv
<1> SUFFICES ASSUME Init PROVE BoardInv
  OBVIOUS
<1>1. /\ prog = "spinload" /\ pc = 8 /\ round = 0 /\ ~run /\ log = <<>> /\ walk = Idle
      /\ parked = "no" /\ core2 = Stopped /\ text = [a \in TextAddr |-> Free]
  <2>1. Len(spinload) = 8
    BY CodeSpin
  <2> QED BY <2>1 DEF Init
<1>2. prog \in Programs /\ pc \in Place(prog) /\ Now = At(prog, pc) /\ Now.op = "halt"
  BY <1>1, PlaceIs, RunAt, NowIs DEF Programs
<1>3. \A j \in 1 .. pc - 1 : At(prog, j).op \notin {"store", "mntWait"}
  <2> SUFFICES ASSUME NEW j \in 1 .. pc - 1 PROVE At(prog, j).op \notin {"store", "mntWait"}
    OBVIOUS
  <2>1. j \in Place(prog)
    BY <1>1, <1>2 DEF Place
  <2> QED BY <1>1, <1>2, <2>1, AtStore, AtMntWait
<1>4. TypesOK
  <2>0. Junk \in Dwords /\ Free \in Lines /\ Clean(Junk) \in Lines /\ Dirty(Junk) \in Lines
    BY AnOp, LineTypes
  <2>1. CoreTypes
    BY <1>1, <1>2, <2>0 DEF Init, CoreTypes
  <2>2. MemTypes
    <3>1. cache \in [Addr -> Lines]
      BY <2>0 DEF Init
    <3>2. ddr \in [Addr -> Dwords]
      BY <2>0 DEF Init
    <3>3. walk \in [kind : Walks \cup {"none"}, left : SUBSET Addr]
      BY <1>1 DEF Idle
    <3> QED BY <3>1, <3>2, <3>3 DEF MemTypes
  <2>3. BoxTypes
    <3>1. log \in Seq(Dwords)
      BY <1>1, EmptySeq
    <3>2. ram \in [RamAddr -> Dwords]
      BY <2>0 DEF Init
    <3> QED BY <1>1, <3>1, <3>2 DEF Init, BoxTypes
  <2>4. TwoTypes
    <3>1. text \in [TextAddr -> Lines]
      BY <1>1, <2>0
    <3> QED BY <1>1, <3>1 DEF TwoTypes, Stopped
  <2> QED BY <2>1, <2>2, <2>3, <2>4 DEF TypesOK
<1>5. StartInv /\ PcInv
  BY <1>1 DEF StartInv, PcInv
<1>6. MemInv
  <2>1. StoredInv
    BY <1>3 DEF StoredInv
  <2>2. FlushedInv
    BY <1>3 DEF FlushedInv
  <2>3. WalkInv /\ LoadInv /\ WindowInv
    BY <1>1, <1>2 DEF WalkInv, LoadInv, WindowInv
  <2> QED BY <2>1, <2>2, <2>3 DEF MemInv
<1>7. TwoInv
  <2>1. RunInv
    BY <1>1 DEF RunInv, RunPlace
  <2>2. OffInv
    BY <1>1, LineTypes DEF OffInv
  <2>3. PlacedInv /\ WatchInv /\ SumInv /\ ResultInv
    BY <1>1 DEF PlacedInv, WatchInv, SumInv, ResultInv
  <2>4. ParkInv
    BY <1>1 DEF ParkInv, ParkPlace, Leftover
  <2> QED BY <2>1, <2>2, <2>3, <2>4 DEF TwoInv
<1>8. SaidInv
  BY <1>1, <1>2 DEF SaidInv, LogInv, HeadInv, UartInv, CheckInv
<1> QED BY <1>4, <1>5, <1>6, <1>7, <1>8 DEF BoardInv

\* One step of either core, the cache or the monitor.
LEMMA BoardStep == BoardInv /\ Next => BoardInv'
<1> SUFFICES ASSUME BoardInv, Next PROVE BoardInv'
  OBVIOUS
<1>1. TypesOK' /\ StartInv' /\ PcInv'
  BY TypesStep, StartStep, PcStep
<1>2. MemInv'
  BY StoredStep, FlushedStep, WalkStep, LoadStep, WindowStep DEF MemInv
<1>3. TwoInv'
  BY RunStep, OffStep, PlacedStep, ParkStep, WatchStep, SumStep, ResultStep DEF TwoInv
<1>4. SaidInv'
  BY LogStep, HeadStep, UartStep, CheckStep DEF SaidInv
<1> QED BY <1>1, <1>2, <1>3, <1>4 DEF BoardInv

LEMMA BoardStays == BoardInv /\ UNCHANGED vars => BoardInv'
<1> SUFFICES ASSUME BoardInv, UNCHANGED vars PROVE BoardInv'
  OBVIOUS
<1>1. /\ UNCHANGED <<prog, pc, round, d, uart, watch, cache, ddr, walk>>
      /\ UNCHANGED <<run, startPc, winAddr, ram, log, parked, core2, text, want>>
  BY DEF vars, coreVars, memVars, boxVars, twoVars
<1>2. TypesOK'
  BY <1>1 DEF BoardInv, TypesOK, CoreTypes, MemTypes, BoxTypes, TwoTypes
<1>3. StartInv' /\ PcInv'
  BY <1>1 DEF BoardInv, StartInv, PcInv
<1>4. Now' = Now /\ Base' = Base /\ Spot' = Spot
  BY <1>1 DEF Now, Base, Spot
<1>5. MemInv'
  <2>1. \A a : View(a)' = View(a)
    BY <1>1 DEF View
  <2>2. StoredInv'
    BY <1>1, <2>1 DEF BoardInv, MemInv, StoredInv, View
  <2>3. FlushedInv'
    BY <1>1 DEF BoardInv, MemInv, FlushedInv
  <2>4. WalkInv' /\ LoadInv'
    BY <1>1, <1>4 DEF BoardInv, MemInv, WalkInv, LoadInv
  <2>5. WindowInv'
    BY <1>1, <1>4 DEF BoardInv, MemInv, WindowInv, WinStart
  <2> QED BY <2>2, <2>3, <2>4, <2>5 DEF MemInv
<1>6. TwoInv'
  <2>1. Leftover' = Leftover /\ Started' = Started /\ RunPlace' = RunPlace
    BY <1>1, <1>4 DEF Leftover, Started, RunPlace
  <2>2. RunInv' /\ OffInv'
    BY <1>1, <2>1 DEF BoardInv, TwoInv, RunInv, OffInv
  <2>3. PlacedInv'
    BY <1>1, <1>4 DEF BoardInv, TwoInv, PlacedInv
  <2>4. ParkInv'
    BY <1>1, <1>4, <2>1 DEF BoardInv, TwoInv, ParkInv, ParkPlace
  <2>5. WatchInv'
    BY <1>1, <1>4 DEF BoardInv, TwoInv, WatchInv
  <2>6. SumInv' /\ ResultInv'
    BY <1>1, <1>4 DEF BoardInv, TwoInv, SumInv, ResultInv
  <2> QED BY <2>2, <2>3, <2>4, <2>5, <2>6 DEF TwoInv
<1>7. SaidInv'
  <2>1. Emitted' = Emitted /\ Popped' = Popped
    BY <1>1, <1>4 DEF Emitted, Popped
  <2>2. LogInv' /\ HeadInv'
    BY <1>1, <1>4, <2>1 DEF BoardInv, SaidInv, LogInv, HeadInv
  <2>3. UartInv' /\ CheckInv'
    BY <1>1, <1>4 DEF BoardInv, SaidInv, UartInv, CheckInv
  <2> QED BY <2>2, <2>3 DEF SaidInv
<1> QED BY <1>2, <1>3, <1>5, <1>6, <1>7 DEF BoardInv

\* Whatever the cache evicts and however the two cores interleave, each
\* dword the programs place, start and print is where BoardInv says.
THEOREM BoardInvariant == Spec => []BoardInv
<1>1. BoardInv /\ [Next]_vars => BoardInv'
  BY BoardStep, BoardStays
<1> QED BY InitInv, <1>1, PTL DEF Spec

\* Every variable keeps its type.
THEOREM TypesCorrect == Spec => []TypesOK
<1>1. BoardInv => TypesOK
  BY DEF BoardInv
<1> QED BY BoardInvariant, <1>1, PTL

\* Core 2 executes only dwords of the image stored last before its start:
\* what p2test and p2btest flush, and what the window holds, is what it
\* fetches, its text cache included (start_core2 clears RUN first).
THEOREM NoStaleTextCorrect == Spec => []NoStaleText
<1>1. BoardInv => NoStaleText
  BY Fetches DEF NoStaleText
<1> QED BY BoardInvariant, <1>1, PTL

\* The sum p2test compares was stored by core 2 for this run of p2test: the
\* invalidate before the load leaves no earlier one in core 1's cache.
THEOREM PassIsFreshCorrect == Spec => []PassIsFresh
<1>1. BoardInv => PassIsFresh
  <2> SUFFICES ASSUME BoardInv, Now.op = "checkSum" PROVE d.by = round
    BY DEF PassIsFresh
  <2>1. prog = "p2test" /\ pc = TwoSum + 21
    BY ProgTypes, AtCheckSum
  <2> QED BY <2>1 DEF BoardInv, TwoInv, ResultInv
<1> QED BY BoardInvariant, <1>1, PTL

\* A program of the board gates that halts has printed exactly the letters,
\* times and verdict its gate looks for.
THEOREM VerdictCorrect == Spec => []VerdictTrue
<1>1. BoardInv => VerdictTrue
  <2> SUFFICES ASSUME BoardInv, Now.op = "halt", round > 0 PROVE uart = Expected[prog]
    BY DEF VerdictTrue, Halted
  <2>1. /\ prog \in Programs /\ pc \in Place(prog) /\ At(prog, pc).op = "halt" /\ pc \in Nat
        /\ PcInv /\ UartInv /\ uart \in Seq(Names \X Int)
    BY ProgTypes DEF BoardInv, SaidInv, TypesOK, CoreTypes, Place
  <2>2. \/ prog = "p1test" /\ pc = OnePark + 4
        \/ prog = "p2test" /\ pc = TwoSum + 23
        \/ prog = "p2btest" /\ pc = 29
        \/ prog = "spinload" /\ pc = 8
    BY <2>1, AtHalt, PlaceNat DEF PcInv
  <2>3. Sends(prog, pc) = Len(Expected[prog])
    <3>1. CASE prog = "p1test" /\ pc = OnePark + 4
      <4>1. ~(pc <= OneFwd) /\ ~(pc <= OnePark + 1) /\ ~(pc <= OnePark + 3)
        BY <3>1, PlaceNat
      <4> QED BY Zenon, <2>1, <3>1, <4>1, SendsIs, ExpectedIs
    <3>2. CASE prog = "p2test" /\ pc = TwoSum + 23
      <4>1. ~(pc <= TwoFwd) /\ ~(pc < TwoData) /\ ~(pc <= TwoSum + 14) /\ ~(pc <= TwoSum + 22)
        BY <3>2, PlaceNat
      <4> QED BY Zenon, <2>1, <3>2, <4>1, SendsIs, ExpectedIs
    <3>3. CASE prog = "p2btest" /\ pc = 29
      <4>1. Sends("p2btest", 29) = 5
        BY SendsIs
      <4> QED BY <3>3, <4>1, ExpectedIs
    <3>4. CASE prog = "spinload" /\ pc = 8
      BY <2>1, <3>4, SendsIs, ExpectedIs
    <3> QED BY <2>2, <3>1, <3>2, <3>3, <3>4
  <2>4. Len(uart) = Len(Expected[prog]) /\ \A i \in 1 .. Len(uart) : uart[i] = Expected[prog][i]
    BY <2>1, <2>3 DEF UartInv
  <2>5. Expected[prog] \in Seq(Names \X Int)
    BY <2>1, ExpectedIs
  <2> QED BY <2>1, <2>4, <2>5, SeqEqual
<1> QED BY BoardInvariant, <1>1, PTL
=============================================================================
