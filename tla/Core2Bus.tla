------------------------------ MODULE Core2Bus ------------------------------
(***************************************************************************)
(* The second core's subsystem (core2_subsys.sv): the mailbox core 1       *)
(* controls it through, the bus core 2's port drives, its local RAM, the   *)
(* read cache of its text window, the log FIFO, and the adapters to DDR    *)
(* and to LiteEth.  Core 2 itself is the requests its port may make, core  *)
(* 1 the register writes it may make, and the arbiter and the DDR          *)
(* controller are what MemArbiter shows of them to one master.             *)
(*                                                                         *)
(* One step of Next is one rising edge of i_Clk (r_ce is held high).  A    *)
(* word is <<row, offset, bit>>: its place and one bit of its contents, so *)
(* data taken from the wrong place, or too early, can be told.             *)
(***************************************************************************)
EXTENDS Integers, Sequences

CONSTANTS
  Rows,           \* bound: 16-byte rows of local RAM
  Lines,          \* bound: 16-byte lines of DDR
  Text,           \* the lines in the text window: all share one cache line
  Con, Status, Eth, Nowhere,   \* the other places a request can go to
  NoWord,         \* stands for a register nobody looks at
  LogDepth,       \* LOG_DEPTH
  LogSlack,       \* how many bytes before that the FIFO says it is full
  Uses,           \* bound: what the two cores do, [asks, orders]
  PatientRestart  \* bound: core 1 sets RUN only when the adapter is idle

Places  == Rows \cup Lines \cup {Con, Status, Eth, Nowhere}
Word    == Places \X (0 .. 1) \X (0 .. 1)
Half    == [0 .. 1 -> Word]
Request == [wr : BOOLEAN, at : Places, off : 0 .. 1, val : 0 .. 1]
NoAsk   == [wr |-> FALSE, at |-> Nowhere, off |-> 0, val |-> 0]

\* Register writes: C2_CTRL, C2_WIN_ADDR (val: offset), C2_WIN_DATA, C2_LOG
\* and C2_ETH_OWNER.
Order   == [reg : {"ctrl", "wadr", "wdat", "pop", "own"}, at : Rows \cup {Nowhere},
            val : 0 .. 1]
NoOrder == [reg |-> "none", at |-> Nowhere, val |-> 0]

ASSUME PlacesAssumption ==
  /\ Text \subseteq Lines /\ Rows \cap Lines = {}
  /\ {Con, Status, Eth, Nowhere} \cap (Rows \cup Lines) = {}
  /\ Con # Status /\ Con # Eth /\ Con # Nowhere
  /\ Status # Eth /\ Status # Nowhere /\ Eth # Nowhere
ASSUME LogAssumption == LogDepth \in Nat \ {0} /\ LogSlack \in 1 .. LogDepth
ASSUME UsesAssumption ==
  /\ \A u \in Uses : u.asks \subseteq Request \ {NoAsk} /\ u.orders \subseteq Order
  /\ \A u \in Uses : \A o \in u.orders : o.reg = "wadr" => o.at \in Rows
  /\ PatientRestart \in BOOLEAN

VARIABLES
  use,                                 \* which of Uses this behaviour is
  mw, wrD,                             \* the MMIO strobe, r_wr_d
  run, dly, startPend, started,        \* r_run, r_start_*, core 2 runs
  owner,                               \* r_eth_owner
  win, winFetch, winData,              \* r_win_addr, _fetch, _data
  port, resp,                          \* core 2's port; m2_ready and m2_rdata*
  ph, q,                               \* the bus FSM and its latched request
  ram, ramq,                           \* local RAM and r_ram_q
  ct, ctq,                             \* text cache line, and as looked up
  dgo, ddone, drd, dph, dgap,          \* DDR adapter
  req, done, rdv, wdv, daddr, wdata,   \* its outputs to the arbiter
  grant, ctl, ready, mem,              \* arbiter, controller and memory
  ego, edone, edv, eready,             \* LiteEth adapter and its bridge
  logPush, fifo,                       \* r_log_push, the log FIFO
  mayPush, sent, popped                \* history: console software, bytes mod 2

mailVars == <<use, mw, wrD, run, dly, startPend, started, owner>>
winVars  == <<win, winFetch, winData>>
busVars  == <<port, resp, ph, q, dgo, ego, ct, ctq>>
ddrVars  == <<ddone, drd, dph, dgap, req, done, rdv, wdv, daddr, wdata>>
memVars  == <<grant, ctl, ready, mem>>
ethVars  == <<edone, edv, eready>>
logVars  == <<logPush, fifo, mayPush, sent, popped>>
vars == <<mailVars, winVars, busVars, ram, ramq, ddrVars, memVars, ethVars, logVars>>

NoLine == [at |-> Nowhere, data |-> NoWord]
NoResp == [ok |-> FALSE, word |-> NoWord, next |-> NoWord]

TypeOK ==
  /\ use \in Uses /\ mw \in use.orders \cup {NoOrder} /\ wrD \in BOOLEAN
  /\ run \in BOOLEAN /\ dly \in 0 .. 2 /\ startPend \in BOOLEAN /\ started \in BOOLEAN
  /\ owner \in BOOLEAN
  /\ win \in Rows \X (0 .. 1) /\ winFetch \in 0 .. 2 /\ winData \in Word \cup {NoWord}
  /\ port \in use.asks \cup {NoAsk} /\ q \in use.asks \cup {NoAsk}
  /\ resp \in [ok : BOOLEAN, word : Word \cup {NoWord}, next : Word \cup {NoWord}]
  /\ ph \in {"IDLE", "RESP", "DDR", "CLOOK", "ETH"}
  /\ ram \in [Rows -> [0 .. 1 -> 0 .. 1]] /\ ramq \in Half
  /\ {ct, ctq} \subseteq [at : Text, data : Half] \cup {NoLine}
  /\ {dgo, ddone, req, done, rdv, wdv, grant, ready, ego, edone, edv, eready,
      logPush, mayPush} \subseteq BOOLEAN
  /\ drd \in Half \cup {NoWord} /\ dph \in {"IDLE", "REQ", "DRIVE", "GAP"} /\ dgap \in 0 .. 2
  /\ daddr \in Lines \cup {Nowhere} /\ wdata \in [half : {"hi", "lo"}, val : 0 .. 1]
  /\ ctl \in {"IDLE", "WAIT", "RD", "WR"} /\ mem \in [Lines -> [0 .. 1 -> 0 .. 1]]
  /\ fifo \in Seq(0 .. 1) /\ Len(fifo) <= LogDepth /\ {sent, popped} \subseteq 0 .. 1

Contents(store, row) == [o \in 0 .. 1 |-> <<row, o, store[row][o]>>]

Init ==
  /\ use \in Uses /\ mw = NoOrder /\ wrD = FALSE
  /\ run = FALSE /\ dly = 0 /\ startPend = FALSE /\ started = FALSE /\ owner = FALSE
  /\ win \in Rows \X {0} /\ winFetch = 0 /\ winData = NoWord
  /\ port = NoAsk /\ resp = NoResp /\ ph = "IDLE" /\ q = NoAsk
  /\ ram = [r \in Rows |-> [o \in 0 .. 1 |-> 0]] /\ ramq = Contents(ram, win[1])
  /\ ct = NoLine /\ ctq = NoLine
  /\ dgo = FALSE /\ ddone = FALSE /\ drd = NoWord /\ dph = "IDLE" /\ dgap = 0
  /\ req = FALSE /\ done = FALSE /\ rdv = FALSE /\ wdv = FALSE
  /\ daddr = Nowhere /\ wdata = [half |-> "hi", val |-> 0]
  /\ grant = FALSE /\ ctl = "WAIT" /\ ready = FALSE
  /\ mem = [l \in Lines |-> [o \in 0 .. 1 |-> 0]]
  /\ ego = FALSE /\ edone = FALSE /\ edv = FALSE /\ eready = FALSE
  /\ logPush = FALSE /\ fifo = <<>> /\ mayPush = FALSE /\ sent = 0 /\ popped = 0

-----------------------------------------------------------------------------
(* Core 1's side of the mailbox.  A strobe lasts any number of clocks, and *)
(* is low for at least one between two writes.                             *)

Drained == dph = "IDLE" /\ ~dgo

\* Core 1 pops only a byte it has read as valid.
Allowed(o) ==
  /\ o.reg = "pop" => fifo # <<>>
  /\ o.reg = "ctrl" /\ o.val = 1 /\ ~run /\ PatientRestart => Drained

Strobe ==
  /\ wrD' = (mw # NoOrder)
  /\ \/ mw = NoOrder /\ UNCHANGED <<mw, popped>>
     \/ /\ mw = NoOrder
        /\ \E o \in use.orders :
             /\ Allowed(o) /\ mw' = o
             /\ popped' = IF o.reg = "pop" THEN 1 - popped ELSE popped
     \/ mw # NoOrder /\ mw' \in {mw, NoOrder} /\ UNCHANGED popped

\* Mutant of WrEdge: a strobe is a write in every clock it lasts.
WrEdgeLevel(reg) == mw.reg = reg
WrEdge(reg)      == mw.reg = reg /\ ~wrD

ControlRegs ==
  /\ run'   = IF WrEdge("ctrl") THEN mw.val = 1 ELSE run
  /\ owner' = IF WrEdge("own") THEN mw.val = 1 ELSE owner

WindowWrite == WrEdge("wdat") /\ ~run

\* Mutant of Window: the prefetch is taken a clock early.
WindowEarly ==
  /\ winFetch' = IF WrEdge("wadr") THEN 2 ELSE 0
  /\ winData'  = IF winFetch = 2 THEN ramq[win[2]] ELSE winData
  /\ \/ WrEdge("wadr") /\ win' = <<mw.at, mw.val>>
     \/ WindowWrite /\ win[2] = 0 /\ win' = <<win[1], 1>>
     \/ WindowWrite /\ win[2] = 1 /\ \E r \in Rows : win' = <<r, 0>>
     \/ ~WrEdge("wadr") /\ ~WindowWrite /\ UNCHANGED win

\* The address counts up from word to word (rows have no order here).
Window ==
  /\ winFetch' = IF WrEdge("wadr") THEN 1 ELSE IF winFetch = 1 THEN 2 ELSE 0
  /\ winData'  = IF winFetch = 2 THEN ramq[win[2]] ELSE winData
  /\ \/ WrEdge("wadr") /\ win' = <<mw.at, mw.val>>
     \/ WindowWrite /\ win[2] = 0 /\ win' = <<win[1], 1>>
     \/ WindowWrite /\ win[2] = 1 /\ \E r \in Rows : win' = <<r, 0>>
     \/ ~WrEdge("wadr") /\ ~WindowWrite /\ UNCHANGED win

\* RUN releases core 2's reset; two clocks later it is told once to start.
StartSequence ==
  IF ~run THEN startPend' = FALSE /\ dly' = 0
  ELSE IF dly # 2 THEN dly' = dly + 1 /\ startPend' = (dly = 1)
  ELSE startPend' = FALSE /\ UNCHANGED dly

-----------------------------------------------------------------------------
(* Core 2: a request stays on its port until m2_ready; the next one may    *)
(* follow in that clock.  A console byte is sent only after a STATUS read  *)
(* that did not say busy.  RUN low is its reset.                           *)

\* Whether software may send a byte, once a STATUS read is answered.
MayPush == IF resp.ok /\ port.at = Status /\ ~port.wr
           THEN resp.word[3] = 0 ELSE mayPush

NextAsk ==
  \/ port' = NoAsk /\ mayPush' = MayPush
  \/ \E a \in use.asks \ {port} :
       /\ a.at = Con => MayPush
       /\ port' = a /\ mayPush' = (MayPush /\ a.at # Con)

CoreStep ==
  /\ started' = (run /\ (started \/ startPend))
  /\ \/ ~run /\ port' = NoAsk /\ mayPush' = FALSE
     \/ run /\ ~started /\ UNCHANGED <<port, mayPush>>
     \/ run /\ started /\ port # NoAsk /\ ~resp.ok /\ UNCHANGED <<port, mayPush>>
     \/ run /\ started /\ (port = NoAsk \/ resp.ok) /\ NextAsk

-----------------------------------------------------------------------------
(* The bus FSM.  Its data registers are kept here only while m2_ready is   *)
(* up, the one clock in which core 2 looks at them.                        *)

Answer(word, next) == [ok |-> TRUE, word |-> word, next |-> next]
Pair(data) == Answer(data[q.off], IF q.off = 0 THEN data[1] ELSE NoWord)
Ack == Answer(NoWord, NoWord)

LogFull == Len(fifo) >= LogDepth - LogSlack

BusStopped ==
  /\ ~run /\ ph' = "IDLE" /\ resp' = NoResp /\ dgo' = FALSE /\ ego' = FALSE
  /\ logPush' = FALSE /\ UNCHANGED <<q, sent>>

BusIdle ==
  /\ ph = "IDLE" /\ resp' = NoResp /\ logPush' = FALSE /\ UNCHANGED sent
  /\ \/ (resp.ok \/ port = NoAsk) /\ UNCHANGED <<ph, q, dgo, ego>>
     \/ /\ ~resp.ok /\ port # NoAsk /\ q' = port
        /\ \/ port.at = Eth /\ ego' = TRUE /\ ph' = "ETH" /\ UNCHANGED dgo
           \/ /\ port.at \in Text /\ ~port.wr
              /\ ph' = "CLOOK" /\ UNCHANGED <<dgo, ego>>
           \/ /\ port.at \in Lines /\ (port.wr \/ port.at \notin Text)
              /\ dgo' = TRUE /\ ph' = "DDR" /\ UNCHANGED ego
           \/ /\ port.at \notin Lines \cup {Eth}
              /\ ph' = "RESP" /\ UNCHANGED <<dgo, ego>>

BusCtLook ==
  /\ ph = "CLOOK" /\ logPush' = FALSE /\ UNCHANGED <<q, ego, sent>>
  /\ IF ctq.at = q.at
     THEN resp' = Pair(ctq.data) /\ ph' = "IDLE" /\ UNCHANGED dgo
     ELSE dgo' = TRUE /\ ph' = "DDR" /\ resp' = NoResp

BusResp ==
  /\ ph = "RESP" /\ ph' = "IDLE" /\ UNCHANGED <<q, dgo, ego>>
  /\ resp' = IF q.wr \/ q.at = Nowhere THEN Ack
             ELSE IF q.at \in Rows THEN Pair(ramq)
             ELSE Answer(<<q.at, 0, IF q.at = Status /\ LogFull THEN 1 ELSE 0>>, NoWord)
  /\ logPush' = (q.wr /\ q.at = Con)
  /\ sent' = IF q.wr /\ q.at = Con THEN 1 - sent ELSE sent

BusEth ==
  /\ ph = "ETH" /\ logPush' = FALSE /\ UNCHANGED <<q, dgo, sent>>
  /\ IF edone THEN resp' = Ack /\ ego' = FALSE /\ ph' = "IDLE"
              ELSE resp' = NoResp /\ UNCHANGED <<ego, ph>>

BusDdr ==
  /\ ph = "DDR" /\ logPush' = FALSE /\ UNCHANGED <<q, ego, sent>>
  /\ IF ddone THEN /\ resp' = (IF q.wr THEN Ack ELSE Pair(drd))
                   /\ dgo' = FALSE /\ ph' = "IDLE"
              ELSE resp' = NoResp /\ UNCHANGED <<dgo, ph>>

Bus == BusStopped \/ (run /\ (BusIdle \/ BusCtLook \/ BusResp \/ BusEth \/ BusDdr))

-----------------------------------------------------------------------------
(* Local RAM has one port: the bus's while RUN, the window's else.         *)

RamRow == IF ~run THEN win[1] ELSE IF ph = "IDLE" THEN port.at ELSE q.at

CoreRamWrite == run /\ ph = "RESP" /\ q.wr /\ q.at \in Rows

Ram ==
  /\ ramq' = IF RamRow \in Rows THEN Contents(ram, RamRow) ELSE ramq
  /\ ram'  = IF CoreRamWrite THEN [ram EXCEPT ![q.at][q.off] = q.val]
             ELSE IF WindowWrite THEN [ram EXCEPT ![win[1]][win[2]] = mw.val] ELSE ram

\* Mutant of TextCache: the cache lives through a stop of core 2.
TextCacheKept ==
  /\ ctq' = ct
  /\ ct'  = IF ph = "DDR" /\ ddone /\ q.at \in Text
            THEN IF q.wr THEN NoLine ELSE [at |-> q.at, data |-> drd]
            ELSE ct

\* Tag, data and valid bit of the one line; the look-up takes a clock.
TextCache ==
  /\ ctq' = IF run THEN ct ELSE NoLine
  /\ ct'  = IF ~run THEN NoLine
            ELSE IF ph = "DDR" /\ ddone /\ q.at \in Text
            THEN IF q.wr THEN NoLine ELSE [at |-> q.at, data |-> drd]
            ELSE ct

-----------------------------------------------------------------------------
(* The DDR adapter is reset with the board only.  drd is kept here only    *)
(* while ddone is up, the clocks in which the bus may look at it.          *)

\* Mutant of DdrIdle: ddone is not taken back.
DdrIdleKept ==
  /\ dph = "IDLE" /\ done' = FALSE /\ UNCHANGED <<dgap, rdv, wdv, daddr, wdata>>
  /\ UNCHANGED <<ddone, drd>>
  /\ IF dgo /\ ~ddone THEN req' = TRUE /\ dph' = "REQ" ELSE UNCHANGED <<req, dph>>

DdrIdle ==
  /\ dph = "IDLE" /\ done' = FALSE /\ UNCHANGED <<dgap, rdv, wdv, daddr, wdata>>
  /\ IF dgo THEN UNCHANGED <<ddone, drd>> ELSE ddone' = FALSE /\ drd' = NoWord
  /\ IF dgo /\ ~ddone THEN req' = TRUE /\ dph' = "REQ" ELSE UNCHANGED <<req, dph>>

\* The wire carries the addressed (even) dword in its high half.
DdrReq ==
  /\ dph = "REQ" /\ done' = FALSE /\ UNCHANGED <<ddone, drd, dgap, req>>
  /\ IF grant
     THEN /\ daddr' = q.at /\ dph' = "DRIVE"
          /\ IF q.wr THEN /\ wdv' = TRUE /\ UNCHANGED rdv
                          /\ wdata' = [half |-> IF q.off = 1 THEN "lo" ELSE "hi",
                                       val |-> q.val]
                     ELSE rdv' = TRUE /\ UNCHANGED <<wdv, wdata>>
     ELSE UNCHANGED <<rdv, wdv, daddr, wdata, dph>>

Wire == [hi |-> <<daddr, 0, mem[daddr][0]>>, lo |-> <<daddr, 1, mem[daddr][1]>>]
SwapIn == [o \in 0 .. 1 |-> IF o = 0 THEN Wire.hi ELSE Wire.lo]

DdrEnd == done' = TRUE /\ req' = FALSE /\ ddone' = TRUE /\ dph' = "IDLE"

DdrDrive ==
  /\ dph = "DRIVE" /\ UNCHANGED <<daddr, wdata>>
  /\ IF ~(ready /\ grant)
     THEN done' = FALSE /\ UNCHANGED <<ddone, drd, dph, dgap, req, rdv, wdv>>
     ELSE IF q.wr
     THEN /\ wdv' = FALSE /\ dgap' = 2 /\ dph' = "GAP" /\ done' = FALSE
          /\ UNCHANGED <<ddone, drd, req, rdv>>
     ELSE drd' = SwapIn /\ rdv' = FALSE /\ DdrEnd /\ UNCHANGED <<wdv, dgap>>

DdrGap ==
  /\ dph = "GAP" /\ UNCHANGED <<drd, rdv, wdv, daddr, wdata>>
  /\ IF dgap = 0 THEN DdrEnd /\ UNCHANGED dgap
     ELSE dgap' = dgap - 1 /\ done' = FALSE /\ UNCHANGED <<ddone, dph, req>>

\* Mutant of Ddr: stopping core 2 resets its adapter too.
DdrReset ==
  \/ run /\ (DdrIdle \/ DdrReq \/ DdrDrive \/ DdrGap)
  \/ /\ ~run /\ dph' = "IDLE" /\ ddone' = FALSE /\ drd' = NoWord
     /\ req' = FALSE /\ done' = FALSE /\ rdv' = FALSE /\ wdv' = FALSE
     /\ UNCHANGED <<dgap, daddr, wdata>>

Ddr == DdrIdle \/ DdrReq \/ DdrDrive \/ DdrGap

-----------------------------------------------------------------------------
(* The arbiter and the controller as one master sees them: granted some    *)
(* time after req, in WAIT when granted, ready a one-clock pulse; the      *)
(* arbiter's drain of an orphaned tenure is not relied on.  While others   *)
(* have the controller, core 1 may replace core 2's text if core 2 is      *)
(* stopped.                                                                *)

Grant ==
  \/ ~grant /\ req /\ grant' = TRUE
  \/ ~grant /\ UNCHANGED grant
  \/ grant /\ grant' = ~done

Loaded == [l \in Lines |-> IF l \in Text THEN [o \in 0 .. 1 |-> 1 - mem[l][o]] ELSE mem[l]]

Others ==
  /\ ~grant /\ ctl' = "WAIT" /\ ready' = FALSE
  /\ \/ UNCHANGED mem
     \/ ~run /\ mw = NoOrder /\ mem' = Loaded

CtlWait ==
  /\ grant /\ ctl = "WAIT" /\ UNCHANGED <<mem, ready>>
  /\ ctl' = IF wdv THEN "WR" ELSE IF rdv THEN "RD" ELSE "WAIT"

CtlBusy == grant /\ ctl \in {"RD", "WR"} /\ UNCHANGED <<ctl, ready, mem>>

CtlDone ==
  /\ grant /\ ctl \in {"RD", "WR"} /\ ctl' = "IDLE" /\ ready' = TRUE
  /\ mem' = IF ctl = "RD" THEN mem
            ELSE [mem EXCEPT ![daddr][IF wdata.half = "hi" THEN 0 ELSE 1] = wdata.val]

CtlIdle ==
  /\ grant /\ ctl = "IDLE" /\ ready' = FALSE /\ UNCHANGED mem
  /\ ctl' = IF rdv \/ wdv THEN "IDLE" ELSE "WAIT"

Memory == Grant /\ (Others \/ CtlWait \/ CtlBusy \/ CtlDone \/ CtlIdle)

-----------------------------------------------------------------------------
(* LiteEth: the top routes the request to the bridge, and the bridge's     *)
(* ready back, only while core 2 owns it; the data is not followed.        *)

\* Mutant of EthAdapter: without the bridge it waits for it all the same.
EthAdapterWaits ==
  /\ eready' \in IF edv /\ owner /\ ~eready THEN BOOLEAN ELSE {FALSE}
  /\ \/ ~ego /\ edv' = FALSE /\ edone' = FALSE
     \/ ego /\ edone /\ UNCHANGED <<edv, edone>>
     \/ ego /\ ~edone /\ ~edv /\ edv' = TRUE /\ UNCHANGED edone
     \/ ego /\ ~edone /\ edv /\ edone' = (eready /\ owner) /\ edv' = ~(eready /\ owner)

EthAdapter ==
  /\ eready' \in IF edv /\ owner /\ ~eready THEN BOOLEAN ELSE {FALSE}
  /\ \/ ~ego /\ edv' = FALSE /\ edone' = FALSE
     \/ ego /\ edone /\ UNCHANGED <<edv, edone>>
     \/ ego /\ ~edone /\ ~owner /\ edone' = TRUE /\ UNCHANGED edv
     \/ ego /\ ~edone /\ owner /\ ~edv /\ edv' = TRUE /\ UNCHANGED edone
     \/ ego /\ ~edone /\ owner /\ edv /\ edone' = eready /\ edv' = ~eready

-----------------------------------------------------------------------------
(* The log FIFO: core 2's bytes, alternately 0 and 1, in; core 1's pops    *)
(* out.  Both may happen in one clock.                                     *)

LogFifo ==
  LET pushes == logPush /\ Len(fifo) # LogDepth
      pops   == WrEdge("pop") /\ fifo # <<>>
      kept   == IF pops THEN Tail(fifo) ELSE fifo
  IN fifo' = IF pushes THEN Append(kept, 1 - sent) ELSE kept

Next ==
  /\ UNCHANGED use
  /\ Strobe /\ ControlRegs /\ Window /\ StartSequence /\ CoreStep
  /\ Bus /\ Ram /\ TextCache /\ Ddr /\ Memory /\ EthAdapter /\ LogFifo

\* The clock runs, the arbiter grants in the end (MemArbiter), the controller
\* and the bridge answer.
Fairness ==
  /\ WF_vars(Next)
  /\ []<>(grant \/ ~req) /\ []<>(ctl \notin {"RD", "WR"})
  /\ []<>(eready \/ ~edv \/ ~owner)

Spec == Init /\ [][Next]_vars /\ Fairness

-----------------------------------------------------------------------------
(* Properties.                                                             *)

Stored(a) == IF a.at \in Rows THEN ram[a.at] ELSE mem[a.at]
Answered(wr) == /\ resp.ok /\ started /\ run /\ port # NoAsk
                /\ port.wr = wr /\ port.at \in Rows \cup Lines

\* What core 2 reads, and the next dword the bus hands it along, is what local
\* RAM and DDR hold: of the place it asked for, after its own earlier stores,
\* and of the text core 1 loaded before this start (core2_subsys.sv:226-299,
\* 335-391).
ReadsMemory ==
  Answered(FALSE) => /\ resp.word = <<port.at, port.off, Stored(port)[port.off]>>
                     /\ resp.next # NoWord =>
                          resp.next = <<port.at, 1, Stored(port)[1]>>

\* A store core 2 has the answer to is in memory: the adapter's done is that
\* store's (core2_subsys.sv:382-391, 416-466).
StoreDone == Answered(TRUE) => Stored(port)[port.off] = port.val

\* However core 1 stops core 2, the adapter ends its tenure itself, or the cache
\* would never have the bus again (core2_subsys.sv:407-410).
BusReleased == grant ~> ~grant

\* Core 2's port is always answered, until it is stopped: whatever the place,
\* and whoever owns LiteEth (core2_subsys.sv:34, 470-475).
PortAnswered == port # NoAsk ~> (resp.ok \/ ~run)

\* Core 1 gets every byte core 2's console software sent, once and in order,
\* over stops of core 2 and over pops in the clock of a push
\* (core2_subsys.sv:560-592).
LogInOrder ==
  mw.reg # "pop" =>
    /\ \A i \in DOMAIN fifo : fifo[i] = (popped + i - 1) % 2
    /\ sent = (popped + Len(fifo) + (IF logPush THEN 1 ELSE 0)) % 2

\* The window's prefetch is what RAM holds at the address written last, while
\* core 2 is stopped (core2_subsys.sv:508-541).
WindowReadsBack ==
  [][winFetch = 2 /\ ~run => winData' = Contents(ram, win[1])[win[2]]]_vars

\* When the adapter is idle nothing of its last transaction is left on its
\* outputs (core2_subsys.sv:407-410: it "simply drains and idles").
DrainsAndIdles == dph = "IDLE" => ~rdv /\ ~wdv
=============================================================================
