--------------------------- MODULE Core2BusProofs ---------------------------
(***************************************************************************)
(* Proofs about Core2Bus: what core 2 reads is what is stored, a store it  *)
(* has the answer to is in memory, the log loses and reorders nothing, and *)
(* the window reads back what it wrote.                                    *)
(***************************************************************************)
EXTENDS Core2Bus, SequenceTheorems, TLAPS

\* The bus works for the request that is on core 2's port, from the clock it
\* takes it to the clock it answers.
PortInv ==
  /\ use \in Uses /\ mw \in use.orders \cup {NoOrder}
  /\ port \in use.asks \cup {NoAsk} /\ q \in use.asks \cup {NoAsk}
  /\ ph \in {"IDLE", "RESP", "DDR", "CLOOK", "ETH"}
  /\ {run, resp.ok, dgo} \subseteq BOOLEAN
  /\ ph # "IDLE" \/ resp.ok => q = port /\ port # NoAsk
  /\ resp.ok => ph = "IDLE"
  /\ ph = "CLOOK" => q.at \in Text /\ ~q.wr
  /\ ph = "RESP" => q.at \notin Lines \cup {Eth}
  /\ ph = "DDR" => q.at \in Lines
  /\ ph = "ETH" => q.at = Eth
  /\ dgo <=> ph = "DDR"
  /\ port # NoAsk => started

Taking == IF mw.reg = "pop" /\ ~wrD THEN 1 ELSE 0
Coming == IF logPush THEN 1 ELSE 0

\* The bytes in the FIFO count on from those popped (the pop that is on the
\* strobe included), and from them to the byte sent last; whoever may send a
\* byte, or is about to, has room for it.
LogInv ==
  /\ fifo \in Seq(0 .. 1) /\ {sent, popped} \subseteq 0 .. 1
  /\ {wrD, logPush, mayPush} \subseteq BOOLEAN
  /\ \A i \in DOMAIN fifo : fifo[i] = (popped + Taking + i - 1) % 2
  /\ sent = (popped + Taking + Len(fifo) + Coming) % 2
  /\ Taking = 1 => fifo # <<>>
  /\ Len(fifo) <= LogDepth
  /\ logPush => resp.ok /\ port.at = Con /\ Len(fifo) < LogDepth
  /\ mayPush => Len(fifo) < LogDepth
  /\ port.at = Con => ~mayPush
  /\ port.at = Con /\ ~resp.ok => Len(fifo) < LogDepth
  /\ resp.ok /\ port.at = Status /\ ~port.wr /\ resp.word[3] = 0 => Len(fifo) < LogDepth

\* The prefetch takes its word a clock after the row was looked up.
WindowInv ==
  /\ win \in Rows \X (0 .. 1) /\ winFetch \in 0 .. 2
  /\ winFetch = 1 => wrD
  /\ winFetch = 2 /\ ~run => ramq = Contents(ram, win[1])

\* What each phase of the adapter leaves on its outputs, and where the arbiter and
\* the controller are meanwhile.
AtRest  == /\ ~req /\ ~rdv /\ ~wdv /\ ~ready /\ ctl \in {"IDLE", "WAIT"}
           /\ grant => done
Asking  == ~rdv /\ ~wdv /\ ~ready /\ ctl = "WAIT"
Driving == /\ grant /\ (wdv <=> q.wr) /\ (rdv <=> ~q.wr) /\ daddr = q.at
           /\ q.wr => wdata = [half |-> IF q.off = 1 THEN "lo" ELSE "hi", val |-> q.val]
           /\ ctl \in {"WAIT", "IDLE", IF q.wr THEN "WR" ELSE "RD"}
           /\ ready <=> ctl = "IDLE"
Ending  == grant /\ ~rdv /\ ~wdv /\ ~ready /\ q.wr /\ ctl \in {"IDLE", "WAIT"}

\* The adapter works for the latched request, and is at rest when core 1 sets RUN.
AdapterInv ==
  /\ {req, done, rdv, wdv, grant, ready, ddone} \subseteq BOOLEAN
  /\ dph \in {"IDLE", "REQ", "DRIVE", "GAP"}
  /\ mw.reg = "ctrl" /\ mw.val = 1 /\ ~wrD /\ ~run => Drained
  /\ ddone => dph = "IDLE"
  /\ done => grant /\ ddone
  /\ run /\ dph # "IDLE" => dgo
  /\ run /\ ddone => dgo \/ resp.ok
  /\ dph # "IDLE" => req /\ q # NoAsk /\ q.at \in Lines
  /\ ~grant => ctl = "WAIT" /\ ~ready
  /\ dph = "IDLE" => AtRest
  /\ dph = "REQ" => Asking
  /\ dph = "DRIVE" => Driving
  /\ dph = "GAP" => Ending

IsStored(a) == Stored(a)[a.off] = a.val
Rewriting   == q.wr /\ q.at \in Text /\ (ph = "DDR" \/ resp.ok)

\* Every copy on its way to core 2 is what the store holds: the RAM's word, the
\* adapter's, the text line and the line as looked up; a line core 2 is writing
\* itself is stale until the write is done, and not looked at.
DataInv ==
  /\ mem \in [Lines -> [0 .. 1 -> 0 .. 1]] /\ ram \in [Rows -> [0 .. 1 -> 0 .. 1]]
  /\ {ct.at, ctq.at} \subseteq Text \cup {Nowhere}
  /\ run /\ ph = "RESP" /\ q.at \in Rows => ramq = Contents(ram, q.at)
  /\ q.wr /\ (dph = "GAP" \/ (dph = "DRIVE" /\ ready)) => IsStored(q)
  /\ run /\ ddone /\ q.wr => IsStored(q)
  /\ run /\ ddone /\ ~q.wr => drd = Contents(mem, q.at)
  /\ run /\ ct.at # Nowhere /\ ~(Rewriting /\ ph = "DDR") => ct.data = Contents(mem, ct.at)
  /\ run /\ ctq.at # Nowhere /\ ~Rewriting => ctq.data = Contents(mem, ctq.at)

Answers ==
  /\ run /\ resp.ok /\ q.at \in Rows \cup Lines =>
       IF q.wr THEN IsStored(q)
       ELSE /\ resp.word = <<q.at, q.off, Stored(q)[q.off]>>
            /\ resp.next # NoWord => resp.next = <<q.at, 1, Stored(q)[1]>>
-----------------------------------------------------------------------------
\* Core 2 drops or changes a request only once it is answered, or when it is
\* stopped (core2_subsys.sv:29-35, 335-391).
LEMMA PortKept ==
  ASSUME PortInv, Next
  PROVE  /\ port' \in use.asks \cup {NoAsk}
         /\ run /\ ~resp.ok /\ port # NoAsk => port' = port
         /\ ~run => port' = NoAsk
         /\ port' # NoAsk => started'
<1>1. /\ port' \in use.asks \cup {NoAsk}
      /\ run /\ ~resp.ok /\ port # NoAsk => port' = port
      /\ ~run => port' = NoAsk
  BY DEF PortInv, Next, CoreStep, NextAsk
<1>2. port' # NoAsk => run /\ started
  BY DEF PortInv, Next, CoreStep
<1>3. run /\ started => started'
  BY Zenon DEF Next, CoreStep
<1> QED BY <1>1, <1>2, <1>3

\* Taking a request: it is the one on the port, and the phase fits its place.
LEMMA TakeStep ==
  ASSUME PortInv, Next, run, BusIdle
  PROVE  /\ resp'.ok = FALSE /\ dgo' \in BOOLEAN
         /\ q' \in use.asks \cup {NoAsk}
         /\ ph' \in {"IDLE", "RESP", "DDR", "CLOOK", "ETH"}
         /\ ph' # "IDLE" => q' = port /\ port # NoAsk /\ port' = port
         /\ ph' = "CLOOK" => q'.at \in Text /\ ~q'.wr
         /\ ph' = "RESP" => q'.at \notin Lines \cup {Eth}
         /\ ph' = "DDR" => q'.at \in Lines
         /\ ph' = "ETH" => q'.at = Eth
         /\ dgo' <=> ph' = "DDR"
<1>1. resp'.ok = FALSE
  BY DEF BusIdle, NoResp
<1>2. dgo' \in BOOLEAN
  BY Zenon DEF BusIdle, PortInv
<1>3. CASE (resp.ok \/ port = NoAsk) /\ UNCHANGED <<ph, q, dgo, ego>>
  BY <1>1, <1>2, <1>3 DEF BusIdle, PortInv
<1>4. CASE ~resp.ok /\ port # NoAsk /\ q' = port
  <2>1. port' = port
    BY <1>4, PortKept
  <2> QED BY <1>1, <1>2, <1>4, <2>1, PlacesAssumption DEF BusIdle, PortInv
<1> QED BY <1>3, <1>4 DEF BusIdle

\* An answer is given in the clock the FSM goes back to IDLE, for the request it
\* has latched.
LEMMA ServeStep ==
  ASSUME PortInv, Next, run, ~BusIdle
  PROVE  /\ q' = q /\ ph # "IDLE" /\ ~resp.ok /\ port' = port
         /\ resp'.ok \in BOOLEAN
         /\ resp'.ok <=> ph' = "IDLE"
         /\ ph' \in {"IDLE", "DDR", ph} /\ (dgo' <=> ph' = "DDR")
         /\ dgo' \in BOOLEAN
         /\ ph' = "DDR" => ph \in {"CLOOK", "DDR"}
<1>1. BusCtLook \/ BusResp \/ BusEth \/ BusDdr
  BY DEF Next, Bus, BusStopped
<1>2. /\ q' = q /\ ph # "IDLE"
      /\ ph' \in {"IDLE", "DDR", ph}
      /\ ph' = "DDR" => ph \in {"CLOOK", "DDR"}
  BY <1>1 DEF BusCtLook, BusResp, BusEth, BusDdr
<1>3. ~resp.ok /\ port' = port
  BY <1>2, PortKept DEF PortInv
<1>4. Ack.ok = TRUE /\ NoResp.ok = FALSE /\ \A data : Pair(data).ok = TRUE
  BY DEF Ack, NoResp, Pair, Answer
<1>5. (resp'.ok = TRUE /\ ph' = "IDLE") \/ (resp'.ok = FALSE /\ ph' # "IDLE")
  <2>1. CASE BusCtLook
    BY <1>4, <2>1 DEF BusCtLook
  <2>2. CASE BusResp
    BY <1>4, <2>2 DEF BusResp, Answer
  <2>3. CASE BusEth
    BY <1>4, <2>3 DEF BusEth
  <2>4. CASE BusDdr
    BY <1>4, <2>4 DEF BusDdr
  <2> QED BY <1>1, <2>1, <2>2, <2>3, <2>4
<1>6. dgo' \in BOOLEAN /\ (dgo' <=> ph' = "DDR")
  <2>1. CASE BusCtLook
    BY <2>1, Zenon DEF PortInv, BusCtLook
  <2>2. CASE BusResp
    BY <2>2, Zenon DEF PortInv, BusResp
  <2>3. CASE BusEth
    BY <2>3, Zenon DEF PortInv, BusEth
  <2>4. CASE BusDdr
    BY <2>4, Zenon DEF PortInv, BusDdr
  <2> QED BY <1>1, <2>1, <2>2, <2>3, <2>4
<1> QED BY <1>2, <1>3, <1>5, <1>6

\* The bus FSM and core 2's port keep step (core2_subsys.sv:335-391).
LEMMA PortStep ==
  ASSUME PortInv, Next
  PROVE  PortInv'
<1>1. use' \in Uses /\ mw' \in use'.orders \cup {NoOrder}
  BY DEF PortInv, Next, Strobe
<1>2. run' \in BOOLEAN
  BY DEF PortInv, Next, ControlRegs
<1>3. use' = use
  BY DEF Next
<1>4. CASE ~run
  <2>1. BusStopped
    BY <1>4 DEF Next, Bus
  <2>2. resp'.ok = FALSE /\ ph' = "IDLE" /\ q' = q /\ port' = NoAsk
    BY <1>4, <2>1, PortKept DEF BusStopped, NoResp
  <2>3. dgo' \in BOOLEAN /\ ~dgo'
    BY <2>1, Zenon DEF BusStopped
  <2> QED BY <1>1, <1>2, <1>3, <2>2, <2>3 DEF PortInv
<1>5. CASE run /\ BusIdle
  BY <1>1, <1>2, <1>3, <1>5, PortKept, TakeStep DEF PortInv
<1>6. CASE run /\ ~BusIdle
  BY <1>1, <1>2, <1>3, <1>6, PortKept, ServeStep, PlacesAssumption DEF PortInv
<1> QED BY <1>4, <1>5, <1>6 DEF PortInv
-----------------------------------------------------------------------------
\* A pop takes the number of bytes popped on by one, when its strobe starts.
LEMMA TakingStep ==
  ASSUME PortInv, LogInv, Next
  PROVE  /\ popped' \in 0 .. 1 /\ wrD' \in BOOLEAN /\ Taking' \in 0 .. 1
         /\ (popped' + Taking') % 2 = popped
         /\ Taking' = 1 => Taking = 0 /\ fifo # <<>> /\ mw = NoOrder
<1>1. wrD' \in BOOLEAN
  BY Zenon DEF Next, Strobe
<1>2. CASE mw = NoOrder /\ UNCHANGED <<mw, popped>>
  BY <1>1, <1>2 DEF LogInv, Taking, NoOrder
<1>3. CASE mw # NoOrder
  <2>1. wrD' /\ popped' = popped
    BY <1>3, Zenon DEF Next, Strobe
  <2> QED BY <1>1, <2>1 DEF LogInv, Taking
<1>4. ASSUME mw = NoOrder, NEW o \in use.orders, Allowed(o), mw' = o,
             popped' = IF o.reg = "pop" THEN 1 - popped ELSE popped
      PROVE  /\ popped' \in 0 .. 1 /\ Taking' \in 0 .. 1
             /\ (popped' + Taking') % 2 = popped
             /\ Taking' = 1 => Taking = 0 /\ fifo # <<>> /\ mw = NoOrder
  <2>1. ~wrD' /\ Taking = 0 /\ popped \in 0 .. 1
    <3>1. ~wrD'
      BY <1>4, Zenon DEF Next, Strobe
    <3> QED BY <1>4, <3>1 DEF LogInv, Taking, NoOrder
  <2>2. CASE o.reg = "pop"
    <3>1. popped' = 1 - popped /\ Taking' = 1 /\ fifo # <<>>
      BY <1>4, <2>1, <2>2 DEF Taking, Allowed
    <3> QED BY <1>4, <2>1, <3>1
  <2>3. CASE o.reg # "pop"
    <3>1. popped' = popped /\ Taking' = 0
      BY <1>4, <2>1, <2>3 DEF Taking
    <3> QED BY <2>1, <3>1
  <2> QED BY <2>2, <2>3
<1> QED BY <1>1, <1>2, <1>3, <1>4 DEF Next, Strobe

\* Counting modulo 2: what the byte sent last says of the next place.
LEMMA NextBit ==
  ASSUME NEW p \in 0 .. 1, NEW t \in 0 .. 1, NEW n \in Nat, NEW k \in Nat, k = n - t
  PROVE  1 - ((p + t + n + 1) % 2) = (p + k) % 2
OBVIOUS

\* Counting modulo 2: partial sums may be reduced.
LEMMA SumBits ==
  ASSUME NEW p \in 0 .. 1, NEW t \in 0 .. 1, NEW n \in Nat, NEW c \in 0 .. 1
  PROVE  (((((p + t) % 2) + n) % 2) + c) % 2 = (p + t + n + c) % 2
OBVIOUS

\* The FIFO after a clock: one byte less at the head if a pop is on the strobe,
\* one more at the end if a push is in r_log_push (core2_subsys.sv:560-592).
LEMMA FifoStep ==
  ASSUME LogInv, LogFifo
  PROVE  /\ fifo' \in Seq(0 .. 1) /\ Len(fifo') = (Len(fifo) - Taking) + Coming
         /\ \A i \in DOMAIN fifo' : fifo'[i] = (popped + i - 1) % 2
<1> DEFINE kept == IF WrEdge("pop") /\ fifo # <<>> THEN Tail(fifo) ELSE fifo
<1>1. LogDepth \in Nat /\ Len(fifo) \in Nat /\ Taking \in 0 .. 1 /\ Coming \in 0 .. 1
  BY LogAssumption DEF LogInv, Taking, Coming
<1>2. /\ kept \in Seq(0 .. 1) /\ Len(kept) = Len(fifo) - Taking
      /\ \A i \in 1 .. Len(kept) : kept[i] = fifo[i + Taking]
  <2>1. CASE Taking = 1
    <3>1. kept = Tail(fifo) /\ fifo # <<>>
      BY <2>1 DEF LogInv, Taking, WrEdge
    <3>2. /\ Tail(fifo) \in Seq(0 .. 1) /\ Len(Tail(fifo)) = Len(fifo) - 1
          /\ \A i \in 1 .. Len(Tail(fifo)) : Tail(fifo)[i] = fifo[i + 1]
      BY <3>1, HeadTailProperties DEF LogInv
    <3> QED BY <2>1, <3>1, <3>2
  <2>2. CASE Taking = 0
    <3>1. kept = fifo
      BY <2>2 DEF Taking, WrEdge
    <3> QED BY <1>1, <2>2, <3>1 DEF LogInv
  <2> QED BY <1>1, <2>1, <2>2
<1>3. ASSUME NEW i \in 1 .. Len(kept)
      PROVE  kept[i] = (popped + i - 1) % 2
  <2>1. i + Taking \in DOMAIN fifo
    BY <1>1, <1>2 DEF LogInv
  <2>2. kept[i] = (popped + Taking + (i + Taking) - 1) % 2
    BY <1>2, <2>1 DEF LogInv
  <2> QED BY <1>1, <2>2 DEF LogInv
<1>4. CASE logPush
  <2>1. fifo' = Append(kept, 1 - sent) /\ Coming = 1
    BY <1>1, <1>4 DEF LogInv, LogFifo, Coming
  <2> HIDE DEF kept
  <2>2. 1 - sent \in 0 .. 1 /\ 1 - sent = (popped + Len(kept)) % 2
    <3>1. sent = (popped + Taking + Len(fifo) + 1) % 2 /\ {sent, popped} \subseteq 0 .. 1
      BY <1>4 DEF LogInv, Coming
    <3>2. Len(kept) \in Nat
      BY <1>2
    <3>3. 1 - sent = (popped + Len(kept)) % 2
      <4>1. 1 - ((popped + Taking + Len(fifo) + 1) % 2) = (popped + Len(kept)) % 2
        <5>1. popped \in 0 .. 1 /\ Taking \in 0 .. 1 /\ Len(fifo) \in Nat
          BY <1>1, <3>1
        <5> QED BY <1>2, <3>2, <5>1, NextBit
      <4> QED BY <3>1, <4>1
    <3> QED BY <3>1, <3>3
  <2>3. /\ fifo' \in Seq(0 .. 1) /\ Len(fifo') = Len(kept) + 1
        /\ \A i \in 1 .. Len(kept) : fifo'[i] = kept[i]
        /\ fifo'[Len(kept) + 1] = 1 - sent
    BY <1>2, <2>1, <2>2, AppendProperties
  <2>4. DOMAIN fifo' = 1 .. Len(kept) + 1
    BY <2>3
  <2>5. ASSUME NEW i \in DOMAIN fifo'
        PROVE  fifo'[i] = (popped + i - 1) % 2
    <3>1. Len(kept) \in Nat /\ popped \in 0 .. 1 /\ i \in 1 .. Len(kept) + 1
      BY <1>2, <2>4 DEF LogInv
    <3>2. CASE i \in 1 .. Len(kept)
      BY <1>3, <2>3, <3>2
    <3>3. CASE i = Len(kept) + 1
      BY <2>2, <2>3, <3>1, <3>3
    <3> QED BY <3>1, <3>2, <3>3
  <2> QED BY <1>1, <1>2, <2>1, <2>3, <2>5
<1>5. CASE ~logPush
  <2>1. fifo' = kept /\ Coming = 0
    BY <1>5 DEF LogFifo, Coming
  <2> QED BY <1>1, <1>2, <1>3, <2>1
<1> QED BY <1>4, <1>5
\* What the bus does with the log: it pushes in the clock after RESP, for a write
\* to the console, and a STATUS read that does not say full found room
\* (core2_subsys.sv:348-360).
LEMMA PushStep ==
  ASSUME PortInv, LogInv, Next
  PROVE  /\ logPush' \in BOOLEAN /\ sent' \in 0 .. 1
         /\ logPush' => /\ ~logPush /\ sent' = 1 - sent /\ resp'.ok
                        /\ port' = port /\ port.at = Con /\ ~resp.ok
         /\ ~logPush' => sent' = sent
         /\ resp'.ok /\ port'.at = Status /\ ~port'.wr /\ resp'.word[3] = 0 =>
              ~logPush /\ Len(fifo) < LogDepth
<1>0. Len(fifo) \in Nat /\ sent \in 0 .. 1
  BY DEF LogInv
<1>1. CASE ~run
  <2>1. BusStopped
    BY <1>1 DEF Next, Bus
  <2>2. logPush' \in BOOLEAN /\ ~logPush' /\ resp'.ok = FALSE
    BY <2>1, Zenon DEF BusStopped, NoResp
  <2> QED BY <1>0, <2>1, <2>2 DEF BusStopped
<1>2. CASE run /\ BusIdle
  <2>1. logPush' \in BOOLEAN /\ ~logPush' /\ sent' = sent
    BY <1>2, Zenon DEF BusIdle
  <2> QED BY <1>0, <1>2, <2>1, TakeStep
<1>3. CASE run /\ ~BusIdle /\ ~BusResp
  <2>1. BusCtLook \/ BusEth \/ BusDdr
    BY <1>3 DEF Next, Bus, BusStopped
  <2>2. logPush' \in BOOLEAN /\ ~logPush' /\ sent' = sent
    BY <2>1, Zenon DEF BusCtLook, BusEth, BusDdr
  <2>3. port' = port /\ q = port /\ q.at # Status
    BY <1>3, <2>1, ServeStep, PlacesAssumption DEF PortInv, BusCtLook, BusEth, BusDdr
  <2> QED BY <1>0, <2>2, <2>3
<1>4. CASE run /\ ~BusIdle /\ BusResp
  <2>1. /\ port' = port /\ q = port /\ ~resp.ok /\ resp'.ok
    BY <1>4, ServeStep DEF PortInv, BusResp
  <2>2. ~logPush
    BY <2>1 DEF LogInv
  <2>3. logPush' \in BOOLEAN /\ (logPush' <=> q.wr /\ q.at = Con)
    BY <1>4, Zenon DEF BusResp
  <2>4. IF logPush' THEN sent' = 1 - sent ELSE sent' = sent
    BY <1>4, <2>3 DEF BusResp
  <2>5. ASSUME q.at = Status, ~q.wr, resp'.word[3] = 0
        PROVE  Len(fifo) < LogDepth
    <3>1. resp' = Answer(<<q.at, 0, IF q.at = Status /\ LogFull THEN 1 ELSE 0>>, NoWord)
      BY <1>4, <2>5, PlacesAssumption DEF BusResp
    <3>2. ~LogFull
      BY <2>5, <3>1 DEF Answer
    <3> QED BY <1>0, <3>2, LogAssumption DEF LogFull
  <2> QED BY <1>0, <2>1, <2>2, <2>3, <2>4, <2>5
<1> QED BY <1>1, <1>2, <1>3, <1>4

\* Core 2's software sends a byte only after it has read that there is room, and
\* reads again before the next.
LEMMA AskStep ==
  ASSUME PortInv, LogInv, Next
  PROVE  /\ mayPush' \in BOOLEAN
         /\ mayPush' => ~logPush /\ Len(fifo) < LogDepth
         /\ port'.at = Con => ~mayPush'
         /\ port'.at = Con => port' = port \/ (~logPush /\ Len(fifo) < LogDepth)
         /\ port'.at = Con /\ port' = port => ~resp.ok
<1>1. MayPush => ~logPush /\ Len(fifo) < LogDepth
  BY PlacesAssumption DEF LogInv, MayPush
<1>2. MayPush \in BOOLEAN
  BY Zenon DEF LogInv, MayPush
<1>3. NoAsk.at # Con
  BY PlacesAssumption DEF NoAsk
<1>4. port.at = Con => port # NoAsk
  BY <1>3
<1>5. mayPush => ~logPush /\ Len(fifo) < LogDepth
  BY DEF LogInv
<1>6. CASE ~run /\ port' = NoAsk /\ mayPush' = FALSE
  BY <1>3, <1>6
<1>7. CASE UNCHANGED <<port, mayPush>> /\ (port = NoAsk \/ ~resp.ok)
  BY <1>3, <1>5, <1>7 DEF LogInv
<1>8. CASE port' = NoAsk /\ mayPush' = MayPush
  BY <1>1, <1>2, <1>3, <1>8
<1>9. ASSUME NEW a \in use.asks \ {port}, a.at = Con => MayPush,
             port' = a, mayPush' = (MayPush /\ a.at # Con)
      PROVE  /\ mayPush' \in BOOLEAN
             /\ mayPush' => ~logPush /\ Len(fifo) < LogDepth
             /\ port'.at = Con => ~mayPush'
             /\ port'.at = Con => port' = port \/ (~logPush /\ Len(fifo) < LogDepth)
             /\ port' # port
  BY <1>1, <1>9
<1> QED BY <1>6, <1>7, <1>8, <1>9 DEF Next, CoreStep, NextAsk, PortInv

\* The log's invariant holds from clock to clock, whether core 1 waits for the
\* adapter before it restarts core 2 or not (core2_subsys.sv:560-592).
LEMMA LogStep ==
  ASSUME PortInv, LogInv, Next
  PROVE  LogInv'
<1>0. /\ Len(fifo) \in Nat /\ LogDepth \in Nat /\ Taking \in 0 .. 1 /\ Coming \in 0 .. 1
      /\ sent \in 0 .. 1 /\ popped \in 0 .. 1
  BY LogAssumption DEF LogInv, Taking, Coming
<1>1. /\ fifo' \in Seq(0 .. 1) /\ Len(fifo') = (Len(fifo) - Taking) + Coming
      /\ \A i \in DOMAIN fifo' : fifo'[i] = (popped + i - 1) % 2
  BY FifoStep DEF Next
<1>2. ASSUME NEW i \in DOMAIN fifo'
      PROVE  fifo'[i] = (popped' + Taking' + i - 1) % 2
  <2>1. fifo'[i] = (popped + i - 1) % 2 /\ i \in Nat
    BY <1>1
  <2>2. popped' \in 0 .. 1 /\ Taking' \in 0 .. 1 /\ (popped' + Taking') % 2 = popped
    BY TakingStep
  <2> QED BY <2>1, <2>2
<1>3. Coming' = IF logPush' THEN 1 ELSE 0
  BY DEF Coming
<1>4. sent' = (popped' + Taking' + Len(fifo') + Coming') % 2
  <2>1. popped' \in 0 .. 1 /\ Taking' \in 0 .. 1 /\ (popped' + Taking') % 2 = popped
    BY TakingStep
  <2>2. sent = (popped + Taking + Len(fifo) + Coming) % 2
    BY DEF LogInv
  <2>3. sent' = IF logPush' THEN 1 - sent ELSE sent
    BY PushStep
  <2>4. sent' = (sent + Coming') % 2
    BY <1>0, <1>3, <2>3
  <2>5. sent = (popped + Len(fifo')) % 2
    BY <1>0, <1>1, <2>2
  <2>6. Len(fifo') \in Nat /\ Coming' \in 0 .. 1
    BY <1>1, <1>3
  <2>7. (((((popped' + Taking') % 2) + Len(fifo')) % 2) + Coming') % 2
          = (popped' + Taking' + Len(fifo') + Coming') % 2
    BY <2>1, <2>6, SumBits
  <2> QED BY <2>1, <2>4, <2>5, <2>7
<1>5. Taking' = 1 => fifo' # <<>>
  <2>1. SUFFICES ASSUME Taking' = 1 PROVE fifo' # <<>>
    OBVIOUS
  <2>2. Taking = 0 /\ fifo # <<>>
    BY <2>1, TakingStep
  <2>3. Len(fifo') > 0
    BY <1>0, <1>1, <2>2, EmptySeq DEF LogInv
  <2> QED BY <2>3
<1>6. Len(fifo') <= LogDepth
  BY <1>0, <1>1 DEF LogInv, Coming
<1>7. Len(fifo) < LogDepth /\ ~logPush => Len(fifo') < LogDepth
  BY <1>0, <1>1 DEF Coming
<1>8. logPush' => resp'.ok /\ port'.at = Con /\ Len(fifo') < LogDepth
  <2>1. SUFFICES ASSUME logPush' PROVE resp'.ok /\ port'.at = Con /\ Len(fifo') < LogDepth
    OBVIOUS
  <2>2. ~logPush /\ resp'.ok /\ port' = port /\ port.at = Con /\ ~resp.ok
    BY <2>1, PushStep
  <2> QED BY <1>7, <2>2 DEF LogInv
<1>9. mayPush' => Len(fifo') < LogDepth
  BY <1>7, AskStep
<1>10. port'.at = Con /\ ~resp'.ok => Len(fifo') < LogDepth
  BY <1>7, AskStep DEF LogInv
<1>11. resp'.ok /\ port'.at = Status /\ ~port'.wr /\ resp'.word[3] = 0 => Len(fifo') < LogDepth
  BY <1>7, PushStep
<1>12. {sent', popped'} \subseteq 0 .. 1 /\ {wrD', logPush', mayPush'} \subseteq BOOLEAN
  BY TakingStep, PushStep, AskStep
<1>13. port'.at = Con => ~mayPush'
  BY AskStep
<1> QED BY <1>1, <1>2, <1>4, <1>5, <1>6, <1>8, <1>9, <1>10, <1>11, <1>12, <1>13
        DEF LogInv
\* At power-up the bus is idle and the log is empty.
LEMMA InitLog == Init => PortInv /\ LogInv
<1> SUFFICES ASSUME Init PROVE PortInv /\ LogInv
  OBVIOUS
<1>1. fifo = <<>> /\ <<>> \in Seq(0 .. 1) /\ Len(fifo) = 0 /\ DOMAIN fifo = {}
  BY DEF Init
<1>2. /\ {run, resp.ok, dgo, wrD, logPush, mayPush} \subseteq BOOLEAN
      /\ ~resp.ok /\ ~dgo /\ ~logPush /\ ~mayPush
  BY Zenon DEF Init, NoResp
<1>3. Taking = 0 /\ Coming = 0 /\ sent = 0 /\ popped = 0
  BY <1>2 DEF Init, Taking, Coming, NoOrder
<1>4. PortInv
  BY <1>2 DEF Init, PortInv
<1>5. NoAsk.at # Con /\ port = NoAsk
  BY PlacesAssumption DEF NoAsk, Init
<1> QED BY <1>1, <1>2, <1>3, <1>4, <1>5, LogAssumption DEF LogInv

\* Where the clock does not run the log does not change.
LEMMA StutterLog == PortInv /\ LogInv /\ UNCHANGED vars => PortInv' /\ LogInv'
BY DEF PortInv, LogInv, Taking, Coming, vars, mailVars, busVars, logVars

\* The log is as its invariant says at every clock.
LEMMA LogInduction == Spec => [](PortInv /\ LogInv)
<1>1. PortInv /\ LogInv /\ [Next]_vars => (PortInv /\ LogInv)'
  BY PortStep, LogStep, StutterLog
<1> QED BY InitLog, <1>1, PTL DEF Spec

\* The log keeps every byte, once and in order, and never overflows, over stops
\* of core 2 and whenever core 1 pops (core2_subsys.sv:560-592).
THEOREM LogIsInOrder == Spec => []LogInOrder
<1>1. PortInv /\ LogInv => LogInOrder
  <2> SUFFICES ASSUME LogInv, mw.reg # "pop"
               PROVE  /\ \A i \in DOMAIN fifo : fifo[i] = (popped + i - 1) % 2
                      /\ sent = (popped + Len(fifo) + Coming) % 2
    BY DEF LogInOrder, Coming
  <2>1. Taking = 0 /\ popped \in 0 .. 1
    BY DEF LogInv, Taking
  <2> QED BY <2>1 DEF LogInv
<1> QED BY LogInduction, <1>1, PTL

-----------------------------------------------------------------------------
\* The clock after the window's row was looked up, the RAM still holds it: a
\* write strobe is at least one clock away from the next, and RUN is low all the
\* while (core2_subsys.sv:496-545).
LEMMA WindowStep ==
  ASSUME PortInv, LogInv, WindowInv, Next
  PROVE  WindowInv'
<1>1. \A reg : WrEdge(reg) /\ reg # "none" => mw \in use.orders /\ mw # NoOrder
  BY DEF WrEdge, PortInv, NoOrder
<1>2. \A reg : WrEdge(reg) => ~wrD
  BY DEF WrEdge
<1>3. win' \in Rows \X (0 .. 1)
  <2>1. CASE WrEdge("wadr") /\ win' = <<mw.at, mw.val>>
    <3>1. mw \in Order /\ mw.at \in Rows
      BY <1>1, <2>1, UsesAssumption DEF PortInv, WrEdge
    <3> QED BY <2>1, <3>1 DEF Order
  <2> QED BY <2>1 DEF WindowInv, Next, Window
<1>4. winFetch' \in 0 .. 2
  BY DEF WindowInv, Next, Window
<1>5. winFetch' = 1 => wrD'
  <2>1. winFetch' = 1 => WrEdge("wadr")
    BY DEF Next, Window
  <2>2. WrEdge("wadr") => mw # NoOrder
    BY <1>1
  <2>3. mw # NoOrder => wrD'
    BY Zenon DEF Next, Strobe
  <2> QED BY <2>1, <2>2, <2>3
<1>6. ASSUME winFetch' = 2, ~run' PROVE ramq' = Contents(ram', win'[1])
  <2>1. winFetch = 1
    BY <1>6 DEF WindowInv, Next, Window
  <2>2. \A reg : ~WrEdge(reg)
    BY <1>2, <2>1 DEF WindowInv
  <2>3. ~run /\ win' = win
    BY <1>6, <2>2 DEF Next, ControlRegs, Window, WindowWrite
  <2>4. ram' = ram
    BY <2>2, <2>3 DEF Next, Ram, CoreRamWrite, WindowWrite
  <2>5. RamRow = win[1] /\ win[1] \in Rows
    BY <2>3 DEF RamRow, WindowInv
  <2> QED BY <2>3, <2>4, <2>5 DEF Next, Ram
<1> QED BY <1>3, <1>4, <1>5, <1>6 DEF WindowInv

\* And so is the window onto the local RAM.
LEMMA WindowInduction == Spec => [](PortInv /\ LogInv /\ WindowInv)
<1>1. Init => WindowInv
  BY DEF Init, WindowInv
<1>2. WindowInv /\ UNCHANGED vars => WindowInv'
  BY DEF WindowInv, Contents, vars, mailVars, winVars
<1>3. PortInv /\ LogInv /\ WindowInv /\ [Next]_vars => (PortInv /\ LogInv /\ WindowInv)'
  BY <1>2, PortStep, LogStep, WindowStep, StutterLog
<1> QED BY InitLog, <1>1, <1>3, PTL DEF Spec

\* What core 1 reads back through the window is what the RAM holds at the address
\* it wrote last (core2_subsys.sv:508-541).
THEOREM WindowIsReadBack == Spec => WindowReadsBack
<1>1. WindowInv /\ [Next]_vars =>
        [winFetch = 2 /\ ~run => winData' = Contents(ram, win[1])[win[2]]]_vars
  BY DEF WindowInv, Next, Window
<1> QED BY WindowInduction, <1>1, PTL DEF Spec, WindowReadsBack
-----------------------------------------------------------------------------
\* The request stays latched while the adapter works for it, core 2 stopped or not
\* (core2_subsys.sv:339-347, 407-410).
LEMMA LatchKept ==
  ASSUME PortInv, AdapterInv, Next, dph # "IDLE" \/ dgo
  PROVE  q' = q /\ q # NoAsk /\ q.at \in Lines
<1>1. q # NoAsk /\ q.at \in Lines
  BY DEF PortInv, AdapterInv
<1>2. CASE ~run
  BY <1>1, <1>2 DEF Next, Bus, BusStopped
<1>3. CASE run
  <2>1. ph = "DDR"
    BY <1>3 DEF PortInv, AdapterInv
  <2>2. ~BusIdle
    BY <2>1 DEF BusIdle
  <2> QED BY <1>1, <1>3, <2>2, ServeStep
<1> QED BY <1>2, <1>3

\* Core 1 sets RUN only when the adapter has drained, and it stays so until RUN
\* is up.
LEMMA RestartStep ==
  ASSUME PortInv, AdapterInv, Next, PatientRestart
  PROVE  /\ mw'.reg = "ctrl" /\ mw'.val = 1 /\ ~wrD' /\ ~run' => Drained'
         /\ run' /\ ~run => Drained
<1>1. ASSUME Drained, ~run PROVE Drained'
  <2>1. BusStopped
    BY <1>1 DEF Next, Bus
  <2>2. ~dgo'
    BY <2>1, Zenon DEF BusStopped
  <2>3. DdrIdle
    BY <1>1 DEF Drained, Next, Ddr, DdrReq, DdrDrive, DdrGap
  <2>4. dph' = "IDLE"
    BY <1>1, <2>3 DEF Drained, DdrIdle
  <2> QED BY <2>2, <2>4 DEF Drained
<1>2. ASSUME mw'.reg = "ctrl", mw'.val = 1, ~wrD', ~run' PROVE Drained'
  <2>1. mw = NoOrder
    BY <1>2, Zenon DEF Next, Strobe
  <2>2. ~WrEdge("ctrl") /\ mw' # NoOrder
    BY <1>2, <2>1 DEF WrEdge, NoOrder
  <2>3. run' = run
    BY <2>2 DEF Next, ControlRegs
  <2>4. Allowed(mw')
    BY <2>1, <2>2 DEF Next, Strobe
  <2>5. Drained
    BY <1>2, <2>3, <2>4 DEF Allowed
  <2> QED BY <1>1, <1>2, <2>3, <2>5
<1>3. run' /\ ~run => Drained
  BY DEF AdapterInv, Next, ControlRegs, WrEdge
<1> QED BY <1>2, <1>3
\* The bus waits for the adapter until it is done, and takes the answer in the
\* clock it is (core2_subsys.sv:382-391).
LEMMA HandOver ==
  ASSUME PortInv, AdapterInv, Next, PatientRestart
  PROVE  /\ run' /\ dph' # "IDLE" => dgo'
         /\ run' /\ ddone' => dgo' \/ resp'.ok
<1>1. CASE ~run
  <2>1. SUFFICES ASSUME run' PROVE dph' = "IDLE" /\ ~ddone'
    OBVIOUS
  <2>2. dph = "IDLE" /\ ~dgo
    BY <1>1, <2>1, RestartStep DEF Drained
  <2>3. DdrIdle
    BY <2>2 DEF Next, Ddr, DdrReq, DdrDrive, DdrGap
  <2>4. dph' = "IDLE"
    BY <2>2, <2>3 DEF DdrIdle
  <2>5. ~ddone'
    BY <2>2, <2>3, Zenon DEF DdrIdle
  <2> QED BY <2>4, <2>5
<1>2. CASE run
  <2>1. CASE dgo /\ ~ddone
    <3>1. ph = "DDR" /\ BusDdr
      BY <1>2, <2>1 DEF PortInv, Next, Bus, BusStopped, BusIdle, BusCtLook, BusResp, BusEth
    <3>2. dgo'
      BY <2>1, <3>1, Zenon DEF BusDdr
    <3> QED BY <3>2
  <2>2. CASE dgo /\ ddone
    <3>1. ph = "DDR" /\ BusDdr
      BY <1>2, <2>2 DEF PortInv, Next, Bus, BusStopped, BusIdle, BusCtLook, BusResp, BusEth
    <3>2. resp'.ok
      BY <2>2, <3>1 DEF BusDdr, Ack, Pair, Answer
    <3>3. dph = "IDLE" /\ DdrIdle
      BY <2>2 DEF AdapterInv, Next, Ddr, DdrReq, DdrDrive, DdrGap
    <3>4. dph' = "IDLE"
      BY <2>2, <3>3 DEF DdrIdle
    <3> QED BY <3>2, <3>4
  <2>3. CASE ~dgo
    <3>1. dph = "IDLE" /\ DdrIdle
      BY <1>2, <2>3 DEF AdapterInv, Next, Ddr, DdrReq, DdrDrive, DdrGap
    <3>2. dph' = "IDLE"
      BY <2>3, <3>1 DEF DdrIdle
    <3>3. ~ddone'
      BY <2>3, <3>1, Zenon DEF DdrIdle
    <3> QED BY <3>2, <3>3
  <2> QED BY <2>1, <2>2, <2>3
<1> QED BY <1>1, <1>2

\* The wires the adapter, the arbiter and the controller drive stay levels.
LEMMA WireTypes ==
  ASSUME AdapterInv, Next
  PROVE  /\ {req', done', rdv', wdv', grant', ready', ddone'} \subseteq BOOLEAN
         /\ dph' \in {"IDLE", "REQ", "DRIVE", "GAP"}
<1>1. req' \in BOOLEAN /\ done' \in BOOLEAN /\ ddone' \in BOOLEAN
  BY Zenon DEF AdapterInv, Next, Ddr, DdrIdle, DdrReq, DdrDrive, DdrGap, DdrEnd
<1>2. rdv' \in BOOLEAN /\ wdv' \in BOOLEAN
  BY Zenon DEF AdapterInv, Next, Ddr, DdrIdle, DdrReq, DdrDrive, DdrGap, DdrEnd
<1>3. grant' \in BOOLEAN /\ ready' \in BOOLEAN
  BY Zenon DEF AdapterInv, Next, Memory, Grant, Others, CtlWait, CtlBusy, CtlDone, CtlIdle
<1>4. dph' \in {"IDLE", "REQ", "DRIVE", "GAP"}
  BY DEF AdapterInv, Next, Ddr, DdrIdle, DdrReq, DdrDrive, DdrGap, DdrEnd
<1> QED BY <1>1, <1>2, <1>3, <1>4

\* Without a grant the controller serves others and is back in WAIT.
LEMMA UngrantedStep ==
  ASSUME AdapterInv, Next, ~grant
  PROVE  ctl' = "WAIT" /\ ~ready' /\ (grant' => req)
<1>1. Others
  BY DEF Next, Memory, CtlWait, CtlBusy, CtlDone, CtlIdle
<1>2. ~ready'
  BY <1>1, Zenon DEF Others
<1>3. grant' => req
  BY Zenon DEF Next, Memory, Grant
<1> QED BY <1>1, <1>2, <1>3 DEF Others

\* With a grant nobody else has the controller, until the adapter is done.
LEMMA GrantedStep ==
  ASSUME AdapterInv, Next, grant
  PROVE  /\ grant' <=> ~done
         /\ CtlWait \/ CtlBusy \/ CtlDone \/ CtlIdle
<1>1. grant' <=> ~done
  BY Zenon DEF Next, Memory, Grant
<1> QED BY <1>1 DEF Next, Memory, Others
\* What the adapter and the memory do in a clock keeps the adapter's hand-shake:
\* the part of AdapterInv that is not about the bus.
HandShake ==
  /\ ddone => dph = "IDLE"
  /\ done => grant /\ ddone
  /\ dph # "IDLE" => req
  /\ dph = "IDLE" => AtRest
  /\ dph = "REQ" => Asking
  /\ dph = "DRIVE" => Driving
  /\ dph = "GAP" => Ending

\* At rest, or starting (core2_subsys.sv:425-432).
LEMMA RestStep ==
  ASSUME PortInv, AdapterInv, Next, dph = "IDLE"
  PROVE  HandShake'
<1>1. DdrIdle
  BY DEF Next, Ddr, DdrReq, DdrDrive, DdrGap
<1>2. ~rdv' /\ ~wdv' /\ ~done'
  BY <1>1, Zenon DEF AdapterInv, AtRest, DdrIdle
<1>3. ctl' = "WAIT" /\ ~ready'
  <2>1. CASE ~grant
    BY <2>1, UngrantedStep
  <2>2. CASE grant
    <3>1. CtlWait \/ CtlIdle
      BY <2>2, GrantedStep DEF AdapterInv, AtRest, CtlBusy, CtlDone
    <3>2. ~ready'
      BY <3>1, Zenon DEF AdapterInv, AtRest, CtlWait, CtlIdle
    <3>3. ctl' = "WAIT"
      BY <3>1 DEF AdapterInv, AtRest, CtlWait, CtlIdle
    <3> QED BY <3>2, <3>3
  <2> QED BY <2>1, <2>2
<1>4. ~grant'
  BY UngrantedStep, GrantedStep DEF AdapterInv, AtRest
<1>5. CASE dgo /\ ~ddone
  <2>1. dph' = "REQ"
    BY <1>1, <1>5 DEF DdrIdle
  <2>2. req' /\ ~ddone'
    BY <1>1, <1>5, Zenon DEF DdrIdle
  <2> QED BY <1>2, <1>3, <2>1, <2>2 DEF HandShake, Asking
<1>6. CASE ~(dgo /\ ~ddone)
  <2>1. dph' = "IDLE"
    BY <1>1, <1>6 DEF DdrIdle
  <2>2. ~req'
    BY <1>1, <1>6, Zenon DEF AdapterInv, AtRest, DdrIdle
  <2> QED BY <1>2, <1>3, <1>4, <2>1, <2>2 DEF HandShake, AtRest
<1> QED BY <1>5, <1>6

\* Waiting for the grant (core2_subsys.sv:433-447).
LEMMA AskingStep ==
  ASSUME PortInv, AdapterInv, Next, dph = "REQ"
  PROVE  HandShake'
<1>1. DdrReq
  BY DEF Next, Ddr, DdrIdle, DdrDrive, DdrGap
<1>2. req' /\ ~ddone' /\ ~done'
  BY <1>1, Zenon DEF AdapterInv, DdrReq
<1>3. ctl' = "WAIT" /\ ~ready'
  <2>1. CASE ~grant
    BY <2>1, UngrantedStep
  <2>2. CASE grant
    <3>1. CtlWait
      BY <2>2, GrantedStep DEF AdapterInv, Asking, CtlBusy, CtlDone, CtlIdle
    <3>2. ~ready'
      BY <3>1, Zenon DEF AdapterInv, Asking, CtlWait
    <3>3. ctl' = "WAIT"
      BY <3>1 DEF AdapterInv, Asking, CtlWait
    <3> QED BY <3>2, <3>3
  <2> QED BY <2>1, <2>2
<1>4. CASE ~grant
  <2>1. dph' = "REQ"
    BY <1>1, <1>4 DEF DdrReq
  <2>2. ~rdv' /\ ~wdv'
    BY <1>1, <1>4, Zenon DEF AdapterInv, Asking, DdrReq
  <2> QED BY <1>2, <1>3, <2>1, <2>2 DEF HandShake, Asking
<1>5. CASE grant
  <2>1. dph' = "DRIVE" /\ daddr' = q.at /\ q' = q
    BY <1>1, <1>5, LatchKept DEF DdrReq
  <2>2. (wdv' <=> q.wr) /\ (rdv' <=> ~q.wr)
    <3>1. CASE q.wr
      BY <1>1, <1>5, <3>1, Zenon DEF AdapterInv, Asking, DdrReq
    <3>2. CASE ~q.wr
      BY <1>1, <1>5, <3>2, Zenon DEF AdapterInv, Asking, DdrReq
    <3> QED BY <3>1, <3>2
  <2>3. q.wr => wdata' = [half |-> IF q.off = 1 THEN "lo" ELSE "hi", val |-> q.val]
    BY <1>1, <1>5 DEF DdrReq
  <2>4. grant'
    BY <1>5, GrantedStep DEF AdapterInv
  <2>5. Driving'
    BY <1>3, <2>1, <2>2, <2>3, <2>4 DEF Driving
  <2> QED BY <1>2, <2>1, <2>5 DEF HandShake
<1> QED BY <1>4, <1>5
\* The transaction itself: the controller takes it up and ends it with a ready
\* pulse, at which the adapter takes its strobe down (core2_subsys.sv:448-462).
LEMMA DrivingStep ==
  ASSUME PortInv, AdapterInv, Next, dph = "DRIVE"
  PROVE  HandShake'
<1>0. /\ DdrDrive /\ Driving /\ ~ddone /\ ~done /\ q' = q
      /\ {rdv, wdv, ready, grant} \subseteq BOOLEAN
  BY LatchKept DEF AdapterInv, Next, Ddr, DdrIdle, DdrReq, DdrGap
<1>1. grant'
  BY <1>0, GrantedStep DEF Driving
<1>2. UNCHANGED <<daddr, wdata>>
  BY <1>0 DEF DdrDrive
<1>3. CASE ~ready
  <2>1. dph' = "DRIVE"
    BY <1>0, <1>3 DEF DdrDrive
  <2>2. req' /\ ~ddone' /\ ~done' /\ (rdv' <=> rdv) /\ (wdv' <=> wdv)
    BY <1>0, <1>3, Zenon DEF AdapterInv, DdrDrive
  <2>3. CtlWait \/ CtlBusy \/ CtlDone
    BY <1>0, <1>3, GrantedStep DEF Driving, CtlIdle
  <2>4. ctl' \in {"WAIT", "IDLE", IF q.wr THEN "WR" ELSE "RD"}
    BY <1>0, <2>3 DEF Driving, CtlWait, CtlBusy, CtlDone
  <2>5. ready' <=> ctl' = "IDLE"
    <3>1. CASE CtlDone
      BY <3>1, Zenon DEF CtlDone
    <3>2. CASE CtlWait \/ CtlBusy
      <4>1. ~ready'
        BY <1>3, <3>2, Zenon DEF CtlWait, CtlBusy
      <4>2. ctl' # "IDLE"
        BY <3>2 DEF CtlWait, CtlBusy
      <4> QED BY <4>1, <4>2
    <3> QED BY <2>3, <3>1, <3>2
  <2>6. Driving'
    BY <1>0, <1>1, <1>2, <2>2, <2>4, <2>5 DEF Driving
  <2> QED BY <2>1, <2>2, <2>6 DEF HandShake
<1>4. CASE ready
  <2>1. CtlIdle
    BY <1>0, <1>4, GrantedStep DEF Driving, CtlWait, CtlBusy, CtlDone
  <2>2. ~ready'
    BY <2>1, Zenon DEF CtlIdle
  <2>3. ctl' \in {"IDLE", "WAIT"}
    BY <2>1 DEF CtlIdle
  <2>4. CASE q.wr
    <3>1. dph' = "GAP"
      BY <1>0, <1>4, <2>4 DEF DdrDrive, Driving
    <3>2. req' /\ ~ddone' /\ ~done' /\ ~rdv' /\ ~wdv'
      BY <1>0, <1>4, <2>4, Zenon DEF AdapterInv, DdrDrive, Driving
    <3>3. Ending'
      BY <1>0, <1>1, <2>2, <2>3, <2>4, <3>2 DEF Ending
    <3> QED BY <3>1, <3>2, <3>3 DEF HandShake
  <2>5. CASE ~q.wr
    <3>1. dph' = "IDLE"
      BY <1>0, <1>4, <2>5 DEF DdrDrive, Driving, DdrEnd
    <3>2. ~req' /\ ddone' /\ done' /\ ~rdv' /\ ~wdv'
      BY <1>0, <1>4, <2>5, Zenon DEF AdapterInv, DdrDrive, DdrEnd, Driving
    <3> QED BY <1>1, <2>2, <2>3, <3>1, <3>2 DEF HandShake, AtRest
  <2> QED BY <2>4, <2>5
<1> QED BY <1>3, <1>4

\* A write ends two clocks after its strobe, for the controller to be back in WAIT
\* (core2_subsys.sv:455-466).
LEMMA EndingStep ==
  ASSUME PortInv, AdapterInv, Next, dph = "GAP"
  PROVE  HandShake'
<1>0. /\ DdrGap /\ Ending /\ ~ddone /\ ~done /\ q' = q
  BY LatchKept DEF AdapterInv, Next, Ddr, DdrIdle, DdrReq, DdrDrive
<1>1. grant'
  BY <1>0, GrantedStep DEF Ending
<1>2. ~rdv' /\ ~wdv'
  BY <1>0, Zenon DEF DdrGap, Ending
<1>3. CtlWait \/ CtlIdle
  BY <1>0, GrantedStep DEF Ending, CtlBusy, CtlDone
<1>4. ctl' = "WAIT"
  BY <1>0, <1>3 DEF Ending, CtlWait, CtlIdle
<1>5. ~ready'
  BY <1>0, <1>3, Zenon DEF Ending, CtlWait, CtlIdle
<1>6. CASE dgap = 0
  <2>1. dph' = "IDLE"
    BY <1>0, <1>6 DEF DdrGap, DdrEnd
  <2>2. ~req' /\ ddone' /\ done'
    BY <1>0, <1>6, Zenon DEF DdrGap, DdrEnd
  <2> QED BY <1>1, <1>2, <1>4, <1>5, <2>1, <2>2 DEF HandShake, AtRest
<1>7. CASE dgap # 0
  <2>1. dph' = "GAP"
    BY <1>0, <1>7 DEF DdrGap
  <2>2. req' /\ ~ddone' /\ ~done'
    BY <1>0, <1>7, Zenon DEF AdapterInv, DdrGap
  <2>3. Ending'
    BY <1>0, <1>1, <1>2, <1>4, <1>5 DEF Ending
  <2> QED BY <2>1, <2>2, <2>3 DEF HandShake
<1> QED BY <1>6, <1>7

\* Whoever starts a phase of the adapter finds its request latched.
LEMMA LatchedStep ==
  ASSUME PortInv, AdapterInv, Next, dph' # "IDLE"
  PROVE  q' = q /\ q # NoAsk /\ q.at \in Lines
<1>1. CASE dph = "IDLE"
  <2>1. dgo
    BY <1>1 DEF Next, Ddr, DdrIdle, DdrReq, DdrDrive, DdrGap
  <2> QED BY <2>1, LatchKept
<1>2. CASE dph # "IDLE"
  BY <1>2, LatchKept
<1> QED BY <1>1, <1>2

\* The adapter's invariant holds from clock to clock (core2_subsys.sv:402-466).
LEMMA AdapterStep ==
  ASSUME PortInv, AdapterInv, Next, PatientRestart
  PROVE  AdapterInv'
<1>1. HandShake'
  BY RestStep, AskingStep, DrivingStep, EndingStep DEF AdapterInv
<1>2. ~grant' => ctl' = "WAIT" /\ ~ready'
  <2>1. CASE ~grant
    BY <2>1, UngrantedStep
  <2>2. ASSUME grant, ~grant' PROVE ctl' = "WAIT" /\ ~ready'
    <3>1. dph = "IDLE" /\ AtRest
      BY <2>2, GrantedStep DEF AdapterInv
    <3>2. CtlWait \/ CtlIdle
      BY <2>2, <3>1, GrantedStep DEF AtRest, CtlBusy, CtlDone
    <3>3. ctl' = "WAIT"
      BY <3>1, <3>2 DEF AtRest, CtlWait, CtlIdle
    <3>4. ~ready'
      BY <3>1, <3>2, Zenon DEF AtRest, CtlWait, CtlIdle
    <3> QED BY <3>3, <3>4
  <2> QED BY <2>1, <2>2
<1> QED BY <1>1, <1>2, WireTypes, RestartStep, HandOver, LatchedStep
        DEF AdapterInv, HandShake
-----------------------------------------------------------------------------
\* What is latched is a request with an offset and a value of its own.
LEMMA LatchType ==
  ASSUME PortInv
  PROVE  q.off \in 0 .. 1 /\ q.val \in 0 .. 1
<1>1. CASE q = NoAsk
  BY <1>1 DEF NoAsk
<1>2. CASE q \in use.asks
  BY <1>2, UsesAssumption DEF PortInv, Request
<1> QED BY <1>1, <1>2 DEF PortInv

\* The controller is at work, and done, only while the adapter drives its strobe.
LEMMA ReadyStep ==
  ASSUME AdapterInv, Next
  PROVE  /\ ctl \in {"RD", "WR"} => dph = "DRIVE" /\ Driving
         /\ ready' => CtlDone
<1>1. ctl \in {"RD", "WR"} => dph = "DRIVE" /\ Driving
  BY DEF AdapterInv, AtRest, Asking, Ending
<1>2. ASSUME ready', ~CtlDone PROVE FALSE
  <2>1. CASE ~grant
    BY <1>2, <2>1, UngrantedStep
  <2>2. CASE grant
    <3>1. CtlWait \/ CtlBusy
      <4>1. ~CtlIdle
        BY <1>2, Zenon DEF CtlIdle
      <4> QED BY <1>2, <2>2, <4>1, GrantedStep
    <3>2. ready
      BY <1>2, <3>1, Zenon DEF CtlWait, CtlBusy
    <3>3. ctl # "IDLE"
      BY <3>1 DEF CtlWait, CtlBusy
    <3> QED BY <3>2, <3>3 DEF AdapterInv, AtRest, Asking, Driving, Ending
  <2> QED BY <2>1, <2>2
<1> QED BY <1>1, <1>2

\* DDR changes under a running core 2 only by the store its adapter is granted for,
\* in the clock that ends in ready (core2_subsys.sv:433-462).
LEMMA MemStep ==
  ASSUME PortInv, AdapterInv, Next, grant \/ run \/ run'
  PROVE  \/ mem' = mem
         \/ /\ dph = "DRIVE" /\ q.wr /\ ~ready /\ q' = q
            /\ mem' = [mem EXCEPT ![q.at][q.off] = q.val]
<1>1. CASE ~grant
  <2>1. Others
    BY <1>1 DEF Next, Memory, CtlWait, CtlBusy, CtlDone, CtlIdle
  <2>2. ~run /\ mw = NoOrder => ~run'
    BY DEF Next, ControlRegs, WrEdge, NoOrder
  <2> QED BY <1>1, <2>1, <2>2 DEF Others
<1>2. CASE grant /\ ~(CtlDone /\ ctl = "WR")
  BY <1>2, GrantedStep DEF CtlWait, CtlBusy, CtlDone, CtlIdle
<1>3. CASE grant /\ CtlDone /\ ctl = "WR"
  <2>1. dph = "DRIVE" /\ Driving /\ q.wr
    BY <1>3, ReadyStep DEF Driving
  <2>2. mem' = [mem EXCEPT ![q.at][IF wdata.half = "hi" THEN 0 ELSE 1] = wdata.val]
    BY <1>3, <2>1 DEF CtlDone, Driving
  <2>3. wdata.val = q.val /\ (IF wdata.half = "hi" THEN 0 ELSE 1) = q.off
    BY <2>1, LatchType DEF Driving
  <2>4. ~ready
    BY <1>3, <2>1 DEF Driving
  <2>5. q' = q
    BY <2>1, LatchKept
  <2> QED BY <2>1, <2>2, <2>3, <2>4, <2>5
<1> QED BY <1>2, <1>1, <1>3

\* Without a transaction under way DDR stays as core 2 sees it.
LEMMA MemIdle ==
  ASSUME PortInv, AdapterInv, Next, run, ph # "DDR"
  PROVE  mem' = mem
BY MemStep DEF PortInv, AdapterInv

\* DDR and local RAM hold words, the cache a line of the window or none.
LEMMA StoreTypes ==
  ASSUME PortInv, WindowInv, AdapterInv, DataInv, Next
  PROVE  /\ mem' \in [Lines -> [0 .. 1 -> 0 .. 1]] /\ ram' \in [Rows -> [0 .. 1 -> 0 .. 1]]
         /\ {ct'.at, ctq'.at} \subseteq Text \cup {Nowhere}
<1>1. mem' \in [Lines -> [0 .. 1 -> 0 .. 1]]
  <2>1. CASE mem' = Loaded
    BY <2>1 DEF DataInv, Loaded
  <2>2. CASE mem' # Loaded
    <3>1. grant \/ mem' = mem
      BY <2>2 DEF Next, Memory, Others, CtlWait, CtlBusy, CtlDone, CtlIdle
    <3> QED BY <3>1, MemStep, LatchType DEF DataInv
  <2> QED BY <2>1, <2>2
<1>2. ram' \in [Rows -> [0 .. 1 -> 0 .. 1]]
  <2>1. CASE CoreRamWrite
    BY <2>1, LatchType DEF DataInv, Next, Ram
  <2>2. CASE ~CoreRamWrite /\ WindowWrite
    <3>1. mw \in use.orders
      BY <2>2 DEF WindowWrite, WrEdge, PortInv, NoOrder
    <3>2. mw.val \in 0 .. 1
      BY <3>1, UsesAssumption DEF PortInv, Order
    <3> QED BY <2>2, <3>2 DEF DataInv, Next, Ram
  <2> QED BY <2>1, <2>2 DEF DataInv, Next, Ram
<1>3. {ct'.at, ctq'.at} \subseteq Text \cup {Nowhere}
  BY DEF DataInv, Next, TextCache, NoLine
<1> QED BY <1>1, <1>2, <1>3
\* Where done comes from: kept for the bus, or the end of a read or of a write.
LEMMA DoneStep ==
  ASSUME PortInv, AdapterInv, Next, PatientRestart, run', ddone'
  PROVE  /\ run /\ q' = q
         /\ \/ ddone /\ dph = "IDLE" /\ drd' = drd
            \/ dph = "GAP" /\ q.wr
            \/ dph = "DRIVE" /\ ~q.wr /\ drd' = SwapIn /\ daddr = q.at /\ ready
<1>1. CASE dph = "IDLE"
  <2>1. DdrIdle
    BY <1>1 DEF Next, Ddr, DdrReq, DdrDrive, DdrGap
  <2>2. dgo /\ ddone
    BY <2>1, Zenon DEF DdrIdle
  <2>3. run
    BY <2>2, RestartStep DEF Drained
  <2>4. drd' = drd
    BY <2>1, <2>2 DEF DdrIdle
  <2> QED BY <1>1, <2>2, <2>3, <2>4, LatchKept
<1>2. CASE dph # "IDLE"
  <2>1. run /\ ~ddone
    BY <1>2, RestartStep DEF Drained, AdapterInv
  <2>2. q' = q
    BY <1>2, LatchKept
  <2>3. CASE dph = "REQ"
    <3>1. DdrReq
      BY <2>3 DEF Next, Ddr, DdrIdle, DdrDrive, DdrGap
    <3> QED BY <2>1, <3>1, Zenon DEF DdrReq
  <2>4. CASE dph = "DRIVE"
    <3>1. DdrDrive /\ Driving
      BY <2>4 DEF AdapterInv, Next, Ddr, DdrIdle, DdrReq, DdrGap
    <3>2. ready /\ grant
      BY <2>1, <3>1, Zenon DEF DdrDrive
    <3>3. ~q.wr
      BY <2>1, <3>1, <3>2, Zenon DEF DdrDrive
    <3> QED BY <2>1, <2>2, <2>4, <3>1, <3>2, <3>3 DEF DdrDrive, Driving
  <2>5. CASE dph = "GAP"
    BY <2>1, <2>2, <2>5 DEF AdapterInv, Ending
  <2> QED BY <1>2, <2>3, <2>4, <2>5 DEF AdapterInv
<1> QED BY <1>1, <1>2

\* The line the adapter hands over is the line in memory (core2_subsys.sv:411-415).
LEMMA SwapInLine == SwapIn = Contents(mem, daddr)
BY DEF SwapIn, Wire, Contents

\* A store is in memory from ready on, and a line read is what memory holds, until
\* the bus has taken them (core2_subsys.sv:448-466).
LEMMA TransferStep ==
  ASSUME PortInv, AdapterInv, DataInv, Next, PatientRestart
  PROVE  /\ q'.wr /\ (dph' = "GAP" \/ (dph' = "DRIVE" /\ ready')) => IsStored(q)'
         /\ run' /\ ddone' /\ q'.wr => IsStored(q)'
         /\ run' /\ ddone' /\ ~q'.wr => drd' = Contents(mem', q'.at)
<1>1. ASSUME q'.wr, dph' = "GAP" \/ (dph' = "DRIVE" /\ ready') PROVE IsStored(q)'
  <2>1. q' = q /\ q.at \in Lines /\ q.at \notin Rows
    BY <1>1, LatchedStep, PlacesAssumption
  <2>2. CASE dph = "GAP"
    <3>1. grant /\ IsStored(q)
      BY <1>1, <2>1, <2>2 DEF AdapterInv, Ending, DataInv
    <3>2. mem' = mem
      BY <2>2, <3>1, MemStep
    <3> QED BY <2>1, <3>1, <3>2 DEF IsStored, Stored
  <2>3. CASE dph = "DRIVE" /\ ready
    <3>1. grant /\ IsStored(q)
      BY <1>1, <2>1, <2>3 DEF AdapterInv, Driving, DataInv
    <3>2. mem' = mem
      BY <2>3, <3>1, MemStep
    <3> QED BY <2>1, <3>1, <3>2 DEF IsStored, Stored
  <2>4. CASE dph = "DRIVE" /\ ~ready
    <3>1. dph' = "DRIVE" /\ Driving
      BY <2>4 DEF AdapterInv, Next, Ddr, DdrIdle, DdrReq, DdrDrive, DdrGap
    <3>2. CtlDone /\ ctl \in {"RD", "WR"}
      BY <1>1, <3>1, ReadyStep DEF CtlDone
    <3>3. ctl = "WR"
      BY <1>1, <2>1, <3>1, <3>2 DEF Driving
    <3>4. mem' = [mem EXCEPT ![q.at][IF wdata.half = "hi" THEN 0 ELSE 1] = wdata.val]
      BY <3>1, <3>2, <3>3 DEF CtlDone, Driving
    <3>5. wdata.val = q.val /\ (IF wdata.half = "hi" THEN 0 ELSE 1) = q.off
      BY <1>1, <2>1, <3>1, LatchType DEF Driving
    <3> QED BY <2>1, <3>4, <3>5, LatchType DEF IsStored, Stored, DataInv
  <2>5. CASE dph \in {"IDLE", "REQ"}
    <3>1. ~CtlDone
      BY <2>5, ReadyStep DEF CtlDone
    <3>2. dph' # "GAP"
      BY <2>5 DEF Next, Ddr, DdrIdle, DdrReq, DdrDrive, DdrGap
    <3> QED BY <1>1, <3>1, <3>2, ReadyStep
  <2> QED BY <2>2, <2>3, <2>4, <2>5 DEF AdapterInv
<1>2. ASSUME run', ddone'
      PROVE  IF q'.wr THEN IsStored(q)' ELSE drd' = Contents(mem', q'.at)
  <2>1. run /\ q' = q
    BY <1>2, DoneStep
  <2>2. mem' = mem /\ ram' = ram
    <3>1. ram' = ram
      <4>1. ph # "RESP"
        <5>1. ddone \/ dgo
          BY <1>2, <2>1, DoneStep DEF AdapterInv
        <5> QED BY <2>1, <5>1 DEF PortInv, AdapterInv
      <4> QED BY <2>1, <4>1 DEF Next, Ram, CoreRamWrite, WindowWrite
    <3>2. mem' = mem
      BY <1>2, <2>1, MemStep, DoneStep
    <3> QED BY <3>1, <3>2
  <2>3. CASE q.wr
    <3>1. IsStored(q)
      BY <1>2, <2>1, <2>3, DoneStep DEF DataInv
    <3> QED BY <2>1, <2>2, <2>3, <3>1 DEF IsStored, Stored
  <2>4. CASE ~q.wr
    <3>1. drd' = Contents(mem, q.at)
      <4>1. CASE ddone /\ drd' = drd
        BY <2>1, <2>4, <4>1 DEF DataInv
      <4>2. CASE drd' = SwapIn /\ daddr = q.at
        BY <4>2, SwapInLine
      <4> QED BY <1>2, <2>4, <4>1, <4>2, DoneStep
    <3> QED BY <2>1, <2>2, <2>4, <3>1
  <2> QED BY <2>3, <2>4
<1> QED BY <1>1, <1>2
\* The RAM's register holds the requested row in RESP: its address is the port's in
\* IDLE, and nothing is written in that clock (core2_subsys.sv:313-325, 527-552).
LEMMA RamStep ==
  ASSUME PortInv, Next, run', ph' = "RESP", q'.at \in Rows
  PROVE  ramq' = Contents(ram', q'.at)
<1>1. run
  BY DEF Next, Bus, BusStopped, BusIdle, BusCtLook, BusResp, BusEth, BusDdr
<1>2. BusIdle
  BY <1>1 DEF Next, Bus, BusStopped, BusCtLook, BusResp, BusEth, BusDdr
<1>3. ph = "IDLE" /\ q' = port
  BY <1>2 DEF BusIdle
<1>4. ram' = ram
  BY <1>1, <1>3 DEF Next, Ram, CoreRamWrite, WindowWrite
<1>5. RamRow = q'.at
  BY <1>1, <1>3 DEF RamRow
<1> QED BY <1>4, <1>5 DEF Next, Ram

\* A line and the same line after one store elsewhere.
LEMMA OtherLine ==
  ASSUME NEW at, q.at # at, mem \in [Lines -> [0 .. 1 -> 0 .. 1]], at \in Lines,
         mem' = [mem EXCEPT ![q.at][q.off] = q.val]
  PROVE  Contents(mem', at) = Contents(mem, at)
<1>1. mem'[at] = mem[at]
  OBVIOUS
<1> QED BY <1>1 DEF Contents

\* While core 2 runs its memory changes only by its own store, which the bus is
\* waiting for.
LEMMA OwnStore ==
  ASSUME PortInv, AdapterInv, DataInv, Next, run, mem' # mem
  PROVE  /\ ph = "DDR" /\ ph' = "DDR" /\ q.wr /\ q' = q
         /\ \A at \in Text : at # q.at => Contents(mem', at) = Contents(mem, at)
<1>1. /\ dph = "DRIVE" /\ q.wr /\ q' = q
      /\ mem' = [mem EXCEPT ![q.at][q.off] = q.val]
  BY MemStep
<1>2. ph = "DDR" /\ ~ddone
  BY <1>1 DEF PortInv, AdapterInv
<1>3. ph' = "DDR"
  BY <1>2 DEF Next, Bus, BusStopped, BusIdle, BusCtLook, BusResp, BusEth, BusDdr
<1>4. \A at \in Text : at # q.at => Contents(mem', at) = Contents(mem, at)
  BY <1>1, OtherLine, PlacesAssumption DEF DataInv
<1> QED BY <1>1, <1>2, <1>3, <1>4

\* The text cache: its line, and the line as looked up, are what memory holds of
\* them, unless core 2 is writing it, from the start of core 2 on
\* (core2_subsys.sv:268-299).
LEMMA CacheStep ==
  ASSUME PortInv, AdapterInv, DataInv, Next, PatientRestart, run'
  PROVE  /\ ct'.at # Nowhere /\ ~(Rewriting' /\ ph' = "DDR") =>
              ct'.data = Contents(mem', ct'.at)
         /\ ctq'.at # Nowhere /\ ~Rewriting' => ctq'.data = Contents(mem', ctq'.at)
<1>1. CASE ~run
  <2>1. ct' = NoLine /\ ctq' = NoLine
    BY <1>1 DEF Next, TextCache
  <2> QED BY <2>1 DEF NoLine
<1>2. CASE run
  <2>1. ctq' = ct
    BY <1>2 DEF Next, TextCache
  <2>2. ASSUME ct.at # Nowhere, ph' # "DDR" \/ ~(q'.wr /\ q'.at \in Text),
               ~(Rewriting /\ ph = "DDR")
        PROVE  ct.data = Contents(mem', ct.at)
    <3>1. ct.data = Contents(mem, ct.at) /\ ct.at \in Text
      BY <1>2, <2>2 DEF DataInv
    <3>2. CASE mem' = mem
      BY <3>1, <3>2
    <3>3. CASE mem' # mem
      <4>1. ct.at # q.at
        BY <1>2, <2>2, <3>1, <3>3, OwnStore
      <4> QED BY <1>2, <3>1, <3>3, <4>1, OwnStore
    <3> QED BY <3>2, <3>3
  <2>3. CASE ph = "DDR" /\ ddone
    <3>1. BusDdr
      BY <1>2, <2>3 DEF Next, Bus, BusStopped, BusIdle, BusCtLook, BusResp, BusEth
    <3>2. ph' = "IDLE" /\ q' = q /\ resp'.ok
      BY <2>3, <3>1 DEF BusDdr, Ack, Pair, Answer
    <3>3. mem' = mem
      BY <1>2, <3>2, OwnStore
    <3>4. CASE q.at \notin Text
      <4>1. ct' = ct /\ ~Rewriting
        BY <1>2, <2>3, <3>4 DEF Next, TextCache, Rewriting
      <4> QED BY <2>1, <2>2, <3>2, <4>1
    <3>5. CASE q.at \in Text /\ q.wr
      <4>1. ct' = NoLine
        BY <1>2, <2>3, <3>5 DEF Next, TextCache
      <4>2. Rewriting'
        BY <3>2, <3>5 DEF Rewriting
      <4> QED BY <4>1, <4>2 DEF NoLine
    <3>6. CASE q.at \in Text /\ ~q.wr
      <4>1. ct' = [at |-> q.at, data |-> drd]
        BY <1>2, <2>3, <3>6 DEF Next, TextCache
      <4>2. drd = Contents(mem, q.at)
        BY <1>2, <2>3, <3>6 DEF DataInv
      <4>3. ~Rewriting
        BY <3>6 DEF Rewriting
      <4> QED BY <2>1, <2>2, <3>2, <3>3, <4>1, <4>2, <4>3
    <3> QED BY <3>4, <3>5, <3>6
  <2>4. CASE ~(ph = "DDR" /\ ddone)
    <3>1. ct' = ct
      BY <1>2, <2>4 DEF Next, TextCache
    <3>2. ASSUME Rewriting, ph = "DDR" PROVE Rewriting' /\ ph' = "DDR"
      <4>1. BusDdr
        BY <1>2, <3>2 DEF Next, Bus, BusStopped, BusIdle, BusCtLook, BusResp, BusEth
      <4>2. ph' = "DDR" /\ q' = q
        BY <2>4, <3>2, <4>1 DEF BusDdr
      <4> QED BY <3>2, <4>2 DEF Rewriting
    <3>3. ~Rewriting' => ph' # "DDR" \/ ~(q'.wr /\ q'.at \in Text)
      BY DEF Rewriting
    <3>4. ~(Rewriting' /\ ph' = "DDR") => ph' # "DDR" \/ ~(q'.wr /\ q'.at \in Text)
      BY DEF Rewriting
    <3> QED BY <2>1, <2>2, <3>1, <3>2, <3>3, <3>4
  <2> QED BY <2>3, <2>4
<1> QED BY <1>1, <1>2
\* A pair of dwords handed to core 2 from a row or a line as stored.
LEMMA PairOf ==
  ASSUME PortInv, NEW store, resp' = Pair(Contents(store, q.at))
  PROVE  /\ resp'.word = <<q.at, q.off, store[q.at][q.off]>>
         /\ resp'.next # NoWord => resp'.next = <<q.at, 1, store[q.at][1]>>
BY LatchType DEF Pair, Answer, Contents

\* What is answered is what is stored when it is answered
\* (core2_subsys.sv:226-299, 335-391).
LEMMA AnswerStep ==
  ASSUME PortInv, AdapterInv, DataInv, Next, PatientRestart
  PROVE  Answers'
<1> SUFFICES ASSUME run', resp'.ok, q'.at \in Rows \cup Lines
             PROVE  IF q'.wr THEN IsStored(q)'
                    ELSE /\ resp'.word = <<q'.at, q'.off, Stored(q)'[q'.off]>>
                         /\ resp'.next # NoWord => resp'.next = <<q'.at, 1, Stored(q)'[1]>>
  BY DEF Answers
<1>1. run
  BY DEF Next, Bus, BusStopped, NoResp
<1>2. q' = q /\ ph # "IDLE" /\ ~BusIdle
  BY <1>1, TakeStep, ServeStep
<1>3. CASE BusCtLook
  <2>1. ph = "CLOOK" /\ ctq.at = q.at /\ resp' = Pair(ctq.data)
    BY <1>3 DEF BusCtLook, NoResp
  <2>2. q.at \in Text /\ ~q.wr /\ q.at \in Lines /\ q.at \notin Rows /\ q.at # Nowhere
    BY <2>1, PlacesAssumption DEF PortInv
  <2>3. ctq.data = Contents(mem, q.at) /\ mem' = mem
    BY <1>1, <2>1, <2>2, MemIdle DEF DataInv, Rewriting
  <2> QED BY <1>2, <2>1, <2>2, <2>3, PairOf DEF Stored
<1>4. CASE BusResp /\ ~q.wr
  <2>1. ph = "RESP" /\ q.at \in Rows
    BY <1>2, <1>4 DEF BusResp, PortInv
  <2>2. ram' = ram
    BY <1>1, <1>4 DEF Next, Ram, CoreRamWrite, WindowWrite
  <2>3. ramq = Contents(ram, q.at)
    BY <1>1, <2>1 DEF DataInv
  <2>4. resp' = Pair(ramq)
    BY <1>4, <2>1, PlacesAssumption DEF BusResp
  <2> QED BY <1>2, <1>4, <2>1, <2>2, <2>3, <2>4, PairOf DEF Stored
<1>5. CASE BusResp /\ q.wr
  <2>1. ph = "RESP" /\ q.at \in Rows
    BY <1>2, <1>5 DEF BusResp, PortInv
  <2>2. ram' = [ram EXCEPT ![q.at][q.off] = q.val]
    BY <1>1, <1>5, <2>1 DEF Next, Ram, CoreRamWrite
  <2> QED BY <1>2, <1>5, <2>1, <2>2, LatchType DEF DataInv, IsStored, Stored
<1>6. CASE BusEth
  BY <1>2, <1>6, PlacesAssumption DEF BusEth, PortInv
<1>7. CASE BusDdr
  <2>1. ph = "DDR" /\ ddone /\ resp' = (IF q.wr THEN Ack ELSE Pair(drd))
    BY <1>7 DEF BusDdr, NoResp
  <2>2. mem' = mem /\ q.at \notin Rows /\ q.at \in Lines
    BY <1>1, <1>7, <2>1, MemStep, PlacesAssumption DEF PortInv, AdapterInv
  <2>3. CASE q.wr
    BY <1>1, <1>2, <2>1, <2>2, <2>3 DEF DataInv, IsStored, Stored
  <2>4. CASE ~q.wr
    BY <1>1, <1>2, <2>1, <2>2, <2>4, PairOf DEF DataInv, Stored
  <2> QED BY <2>3, <2>4
<1> QED BY <1>1, <1>2, <1>3, <1>4, <1>5, <1>6, <1>7 DEF Next, Bus, BusStopped

\* The data's invariant holds from clock to clock.
LEMMA DataStep ==
  ASSUME PortInv, WindowInv, AdapterInv, DataInv, Next, PatientRestart
  PROVE  DataInv'
BY StoreTypes, RamStep, TransferStep, CacheStep DEF DataInv

-----------------------------------------------------------------------------
\* The inductive invariant: the log apart, all of it is needed for the answers.
IInv == PortInv /\ LogInv /\ WindowInv /\ AdapterInv /\ DataInv /\ Answers

\* At power-up everything is at rest.
LEMMA InitBus == Init => IInv
<1> SUFFICES ASSUME Init PROVE IInv
  OBVIOUS
<1>1. WindowInv
  BY DEF Init, WindowInv
<1>2. /\ {run, req, done, rdv, wdv, grant, ready, ddone, resp.ok, dgo} \subseteq BOOLEAN
      /\ ~run /\ ~req /\ ~done /\ ~rdv /\ ~wdv /\ ~grant /\ ~ready /\ ~ddone
      /\ ~resp.ok /\ ~dgo
  BY Zenon DEF Init, NoResp
<1>3. AdapterInv
  BY <1>2 DEF Init, AdapterInv, AtRest, Drained
<1>4. DataInv
  BY <1>2 DEF Init, DataInv, NoLine
<1> QED BY <1>1, <1>2, <1>3, <1>4, InitLog DEF IInv, Answers

\* Where the clock does not run nothing on the bus changes.
LEMMA StutterBus == IInv /\ UNCHANGED vars => IInv'
<1> SUFFICES ASSUME IInv, UNCHANGED vars PROVE IInv'
  OBVIOUS
<1> USE DEF vars, mailVars, winVars, busVars, ddrVars, memVars, ethVars, logVars
<1>1. PortInv' /\ LogInv' /\ WindowInv'
  BY StutterLog DEF IInv, WindowInv, Contents
<1>2. AdapterInv'
  BY DEF IInv, AdapterInv, AtRest, Asking, Driving, Ending, Drained
<1>3. DataInv'
  BY DEF IInv, DataInv, Rewriting, IsStored, Stored, Contents
<1>4. Answers'
  BY DEF IInv, Answers, IsStored, Stored
<1> QED BY <1>1, <1>2, <1>3, <1>4 DEF IInv

\* The bus, the text cache and the adapters are as their invariant says at every clock,
\* as long as core 1 lets a stopped transaction end before it starts core 2 again.
LEMMA BusInduction ==
  ASSUME PatientRestart
  PROVE  Spec => []IInv
<1>1. IInv /\ Next => IInv'
  BY PortStep, LogStep, WindowStep, AdapterStep, DataStep, AnswerStep DEF IInv
<1>2. IInv /\ [Next]_vars => IInv'
  BY <1>1, StutterBus
<1> QED BY InitBus, <1>2, PTL DEF Spec

\* Core 2 reads what is stored, its own earlier stores and the text it was started
\* on included, if core 1 restarts it only with its adapter idle
\* (core2_subsys.sv:226-299, 335-391).
THEOREM MemoryIsRead ==
  ASSUME PatientRestart
  PROVE  Spec => []ReadsMemory
<1>1. IInv => ReadsMemory
  BY DEF IInv, PortInv, Answers, ReadsMemory, Answered, Stored
<1> QED BY BusInduction, <1>1, PTL

\* A store core 2 has the answer to is in memory, under the same condition
\* (core2_subsys.sv:382-391, 416-466).
THEOREM StoreIsDone ==
  ASSUME PatientRestart
  PROVE  Spec => []StoreDone
<1>1. IInv => StoreDone
  BY DEF IInv, PortInv, Answers, StoreDone, Answered, IsStored, Stored
<1> QED BY BusInduction, <1>1, PTL

\* With core 1 waiting, nothing of a transaction is left on the adapter's outputs
\* when it is idle (core2_subsys.sv:407-410); Core2Restart shows what happens
\* without the condition.
THEOREM AdapterDrains ==
  ASSUME PatientRestart
  PROVE  Spec => []DrainsAndIdles
<1>1. IInv => DrainsAndIdles
  BY DEF IInv, AdapterInv, AtRest, DrainsAndIdles
<1> QED BY BusInduction, <1>1, PTL
-----------------------------------------------------------------------------
\* A row of the RAM, or a line of DDR, as looked up.
LEMMA HalfType ==
  ASSUME NEW S \in SUBSET Places, NEW store \in [S -> [0 .. 1 -> 0 .. 1]], NEW at \in S
  PROVE  Contents(store, at) \in Half
BY DEF Contents, Half, Word

\* What the bus and the text cache hand on are words (core2_subsys.sv:268-299,
\* 335-391).
LEMMA AnswerTypes ==
  ASSUME TypeOK, IInv, Next
  PROVE  /\ resp' \in [ok : BOOLEAN, word : Word \cup {NoWord}, next : Word \cup {NoWord}]
         /\ {ct', ctq'} \subseteq [at : Text, data : Half] \cup {NoLine}
<1> DEFINE Resp == [ok : BOOLEAN, word : Word \cup {NoWord}, next : Word \cup {NoWord}]
<1>1. NoResp \in Resp /\ Ack \in Resp
  BY DEF NoResp, Ack, Answer
<1>2. ASSUME NEW data \in Half PROVE Pair(data) \in Resp
  <2>1. data[q.off] \in Word /\ data[1] \in Word
    BY LatchType DEF Half, IInv
  <2> QED BY <2>1 DEF Pair, Answer
<1>3. ASSUME run, ph = "DDR", ddone, ~q.wr PROVE drd \in Half
  <2>1. drd = Contents(mem, q.at) /\ mem \in [Lines -> [0 .. 1 -> 0 .. 1]] /\ q.at \in Lines
    BY <1>3 DEF IInv, DataInv, PortInv
  <2> QED BY <2>1, HalfType DEF Places
<1>4. ASSUME NEW at \in Places, NEW b \in 0 .. 1 PROVE Answer(<<at, 0, b>>, NoWord) \in Resp
  BY <1>4 DEF Answer, Word
<1>5. q.at \in Places
  <2>1. CASE q = NoAsk
    BY <2>1 DEF NoAsk, Places
  <2>2. CASE q \in use.asks
    BY <2>2, UsesAssumption DEF TypeOK, Request
  <2> QED BY <2>1, <2>2 DEF TypeOK
<1>6. resp' \in Resp
  <2> HIDE DEF Resp
  <2>1. CASE BusStopped \/ BusIdle
    BY <1>1, <2>1 DEF BusStopped, BusIdle
  <2>2. CASE BusCtLook
    <3>1. ctq.at = q.at => ctq.data \in Half
      <4>1. q.at \in Text /\ q.at # Nowhere
        BY <2>2, PlacesAssumption DEF BusCtLook, IInv, PortInv
      <4> QED BY <4>1 DEF TypeOK, NoLine
    <3> QED BY <1>1, <1>2, <2>2, <3>1 DEF BusCtLook
  <2>3. CASE BusResp
    <3>1. resp' \in {Ack, Pair(ramq), Answer(<<q.at, 0, 0>>, NoWord),
                     Answer(<<q.at, 0, 1>>, NoWord)}
      BY <2>3 DEF BusResp
    <3> QED BY <1>1, <1>2, <1>4, <1>5, <3>1 DEF TypeOK
  <2>4. CASE BusEth
    BY <1>1, <2>4 DEF BusEth
  <2>5. CASE run /\ BusDdr
    BY <1>1, <1>2, <1>3, <2>5 DEF BusDdr
  <2> QED BY <2>1, <2>2, <2>3, <2>4, <2>5 DEF Next, Bus
<1>7. {ct', ctq'} \subseteq [at : Text, data : Half] \cup {NoLine}
  <2>1. CASE run /\ ph = "DDR" /\ ddone /\ q.at \in Text /\ ~q.wr
    BY <1>3, <2>1 DEF TypeOK, Next, TextCache
  <2>2. CASE ~(run /\ ph = "DDR" /\ ddone /\ q.at \in Text /\ ~q.wr)
    BY <2>2 DEF TypeOK, Next, TextCache
  <2> QED BY <2>1, <2>2
<1> QED BY <1>6, <1>7

\* Every register keeps its type, the two adapters' included (core2_subsys.sv).
LEMMA TypeStep ==
  ASSUME TypeOK, IInv, IInv', Next
  PROVE  TypeOK'
<1>1. /\ use' \in Uses /\ mw' \in use'.orders \cup {NoOrder} /\ use' = use
      /\ port' \in use'.asks \cup {NoAsk} /\ q' \in use'.asks \cup {NoAsk}
      /\ ph' \in {"IDLE", "RESP", "DDR", "CLOOK", "ETH"}
      /\ run' \in BOOLEAN /\ dgo' \in BOOLEAN
  BY DEF IInv, PortInv, Next
<1>2. startPend' \in BOOLEAN /\ started' \in BOOLEAN /\ owner' \in BOOLEAN
  BY Zenon DEF TypeOK, Next, StartSequence, CoreStep, ControlRegs
<1>3. dly' \in 0 .. 2
  BY DEF TypeOK, Next, StartSequence
<1>4. win' \in Rows \X (0 .. 1) /\ winFetch' \in 0 .. 2
  BY DEF IInv, WindowInv
<1>5. winData' \in Word \cup {NoWord}
  <2>1. ramq[win[2]] \in Word
    BY DEF TypeOK, Half
  <2> QED BY <2>1 DEF TypeOK, Next, Window
<1>6. ram' \in [Rows -> [0 .. 1 -> 0 .. 1]] /\ mem' \in [Lines -> [0 .. 1 -> 0 .. 1]]
  BY DEF IInv, DataInv
<1>7. ramq' \in Half
  BY HalfType DEF TypeOK, Next, Ram, Places
<1>8. /\ {ddone', req', done', rdv', wdv', grant', ready', logPush', mayPush', wrD'}
           \subseteq BOOLEAN
      /\ dph' \in {"IDLE", "REQ", "DRIVE", "GAP"}
  BY DEF IInv, AdapterInv, LogInv
<1>9. ego' \in BOOLEAN
  BY Zenon DEF TypeOK, Next, Bus, BusStopped, BusIdle, BusCtLook, BusResp, BusEth, BusDdr
<1>10. edone' \in BOOLEAN /\ edv' \in BOOLEAN
  BY Zenon DEF TypeOK, Next, EthAdapter
<1>11. eready' \in BOOLEAN
  BY DEF Next, EthAdapter
<1>12. drd' \in Half \cup {NoWord}
  <2>1. CASE dph = "DRIVE"
    <3>1. SwapIn \in Half
      <4>1. daddr \in Lines
        BY <2>1 DEF IInv, AdapterInv, Driving
      <4> QED BY <4>1, SwapInLine, HalfType DEF TypeOK, Places
    <3> QED BY <2>1, <3>1 DEF TypeOK, Next, Ddr, DdrIdle, DdrReq, DdrDrive, DdrGap
  <2>2. CASE dph # "DRIVE"
    BY <2>2 DEF TypeOK, Next, Ddr, DdrIdle, DdrReq, DdrDrive, DdrGap
  <2> QED BY <2>1, <2>2
<1>13. dgap' \in 0 .. 2
  BY DEF TypeOK, Next, Ddr, DdrIdle, DdrReq, DdrDrive, DdrGap, DdrEnd
<1>14. daddr' \in Lines \cup {Nowhere}
  BY DEF TypeOK, IInv, AdapterInv, Next, Ddr, DdrIdle, DdrReq, DdrDrive, DdrGap
<1>15. wdata' \in [half : {"hi", "lo"}, val : 0 .. 1]
  BY LatchType DEF TypeOK, IInv, Next, Ddr, DdrIdle, DdrReq, DdrDrive, DdrGap
<1>16. ctl' \in {"IDLE", "WAIT", "RD", "WR"}
  BY DEF TypeOK, Next, Memory, Others, CtlWait, CtlBusy, CtlDone, CtlIdle
<1>17. fifo' \in Seq(0 .. 1) /\ Len(fifo') <= LogDepth /\ {sent', popped'} \subseteq 0 .. 1
  BY DEF IInv, LogInv
<1> QED BY <1>1, <1>2, <1>3, <1>4, <1>5, <1>6, <1>7, <1>8, <1>9, <1>10, <1>11, <1>12,
           <1>13, <1>14, <1>15, <1>16, <1>17, AnswerTypes DEF TypeOK

\* The registers have their types at power-up.
LEMMA InitType == Init => TypeOK
<1> SUFFICES ASSUME Init PROVE TypeOK
  OBVIOUS
<1>1. /\ {wrD, run, startPend, started, owner} \subseteq BOOLEAN
      /\ {dgo, ddone, req, done, rdv, wdv, grant, ready, ego, edone, edv, eready,
          logPush, mayPush} \subseteq BOOLEAN
  BY Zenon DEF Init
<1>2. /\ ram \in [Rows -> [0 .. 1 -> 0 .. 1]] /\ mem \in [Lines -> [0 .. 1 -> 0 .. 1]]
      /\ win \in Rows \X (0 .. 1)
  BY DEF Init
<1>3. ramq \in Half
  BY <1>2, HalfType DEF Init, Places
<1>4. resp \in [ok : BOOLEAN, word : Word \cup {NoWord}, next : Word \cup {NoWord}]
  BY DEF Init, NoResp
<1>5. fifo \in Seq(0 .. 1) /\ Len(fifo) <= LogDepth
  BY LogAssumption DEF Init
<1> QED BY <1>1, <1>2, <1>3, <1>4, <1>5 DEF Init, TypeOK

\* Every register of the subsystem keeps its type (core2_subsys.sv); without the
\* condition the bus could answer a read with the end of a write, and no data.
THEOREM TypesHold ==
  ASSUME PatientRestart
  PROVE  Spec => []TypeOK
<1>1. TypeOK /\ IInv /\ IInv' /\ [Next]_vars => TypeOK'
  <2>1. TypeOK /\ UNCHANGED vars => TypeOK'
    BY DEF TypeOK, Contents, vars, mailVars, winVars, busVars, ddrVars, memVars, ethVars, logVars
  <2> QED BY <2>1, TypeStep
<1> QED BY InitType, <1>1, BusInduction, PTL DEF Spec
=============================================================================
