--------------------------- MODULE CorePortProofs ---------------------------
(***************************************************************************)
(* Proofs about CorePort: every request has one owner, the core keeps its  *)
(* side of the cache's port, an answer is taken by its request, memory is  *)
(* what the stores that left MEM make of it, and a load reads it; and a    *)
(* store to CACHE_CTRL drives the strobe MaintCapture assumes.             *)
(***************************************************************************)
EXTENDS CacheControl, TLAPS

-----------------------------------------------------------------------------
(* The inductive invariant.                                                *)

\* What the hit pipe may have said of a load in MEM, and what is in the queue.
StageInv ==
  /\ mem # None => /\ mem.h1 \/ mem.hok => mem.h
                   /\ mem.h => mem.op.k \in {"load", "return"} /\ InDram(mem.op)
                   /\ mem.want = Reads(mem.op, left)
  /\ sq # None => sq.k = "store" /\ InDram(sq)
  /\ irq = "push" => ex = None /\ mem = None /\ wb = None

\* At most one holds the port, and the port is free when nobody does.
Holder(o) ==
  /\ (st_post <=> o = "store") /\ (ld_out <=> o = "load") /\ (if_xc <=> o = "fill")
  /\ (irq = "push" <=> o = "irq") /\ (mem_xc # 0 <=> o = "mem")
  /\ (port.dv = "none" <=> o = "none")
Holders == {"none", "store", "load", "fill", "irq", "mem"}

\* The request on the port is its holder's.
Carries ==
  /\ port.at = Dev /\ port.dv # "none" => mem_xc = 1
  /\ st_post => port.dv = "write"
  /\ ld_out => wb_load /\ ~(wb.h /\ wb.hok) /\ port.dv = "read" /\ port.at = wb.at
  /\ if_xc => port.dv = "read"
  /\ irq = "push" => port.dv = "write"
  /\ mem_xc = 1 => mem_port_op /\ port.dv = ReqOf(mem.op).dv /\ port.at = AddrOf(mem.op)
  /\ mem_xc \in {2, 3} => mem_port_op /\ mem.op.k = "pair" /\ port.dv = "read"
                            /\ port.at = <<Succ[mem.op.dw], 0>>

\* What keeps the holders apart: a store whose verdict is out is posted or queued, a
\* load in WB that the hit pipe has not answered has the port or waits for it, and
\* while a store is queued nothing else is under way but a store.
OwnerInv ==
  /\ \E o \in Holders : Holder(o)
  /\ Carries
  /\ st_spec => mem_xc = 0 /\ (sq # None \/ (st_post /\ resp = None))
  /\ st_post_ok => st_spec \/ (mem_xc = 1 /\ mem_port_wr /\ InDram(mem.op))
  /\ wb_load /\ ~wb.h => ld_out
  /\ wb_hmiss => mem_xc = 0
  /\ sq # None => mem_xc = 0 /\ ~ld_out /\ ~if_xc /\ irq # "push"

\* The cache answers the request on the port, once.
CacheInv ==
  /\ resp # None => DramDv /\ served = port.at /\ armed /\ ~latched
  /\ resp # None => (resp \in Reply <=> port.dv = "read")
  /\ latched => DramDv /\ port.dv = "read"
  /\ DramDv /\ resp = None => served # port.at
  /\ mem_xc = 2 \/ (mem_xc = 1 /\ mem.op.k = "load") => resp = None

\* The crossbar's chain: behind a request that was answered it runs empty without a
\* gap; ahead of a request's own pulse there is a clock in which ready is down.
Draining == (dev.d1 # "no" => dev.d2 # "no") /\ (dev.d2 # "no" => dev.ready # "no")
Chained(d1, d2, ready) == dev.d1 \in d1 /\ dev.d2 \in d2 /\ dev.ready \in ready
DevInv ==
  /\ port.dv = "none" /\ port.at = Dev => Draining
  /\ port.dv = "none" /\ port.at # Dev => dev.d1 = "no" /\ dev.d2 = "no"
  /\ DramDv => dev.d1 = "no" /\ (resp # None => dev.d2 = "no")
  /\ port.dv # "none" /\ port.at = Dev =>
       \/ /\ Chained({"no"}, {"no", "old"}, {"no", "old"})
          /\ dev.ready = "no" => dev.d2 = "no"
          /\ armed => dev.ready = "no"
       \/ Chained({"own"}, {"no"}, {"no", "old"}) /\ (armed => dev.ready = "no")
       \/ Chained({"own"}, {"own"}, {"no"})
       \/ Chained({"own"}, {"own"}, {"own"}) /\ armed

PortInv == PortTypeOK /\ StageInv /\ OwnerInv /\ CacheInv /\ DevInv

\* Memory, once the store on the port and the queued one are in it, is what the
\* stores that left MEM made of it, with the one that has been issued but is in MEM.
WithPort == IF port.dv = "write" /\ port.at # Dev
            THEN Wrote(store, port.at[1], port.be, port.v) ELSE store
WithQueue == IF sq = None THEN WithPort ELSE Wrote(WithPort, sq.dw, sq.be, sq.v)
Issued == mem_xc = 1 /\ mem.op.k = "store" /\ mem.op.dw # Dev
StoreInv ==
  /\ mem_xc = 1 => port = ReqOf(mem.op)
  /\ resp # None /\ port.dv = "write" => WithPort = store
  /\ WithQueue = IF Issued THEN Wrote(left, mem.op.dw, mem.op.be, mem.op.v) ELSE left

\* What a load is to read is what the stores before it have made; what it got is that.
LoadInv ==
  /\ mem # None /\ mem.hok => Same(mem.op.be, mem.data, left[mem.op.dw])
  /\ wb_load => wb.want = left[wb.at[1]] /\ (wb.hok => Same(wb.be, wb.data, wb.want))
  /\ resp # None /\ port.dv = "read" =>
       /\ resp.data = store[port.at[1]]
       /\ resp.next # None => resp.next = store[Succ[port.at[1]]]
  /\ mem_xc \in {2, 3} => dw0 = left[mem.op.dw]

-----------------------------------------------------------------------------
(* The state.                                                              *)

\* The registers of one bit, as the conditions that set them.
LEMMA Latches ==
  ASSUME PortNext
  PROVE  /\ prog' = prog
         /\ st_post' <=> \/ posts \/ post_next \/ sq_issue
                         \/ (st_post /\ ~w_mrdy)
         /\ ld_out' <=> \/ miss_from_wb \/ h_miss_now \/ goes_on
                        \/ (ld_out /\ ~w_mrdy)
         /\ sq' = IF enqueued THEN mem.op
                  ELSE IF post_next \/ sq_issue THEN None ELSE sq
PROOF
  <1>1. st_post' = (posts \/ post_next \/ sq_issue \/ (st_post /\ ~w_mrdy))
    BY Zenon DEF PortNext, Posted
  <1>2. ld_out' = (miss_from_wb \/ h_miss_now \/ goes_on \/ (ld_out /\ ~w_mrdy))
    BY Zenon DEF PortNext, Posted
  <1>3. /\ prog' = prog
        /\ sq' = IF enqueued THEN mem.op
                  ELSE IF post_next \/ sq_issue THEN None ELSE sq
    BY Zenon DEF PortNext, Posted
  <1> QED
    BY <1>1, <1>2, <1>3, Zenon

\* The fill, as the port sees it: it goes on, starts, or there is none.
LEMMA Fill ==
  ASSUME PortNext
  PROVE  \/ if_xc /\ (if_xc' <=> ~w_mrdy)
         \/ ~if_xc /\ fill_issue /\ if_xc'
         \/ ~if_xc /\ ~if_xc'
PROOF
  <1>1. Fetching
    BY Zenon DEF PortNext
  <1>2. CASE if_xc /\ if_xc' = ~w_mrdy
    BY <1>2, Zenon
  <1>3. CASE ~if_xc /\ fill_issue /\ if_xc' = TRUE
    BY <1>3, Zenon
  <1>4. CASE ~if_xc /\ if_xc' = FALSE
    BY <1>4, Zenon
  <1> QED
    BY <1>1, <1>2, <1>3, <1>4, Zenon DEF Fetching

\* The answer of the port.
LEMMA Ready ==
  ASSUME CacheInv, port.dv # "none", port.at # Dev
  PROVE  w_mrdy <=> resp # None
PROOF
  BY Zenon DEF CacheInv, w_mrdy, m_ready, DramDv

\* What is in WB waits for its answer, or to send its request.
LEMMA Waiting ==
  ASSUME OwnerInv, wb_wait
  PROVE  (ld_out /\ ~w_mrdy) \/ wb_hmiss
PROOF
  BY Zenon DEF OwnerInv, wb_wait, wb_hmiss

\* The first lane of an access is one of its lanes.
LEMMA BaseIn ==
  ASSUME NEW be \in SUBSET Lane, be # {}
  PROVE  Base(be) \in be
PROOF
  <1>1. be = {0} \/ be = {1} \/ be = {0, 1}
    BY DEF Lane
  <1>2. \E l \in be : \A m \in be : l <= m
    BY <1>1
  <1> QED
    BY <1>2, Zenon DEF Base

\* The ops of the program.
LEMMA OpFacts ==
  ASSUME PortTypeOK, NEW o \in prog.ops
  PROVE  /\ o \in Op /\ o # None
         /\ o.k \in OpKinds /\ o.be \subseteq Lane /\ o.v \in Val
         /\ o.dw # Dev => o.dw \in Dw
         /\ o.k = "pair" => o.dw # Dev /\ Succ[o.dw] \in Dw /\ Succ[o.dw] # o.dw
         /\ o.k \notin {"branch", "other"} /\ o.dw # Dev =>
              /\ AddrOf(o) = <<o.dw, Base(o.be)>> /\ AddrOf(o) \in Addr /\ AddrOf(o) # Dev
PROOF
  <1>1. o \in Op /\ (o.k \in {"branch", "other"} \/ o.be # {})
        /\ (o.k = "pair" => o.dw # Dev /\ Succ[o.dw] # None)
    BY ProgramsAssumption DEF PortTypeOK
  <1>2. o # None /\ o.dw \in Dw \cup {Dev} /\ o.k \in OpKinds /\ o.be \subseteq Lane /\ o.v \in Val
    BY <1>1, NothingAssumption DEF Op
  <1>3. o.k = "pair" => Succ[o.dw] \in Dw /\ Succ[o.dw] # o.dw
    BY <1>1, <1>2, ShapeAssumption
  <1>4. o.k \notin {"branch", "other"} => Base(o.be) \in Lane
    BY <1>1, <1>2, BaseIn
  <1> QED
    BY <1>1, <1>2, <1>3, <1>4, NothingAssumption DEF AddrOf, Addr

-----------------------------------------------------------------------------
(* The stages.                                                             *)

\* MEM waits: its instruction stays, and only the hit pipe's flag falls.
LEMMA MemKeeps ==
  ASSUME PortTypeOK, PortNext, mem # None, mem_busy, ~sq_spec
  PROVE  /\ ex' = ex /\ mem' \in InMem /\ mem' # None /\ ~mem'.h1
         /\ mem'.op = mem.op /\ mem'.h = mem.h /\ mem'.hok = mem.hok
         /\ mem'.data = mem.data /\ mem'.want = mem.want
PROOF
  <1>1. ex' = ex /\ mem' = [mem EXCEPT !.h1 = FALSE]
    BY Zenon DEF PortNext, Stages, Stall, Squash, Hold, Advance, Going
  <1>2. mem \in InMem
    BY DEF PortTypeOK
  <1> QED
    BY <1>1, <1>2, NothingAssumption DEF InMem

\* A load that leaves MEM for WB.
LEMMA LoadFacts ==
  ASSUME PortTypeOK, StageInv, mem # None, fastld(mem.op)
  PROVE  /\ Load(mem) \in InWb /\ Load(mem) \notin {None, Plain}
         /\ Load(mem).at = AddrOf(mem.op) /\ Load(mem).be = mem.op.be
         /\ Load(mem).h = mem.h /\ Load(mem).hok = mem.hok /\ Load(mem).data = mem.data
         /\ Load(mem).want = left[mem.op.dw]
         /\ Load(mem).at \in Addr /\ Load(mem).at # Dev /\ Load(mem).at[1] = mem.op.dw
PROOF
  <1>1. mem \in InMem /\ mem.op \in prog.ops /\ mem.op.k = "load" /\ mem.op.dw # Dev
    BY DEF PortTypeOK, fastld, InDram
  <1>2. mem.want = <<left[mem.op.dw]>> /\ mem.op.dw \in Dw /\ left[mem.op.dw] \in Data
    BY <1>1, OpFacts DEF StageInv, Reads, PortTypeOK
  <1>3. AddrOf(mem.op) \in Addr /\ AddrOf(mem.op) # Dev /\ AddrOf(mem.op)[1] = mem.op.dw
        /\ mem.op.be \subseteq Lane
    BY <1>1, OpFacts
  <1>4. Load(mem) = [at |-> AddrOf(mem.op), be |-> mem.op.be, h |-> mem.h, hok |-> mem.hok,
                     data |-> mem.data, want |-> left[mem.op.dw]]
    BY <1>2 DEF Load
  <1>5. Load(mem) \in InWb
    BY <1>1, <1>2, <1>3, <1>4 DEF InWb, InMem
  <1> QED
    BY <1>3, <1>4, <1>5, NothingAssumption

\* What comes to WB.
LEMMA WbNext ==
  ASSUME PortNext
  PROVE  \/ wb_wait /\ wb' = wb
         \/ ~wb_wait /\ wb' = None
         \/ ~mem_busy /\ mem # None /\ wb' = Plain
         \/ /\ ~mem_busy /\ mem # None /\ ~sq_spec /\ fastld(mem.op)
            /\ wb' = Load(mem)
PROOF
  BY Zenon DEF PortNext, Stages, ToWb, mem_busy

\* A plain load that leaves MEM is in WB.
LEMMA WbLeaves ==
  ASSUME PortNext, ~mem_busy, mem # None, ~sq_spec, fastld(mem.op)
  PROVE  wb' = Load(mem)
PROOF
  BY Zenon DEF PortNext, Stages, ToWb

\* What comes to MEM when its instruction leaves: nothing, or the instruction in EX.
LEMMA MemNext ==
  ASSUME PortNext, mem = None \/ ~mem_busy \/ sq_spec
  PROVE  mem' = None \/ (~mem_busy /\ ~sq_spec /\ ~fbr_taken /\ ex # None /\ mem' \in Entered)
PROOF
  <1>1. Stall \/ Squash \/ Hold \/ Advance
    BY Zenon DEF PortNext, Stages
  <1>2. CASE Stall
    BY <1>2, Zenon DEF Stall
  <1>3. CASE Squash
    BY <1>3, Zenon DEF Squash
  <1>4. CASE Hold
    BY <1>4, Zenon DEF Hold
  <1>5. CASE Advance
    <2>1. CASE ex = None
      BY <1>5, <2>1 DEF Advance
    <2>2. CASE ex # None
      BY <1>5, <2>2, Zenon DEF Advance, Going
    <2> QED
      BY <2>1, <2>2
  <1> QED
    BY <1>1, <1>2, <1>3, <1>4, <1>5

\* What a store puts on every lane is a dword.
LEMMA ReplicatedType ==
  ASSUME NEW v \in Val
  PROVE  Replicated(v) \in Data
PROOF
  BY DEF Replicated, Data

\* So is a dword with some lanes of it written,
LEMMA MergeType ==
  ASSUME NEW d \in Data, NEW be, NEW v \in Val
  PROVE  Merge(d, be, v) \in Data
PROOF
  BY DEF Merge, Data

\* and memory with a dword of it written is memory.
LEMMA WroteType ==
  ASSUME NEW m \in [Dw -> Data], NEW dw \in Dw, NEW be, NEW v \in Val
  PROVE  Wrote(m, dw, be, v) \in [Dw -> Data]
PROOF
  <1>1. m[dw] \in Data
    OBVIOUS
  <1>2. Merge(m[dw], be, v) \in Data
    BY <1>1, MergeType
  <1> QED
    BY <1>2 DEF Wrote

\* What an instruction reads is nothing, a dword, or two.
LEMMA ReadsType ==
  ASSUME PortTypeOK, NEW o \in prog.ops, NEW m \in [Dw -> Data]
  PROVE  Reads(o, m) \in {<<>>} \cup (Data \X Data) \cup {<<d>> : d \in Data}
PROOF
  <1>1. CASE o.k \in {"load", "return", "read"} /\ o.dw # Dev
    <2>1. o.dw \in Dw
      BY <1>1, OpFacts
    <2>2. Reads(o, m) = <<m[o.dw]>> /\ m[o.dw] \in Data
      BY <1>1, <2>1 DEF Reads
    <2> QED
      BY <2>2
  <1>2. CASE o.k = "pair"
    <2>1. o.dw \in Dw /\ Succ[o.dw] \in Dw
      BY <1>2, OpFacts
    <2>2. Reads(o, m) = <<m[o.dw], m[Succ[o.dw]]>> /\ m[o.dw] \in Data /\ m[Succ[o.dw]] \in Data
      BY <1>2, <2>1 DEF Reads
    <2> QED
      BY <2>2
  <1>3. CASE ~(o.k \in {"load", "return", "read"} /\ o.dw # Dev) /\ o.k # "pair"
    BY <1>3 DEF Reads
  <1> QED
    BY <1>1, <1>2, <1>3

\* Where a forwarded value comes from.
LEMMA YoungestType ==
  ASSUME PortTypeOK, ex # None, h_line_blk
  PROVE  youngest.v \in Val /\ youngest.be \subseteq Lane
PROOF
  <1>1. port.v \in Val /\ port.be \subseteq Lane
    BY ShapeAssumption DEF PortTypeOK, Request, NoRequest
  <1>2. CASE sf_a
    <2>1. youngest = [be |-> mem.op.be, v |-> mem.op.v] /\ mem # None
      BY <1>2, Zenon DEF youngest, sf_a, mem_port_wr
    <2>2. mem.op \in prog.ops
      BY <2>1 DEF PortTypeOK
    <2> QED
      BY <2>1, <2>2, OpFacts
  <1>3. CASE sf_c /\ ~sf_a
    <2>1. youngest = [be |-> sq.be, v |-> sq.v] /\ sq # None
      BY <1>3 DEF youngest, sf_c
    <2>2. sq \in prog.ops
      BY <2>1 DEF PortTypeOK
    <2> QED
      BY <2>1, <2>2, OpFacts
  <1>4. CASE ~sf_a /\ ~sf_c
    <2>1. youngest = [be |-> port.be, v |-> port.v]
      BY <1>4 DEF youngest
    <2> QED
      BY <1>1, <2>1
  <1> QED
    BY <1>2, <1>3, <1>4

\* An instruction as it enters MEM.
LEMMA EnteredFacts ==
  ASSUME PortTypeOK, ex # None, left' \in [Dw -> Data], NEW m \in Entered
  PROVE  /\ m \in InMem /\ m # None /\ m.op = ex
         /\ m.want = Reads(ex, left')
         /\ m.h1 \/ m.hok => m.h
         /\ m.h => h_elig
         /\ m.hok /\ h_fwd => m.data = Replicated(youngest.v)
         /\ m.hok /\ ~h_fwd => m.data \in PipeWords(ex.dw)
PROOF
  <1> DEFINE Enter(h, h1, hok, d) ==
        [op |-> ex, h |-> h, h1 |-> h1, hok |-> hok, data |-> d, want |-> Reads(ex, left')]
  <1>1. ex \in prog.ops /\ ex \in Op
    BY OpFacts DEF PortTypeOK
  <1>2. Reads(ex, left') \in {<<>>} \cup (Data \X Data) \cup {<<d>> : d \in Data}
    BY <1>1, ReadsType
  <1>3. ASSUME NEW h \in BOOLEAN, NEW h1 \in BOOLEAN, NEW hok \in BOOLEAN, NEW d \in Data
        PROVE  Enter(h, h1, hok, d) \in InMem /\ Enter(h, h1, hok, d) # None
    BY <1>1, <1>2, NothingAssumption DEF InMem
  <1>4. Zero \in Data
    BY ShapeAssumption, ReplicatedType DEF Zero
  <1>5. CASE ~h_elig
    <2>1. m = Enter(FALSE, FALSE, FALSE, Zero)
      BY <1>5, Zenon DEF Entered
    <2> QED
      BY <2>1, <1>3, <1>4
  <1>6. CASE h_elig /\ h_fwd
    <2>1. m = Enter(TRUE, FALSE, TRUE, Replicated(youngest.v))
      BY <1>6, Zenon DEF Entered
    <2>2. Replicated(youngest.v) \in Data
      <3>1. CASE h_line_blk
        BY <3>1, YoungestType, ReplicatedType
      <3>2. CASE ~h_line_blk
        BY <3>2, <1>6 DEF h_fwd
      <3> QED
        BY <3>1, <3>2
    <2> QED
      BY <1>6, <2>1, <2>2, <1>3
  <1>7. CASE h_elig /\ ~h_fwd
    <2>1. m = Enter(TRUE, TRUE, FALSE, Zero)
          \/ \E d \in PipeWords(ex.dw) : m = Enter(TRUE, TRUE, TRUE, d)
      BY <1>7, Zenon DEF Entered
    <2>2. CASE m = Enter(TRUE, TRUE, FALSE, Zero)
      BY <2>2, <1>7, <1>3, <1>4
    <2>3. CASE \E d \in PipeWords(ex.dw) : m = Enter(TRUE, TRUE, TRUE, d)
      <3>1. PICK d \in PipeWords(ex.dw) : m = Enter(TRUE, TRUE, TRUE, d)
        BY <2>3
      <3>2. ex.dw \in Dw
        BY <1>1, <1>7, OpFacts DEF h_elig, h_base, InDram
      <3>3. d \in Data
        BY <3>1, <3>2 DEF PipeWords, PortTypeOK
      <3> QED
        BY <3>1, <3>3, <1>7, <1>3
    <2> QED
      BY <2>1, <2>2, <2>3
  <1> QED
    BY <1>5, <1>6, <1>7

-----------------------------------------------------------------------------
(* Who may put a request on the port, by who holds it.                     *)

\* What the port engine of MEM does when it has nothing to do.
LEMMA Quiet ==
  ASSUME OwnerInv, PortNext, ~mem_port_op \/ (mem_xc = 0 /\ ~mem_issue)
  PROVE  /\ mem_xc' = (IF w_early_ld THEN 1 ELSE mem_xc)
         /\ ~st_spec' /\ ~st_post_ok' /\ dw0' = dw0
PROOF
  <1>1. MemQuiet
    BY DEF PortNext, MemEngine, MemIssue, MemSecond, MemDone, MemPost, MemGoesOn, MemWait, MemPort1,
       MemSettle, MemLast, mem_issue
  <1>2. st_post_ok' = (st_post_ok /\ ~st_spec) /\ st_spec' = FALSE
    BY <1>1, Zenon DEF MemQuiet
  <1>3. ~(st_post_ok /\ ~st_spec)
    BY DEF OwnerInv, mem_port_op
  <1> QED
    BY <1>1, <1>2, <1>3, Zenon DEF MemQuiet

\* The request is the frame's.
LEMMA PushStep ==
  ASSUME OwnerInv, PortNext, pushes
  PROVE  /\ Holder("none") /\ ex = None /\ mem = None /\ wb = None /\ sq = None
         /\ ex' = None /\ mem' = None /\ wb' = None /\ sq' = None
         /\ Holder("irq")' /\ ~st_spec' /\ ~st_post_ok'
         /\ \E d \in prog.frame, v \in Val : Put(Push(d, v))
PROOF
  <1>1. irq = "drain" /\ irq_push /\ irq' = "push"
    BY DEF PortNext, Irq, pushes
  <1>2. ex = None /\ mem = None /\ wb = None /\ sq = None /\ ~st_post /\ ~ld_out /\ ~if_xc /\ mem_xc = 0
    BY <1>1, Zenon DEF irq_push, drained
  <1>3. ~mem_port_op /\ ~wb_load /\ ~wb_hmiss /\ ~wb_wait
    BY <1>2 DEF mem_port_op, mem_port_rd, mem_port_wr, wb_load, wb_hmiss, wb_wait
  <1>4. /\ ~fill_issue /\ ~post_next /\ ~sq_issue /\ ~miss_from_wb /\ ~h_miss_now /\ ~mem_issue
        /\ ~second /\ ~w_early_ld /\ ~posts /\ ~goes_on /\ ~enqueued
    BY <1>1, <1>2, <1>3 DEF fill_issue, post_next, sq_issue, miss_from_wb, h_miss_now, mem_issue, mem_port_op,
       second, w_early_ld, posts, st_spec_now, sq_enq_now, postable, goes_on, enqueued
  <1>5. ~if_xc'
    BY <1>2, <1>4, Fill
  <1>6. ~st_post' /\ ~ld_out' /\ sq' = None
    BY <1>2, <1>4, Latches
  <1>7. mem_xc' = 0 /\ ~st_spec' /\ ~st_post_ok'
    BY <1>2, <1>3, <1>4, Quiet
  <1>8. \E d \in prog.frame, v \in Val : Put(Push(d, v))
    BY <1>4, <1>5, Zenon DEF PortNext, Port, pushes, fills, issues
  <1>9. port'.dv = "write"
    BY <1>8 DEF Put, Push
  <1>10. Holder("none")
    <2>1. \E o \in Holders : Holder(o)
      BY DEF OwnerInv
    <2> QED
      BY <2>1, <1>1, <1>2 DEF Holder, Holders
  <1>11. mem' = None /\ ex' = None
    BY <1>1, <1>2, <1>3 DEF PortNext, Stages, Stall, Squash, Hold, Advance, mem_busy, ret_h_wait
  <1>12. wb' = None
    BY <1>2, <1>3, Zenon DEF PortNext, Stages, ToWb
  <1> QED
    BY <1>1, <1>2, <1>5, <1>6, <1>7, <1>8, <1>9, <1>10, <1>11, <1>12 DEF Holder

\* What is stored in memory m: by the interrupt frame, or by a store that leaves MEM.
LEMMA StoredStep ==
  ASSUME PortTypeOK, OwnerInv, PortNext, NEW m \in [Dw -> Data], NEW stores \in BOOLEAN, stores => Leaves
  PROVE  /\ Stored(m, stores) \in [Dw -> Data]
         /\ ~pushes /\ ~stores => Stored(m, stores) = m
         /\ stores => /\ ~pushes /\ Stored(m, stores) = Wrote(m, mem.op.dw, mem.op.be, mem.op.v)
                      /\ mem # None /\ mem.op \in prog.ops /\ mem.op.dw \in Dw
         /\ pushes => Stored(m, stores) = Wrote(m, port'.at[1], Lane, port'.v)
PROOF
  <1>1. CASE pushes
    <2>1. Stored(m, stores) = Wrote(m, port'.at[1], Lane, port'.v)
      BY <1>1, Zenon DEF Stored
    <2>2. mem = None /\ \E d \in prog.frame, v \in Val : Put(Push(d, v))
      BY <1>1, PushStep
    <2>3. port'.at[1] \in Dw /\ port'.v \in Val
      BY <2>2, ProgramsAssumption DEF Put, Push, PortTypeOK
    <2>4. ~stores
      BY <2>2 DEF Leaves
    <2> QED
      BY <1>1, <2>1, <2>3, <2>4, WroteType
  <1>2. CASE stores /\ ~pushes
    <2>1. Stored(m, stores) = Wrote(m, mem.op.dw, mem.op.be, mem.op.v)
      BY <1>2 DEF Stored
    <2>2. mem # None /\ mem.op \in prog.ops /\ mem.op.dw # Dev
      BY <1>2 DEF Leaves, InDram, PortTypeOK
    <2>3. mem.op.dw \in Dw /\ mem.op.v \in Val
      BY <2>2, OpFacts
    <2>4. Stored(m, stores) \in [Dw -> Data]
      BY <2>1, <2>3, WroteType
    <2> QED
      BY <1>2, <2>1, <2>2, <2>3, <2>4, Zenon
  <1>3. CASE ~stores /\ ~pushes
    BY <1>3 DEF Stored
  <1> QED
    BY <1>1, <1>2, <1>3

\* What has been stored changes with a store that leaves MEM, or with the frame.
LEMMA LeftNext ==
  ASSUME PortTypeOK, OwnerInv, PortNext
  PROVE  /\ left' \in [Dw -> Data]
         /\ ~pushes /\ ~Leaves => left' = left
         /\ Leaves => /\ ~pushes /\ left' = Wrote(left, mem.op.dw, mem.op.be, mem.op.v)
                      /\ mem # None /\ mem.op \in prog.ops /\ mem.op.dw \in Dw
         /\ pushes => left' = Wrote(left, port'.at[1], Lane, port'.v)
PROOF
  <1>1. left' = Stored(left, Leaves)
    BY DEF PortNext, History
  <1>2. left \in [Dw -> Data] /\ Leaves \in BOOLEAN
    BY DEF PortTypeOK, Leaves
  <1> QED
    BY <1>1, <1>2, StoredStep

\* The request is a fill.
LEMMA FillStep ==
  ASSUME StageInv, OwnerInv, PortNext, fills
  PROVE  /\ Holder("none") /\ ~mem_port_op /\ ~wb_wait /\ ~w_early_ld
         /\ sq = None /\ sq' = None
         /\ Holder("fill")' /\ ~st_spec' /\ ~st_post_ok'
         /\ \E d \in prog.code : Put(Fetch(d))
PROOF
  <1>1. fill_issue /\ if_look /\ if_xc'
    BY Fill, Zenon DEF fills, fill_issue
  <1>2. /\ irq = "no" /\ ~mem_port_op /\ sq = None /\ ~st_post /\ ~ld_out /\ ~if_xc /\ mem_xc = 0
        /\ ~wb_hmiss /\ ~w_early_ld
    BY <1>1, Zenon DEF fill_issue, drained
  <1>3. ~wb_wait
    BY <1>2, Waiting
  <1>4. /\ ~pushes /\ ~post_next /\ ~sq_issue /\ ~miss_from_wb /\ ~h_miss_now /\ ~mem_issue
        /\ ~second /\ ~posts /\ ~goes_on /\ ~enqueued
    BY <1>1, <1>2 DEF pushes, post_next, sq_issue, miss_from_wb, h_miss_now, mem_issue, mem_port_op,
       second, posts, st_spec_now, sq_enq_now, postable, goes_on, enqueued
  <1>5. irq' # "push"
    BY <1>2 DEF PortNext, Irq
  <1>6. ~st_post' /\ ~ld_out' /\ sq' = None
    BY <1>2, <1>4, Latches
  <1>7. mem_xc' = 0 /\ ~st_spec' /\ ~st_post_ok'
    BY <1>2, <1>4, Quiet
  <1>8. \E d \in prog.code : Put(Fetch(d))
    BY <1>2, <1>4, Zenon DEF PortNext, Port, fills, issues
  <1>9. port'.dv = "read"
    BY <1>8 DEF Put, Fetch
  <1>10. Holder("none")
    <2>1. \E o \in Holders : Holder(o)
      BY DEF OwnerInv
    <2> QED
      BY <2>1, <1>2 DEF Holder, Holders
  <1> QED
    BY <1>1, <1>2, <1>3, <1>5, <1>6, <1>7, <1>8, <1>9, <1>10 DEF Holder

\* The facts of a free port.
LEMMA Free ==
  ASSUME OwnerInv, Holder("none")
  PROVE  /\ ~st_post /\ ~ld_out /\ ~if_xc /\ irq # "push" /\ mem_xc = 0 /\ port.dv = "none"
         /\ ~st_post_ok \/ st_spec
         /\ sq = None => ~st_spec /\ ~sq_spec
         /\ sq # None \/ wb_hmiss \/ ~wb_wait
PROOF
  <1>1. ~st_post /\ ~ld_out /\ ~if_xc /\ irq # "push" /\ mem_xc = 0 /\ port.dv = "none"
    BY DEF Holder
  <1> QED
    BY <1>1, Waiting DEF OwnerInv, sq_spec

\* The port is free and the queued store is put on it.
LEMMA FreeQueue ==
  ASSUME OwnerInv, PortNext, Holder("none"), sq # None
  PROVE  /\ ~pushes /\ ~fills /\ ~mem_issue /\ ~w_early_ld
         /\ sq' = None /\ Holder("store")' /\ ~st_spec' /\ ~st_post_ok'
         /\ Put(ReqOf(sq)) /\ ReqOf(sq).dv # "none"
PROOF
  <1>1. ~st_post /\ ~ld_out /\ ~if_xc /\ irq # "push" /\ mem_xc = 0 /\ port.dv = "none"
    BY Free
  <1>2. ~pushes /\ ~fills
    BY PushStep, Fill DEF fills, fill_issue, drained
  <1>3. /\ sq_issue /\ ~post_next /\ ~miss_from_wb /\ ~h_miss_now /\ ~mem_issue
        /\ ~second /\ ~w_early_ld /\ ~enqueued /\ ~goes_on
    BY <1>1 DEF sq_issue, post_next, miss_from_wb, h_miss_now, mem_issue, second, w_early_ld, enqueued,
       sq_enq_now, postable, goes_on
  <1>4. st_post' /\ ~ld_out' /\ sq' = None
    BY <1>1, <1>3, Latches
  <1>5. mem_xc' = 0 /\ ~st_spec' /\ ~st_post_ok'
    BY <1>1, <1>3, Quiet
  <1>6. Put(ReqOf(sq))
    BY <1>2, <1>3, Zenon DEF PortNext, Port, issues
  <1>7. ReqOf(sq).dv # "none"
    BY DEF ReqOf
  <1>8. port'.dv # "none"
    BY <1>6, <1>7 DEF Put
  <1>9. ~if_xc' /\ irq' # "push"
    BY <1>1, <1>2, Fill, Zenon DEF fills, pushes, PortNext, Irq
  <1> QED
    BY <1>2, <1>3, <1>4, <1>5, <1>6, <1>7, <1>8, <1>9 DEF Holder

\* The port is free and a load in WB asks for it.
LEMMA FreeMiss ==
  ASSUME OwnerInv, PortNext, Holder("none"), sq = None, wb_hmiss
  PROVE  /\ ~pushes /\ ~fills /\ ~mem_issue /\ ~w_early_ld
         /\ sq' = None /\ Holder("load")' /\ ~st_spec' /\ ~st_post_ok' /\ wb' = wb
         /\ Put([dv |-> "read", at |-> wb.at, be |-> wb.be, v |-> Val0])
PROOF
  <1>1. /\ ~st_post /\ ~ld_out /\ ~if_xc /\ irq # "push" /\ mem_xc = 0 /\ port.dv = "none"
        /\ ~st_spec /\ ~sq_spec
    BY Free
  <1>2. wb_wait /\ wb # None
    BY <1>1 DEF wb_wait, wb_hmiss, wb_load
  <1>3. ~pushes /\ ~fills
    BY <1>2, PushStep, Fill DEF fills, fill_issue
  <1>4. /\ miss_from_wb /\ ~sq_issue /\ ~post_next /\ ~h_miss_now /\ ~mem_issue
        /\ ~second /\ ~w_early_ld /\ ~enqueued /\ ~posts
    BY <1>1 DEF sq_issue, post_next, miss_from_wb, h_miss_now, mem_issue, second, w_early_ld, enqueued,
       sq_enq_now, st_spec_now, postable, posts
  <1>5. ~st_post' /\ ld_out' /\ sq' = None
    BY <1>1, <1>4, Latches
  <1>6. mem_xc' = 0 /\ ~st_spec' /\ ~st_post_ok'
    BY <1>1, <1>4, Quiet
  <1>7. Put([dv |-> "read", at |-> wb.at, be |-> wb.be, v |-> Val0])
    BY <1>3, <1>4, Zenon DEF PortNext, Port, issues
  <1>8. port'.dv # "none"
    BY <1>7 DEF Put
  <1>9. ~if_xc' /\ irq' # "push"
    BY <1>1, <1>3, Fill, Zenon DEF fills, pushes, PortNext, Irq
  <1>10. wb' = wb
    BY <1>2, Zenon DEF PortNext, Stages, ToWb, mem_busy
  <1> QED
    BY <1>3, <1>4, <1>5, <1>6, <1>7, <1>8, <1>9, <1>10 DEF Holder

\* The port is free and a load that has missed asks for it as it leaves MEM.
LEMMA FreeMissNow ==
  ASSUME PortTypeOK, StageInv, OwnerInv, PortNext, Holder("none"), h_miss_now
  PROVE  /\ ~pushes /\ ~fills /\ ~mem_issue /\ ~w_early_ld /\ ~mem_busy /\ fastld(mem.op)
         /\ sq = None /\ sq' = None /\ Holder("load")' /\ ~st_spec' /\ ~st_post_ok'
         /\ wb' = Load(mem) /\ Put(ReqOf(mem.op))
PROOF
  <1>1. /\ ~st_post /\ ~ld_out /\ ~if_xc /\ irq # "push" /\ mem_xc = 0 /\ port.dv = "none"
        /\ sq = None /\ ~wb_hmiss /\ ~if_look /\ mem # None /\ ~st_spec /\ ~sq_spec /\ ~wb_wait
    BY Free DEF h_miss_now
  <1>2. mem.op.k = "load" /\ InDram(mem.op) /\ mem.h
    BY <1>1 DEF h_miss_now, StageInv
  <1>3. ~pushes /\ ~fills
    BY <1>1, PushStep, Fill DEF fills, fill_issue
  <1>4. ~mem_port_op /\ ~mem_busy /\ fastld(mem.op)
    BY <1>1, <1>2 DEF mem_port_op, mem_port_rd, mem_port_wr, mem_busy, ret_h_wait, fastld
  <1>5. /\ ~sq_issue /\ ~post_next /\ ~miss_from_wb /\ ~mem_issue
        /\ ~second /\ ~w_early_ld /\ ~enqueued /\ ~posts
    BY <1>1, <1>2, <1>4 DEF sq_issue, post_next, miss_from_wb, mem_issue, second, w_early_ld, enqueued,
       sq_enq_now, st_spec_now, postable, posts, mem_port_op
  <1>6. ~st_post' /\ ld_out' /\ sq' = None
    BY <1>1, <1>5, Latches
  <1>7. mem_xc' = 0 /\ ~st_spec' /\ ~st_post_ok'
    BY <1>1, <1>5, Quiet
  <1>8. Put(ReqOf(mem.op))
    BY <1>3, <1>5, Zenon DEF PortNext, Port, issues
  <1>9. port'.dv # "none"
    BY <1>8 DEF Put, ReqOf
  <1>10. ~if_xc' /\ irq' # "push"
    BY <1>1, <1>3, Fill, Zenon DEF fills, pushes, PortNext, Irq
  <1>11. wb' = Load(mem)
    BY <1>1, <1>4, WbLeaves
  <1> QED
    BY <1>1, <1>3, <1>4, <1>5, <1>6, <1>7, <1>8, <1>9, <1>10, <1>11 DEF Holder

\* The port is free and a store is posted.
LEMMA FreeStore ==
  ASSUME StageInv, OwnerInv, PortNext, Holder("none"), mem_issue, st_spec_now
  PROVE  /\ ~pushes /\ ~fills /\ ~w_early_ld /\ ~mem_busy /\ mem_port_wr /\ InDram(mem.op)
         /\ sq = None /\ sq' = None /\ Holder("store")' /\ st_spec' /\ ~wb_wait /\ ~sq_spec
         /\ Put(ReqOf(mem.op)) /\ st_post_ok' \in Verdicts
PROOF
  <1>1. /\ ~st_post /\ ~ld_out /\ ~if_xc /\ irq # "push" /\ mem_xc = 0 /\ port.dv = "none"
        /\ mem_port_wr /\ InDram(mem.op) /\ sq = None /\ ~wb_hmiss
        /\ ~st_spec /\ ~sq_spec /\ ~wb_wait
    BY Free DEF st_spec_now, postable
  <1>2. mem # None /\ mem.op.k = "store" /\ mem_port_op
    BY <1>1 DEF mem_port_wr, mem_port_op
  <1>3. ~pushes /\ ~fills
    BY <1>2, PushStep, Fill DEF fills, fill_issue
  <1>4. ~mem_busy
    BY <1>1, <1>2 DEF mem_busy, ret_h_wait, mem_done_now
  <1>5. /\ ~sq_issue /\ ~post_next /\ ~miss_from_wb /\ ~enqueued /\ ~sq_enq_now /\ ~h_miss_now
        /\ ~second /\ ~w_early_ld /\ ~goes_on /\ posts
    BY <1>1, <1>2 DEF sq_issue, post_next, miss_from_wb, second, w_early_ld, enqueued,
       sq_enq_now, posts, mem_port_rd, goes_on, h_miss_now, StageInv
  <1>6. st_post' /\ ~ld_out' /\ sq' = None
    BY <1>1, <1>5, Latches
  <1>7. MemIssue
    BY <1>1, <1>2 DEF PortNext, MemEngine, MemSecond, MemDone, MemPost, MemGoesOn, MemWait, MemPort1,
       MemSettle, MemLast, MemQuiet
  <1>8. mem_xc' = 0 /\ st_spec' /\ st_post_ok' \in Verdicts
    BY <1>7, Zenon DEF MemIssue
  <1>9. Put(ReqOf(mem.op))
    BY <1>3, <1>5, Zenon DEF PortNext, Port, issues
  <1>10. port'.dv # "none"
    BY <1>9 DEF Put, ReqOf
  <1>11. ~if_xc' /\ irq' # "push"
    BY <1>1, <1>3, Fill, Zenon DEF fills, pushes, PortNext, Irq
  <1> QED
    BY <1>1, <1>3, <1>4, <1>5, <1>6, <1>8, <1>9, <1>10, <1>11 DEF Holder

\* The port is free and an instruction in MEM takes it and waits.
LEMMA FreeMem ==
  ASSUME StageInv, OwnerInv, PortNext, Holder("none"), mem_issue, ~st_spec_now
  PROVE  /\ ~pushes /\ ~fills /\ ~w_early_ld /\ mem_busy /\ mem_port_op
         /\ sq = None /\ sq' = None /\ Holder("mem")' /\ mem_xc' = 1 /\ ~st_spec' /\ ~wb_wait
         /\ ~sq_spec /\ Put(ReqOf(mem.op)) /\ st_post_ok' \in Verdicts
PROOF
  <1>1. /\ ~st_post /\ ~ld_out /\ ~if_xc /\ irq # "push" /\ mem_xc = 0 /\ port.dv = "none"
        /\ mem_port_op /\ ~sq_enq_now /\ sq = None /\ ~wb_hmiss
        /\ ~st_spec /\ ~sq_spec /\ ~wb_wait
    BY Free DEF mem_issue, sq_enq_now
  <1>2. mem # None
    BY <1>1 DEF mem_port_wr, mem_port_rd, mem_port_op
  <1>3. ~pushes /\ ~fills
    BY <1>1, <1>2, PushStep, Fill DEF fills, fill_issue
  <1>4. mem_busy
    BY <1>1, <1>2 DEF mem_busy, mem_done_now
  <1>5. /\ ~sq_issue /\ ~post_next /\ ~miss_from_wb /\ ~enqueued
        /\ ~second /\ ~w_early_ld /\ ~goes_on /\ ~posts
    BY <1>1, <1>2, <1>4 DEF sq_issue, post_next, miss_from_wb, second, w_early_ld, enqueued,
       posts, goes_on
  <1>6. ~h_miss_now
    BY <1>1, <1>2 DEF h_miss_now, mem_port_op, mem_port_rd, mem_port_wr, StageInv
  <1>7. ~st_post' /\ ~ld_out' /\ sq' = None
    BY <1>1, <1>5, <1>6, Latches
  <1>8. MemIssue
    BY <1>1, <1>2 DEF PortNext, MemEngine, MemSecond, MemDone, MemPost, MemGoesOn, MemWait, MemPort1,
       MemSettle, MemLast, MemQuiet
  <1>9. mem_xc' = 1 /\ ~st_spec' /\ st_post_ok' \in Verdicts
    BY <1>8, <1>1, Zenon DEF MemIssue
  <1>10. Put(ReqOf(mem.op))
    BY <1>3, <1>5, <1>6, Zenon DEF PortNext, Port, issues
  <1>11. port'.dv # "none"
    BY <1>10 DEF Put, ReqOf
  <1>12. ~if_xc' /\ irq' # "push"
    BY <1>1, <1>3, Fill, Zenon DEF fills, pushes, PortNext, Irq
  <1> QED
    BY <1>1, <1>3, <1>4, <1>5, <1>7, <1>9, <1>10, <1>11, <1>12 DEF Holder

\* The port is free and a read in EX is sent ahead.
LEMMA FreeEarly ==
  ASSUME StageInv, OwnerInv, PortNext, Holder("none"), w_early_ld
  PROVE  /\ ~pushes /\ ~fills /\ ~mem_issue /\ ~mem_busy /\ ~mem_port_op
         /\ ex # None /\ ex.k \in {"read", "pair"} /\ mem' \in Entered
         /\ sq = None /\ sq' = None /\ Holder("mem")' /\ mem_xc' = 1 /\ ~st_spec' /\ ~st_post_ok'
         /\ ~wb_wait /\ Put(ReqOf(ex))
PROOF
  <1>1. /\ ~st_post /\ ~ld_out /\ ~if_xc /\ irq # "push" /\ mem_xc = 0 /\ port.dv = "none"
        /\ ~mem_port_op /\ sq = None /\ ~wb_hmiss /\ ex # None /\ ex.k \in {"read", "pair"}
        /\ ~mem_busy /\ ~fbr_taken /\ ~(mem # None /\ mem.h)
        /\ ~st_spec /\ ~sq_spec /\ ~wb_wait
    BY Free DEF w_early_ld
  <1>2. ~pushes /\ ~fills
    BY <1>1, PushStep, FillStep
  <1>3. /\ ~sq_issue /\ ~post_next /\ ~miss_from_wb /\ ~mem_issue /\ ~h_miss_now
        /\ ~second /\ ~enqueued /\ ~posts /\ ~goes_on
    BY <1>1 DEF sq_issue, post_next, miss_from_wb, mem_issue, second, enqueued, h_miss_now,
       sq_enq_now, st_spec_now, postable, posts, mem_port_op, goes_on
  <1>4. ~st_post' /\ ~ld_out' /\ sq' = None
    BY <1>1, <1>3, Latches
  <1>5. mem_xc' = 1 /\ ~st_spec' /\ ~st_post_ok'
    BY <1>1, <1>3, Quiet
  <1>6. Put(ReqOf(ex))
    BY <1>2, <1>3, Zenon DEF PortNext, Port, issues
  <1>7. port'.dv # "none"
    BY <1>6 DEF Put, ReqOf
  <1>8. ~if_xc' /\ irq' # "push"
    BY <1>1, <1>2, Fill, Zenon DEF fills, pushes, PortNext, Irq
  <1>9. ~squashes
    BY <1>1 DEF squashes, smc_st, mem_port_op, mem_port_rd
  <1>10. mem' \in Entered
    BY <1>1, <1>9 DEF PortNext, Stages, Stall, Squash, Hold, Advance
  <1> QED
    BY <1>1, <1>2, <1>3, <1>4, <1>5, <1>6, <1>7, <1>8, <1>10 DEF Holder

\* What the port does when nothing is put on it.
LEMMA PortQuiet ==
  ASSUME PortNext, ~pushes, ~fills, ~issues
  PROVE  /\ completes => port' = NoRequest(port.at)
         /\ ~completes => port' = port
         /\ armed' <=> armed \/ ~m_ready
PROOF
  <1>1. port' = (IF completes THEN NoRequest(port.at) ELSE port) /\ armed' = (armed \/ ~m_ready)
    BY Zenon DEF PortNext, Port, issues
  <1> QED
    BY <1>1, Zenon

\* The port stays free.
LEMMA FreeQuiet ==
  ASSUME OwnerInv, PortNext, Holder("none"), ~pushes, ~fills, ~issues
  PROVE  /\ port' = port /\ sq = None /\ sq' = None /\ ~mem_issue /\ ~w_early_ld /\ ~wb_hmiss
         /\ Holder("none")' /\ ~st_spec' /\ ~st_post_ok' /\ ~wb_wait /\ ~sq_spec
PROOF
  <1>1. /\ ~st_post /\ ~ld_out /\ ~if_xc /\ irq # "push" /\ mem_xc = 0 /\ port.dv = "none"
        /\ (sq = None => ~st_spec /\ ~sq_spec)
    BY Free
  <1>2. sq = None
    BY <1>1 DEF issues, sq_issue
  <1>3. ~wb_hmiss /\ ~wb_wait
    BY <1>1, <1>2, Free DEF issues, miss_from_wb
  <1>4. ~sq_enq_now /\ ~enqueued /\ ~mem_issue /\ ~w_early_ld
    BY <1>1, Zenon DEF issues, sq_enq_now, enqueued
  <1>5. ~st_spec_now
    BY <1>1, <1>4 DEF st_spec_now, mem_issue, postable, mem_port_op
  <1>6. ~posts /\ ~goes_on /\ ~completes
    BY <1>1, <1>4, <1>5 DEF posts, goes_on, completes
  <1>7. ~st_post' /\ ~ld_out' /\ sq' = None
    BY <1>1, <1>2, <1>4, <1>6, Latches DEF issues
  <1>8. mem_xc' = 0 /\ ~st_spec' /\ ~st_post_ok'
    BY <1>1, <1>4, Quiet
  <1>9. port' = port
    BY <1>6, PortQuiet
  <1>10. ~if_xc' /\ irq' # "push"
    BY <1>1, Fill, Zenon DEF fills, pushes, PortNext, Irq
  <1> QED
    BY <1>1, <1>2, <1>3, <1>4, <1>7, <1>8, <1>9, <1>10 DEF Holder

\* The facts of a port that a posted store holds.
LEMMA Posting ==
  ASSUME OwnerInv, CacheInv, Holder("store")
  PROVE  /\ st_post /\ ~ld_out /\ ~if_xc /\ irq # "push" /\ mem_xc = 0
         /\ port.dv = "write" /\ port.at # Dev /\ (w_mrdy <=> resp # None)
         /\ sq_spec /\ w_mrdy => sq # None
         /\ wb_hmiss \/ ~wb_wait
PROOF
  <1>1. st_post /\ ~ld_out /\ ~if_xc /\ irq # "push" /\ mem_xc = 0 /\ port.dv # "none"
    BY DEF Holder
  <1>2. port.dv = "write" /\ port.at # Dev
    BY <1>1 DEF OwnerInv, Carries
  <1>3. w_mrdy <=> resp # None
    BY <1>1, <1>2, Ready
  <1>4. sq_spec /\ w_mrdy => sq # None
    BY <1>1, <1>3 DEF OwnerInv, sq_spec
  <1> QED
    BY <1>1, <1>2, <1>3, <1>4, Waiting

\* Neither a push nor a fill begins while a request is on the port.
LEMMA NoNew ==
  ASSUME OwnerInv, PortNext, ~Holder("none"), StageInv
  PROVE  ~pushes /\ ~fills
PROOF
  BY PushStep, FillStep

\* The queued store follows the posted one.
LEMMA PostedQueue ==
  ASSUME StageInv, OwnerInv, CacheInv, PortNext, Holder("store"), post_next
  PROVE  /\ ~mem_issue /\ ~w_early_ld /\ resp # None
         /\ sq # None /\ sq' = None /\ Holder("store")' /\ ~st_spec' /\ ~st_post_ok'
         /\ Put(ReqOf(sq)) /\ ReqOf(sq).dv # "none" /\ AddrOf(sq) # port.at
PROOF
  <1>1. /\ st_post /\ ~ld_out /\ ~if_xc /\ irq # "push" /\ mem_xc = 0
        /\ port.dv = "write" /\ w_mrdy /\ resp # None /\ sq # None /\ AddrOf(sq) # port.at
    BY Posting DEF post_next
  <1>2. ~pushes /\ ~fills
    BY <1>1, NoNew DEF Holder
  <1>3. /\ ~sq_issue /\ ~miss_from_wb /\ ~h_miss_now /\ ~mem_issue
        /\ ~second /\ ~w_early_ld /\ ~enqueued /\ ~goes_on
    BY <1>1 DEF sq_issue, miss_from_wb, h_miss_now, mem_issue, second, w_early_ld, enqueued,
       sq_enq_now, postable, goes_on
  <1>4. st_post' /\ ~ld_out' /\ sq' = None
    BY <1>1, <1>3, Latches
  <1>5. mem_xc' = 0 /\ ~st_spec' /\ ~st_post_ok'
    BY <1>1, <1>3, Quiet
  <1>6. Put(ReqOf(sq))
    BY <1>2, <1>3, Zenon DEF PortNext, Port, issues
  <1>7. ReqOf(sq).dv # "none" /\ port'.dv # "none"
    BY <1>6 DEF ReqOf, Put
  <1>8. ~if_xc' /\ irq' # "push"
    BY <1>1, <1>2, Fill, Zenon DEF fills, pushes, PortNext, Irq
  <1> QED
    BY <1>1, <1>3, <1>4, <1>5, <1>6, <1>7, <1>8 DEF Holder

\* A store in MEM follows the posted one.
LEMMA PostedStore ==
  ASSUME StageInv, OwnerInv, CacheInv, PortNext, Holder("store"), mem_issue, ~enqueued, sq_enq_now
  PROVE  /\ ~w_early_ld /\ ~mem_busy /\ mem_port_wr /\ InDram(mem.op) /\ resp # None
         /\ sq = None /\ sq' = None /\ Holder("store")' /\ st_spec' /\ ~wb_wait /\ ~sq_spec
         /\ Put(ReqOf(mem.op)) /\ AddrOf(mem.op) # port.at /\ st_post_ok' \in Verdicts
PROOF
  <1>1. /\ st_post /\ ~ld_out /\ ~if_xc /\ irq # "push" /\ mem_xc = 0
        /\ port.dv = "write" /\ sq = None /\ ~wb_hmiss /\ mem_port_wr /\ InDram(mem.op)
        /\ mem_chain /\ w_mrdy /\ resp # None /\ AddrOf(mem.op) # port.at /\ ~wb_wait /\ ~sq_spec
    BY Posting DEF sq_enq_now, postable, enqueued, mem_chain
  <1>2. mem # None /\ mem.op.k = "store" /\ mem_port_op
    BY <1>1 DEF mem_port_wr, mem_port_op
  <1>3. ~pushes /\ ~fills
    BY <1>1, NoNew DEF Holder
  <1>4. ~mem_busy
    BY <1>1, <1>2 DEF mem_busy, ret_h_wait, mem_done_now
  <1>5. /\ ~post_next /\ ~sq_issue /\ ~miss_from_wb /\ ~h_miss_now
        /\ ~second /\ ~w_early_ld /\ ~goes_on /\ posts
    BY <1>1, <1>2 DEF sq_issue, post_next, miss_from_wb, second, w_early_ld,
       posts, goes_on, h_miss_now
  <1>6. st_post' /\ ~ld_out' /\ sq' = None
    BY <1>1, <1>5, Latches
  <1>7. MemIssue
    BY <1>1, <1>2 DEF PortNext, MemEngine, MemSecond, MemDone, MemPost, MemGoesOn, MemWait, MemPort1,
       MemSettle, MemLast, MemQuiet
  <1>8. mem_xc' = 0 /\ st_spec' /\ st_post_ok' \in Verdicts
    BY <1>7, Zenon DEF MemIssue
  <1>9. Put(ReqOf(mem.op))
    BY <1>3, <1>5, Zenon DEF PortNext, Port, issues
  <1>10. port'.dv # "none"
    BY <1>9 DEF Put, ReqOf
  <1>11. ~if_xc' /\ irq' # "push"
    BY <1>1, <1>3, Fill, Zenon DEF fills, pushes, PortNext, Irq
  <1> QED
    BY <1>1, <1>4, <1>5, <1>6, <1>8, <1>9, <1>10, <1>11 DEF Holder

\* Another instruction in MEM follows the posted store, and waits.
LEMMA PostedMem ==
  ASSUME StageInv, OwnerInv, CacheInv, PortNext, Holder("store"), mem_issue, ~sq_enq_now
  PROVE  /\ ~w_early_ld /\ mem_busy /\ mem_port_op /\ resp # None /\ AddrOf(mem.op) # port.at
         /\ sq = None /\ sq' = None /\ Holder("mem")' /\ mem_xc' = 1 /\ ~st_spec' /\ ~wb_wait
         /\ ~sq_spec /\ Put(ReqOf(mem.op)) /\ st_post_ok' \in Verdicts /\ ~enqueued
PROOF
  <1>1. /\ st_post /\ ~ld_out /\ ~if_xc /\ irq # "push" /\ mem_xc = 0
        /\ port.dv = "write" /\ sq = None /\ ~wb_hmiss /\ mem_port_op
        /\ mem_chain /\ w_mrdy /\ resp # None /\ AddrOf(mem.op) # port.at /\ ~wb_wait /\ ~sq_spec
    BY Posting DEF mem_issue, mem_chain
  <1>2. mem # None /\ ~st_spec_now /\ ~enqueued
    BY <1>1 DEF mem_port_wr, mem_port_rd, mem_port_op, st_spec_now, enqueued
  <1>3. ~pushes /\ ~fills
    BY <1>1, NoNew DEF Holder
  <1>4. mem_busy
    BY <1>1, <1>2 DEF mem_busy, mem_done_now
  <1>5. /\ ~post_next /\ ~sq_issue /\ ~miss_from_wb /\ ~h_miss_now
        /\ ~second /\ ~w_early_ld /\ ~goes_on /\ ~posts
    BY <1>1, <1>2 DEF sq_issue, post_next, miss_from_wb, second, w_early_ld,
       posts, goes_on, h_miss_now
  <1>6. ~st_post' /\ ~ld_out' /\ sq' = None
    BY <1>1, <1>2, <1>5, Latches
  <1>7. MemIssue
    BY <1>1, <1>2 DEF PortNext, MemEngine, MemSecond, MemDone, MemPost, MemGoesOn, MemWait, MemPort1,
       MemSettle, MemLast, MemQuiet
  <1>8. mem_xc' = 1 /\ ~st_spec' /\ st_post_ok' \in Verdicts
    BY <1>7, <1>2, Zenon DEF MemIssue
  <1>9. Put(ReqOf(mem.op))
    BY <1>2, <1>3, <1>5, Zenon DEF PortNext, Port, issues
  <1>10. port'.dv # "none"
    BY <1>9 DEF Put, ReqOf
  <1>11. ~if_xc' /\ irq' # "push"
    BY <1>1, <1>3, Fill, Zenon DEF fills, pushes, PortNext, Irq
  <1> QED
    BY <1>1, <1>2, <1>4, <1>5, <1>6, <1>8, <1>9, <1>10, <1>11 DEF Holder

\* The posted store stays on the port, or is answered and leaves it free; a store in
\* MEM may be queued behind it.
LEMMA PostedQuiet ==
  ASSUME StageInv, OwnerInv, CacheInv, PortNext, Holder("store"), ~post_next, mem_issue => enqueued
  PROVE  /\ ~w_early_ld
         /\ enqueued => /\ mem_port_wr /\ InDram(mem.op) /\ ~mem_busy /\ ~wb_wait
                        /\ sq = None /\ sq' = mem.op /\ st_spec' /\ st_post_ok' \in Verdicts
         /\ ~enqueued => sq' = sq /\ ~st_spec' /\ ~st_post_ok'
         /\ resp = None => Holder("store")' /\ port' = port
         /\ resp # None => Holder("none")' /\ port' = NoRequest(port.at)
PROOF
  <1>1. /\ st_post /\ ~ld_out /\ ~if_xc /\ irq # "push" /\ mem_xc = 0
        /\ port.dv = "write" /\ port.at # Dev /\ (w_mrdy <=> resp # None)
    BY Posting
  <1>2. ~pushes /\ ~fills
    BY <1>1, NoNew DEF Holder
  <1>3. /\ ~sq_issue /\ ~miss_from_wb /\ ~h_miss_now
        /\ ~second /\ ~w_early_ld /\ ~goes_on /\ ~st_spec_now
    BY <1>1 DEF sq_issue, miss_from_wb, second, w_early_ld, goes_on, h_miss_now, st_spec_now
  <1>4. ~issues
    BY <1>3, Zenon DEF issues
  <1>5. enqueued => /\ mem_issue /\ sq_enq_now /\ mem_port_wr /\ InDram(mem.op) /\ sq = None
                    /\ ~wb_hmiss /\ ~wb_wait /\ ~mem_chain /\ mem_port_op /\ mem # None
    BY <1>1, Posting DEF enqueued, sq_enq_now, postable, mem_issue, mem_port_op, mem_port_wr
  <1>6. mem_issue \/ ~(sq_enq_now /\ mem_chain)
    BY <1>1 DEF mem_issue, mem_port_op, sq_enq_now, postable
  <1>7. ~posts
    BY <1>1, <1>3, <1>5, <1>6 DEF posts
  <1>8. (st_post' <=> ~w_mrdy) /\ ~ld_out' /\ sq' = (IF enqueued THEN mem.op ELSE sq)
    BY <1>1, <1>3, <1>7, Latches
  <1>9. ASSUME enqueued
        PROVE  mem_xc' = 0 /\ st_spec' /\ st_post_ok' \in Verdicts
    <2>1. MemIssue
      BY <1>9, <1>1, <1>5 DEF PortNext, MemEngine, MemSecond, MemDone, MemPost, MemGoesOn, MemWait,
         MemPort1, MemSettle, MemLast, MemQuiet
    <2> QED
      BY <2>1, <1>9, <1>5, Zenon DEF MemIssue
  <1>10. enqueued => ~mem_busy
    BY <1>1, <1>5 DEF mem_busy, ret_h_wait, mem_done_now, mem_port_wr
  <1>11. ASSUME ~enqueued
         PROVE  mem_xc' = 0 /\ ~st_spec' /\ ~st_post_ok'
    BY <1>11, <1>1, <1>3, Quiet
  <1>12. ~if_xc' /\ irq' # "push"
    BY <1>1, <1>2, Fill, Zenon DEF fills, pushes, PortNext, Irq
  <1>13. completes <=> w_mrdy
    BY <1>1 DEF completes
  <1>14. /\ resp = None => port' = port
         /\ resp # None => port' = NoRequest(port.at)
    BY <1>1, <1>2, <1>4, <1>13, PortQuiet
  <1>15. NoRequest(port.at).dv = "none"
    BY DEF NoRequest
  <1> QED
    BY <1>1, <1>3, <1>5, <1>8, <1>9, <1>10, <1>11, <1>12, <1>14, <1>15 DEF Holder

\* The facts of a port that the load in WB, the fill or the frame holds.
LEMMA Borrowed ==
  ASSUME OwnerInv, CacheInv, NEW o \in {"load", "fill", "irq"}, Holder(o)
  PROVE  /\ ~st_post /\ mem_xc = 0 /\ sq = None /\ ~st_spec /\ ~sq_spec /\ ~st_post_ok
         /\ port.dv # "none" /\ port.at # Dev /\ (w_mrdy <=> resp # None)
PROOF
  <1>1. ~st_post /\ mem_xc = 0 /\ port.dv # "none" /\ (ld_out \/ if_xc \/ irq = "push")
    BY DEF Holder
  <1>2. port.at # Dev /\ sq = None /\ ~st_spec /\ ~sq_spec /\ ~st_post_ok
    BY <1>1 DEF OwnerInv, Carries, sq_spec
  <1> QED
    BY <1>1, <1>2, Ready

\* An instruction in MEM follows the load in WB, and waits.
LEMMA LoadMem ==
  ASSUME StageInv, OwnerInv, CacheInv, PortNext, Holder("load"), mem_issue
  PROVE  /\ ~w_early_ld /\ mem_busy /\ mem_port_op /\ resp # None /\ AddrOf(mem.op) # port.at
         /\ sq = None /\ sq' = None /\ Holder("mem")' /\ mem_xc' = 1 /\ ~st_spec' /\ ~wb_wait
         /\ ~sq_spec /\ Put(ReqOf(mem.op)) /\ st_post_ok' \in Verdicts
PROOF
  <1>1. /\ ~st_post /\ ld_out /\ ~if_xc /\ irq # "push" /\ mem_xc = 0 /\ sq = None /\ ~sq_spec
        /\ port.dv # "none" /\ port.at # Dev /\ (w_mrdy <=> resp # None)
    BY Borrowed DEF Holder
  <1>2. /\ mem_port_op /\ mem_chain /\ w_mrdy /\ AddrOf(mem.op) # port.at /\ ~wb_wait
        /\ ~sq_enq_now /\ ~wb_hmiss /\ mem # None /\ ~st_spec_now /\ ~enqueued
    BY <1>1, Waiting DEF mem_issue, mem_chain, sq_enq_now, postable, wb_hmiss, mem_port_op, mem_port_wr,
       mem_port_rd, st_spec_now, enqueued
  <1>3. ~pushes /\ ~fills
    BY <1>1, NoNew DEF Holder
  <1>4. mem_busy
    BY <1>1, <1>2 DEF mem_busy, mem_done_now
  <1>5. /\ ~post_next /\ ~sq_issue /\ ~miss_from_wb /\ ~h_miss_now
        /\ ~second /\ ~w_early_ld /\ ~goes_on /\ ~posts
    BY <1>1, <1>2 DEF sq_issue, post_next, miss_from_wb, second, w_early_ld,
       posts, goes_on, h_miss_now
  <1>6. ~st_post' /\ ~ld_out' /\ sq' = None
    BY <1>1, <1>2, <1>5, Latches
  <1>7. MemIssue
    BY <1>1, <1>2 DEF PortNext, MemEngine, MemSecond, MemDone, MemPost, MemGoesOn, MemWait, MemPort1,
       MemSettle, MemLast, MemQuiet
  <1>8. mem_xc' = 1 /\ ~st_spec' /\ st_post_ok' \in Verdicts
    BY <1>7, <1>2, Zenon DEF MemIssue
  <1>9. Put(ReqOf(mem.op))
    BY <1>2, <1>3, <1>5, Zenon DEF PortNext, Port, issues
  <1>10. port'.dv # "none"
    BY <1>9 DEF Put, ReqOf
  <1>11. ~if_xc' /\ irq' # "push"
    BY <1>1, <1>3, Fill, Zenon DEF fills, pushes, PortNext, Irq
  <1> QED
    BY <1>1, <1>2, <1>4, <1>5, <1>6, <1>8, <1>9, <1>10, <1>11 DEF Holder

\* The load, the fill or the frame stays on the port, or is answered and leaves it.
LEMMA BorrowedQuiet ==
  ASSUME StageInv, OwnerInv, CacheInv, PortNext, NEW o \in {"load", "fill", "irq"}, Holder(o),
         ~mem_issue
  PROVE  /\ ~w_early_ld /\ sq = None /\ sq' = None /\ ~st_spec' /\ ~st_post_ok' /\ ~sq_spec
         /\ o = "load" => (wb_wait <=> resp = None)
         /\ resp = None => Holder(o)' /\ port' = port
         /\ resp # None => Holder("none")' /\ port' = NoRequest(port.at)
PROOF
  <1>1. /\ ~st_post /\ mem_xc = 0 /\ sq = None /\ ~st_spec /\ ~sq_spec /\ ~st_post_ok
        /\ port.dv # "none" /\ port.at # Dev /\ (w_mrdy <=> resp # None)
    BY Borrowed
  <1>2. (ld_out <=> o = "load") /\ (if_xc <=> o = "fill") /\ (irq = "push" <=> o = "irq")
    BY DEF Holder
  <1>3. ~pushes /\ ~fills
    BY <1>1, NoNew DEF Holder
  <1>4. o = "irq" => ex = None /\ mem = None /\ wb = None
    BY <1>2 DEF StageInv
  <1>5. ~w_early_ld /\ ~h_miss_now /\ ~miss_from_wb
    BY <1>1, <1>2, <1>4 DEF w_early_ld, h_miss_now, miss_from_wb, wb_hmiss, wb_load
  <1>6. ~post_next /\ ~sq_issue /\ ~second /\ ~enqueued /\ ~goes_on
    BY <1>1 DEF post_next, sq_issue, second, enqueued, sq_enq_now, goes_on
  <1>7. ~posts
    BY <1>1 DEF posts, st_spec_now, sq_enq_now, mem_issue, postable, mem_port_op
  <1>8. ~issues
    BY <1>5, <1>6, Zenon DEF issues
  <1>9. ~st_post' /\ (ld_out' <=> ld_out /\ ~w_mrdy) /\ sq' = None
    BY <1>1, <1>5, <1>6, <1>7, Latches
  <1>10. mem_xc' = 0 /\ ~st_spec' /\ ~st_post_ok'
    BY <1>1, <1>5, Quiet
  <1>11. if_xc' <=> if_xc /\ ~w_mrdy
    BY <1>2, <1>3, Fill, Zenon DEF fills
  <1>12. irq' = "push" <=> irq = "push" /\ ~w_mrdy
    BY <1>2, <1>3 DEF PortNext, Irq, pushes
  <1>13. completes <=> w_mrdy
    BY <1>1, <1>2 DEF completes
  <1>14. /\ resp = None => port' = port
         /\ resp # None => port' = NoRequest(port.at)
    BY <1>1, <1>3, <1>8, <1>13, PortQuiet
  <1>15. NoRequest(port.at).dv = "none"
    BY DEF NoRequest
  <1>16. o = "load" => (wb_wait <=> resp = None)
    BY <1>1, <1>2 DEF OwnerInv, Carries, wb_wait
  <1> QED
    BY <1>1, <1>2, <1>5, <1>9, <1>10, <1>11, <1>12, <1>14, <1>15, <1>16 DEF Holder

\* The facts of a port that an instruction in MEM holds.
LEMMA Using ==
  ASSUME PortTypeOK, OwnerInv, CacheInv, Holder("mem")
  PROVE  /\ ~st_post /\ ~ld_out /\ ~if_xc /\ irq # "push" /\ mem_xc \in {1, 2, 3}
         /\ port.dv # "none" /\ mem_port_op /\ mem # None /\ (mem.op.k = "load" => ~mem.h)
         /\ sq = None /\ ~st_spec /\ ~sq_spec /\ ~wb_wait /\ ~wb_hmiss
         /\ st_post_ok => mem_xc = 1 /\ mem_port_wr /\ InDram(mem.op)
         /\ mem_xc # 1 => mem.op.k = "pair"
         /\ mem_xc # 1 \/ InDram(mem.op) => port.at # Dev /\ (w_mrdy <=> resp # None)
         /\ mem_xc = 2 \/ fastld(mem.op) => ~w_mrdy
         /\ port.at = Dev => mem_xc = 1
PROOF
  <1>1. ~st_post /\ ~ld_out /\ ~if_xc /\ irq # "push" /\ mem_xc # 0 /\ port.dv # "none"
    BY DEF Holder
  <1>2. mem_xc \in {1, 2, 3}
    BY <1>1 DEF PortTypeOK
  <1>3. mem_port_op /\ (mem_xc # 1 => mem.op.k = "pair")
    BY <1>2 DEF OwnerInv, Carries
  <1>4. mem # None /\ (mem.op.k = "load" => ~mem.h)
    BY <1>3 DEF mem_port_op, mem_port_rd, mem_port_wr
  <1>5. sq = None /\ ~st_spec /\ ~wb_hmiss
    BY <1>1 DEF OwnerInv
  <1>6. ~wb_wait /\ ~sq_spec
    BY <1>1, <1>5, Waiting DEF sq_spec
  <1>7. st_post_ok => mem_xc = 1 /\ mem_port_wr /\ InDram(mem.op)
    BY <1>5 DEF OwnerInv
  <1>8. mem_xc # 1 \/ InDram(mem.op) => port.at # Dev
    <2>1. CASE mem_xc # 1
      BY <1>1, <2>1 DEF OwnerInv, Carries
    <2>2. CASE mem_xc = 1 /\ InDram(mem.op)
      <3>1. mem.op \in prog.ops /\ mem.op.k \notin {"branch", "other"} /\ mem.op.dw # Dev
        BY <1>3, <1>4, <2>2 DEF PortTypeOK, mem_port_op, mem_port_rd, mem_port_wr, InDram
      <3>2. port.at = AddrOf(mem.op)
        BY <2>2 DEF OwnerInv, Carries
      <3> QED
        BY <3>1, <3>2, OpFacts
    <2> QED
      BY <2>1, <2>2
  <1>9. mem_xc # 1 \/ InDram(mem.op) => (w_mrdy <=> resp # None)
    BY <1>1, <1>8, Ready
  <1>10. mem_xc = 2 \/ fastld(mem.op) => ~w_mrdy
    BY <1>2, <1>3, <1>9 DEF CacheInv, fastld
  <1> QED
    BY <1>1, <1>2, <1>3, <1>4, <1>5, <1>6, <1>7, <1>8, <1>9, <1>10 DEF OwnerInv, Carries

\* Nothing else happens at the port meanwhile.
LEMMA UsingStep ==
  ASSUME PortTypeOK, StageInv, OwnerInv, CacheInv, PortNext, Holder("mem")
  PROVE  /\ ~w_early_ld /\ ~mem_issue /\ ~enqueued /\ sq' = None /\ ~st_spec'
         /\ ~if_xc' /\ irq' # "push" /\ ~sq_enq_now /\ ~st_spec_now
         /\ st_post' <=> mem_port_wr /\ mem_xc = 1 /\ ~w_mrdy /\ st_post_ok
         /\ ld_out' <=> mem_port_rd /\ mem_xc = 1 /\ ~w_mrdy /\ fastld(mem.op)
         /\ second => port' = Fetch(Succ[mem.op.dw]) /\ ~armed'
         /\ ~second => /\ armed' <=> armed \/ ~m_ready
                       /\ w_mrdy /\ mem_xc \in {1, 3} => port' = NoRequest(port.at)
                       /\ ~(w_mrdy /\ mem_xc \in {1, 3}) => port' = port
PROOF
  <1>1. /\ ~st_post /\ ~ld_out /\ ~if_xc /\ irq # "push" /\ mem_xc \in {1, 2, 3}
        /\ port.dv # "none" /\ mem_port_op /\ mem # None /\ sq = None
    BY Using
  <1>2. ~pushes /\ ~fills
    BY <1>1, NoNew DEF Holder
  <1>3. /\ ~post_next /\ ~sq_issue /\ ~miss_from_wb /\ ~h_miss_now /\ ~sq_enq_now /\ ~st_spec_now
        /\ ~mem_issue /\ ~enqueued /\ ~w_early_ld
    BY <1>1 DEF post_next, sq_issue, miss_from_wb, h_miss_now, sq_enq_now, st_spec_now, postable,
       mem_issue, enqueued, w_early_ld
  <1>4. sq' = None
    BY <1>1, <1>3, Latches
  <1>5. st_post' <=> mem_port_wr /\ mem_xc = 1 /\ ~w_mrdy /\ st_post_ok
    BY <1>1, <1>3, Latches DEF posts
  <1>6. ld_out' <=> mem_port_rd /\ mem_xc = 1 /\ ~w_mrdy /\ fastld(mem.op)
    BY <1>1, <1>3, Latches DEF goes_on
  <1>7. st_spec' = FALSE
    BY <1>1, <1>3, Zenon DEF PortNext, MemEngine, MemIssue, MemSecond, MemDone, MemPost, MemGoesOn, MemWait, MemPort1,
       MemSettle, MemLast, MemQuiet
  <1>8. ~if_xc' /\ irq' # "push"
    BY <1>1, <1>2, Fill, Zenon DEF fills, pushes, PortNext, Irq
  <1>9. CASE second
    <2>1. port' = Fetch(Succ[mem.op.dw]) /\ armed' = FALSE
      BY <1>2, <1>3, <1>9, Zenon DEF PortNext, Port, issues
    <2> QED
      BY <2>1, <1>1, <1>2, <1>3, <1>4, <1>5, <1>6, <1>7, <1>8, <1>9
  <1>10. CASE ~second
    <2>1. ~issues
      BY <1>3, <1>10, Zenon DEF issues
    <2>2. completes <=> w_mrdy /\ mem_xc \in {1, 3}
      BY <1>1 DEF completes
    <2> QED
      BY <2>1, <2>2, PortQuiet, <1>1, <1>2, <1>3, <1>4, <1>5, <1>6, <1>7, <1>8, <1>10
  <1> QED
    BY <1>9, <1>10

\* A pair sends its second request.
LEMMA MemTwo ==
  ASSUME PortTypeOK, StageInv, OwnerInv, CacheInv, PortNext, Holder("mem"), second
  PROVE  /\ Holder("mem")' /\ mem_xc = 1 /\ mem_xc' = 2 /\ mem_busy /\ mem.op.k = "pair"
         /\ resp # None /\ dw0' = resp.data /\ ~st_post_ok'
         /\ port' = Fetch(Succ[mem.op.dw])
PROOF
  <1>1. mem_xc = 1 /\ w_mrdy /\ mem_need2 /\ mem_port_op /\ mem.op.k = "pair" /\ mem # None
    BY Using DEF second, mem_need2
  <1>2. mem.op.dw # Dev
    BY <1>1, OpFacts DEF PortTypeOK
  <1>3. resp # None /\ ~st_post_ok
    BY <1>1, <1>2, Using DEF InDram, mem_port_wr
  <1>4. MemSecond
    BY <1>1 DEF PortNext, MemEngine, MemIssue, MemSecond, MemDone, MemPost, MemGoesOn, MemWait, MemPort1,
       MemSettle, MemLast, MemQuiet, mem_issue
  <1>5. mem_xc' = 2 /\ dw0' = resp.data /\ st_post_ok' = FALSE
    BY <1>4, Zenon DEF MemSecond
  <1>6. mem_busy
    BY <1>1, <1>3, UsingStep DEF mem_busy, mem_done_now, fastld
  <1>7. port' = Fetch(Succ[mem.op.dw]) /\ ~st_post' /\ ~ld_out' /\ ~if_xc' /\ irq' # "push"
    BY <1>1, UsingStep
  <1>8. port'.dv # "none"
    BY <1>7 DEF Fetch
  <1> QED
    BY <1>1, <1>3, <1>5, <1>6, <1>7, <1>8 DEF Holder

\* The answer of the instruction in MEM.
LEMMA MemAnswered ==
  ASSUME PortTypeOK, StageInv, OwnerInv, CacheInv, PortNext, Holder("mem"), w_mrdy, ~second
  PROVE  /\ Holder("none")' /\ ~mem_busy /\ ~fastld(mem.op) /\ mem_xc \in {1, 3}
         /\ mem_xc = 1 => ~mem_need2
         /\ ~st_post_ok' /\ port' = NoRequest(port.at) /\ dw0' \in {dw0, Zero}
PROOF
  <1>1. mem_xc \in {1, 3} /\ ~fastld(mem.op) /\ mem_port_op /\ ~wb_wait /\ mem # None
        /\ (mem_xc # 1 => mem.op.k = "pair") /\ (st_post_ok => mem_xc = 1)
    BY Using
  <1>2. mem_xc = 1 => ~mem_need2
    BY <1>1 DEF second
  <1>3. ~mem_busy
    BY <1>1, <1>2 DEF mem_busy, mem_done_now, ret_h_wait, mem_port_op, mem_port_rd, mem_port_wr
  <1>4. MemDone \/ MemLast
    BY <1>1, <1>2 DEF PortNext, MemEngine, MemIssue, MemSecond, MemPost, MemGoesOn, MemWait, MemPort1,
       MemSettle, MemQuiet, mem_issue
  <1>5. MemDone => mem_xc' = 0 /\ dw0' = dw0 /\ st_post_ok' = FALSE
    BY Zenon DEF MemDone
  <1>6. MemLast => mem_xc' = 0 /\ dw0' = Zero /\ st_post_ok' = st_post_ok /\ mem_xc = 3
    BY <1>1 DEF MemLast
  <1>7. port' = NoRequest(port.at) /\ ~st_post' /\ ~ld_out' /\ ~if_xc' /\ irq' # "push"
    BY <1>1, UsingStep
  <1>8. port'.dv = "none"
    BY <1>7 DEF NoRequest
  <1> QED
    BY <1>1, <1>2, <1>3, <1>4, <1>5, <1>6, <1>7, <1>8 DEF Holder

\* The store in MEM goes on as a posted one.
LEMMA MemPosts ==
  ASSUME PortTypeOK, StageInv, OwnerInv, CacheInv, PortNext, Holder("mem"), ~w_mrdy, st_post_ok
  PROVE  /\ Holder("store")' /\ ~mem_busy /\ mem_xc = 1 /\ mem_port_wr /\ InDram(mem.op)
         /\ ~st_post_ok' /\ port' = port /\ dw0' = dw0 /\ resp = None
PROOF
  <1>1. mem_xc = 1 /\ mem_port_op /\ mem_port_wr /\ InDram(mem.op) /\ ~wb_wait /\ mem # None
        /\ port.dv # "none" /\ resp = None
    BY Using
  <1>2. ~mem_busy
    BY <1>1 DEF mem_busy, mem_done_now, ret_h_wait, mem_port_wr
  <1>3. MemPost
    BY <1>1 DEF PortNext, MemEngine, MemIssue, MemSecond, MemDone, MemGoesOn, MemWait, MemPort1,
       MemSettle, MemLast, MemQuiet, mem_issue
  <1>4. mem_xc' = 0 /\ st_post_ok' = FALSE /\ dw0' = dw0
    BY <1>3, Zenon DEF MemPost
  <1>5. ~second /\ ~mem_port_rd
    BY <1>1 DEF second, mem_port_wr, mem_port_rd
  <1>6. port' = port /\ st_post' /\ ~ld_out' /\ ~if_xc' /\ irq' # "push"
    BY <1>1, <1>5, UsingStep
  <1> QED
    BY <1>1, <1>2, <1>4, <1>6 DEF Holder

\* The load in MEM goes on to WB with its read on the port.
LEMMA MemLeaves ==
  ASSUME PortTypeOK, StageInv, OwnerInv, CacheInv, PortNext, Holder("mem"), mem_xc = 1, fastld(mem.op)
  PROVE  /\ Holder("load")' /\ ~mem_busy /\ mem # None /\ wb' = Load(mem) /\ ~mem.h
         /\ ~st_post_ok' /\ port' = port /\ dw0' = dw0 /\ resp = None
PROOF
  <1>1. mem_port_op /\ ~mem_port_wr /\ ~wb_wait /\ mem # None /\ ~mem.h /\ ~sq_spec /\ ~w_mrdy
        /\ mem.op.k = "load" /\ InDram(mem.op)
    BY Using DEF fastld, mem_port_wr
  <1>2. resp = None /\ ~st_post_ok /\ port.dv # "none"
    BY <1>1, Using
  <1>3. ~mem_busy
    BY <1>1 DEF mem_busy, mem_done_now, ret_h_wait
  <1>4. MemGoesOn
    BY <1>1, <1>2 DEF PortNext, MemEngine, MemIssue, MemSecond, MemDone, MemPost, MemWait, MemPort1,
       MemSettle, MemLast, MemQuiet, mem_issue
  <1>5. mem_xc' = 0 /\ st_post_ok' = st_post_ok /\ dw0' = dw0
    BY <1>4, Zenon DEF MemGoesOn
  <1>6. ~second /\ mem_port_rd
    BY <1>1 DEF second, mem_port_op
  <1>7. port' = port /\ ~st_post' /\ ld_out' /\ ~if_xc' /\ irq' # "push"
    BY <1>1, <1>2, <1>6, UsingStep
  <1>8. wb' = Load(mem)
    BY <1>1, <1>3, WbLeaves
  <1> QED
    BY <1>1, <1>2, <1>3, <1>5, <1>7, <1>8 DEF Holder

\* The instruction in MEM waits for its answer.
LEMMA MemWaits ==
  ASSUME PortTypeOK, StageInv, OwnerInv, CacheInv, PortNext, Holder("mem"), ~w_mrdy, ~st_post_ok,
         ~(mem_xc = 1 /\ fastld(mem.op))
  PROVE  /\ Holder("mem")' /\ mem_busy /\ mem_xc' = (IF mem_xc = 1 THEN 1 ELSE 3)
         /\ ~st_post_ok' /\ port' = port /\ dw0' = dw0
PROOF
  <1>1. mem_port_op /\ mem_xc \in {1, 2, 3} /\ port.dv # "none"
    BY Using
  <1>2. mem_busy
    BY <1>1, UsingStep DEF mem_busy, mem_done_now
  <1>3. \/ MemWait \/ MemSettle
        \/ MemLast
    BY <1>1 DEF PortNext, MemEngine, MemIssue, MemSecond, MemDone, MemPost, MemGoesOn, MemPort1,
       MemQuiet, mem_issue
  <1>4. /\ MemWait => mem_xc = 1 /\ mem_xc' = mem_xc /\ st_post_ok' = st_post_ok /\ dw0' = dw0
        /\ MemSettle => mem_xc = 2 /\ mem_xc' = 3 /\ st_post_ok' = st_post_ok /\ dw0' = dw0
        /\ MemLast => mem_xc = 3 /\ mem_xc' = 3 /\ st_post_ok' = st_post_ok /\ dw0' = dw0
    BY DEF MemWait, MemPort1, MemSettle, MemLast
  <1>5. ~second
    BY DEF second
  <1>6. port' = port /\ ~st_post' /\ ~ld_out' /\ ~if_xc' /\ irq' # "push"
    BY <1>1, <1>5, UsingStep
  <1> QED
    BY <1>1, <1>2, <1>3, <1>4, <1>6 DEF Holder

-----------------------------------------------------------------------------
(* The cache and the devices see requests that come and go.                *)

\* Whatever is put on the port is a request.
LEMMA RequestType ==
  ASSUME PortTypeOK
  PROVE  /\ \A o \in prog.ops : o.k \notin {"branch", "other"} => ReqOf(o) \in Request
         /\ \A d \in prog.code : Fetch(d) \in Request
         /\ \A d \in prog.frame, v \in Val : Push(d, v) \in Request
         /\ \A d \in Dw : Fetch(d) \in Request
PROOF
  <1>1. \A d \in Dw : <<d, 0>> \in Addr
    BY DEF Addr, Lane
  <1>2. prog.code \subseteq Dw /\ prog.frame \subseteq Dw
    BY ProgramsAssumption DEF PortTypeOK
  <1>3. ASSUME NEW o \in prog.ops, o.k \notin {"branch", "other"}
        PROVE  ReqOf(o) \in Request
    <2>1. AddrOf(o) \in Addr \cup {Dev}
      BY <1>3, OpFacts DEF AddrOf
    <2>2. o.be \subseteq Lane /\ o.v \in Val
      BY <1>3, OpFacts
    <2> QED
      BY <2>1, <2>2, ShapeAssumption DEF ReqOf, Request
  <1>4. \A d \in Dw : Fetch(d) \in Request
    BY <1>1, ShapeAssumption DEF Fetch, Request
  <1>5. \A d \in Dw, v \in Val : Push(d, v) \in Request
    BY <1>1 DEF Push, Request
  <1> QED
    BY <1>2, <1>3, <1>4, <1>5

Stays  == port' = port /\ (port.dv = "none" \/ ~w_mrdy)
Drops  == port' = NoRequest(port.at) /\ port.dv # "none" /\ w_mrdy
Starts == /\ port' \in Request /\ (armed' => ~m_ready)
          /\ port.dv = "none" \/ (DramDv /\ resp # None /\ port'.at # port.at)

\* What uses the port in MEM is an instruction that reads or writes.
LEMMA OnPort ==
  ASSUME PortTypeOK, mem_port_op
  PROVE  mem # None /\ mem.op \in prog.ops /\ mem.op.k \notin {"branch", "other"}
PROOF
  BY DEF PortTypeOK, mem_port_op, mem_port_rd, mem_port_wr

\* A free port.
LEMMA FreeMoves ==
  ASSUME PortTypeOK, StageInv, OwnerInv, PortNext, Holder("none")
  PROVE  /\ Stays \/ Starts
         /\ mem_xc' # 0 => mem_xc' = 1 /\ Starts
PROOF
  <1>1. port.dv = "none" /\ mem_xc = 0 /\ ~st_post /\ ~ld_out
    BY DEF Holder
  <1>2. ASSUME NEW r \in Request, Put(r)
        PROVE  Starts
    BY <1>1, <1>2 DEF Put, Starts
  <1>3. CASE pushes
    BY <1>2, <1>3, PushStep, RequestType DEF Holder
  <1>4. CASE fills
    BY <1>2, <1>4, FillStep, RequestType DEF Holder
  <1>5. CASE sq # None
    <2>1. ReqOf(sq) \in Request
      BY <1>5, RequestType DEF StageInv, PortTypeOK
    <2> QED
      BY <1>2, <1>5, <2>1, FreeQueue DEF Holder
  <1>6. CASE sq = None /\ wb_hmiss
    <2>1. wb \in InWb
      BY <1>6 DEF wb_hmiss, wb_load, PortTypeOK
    <2>2. [dv |-> "read", at |-> wb.at, be |-> wb.be, v |-> Val0] \in Request
      BY <2>1, ShapeAssumption DEF Request, InWb
    <2> QED
      BY <1>2, <1>6, <2>2, FreeMiss DEF Holder
  <1>7. CASE h_miss_now
    <2>1. ReqOf(mem.op) \in Request
      BY <1>7, FreeMissNow, RequestType DEF fastld, PortTypeOK, h_miss_now
    <2> QED
      BY <1>2, <1>7, <2>1, FreeMissNow DEF Holder
  <1>8. CASE mem_issue
    <2>1. ReqOf(mem.op) \in Request
      BY <1>8, OnPort, RequestType DEF mem_issue
    <2>2. CASE st_spec_now
      BY <1>2, <1>8, <2>1, <2>2, FreeStore DEF Holder
    <2>3. CASE ~st_spec_now
      BY <1>2, <1>8, <2>1, <2>3, FreeMem DEF Holder
    <2> QED
      BY <2>2, <2>3
  <1>9. CASE w_early_ld
    <2>1. ReqOf(ex) \in Request
      BY <1>9, RequestType DEF w_early_ld, PortTypeOK
    <2> QED
      BY <1>2, <1>9, <2>1, FreeEarly DEF Holder
  <1>10. CASE ~pushes /\ ~fills /\ sq = None /\ ~wb_hmiss /\ ~h_miss_now /\ ~mem_issue /\ ~w_early_ld
    <2>1. ~issues
      BY <1>1, <1>10 DEF issues, post_next, sq_issue, miss_from_wb, second
    <2> QED
      BY <1>1, <1>10, <2>1, FreeQuiet DEF Stays, Holder
  <1> QED
    BY <1>3, <1>4, <1>5, <1>6, <1>7, <1>8, <1>9, <1>10

\* A port held by a posted store.
LEMMA PostedMoves ==
  ASSUME PortTypeOK, StageInv, OwnerInv, CacheInv, PortNext, Holder("store")
  PROVE  /\ Stays \/ Drops \/ Starts
         /\ mem_xc' # 0 => mem_xc' = 1 /\ Starts
PROOF
  <1>1. port.dv = "write" /\ port.at # Dev /\ (w_mrdy <=> resp # None) /\ mem_xc = 0
    BY Posting
  <1>2. ASSUME NEW r \in Request, Put(r), resp # None, r.at # port.at
        PROVE  Starts
    BY <1>1, <1>2 DEF Put, Starts, DramDv
  <1>3. CASE post_next
    <2>1. ReqOf(sq) \in Request /\ ReqOf(sq).at = AddrOf(sq)
      BY <1>3, RequestType, PostedQueue DEF StageInv, PortTypeOK, ReqOf
    <2> QED
      BY <1>2, <1>3, <2>1, PostedQueue DEF Holder
  <1>4. CASE mem_issue /\ ~enqueued
    <2>1. ReqOf(mem.op) \in Request /\ ReqOf(mem.op).at = AddrOf(mem.op)
      BY <1>4, OnPort, RequestType DEF mem_issue, ReqOf
    <2>2. CASE sq_enq_now
      BY <1>2, <1>4, <2>1, <2>2, PostedStore DEF Holder
    <2>3. CASE ~sq_enq_now
      BY <1>2, <1>4, <2>1, <2>3, PostedMem DEF Holder
    <2> QED
      BY <2>2, <2>3
  <1>5. CASE ~post_next /\ (mem_issue => enqueued)
    BY <1>1, <1>5, PostedQuiet DEF Stays, Drops, Holder
  <1> QED
    BY <1>3, <1>4, <1>5

\* Only a load in WB, of the others, hands the port on.
LEMMA NoIssue ==
  ASSUME StageInv, OwnerInv, NEW o \in {"fill", "irq"}, Holder(o)
  PROVE  ~mem_issue
PROOF
  BY DEF Holder, StageInv, mem_issue, mem_port_op, mem_port_rd, mem_port_wr, sq_enq_now, postable

\* A port lent to the load in WB, a fill or the interrupt entry.
LEMMA BorrowedMoves ==
  ASSUME PortTypeOK, StageInv, OwnerInv, CacheInv, PortNext, NEW o \in {"load", "fill", "irq"}, Holder(o)
  PROVE  /\ Stays \/ Drops \/ Starts
         /\ mem_xc' # 0 => mem_xc' = 1 /\ Starts
PROOF
  <1>1. port.dv # "none" /\ port.at # Dev /\ (w_mrdy <=> resp # None) /\ mem_xc = 0
    BY Borrowed
  <1>2. CASE mem_issue
    <2>1. ReqOf(mem.op) \in Request /\ ReqOf(mem.op).at = AddrOf(mem.op)
      BY <1>2, OnPort, RequestType DEF mem_issue, ReqOf
    <2>2. o = "load"
      BY <1>2, NoIssue
    <2> QED
      BY <1>1, <1>2, <2>1, <2>2, LoadMem DEF Put, Starts, DramDv, Holder
  <1>3. CASE ~mem_issue
    BY <1>1, <1>3, BorrowedQuiet DEF Stays, Drops, Holder
  <1> QED
    BY <1>2, <1>3

\* A port that MEM has.
LEMMA UsingMoves ==
  ASSUME PortTypeOK, StageInv, OwnerInv, CacheInv, PortNext, Holder("mem")
  PROVE  /\ Stays \/ Drops \/ Starts
         /\ mem_xc' # 0 => \/ Starts
                           \/ /\ Stays /\ mem_xc' # 2 /\ mem_busy /\ ~sq_spec /\ mem # None
                              /\ mem_xc' = 1 => mem_xc = 1 /\ ~fastld(mem.op)
PROOF
  <1>1. port.dv # "none" /\ mem # None /\ ~sq_spec /\ mem_xc \in {1, 2, 3}
        /\ (mem_xc # 1 \/ InDram(mem.op) => port.at # Dev /\ (w_mrdy <=> resp # None))
    BY Using
  <1>2. CASE second
    <2>1. mem.op.k = "pair" /\ mem_xc = 1 /\ w_mrdy /\ mem.op \in prog.ops
      BY <1>1, <1>2, MemTwo DEF second, PortTypeOK
    <2>2. mem.op.dw # Dev /\ Succ[mem.op.dw] \in Dw /\ Succ[mem.op.dw] # mem.op.dw
          /\ AddrOf(mem.op) = <<mem.op.dw, Base(mem.op.be)>>
      BY <2>1, OpFacts
    <2>3. port.at = AddrOf(mem.op) /\ DramDv /\ resp # None
      BY <1>1, <2>1, <2>2 DEF OwnerInv, Carries, DramDv, InDram
    <2>4. port' = Fetch(Succ[mem.op.dw]) /\ ~armed'
      BY <1>2, UsingStep
    <2>5. port'.at = <<Succ[mem.op.dw], 0>> /\ port' \in Request
      BY <2>2, <2>4, RequestType DEF Fetch
    <2>6. port'.at # port.at
      BY <2>2, <2>3, <2>5
    <2> QED
      BY <2>3, <2>4, <2>5, <2>6 DEF Starts
  <1>3. CASE w_mrdy /\ ~second
    BY <1>1, <1>3, MemAnswered DEF Drops, Holder
  <1>4. CASE ~w_mrdy /\ st_post_ok
    BY <1>1, <1>4, MemPosts DEF Stays, Holder
  <1>5. CASE mem_xc = 1 /\ fastld(mem.op)
    <2>1. ~w_mrdy
      BY <1>5, Using
    <2> QED
      BY <1>1, <1>5, <2>1, MemLeaves DEF Stays, Holder
  <1>6. CASE ~w_mrdy /\ ~st_post_ok /\ ~(mem_xc = 1 /\ fastld(mem.op))
    BY <1>1, <1>6, MemWaits DEF Stays
  <1> QED
    BY <1>2, <1>3, <1>4, <1>5, <1>6

\* Any port.
LEMMA PortMoves ==
  ASSUME PortTypeOK, StageInv, OwnerInv, CacheInv, PortNext
  PROVE  /\ Stays \/ Drops \/ Starts
         /\ mem_xc' # 0 => \/ Starts
                           \/ /\ Stays /\ mem_xc' # 2 /\ mem_busy /\ ~sq_spec /\ mem # None
                              /\ mem_xc' = 1 => mem_xc = 1 /\ ~fastld(mem.op)
PROOF
  <1>1. PICK o \in Holders : Holder(o)
    BY DEF OwnerInv
  <1> QED
    BY <1>1, FreeMoves, PostedMoves, BorrowedMoves, UsingMoves DEF Holders

\* ready is armed when it has been down.
LEMMA Arming ==
  ASSUME PortNext
  PROVE  (armed' => armed \/ ~m_ready) /\ (~m_ready => armed')
PROOF
  <1>1. \/ armed' = ~m_ready
        \/ armed' = (armed \/ ~m_ready)
        \/ armed' = FALSE /\ w_mrdy
    BY Zenon DEF PortNext, Port, Put, second
  <1> QED
    BY <1>1, Zenon DEF w_mrdy

\* What the cache does with the request on the port.
LEMMA CacheNext ==
  ASSUME PortTypeOK, CacheInv, PortNext
  PROVE  /\ store' \in [Dw -> Data] /\ served' \in Addr \cup {None} /\ latched' \in BOOLEAN
         /\ resp' \in Reply \cup {Ack, None}
         /\ resp # None => resp' = None /\ ~latched' /\ served' = port.at /\ store' = store
         /\ ~DramDv => resp' = None /\ ~latched' /\ served' = None /\ store' = store
         /\ DramDv /\ resp = None =>
              \/ /\ resp' = None /\ served' = served /\ (latched' => port.dv = "read")
                 /\ store' = store
              \/ /\ resp' # None /\ ~latched' /\ served' = port.at
                 /\ port.dv = "write" => /\ resp' = Ack
                                         /\ store' = Wrote(store, port.at[1], port.be, port.v)
                 /\ port.dv = "read" =>
                      /\ resp' \in Reply /\ store' = store
                      /\ resp'.data = store[port.at[1]]
                      /\ resp'.next # None => resp'.next = store[Succ[port.at[1]]]
PROOF
  <1>1. CacheQuiet \/ CacheFull \/ CacheStore \/ CacheLoad \/ CacheBusy \/ CacheAnswer
    BY DEF PortNext, Cache
  <1>2. DramDv => /\ port \in Request /\ port.at \in Addr /\ port.at[1] \in Dw /\ port.v \in Val
                  /\ port.dv \in {"read", "write"}
    <2>1. DramDv => port \in Request
      BY DEF DramDv, PortTypeOK, NoRequest
    <2> QED
      BY <2>1 DEF DramDv, Request, Addr
  <1>3. CASE resp # None
    <2>1. DramDv /\ ~DvNew /\ ~latched
      BY <1>3 DEF CacheInv, DvNew
    <2>2. CacheQuiet
      BY <1>1, <2>1 DEF CacheFull, CacheStore, CacheLoad, CacheBusy, CacheAnswer
    <2> QED
      BY <1>2, <1>3, <2>1, <2>2 DEF CacheQuiet, Kept, CacheInv, PortTypeOK
  <1>4. CASE ~DramDv
    <2>1. ~DvNew /\ ~latched /\ resp = None
      BY <1>4 DEF CacheInv, DvNew
    <2>2. CacheQuiet
      BY <1>1, <2>1 DEF CacheFull, CacheStore, CacheLoad, CacheBusy, CacheAnswer
    <2> QED
      BY <1>4, <2>1, <2>2 DEF CacheQuiet, Kept, PortTypeOK
  <1>5. CASE DramDv /\ resp = None
    <2>1. CASE CacheQuiet \/ CacheFull \/ CacheBusy
      BY <1>5, <2>1 DEF CacheQuiet, CacheFull, CacheBusy, Kept, CacheInv, PortTypeOK
    <2>2. CASE CacheLoad
      BY <1>5, <2>2 DEF CacheLoad, Kept, CacheInv, PortTypeOK
    <2>3. CASE CacheStore
      <3>1. store' = Wrote(store, port.at[1], port.be, port.v) /\ store' \in [Dw -> Data]
        BY <1>2, <1>5, <2>3, WroteType DEF CacheStore, PortTypeOK
      <3> QED
        BY <1>2, <1>5, <2>3, <3>1, NothingAssumption DEF CacheStore, PortTypeOK
    <2>4. CASE CacheAnswer
      <3>1. port.dv = "read" /\ latched' = FALSE /\ served' = port.at /\ store' = store
        BY <2>4 DEF CacheAnswer, CacheInv
      <3>2. PICK n \in {None} \cup (IF Succ[port.at[1]] = None THEN {} ELSE {store[Succ[port.at[1]]]}) :
               resp' = [data |-> store[port.at[1]], next |-> n]
        BY <2>4, Zenon DEF CacheAnswer
      <3>3. /\ store[port.at[1]] \in Data /\ n \in Data \cup {None}
            /\ n # None => n = store[Succ[port.at[1]]]
        BY <1>2, <1>5, ShapeAssumption DEF PortTypeOK
      <3>4. resp' \in Reply /\ resp' # None
        BY <3>2, <3>3, NothingAssumption DEF Reply
      <3> QED
        BY <1>2, <1>5, <3>1, <3>2, <3>3, <3>4 DEF PortTypeOK
    <2> QED
      BY <1>1, <2>1, <2>2, <2>3, <2>4
  <1> QED
    BY <1>3, <1>4, <1>5

\* The core's side of the cache's port.
LEMMA Keeps ==
  ASSUME PortTypeOK, StageInv, OwnerInv, CacheInv, PortNext, DramDv
  PROVE  IF resp = None THEN port' = port ELSE port'.dv = "none" \/ port'.at # port.at
PROOF
  <1>1. port.dv # "none" /\ (w_mrdy <=> resp # None)
    BY Ready DEF DramDv
  <1>2. NoRequest(port.at).dv = "none"
    BY DEF NoRequest
  <1> QED
    BY <1>1, <1>2, PortMoves DEF Stays, Drops, Starts

\* The cache answers the request on the port, once, after every clock.
LEMMA CacheStep ==
  ASSUME PortTypeOK, StageInv, OwnerInv, CacheInv, PortNext
  PROVE  CacheInv'
PROOF
  <1>1. NoRequest(port.at).dv = "none"
    BY DEF NoRequest
  <1>2. DramDv => (w_mrdy <=> resp # None) /\ (resp = None => ~m_ready)
    BY Ready DEF DramDv, m_ready
  <1>3. Ack \notin Reply
    BY NothingAssumption
  <1>4. ASSUME resp' # None
        PROVE  DramDv' /\ served' = port'.at /\ armed' /\ ~latched' /\ (resp' \in Reply <=> port'.dv = "read")
    <2>1. DramDv /\ resp = None
      BY <1>4, CacheNext
    <2>2. port' = port /\ armed'
      BY <1>2, <2>1, Keeps, Arming
    <2>3. port.dv \in {"read", "write"}
      BY <2>1 DEF DramDv, PortTypeOK, Request, NoRequest
    <2> QED
      BY <1>3, <1>4, <2>1, <2>2, <2>3, CacheNext DEF DramDv
  <1>5. ASSUME latched'
        PROVE  DramDv' /\ port'.dv = "read"
    <2>1. DramDv /\ resp = None /\ port.dv = "read"
      BY <1>5, CacheNext
    <2> QED
      BY <2>1, Keeps DEF DramDv
  <1>6. ASSUME DramDv', resp' = None
        PROVE  served' # port'.at
    <2>1. CASE Stays
      <3>1. DramDv /\ resp = None
        BY <1>2, <1>6, <2>1 DEF Stays, DramDv
      <3> QED
        BY <1>6, <2>1, <3>1, CacheNext DEF Stays, CacheInv
    <2>2. CASE Drops
      BY <1>1, <1>6, <2>2 DEF Drops, DramDv
    <2>3. CASE Starts /\ port.dv = "none"
      <3>1. served' = None
        BY <2>3, CacheNext DEF DramDv
      <3>2. port'.at \in Addr
        BY <1>6, <2>3 DEF Starts, DramDv, Request
      <3> QED
        BY <3>1, <3>2, NothingAssumption
    <2>4. CASE Starts /\ port.dv # "none"
      BY <2>4, CacheNext DEF Starts
    <2> QED
      BY <2>1, <2>2, <2>3, <2>4, PortMoves
  <1>7. ASSUME mem_xc' = 2 \/ (mem_xc' = 1 /\ mem'.op.k = "load")
        PROVE  resp' = None
    <2>1. CASE Starts
      BY <2>1, CacheNext DEF Starts, DramDv
    <2>2. CASE ~Starts
      <3>1. mem_xc' = 1 /\ mem_xc = 1 /\ ~fastld(mem.op) /\ mem_busy /\ ~sq_spec /\ mem # None /\ port' = port
        BY <1>7, <2>2, PortMoves DEF Stays
      <3>2. mem.op.k = "load" /\ mem.op.dw = Dev
        BY <1>7, <3>1, MemKeeps DEF fastld, InDram
      <3>3. port.at = Dev
        BY <3>1, <3>2 DEF OwnerInv, Carries, AddrOf
      <3>4. ~DramDv
        BY <3>3 DEF DramDv
      <3> QED
        BY <3>4, CacheNext
    <2> QED
      BY <2>1, <2>2
  <1> QED
    BY <1>4, <1>5, <1>6, <1>7 DEF CacheInv

\* The chain of the crossbar after a clock: it ages with a request that stays, and is
\* empty of it when ready has been seen.
LEMMA DevStep ==
  ASSUME PortTypeOK, StageInv, OwnerInv, CacheInv, DevInv, PortNext
  PROVE  /\ DevInv'
         /\ dev' \in [d1 : {"no", "old", "own"}, d2 : {"no", "old", "own"},
                      ready : {"no", "old", "own"}]
PROOF
  <1> DEFINE Age(x) == IF x = "own" /\ port' # port /\ port'.dv # "none" THEN "old" ELSE x
  <1>1. /\ dev.d1 \in {"no", "old", "own"} /\ dev.d2 \in {"no", "old", "own"}
        /\ dev.ready \in {"no", "old", "own"}
    BY DEF PortTypeOK
  <1>2. /\ dev'.d1 = IF port.dv # "none" /\ port.at = Dev THEN Age("own") ELSE "no"
        /\ dev'.d2 = Age(dev.d1)
        /\ dev'.ready = IF port.at = Dev THEN Age(dev.d2) ELSE "no"
        /\ dev' = [d1 |-> dev'.d1, d2 |-> dev'.d2, ready |-> dev'.ready]
    BY DEF PortNext, Devices, Aged
  <1>3. dev' \in [d1 : {"no", "old", "own"}, d2 : {"no", "old", "own"}, ready : {"no", "old", "own"}]
    BY <1>1, <1>2
  <1> SUFFICES DevInv'
    BY <1>3
  <1>4. /\ NoRequest(port.at).dv = "none" /\ NoRequest(port.at).at \in {None, Dev}
        /\ NoRequest(port.at).at = Dev <=> port.at = Dev
    BY NothingAssumption DEF NoRequest
  <1>5. port.at = Dev => /\ m_ready <=> dev.ready # "no"
                         /\ w_mrdy <=> dev.ready # "no" /\ armed
    BY Zenon DEF m_ready, w_mrdy
  <1>6. (armed' => armed \/ ~m_ready) /\ (~m_ready => armed')
    BY Arming
  <1>7. DramDv => (w_mrdy <=> resp # None)
    BY Ready DEF DramDv
  <1>8. CASE Stays
    <2>1. dev'.d2 = dev.d1 /\ dev'.ready = (IF port.at = Dev THEN dev.d2 ELSE "no")
          /\ dev'.d1 = IF port.dv # "none" /\ port.at = Dev THEN "own" ELSE "no"
      BY <1>2, <1>8 DEF Stays
    <2>2. CASE port.dv = "none"
      BY <1>1, <1>8, <2>1, <2>2 DEF Stays, DevInv, Draining, DramDv
    <2>3. CASE DramDv
      BY <1>1, <1>8, <2>1, <2>3 DEF Stays, DevInv, DramDv
    <2>4. CASE port.dv # "none" /\ port.at = Dev
      BY <1>1, <1>5, <1>6, <1>8, <2>1, <2>4 DEF Stays, DevInv, Chained, DramDv
    <2> QED
      BY <2>2, <2>3, <2>4 DEF DramDv
  <1>9. CASE Drops
    <2>1. dev'.d2 = dev.d1 /\ dev'.ready = (IF port.at = Dev THEN dev.d2 ELSE "no")
          /\ dev'.d1 = IF port.dv # "none" /\ port.at = Dev THEN "own" ELSE "no"
      BY <1>2, <1>4, <1>9 DEF Drops
    <2>2. CASE DramDv
      BY <1>1, <1>4, <1>9, <2>1, <2>2 DEF Drops, DevInv, DramDv
    <2>3. CASE port.dv # "none" /\ port.at = Dev
      <3>1. dev.d1 = "own" /\ dev.d2 = "own" /\ dev.ready = "own"
        BY <1>5, <1>9, <2>3 DEF Drops, DevInv, Chained
      <3> QED
        BY <1>4, <1>9, <2>1, <2>3, <3>1 DEF Drops, DevInv, Draining, DramDv
    <2> QED
      BY <1>9, <2>2, <2>3 DEF DramDv, Drops
  <1>10. CASE Starts
    <2>1. port'.dv # "none"
      BY <1>10 DEF Starts, Request
    <2>2. resp' = None
      BY <1>10, CacheNext DEF Starts, DramDv
    <2>3. dev'.d1 = "no"
      BY <1>2, <1>10 DEF Starts, DramDv
    <2>4. CASE port.at = Dev
      <3>1. port.dv = "none" /\ port' # port /\ Draining
        BY <1>10, <2>1, <2>4 DEF Starts, DramDv, DevInv
      <3> QED
        BY <1>1, <1>2, <1>5, <1>10, <2>1, <2>2, <2>3, <2>4, <3>1 DEF Starts, DevInv, Draining, Chained, DramDv
    <2>5. CASE port.at # Dev
      <3>1. dev.d1 = "no" /\ dev.d2 = "no"
        BY <1>10, <2>5 DEF Starts, DramDv, DevInv
      <3> QED
        BY <1>1, <1>2, <1>10, <2>1, <2>2, <2>3, <2>5, <3>1 DEF Starts, DevInv, Chained, DramDv
    <2> QED
      BY <2>4, <2>5
  <1> QED
    BY <1>8, <1>9, <1>10, PortMoves

-----------------------------------------------------------------------------
(* Every request keeps one holder.                                         *)

\* A load that comes to WB, or stays, without an answer of the hit pipe.
LEMMA WbUnanswered ==
  ASSUME PortTypeOK, StageInv, OwnerInv, CacheInv, PortNext, wb_load', ~wb'.h
  PROVE  \/ wb_wait /\ wb' = wb /\ ld_out /\ ~w_mrdy
         \/ Holder("mem") /\ mem_xc = 1 /\ fastld(mem.op) /\ ~mem_busy
PROOF
  <1>1. CASE wb_wait /\ wb' = wb
    BY <1>1 DEF OwnerInv, wb_load, wb_wait
  <1>2. CASE ~mem_busy /\ mem # None /\ ~sq_spec /\ fastld(mem.op) /\ wb' = Load(mem)
    <2>1. ~mem.h /\ mem.op.k = "load"
      BY <1>2, LoadFacts DEF fastld
    <2>2. mem_port_op /\ mem_done_now /\ ~mem_port_wr
      BY <1>2, <2>1 DEF mem_port_op, mem_port_rd, mem_port_wr, mem_busy
    <2>3. mem_xc \in {1, 3}
      BY <2>2 DEF mem_done_now, st_spec_now, sq_enq_now, postable
    <2>4. PICK o \in Holders : Holder(o)
      BY DEF OwnerInv
    <2>5. Holder("mem")
      BY <2>3, <2>4 DEF Holder
    <2>6. mem_xc = 1
      BY <2>1, <2>3, <2>5, Using
    <2> QED
      BY <1>2, <2>5, <2>6
  <1> QED
    BY <1>1, <1>2, WbNext DEF wb_load

\* While MEM waits for itself nothing comes to WB.
LEMMA WbEmpty ==
  ASSUME PortNext, mem_busy, ~wb_wait
  PROVE  wb' = None
PROOF
  BY WbNext

\* From a free port.
LEMMA FreeOwner ==
  ASSUME PortTypeOK, StageInv, OwnerInv, CacheInv, PortNext, Holder("none")
  PROVE  OwnerInv'
PROOF
  <1>1. port.dv = "none" /\ mem_xc = 0 /\ ~st_post /\ ~ld_out /\ resp' = None
    BY CacheNext DEF Holder, DramDv
  <1>2. wb_load' => wb'.h
    BY <1>1, WbUnanswered DEF Holder
  <1>3. prog.code \subseteq Dw /\ prog.frame \subseteq Dw
    BY ProgramsAssumption DEF PortTypeOK
  <1>4. CASE pushes
    <2>1. /\ wb' = None /\ sq' = None /\ Holder("irq")' /\ ~st_spec' /\ ~st_post_ok'
          /\ port'.dv = "write" /\ port'.at \in Addr
      BY <1>3, <1>4, PushStep DEF Put, Push, Addr, Lane
    <2> QED
      BY <1>2, <2>1, NothingAssumption DEF OwnerInv, Carries, Holder, Holders, wb_load, wb_hmiss
  <1>5. CASE fills
    <2>1. /\ sq' = None /\ Holder("fill")' /\ ~st_spec' /\ ~st_post_ok'
          /\ port'.dv = "read" /\ port'.at \in Addr
      BY <1>3, <1>5, FillStep DEF Put, Fetch, Addr, Lane
    <2> QED
      BY <1>2, <2>1, NothingAssumption DEF OwnerInv, Carries, Holder, Holders
  <1>6. CASE sq # None
    <2>1. sq.k = "store" /\ sq.dw # Dev /\ sq \in prog.ops
      BY <1>6 DEF StageInv, InDram, PortTypeOK
    <2>2. ReqOf(sq).dv = "write" /\ ReqOf(sq).at = AddrOf(sq) /\ AddrOf(sq) # Dev
      BY <2>1, OpFacts DEF ReqOf
    <2>3. /\ sq' = None /\ Holder("store")' /\ ~st_spec' /\ ~st_post_ok' /\ port' = ReqOf(sq)
      BY <1>6, FreeQueue DEF Put
    <2> QED
      BY <1>2, <2>2, <2>3 DEF OwnerInv, Carries, Holder, Holders
  <1>7. CASE sq = None /\ wb_hmiss
    <2>1. /\ sq' = None /\ Holder("load")' /\ ~st_spec' /\ ~st_post_ok' /\ wb' = wb
          /\ port' = [dv |-> "read", at |-> wb.at, be |-> wb.be, v |-> Val0]
      BY <1>7, FreeMiss DEF Put
    <2>2. wb_load /\ wb.h /\ ~wb.hok /\ wb.at \in Addr
      BY <1>7 DEF wb_hmiss, PortTypeOK, wb_load, InWb
    <2> QED
      BY <1>2, <2>1, <2>2, NothingAssumption DEF OwnerInv, Carries, Holder, Holders, wb_load, wb_hmiss
  <1>8. CASE h_miss_now
    <2>1. /\ sq' = None /\ Holder("load")' /\ ~st_spec' /\ ~st_post_ok' /\ wb' = Load(mem)
          /\ port' = ReqOf(mem.op) /\ fastld(mem.op) /\ mem # None
      BY <1>8, FreeMissNow DEF Put, h_miss_now
    <2>2. /\ wb'.at = AddrOf(mem.op) /\ wb'.at # Dev /\ wb'.h = mem.h /\ wb'.hok = mem.hok
          /\ wb' \notin {None, Plain}
      BY <2>1, LoadFacts
    <2>3. port'.dv = "read" /\ port'.at = AddrOf(mem.op) /\ ~mem.hok
      BY <1>8, <2>1 DEF ReqOf, h_miss_now, fastld
    <2> QED
      BY <1>2, <2>1, <2>2, <2>3 DEF OwnerInv, Carries, Holder, Holders, wb_load, wb_hmiss
  <1>9. CASE mem_issue /\ st_spec_now
    <2>1. /\ sq' = None /\ Holder("store")' /\ port' = ReqOf(mem.op) /\ st_spec'
          /\ mem_port_wr /\ mem.op.dw # Dev /\ mem # None /\ mem.op.k = "store"
      BY <1>9, FreeStore DEF Put, InDram, mem_port_wr
    <2>2. ReqOf(mem.op).dv = "write" /\ ReqOf(mem.op).at = AddrOf(mem.op) /\ AddrOf(mem.op) # Dev
      BY <2>1, OpFacts DEF ReqOf, PortTypeOK
    <2> QED
      BY <1>1, <1>2, <2>1, <2>2 DEF OwnerInv, Carries, Holder, Holders
  <1>10. CASE mem_issue /\ ~st_spec_now
    <2>1. /\ sq' = None /\ Holder("mem")' /\ mem_xc' = 1 /\ ~st_spec' /\ port' = ReqOf(mem.op)
          /\ mem_busy /\ ~sq_spec /\ ~wb_wait /\ mem_port_op /\ mem # None /\ st_post_ok' \in Verdicts
      BY <1>10, FreeMem, OnPort DEF Put
    <2>2. wb' = None
      BY <2>1, WbEmpty
    <2>3. mem' # None /\ mem'.op = mem.op /\ mem'.h = mem.h /\ mem'.hok = mem.hok /\ ~mem'.h1
      BY <2>1, MemKeeps
    <2>4. mem_port_op' /\ (mem_port_wr' <=> mem_port_wr)
      BY <2>1, <2>3 DEF mem_port_op, mem_port_rd, mem_port_wr
    <2>5. st_post_ok' => mem_port_wr /\ InDram(mem.op)
      BY <2>1 DEF Verdicts
    <2>6. InDram(mem'.op) <=> InDram(mem.op)
      BY <2>3
    <2> QED
      BY <1>2, <2>1, <2>2, <2>3, <2>4, <2>5, <2>6 DEF OwnerInv, Carries, Holder, Holders, wb_load, wb_hmiss, ReqOf
  <1>11. CASE w_early_ld
    <2>1. /\ sq' = None /\ Holder("mem")' /\ mem_xc' = 1 /\ ~st_spec' /\ ~st_post_ok'
          /\ port' = ReqOf(ex) /\ ex # None /\ ex.k \in {"read", "pair"} /\ mem' \in Entered
          /\ ~wb_wait /\ ~mem_port_op
      BY <1>11, FreeEarly DEF Put
    <2>2. mem' # None /\ mem'.op = ex /\ ~mem'.h
      BY <2>1, EnteredFacts, LeftNext DEF h_elig, h_base, ex_hld
    <2>3. mem_port_op'
      BY <2>1, <2>2 DEF mem_port_op, mem_port_rd
    <2>4. ~wb_load'
      <3>1. CASE wb' = Load(mem) /\ mem # None /\ fastld(mem.op)
        <4>1. mem.h
          BY <2>1, <3>1 DEF mem_port_op, mem_port_rd, fastld
        <4> QED
          BY <1>11, <3>1, <4>1 DEF w_early_ld
      <3> QED
        BY <2>1, <3>1, WbNext DEF wb_load
    <2> QED
      BY <1>2, <2>1, <2>2, <2>3, <2>4 DEF OwnerInv, Carries, Holder, Holders, wb_load, wb_hmiss, ReqOf
  <1>12. CASE ~pushes /\ ~fills /\ sq = None /\ ~wb_hmiss /\ ~h_miss_now /\ ~mem_issue /\ ~w_early_ld
    <2>1. ~issues
      BY <1>1, <1>12 DEF issues, post_next, sq_issue, miss_from_wb, second
    <2>2. /\ sq' = None /\ Holder("none")' /\ ~st_spec' /\ ~st_post_ok'
      BY <1>12, <2>1, FreeQuiet
    <2> QED
      BY <1>2, <2>2 DEF OwnerInv, Carries, Holder, Holders
  <1> QED
    BY <1>4, <1>5, <1>6, <1>7, <1>8, <1>9, <1>10, <1>11, <1>12

\* From a port that a posted store holds.
LEMMA PostedOwner ==
  ASSUME PortTypeOK, StageInv, OwnerInv, CacheInv, PortNext, Holder("store")
  PROVE  OwnerInv'
PROOF
  <1>1. port.dv = "write" /\ port.at # Dev /\ mem_xc = 0 /\ st_post /\ ~ld_out
        /\ (w_mrdy <=> resp # None)
    BY Posting
  <1>2. wb_load' => wb'.h
    BY <1>1, WbUnanswered DEF Holder
  <1>3. CASE post_next
    <2>1. /\ sq' = None /\ Holder("store")' /\ ~st_spec' /\ ~st_post_ok' /\ port' = ReqOf(sq)
          /\ sq # None
      BY <1>3, PostedQueue DEF Put
    <2>2. sq.k = "store" /\ sq.dw # Dev /\ sq \in prog.ops
      BY <2>1 DEF StageInv, InDram, PortTypeOK
    <2>3. ReqOf(sq).dv = "write" /\ ReqOf(sq).at = AddrOf(sq) /\ AddrOf(sq) # Dev
      BY <2>2, OpFacts DEF ReqOf
    <2> QED
      BY <1>2, <2>1, <2>3 DEF OwnerInv, Carries, Holder, Holders
  <1>4. CASE mem_issue /\ ~enqueued /\ sq_enq_now
    <2>1. /\ sq' = None /\ Holder("store")' /\ port' = ReqOf(mem.op) /\ st_spec' /\ resp # None
          /\ mem_port_wr /\ mem.op.dw # Dev /\ mem # None /\ mem.op.k = "store"
      BY <1>4, PostedStore DEF Put, InDram, mem_port_wr
    <2>2. ReqOf(mem.op).dv = "write" /\ ReqOf(mem.op).at = AddrOf(mem.op) /\ AddrOf(mem.op) # Dev
      BY <2>1, OpFacts DEF ReqOf, PortTypeOK
    <2>3. resp' = None
      BY <2>1, CacheNext
    <2> QED
      BY <1>2, <2>1, <2>2, <2>3 DEF OwnerInv, Carries, Holder, Holders
  <1>5. CASE mem_issue /\ ~sq_enq_now
    <2>1. /\ sq' = None /\ Holder("mem")' /\ mem_xc' = 1 /\ ~st_spec' /\ port' = ReqOf(mem.op)
          /\ mem_busy /\ ~sq_spec /\ ~wb_wait /\ mem_port_op /\ mem # None /\ st_post_ok' \in Verdicts
      BY <1>5, PostedMem, OnPort DEF Put
    <2>2. wb' = None
      BY <2>1, WbEmpty
    <2>3. mem' # None /\ mem'.op = mem.op /\ mem'.h = mem.h /\ mem'.hok = mem.hok /\ ~mem'.h1
      BY <2>1, MemKeeps
    <2>4. mem_port_op' /\ (mem_port_wr' <=> mem_port_wr)
      BY <2>1, <2>3 DEF mem_port_op, mem_port_rd, mem_port_wr
    <2>5. st_post_ok' => mem_port_wr /\ InDram(mem.op)
      BY <2>1 DEF Verdicts
    <2>6. InDram(mem'.op) <=> InDram(mem.op)
      BY <2>3
    <2> QED
      BY <1>2, <2>1, <2>2, <2>3, <2>4, <2>5, <2>6 DEF OwnerInv, Carries, Holder, Holders, wb_load, wb_hmiss, ReqOf
  <1>6. CASE ~post_next /\ (mem_issue => enqueued)
    <2>1. /\ enqueued => /\ sq' = mem.op /\ st_spec' /\ mem_port_wr
          /\ ~enqueued => sq' = sq /\ ~st_spec' /\ ~st_post_ok'
          /\ resp = None => Holder("store")' /\ port' = port
          /\ resp # None => Holder("none")' /\ port' = NoRequest(port.at)
      BY <1>6, PostedQuiet
    <2>2. enqueued => sq' # None
      BY <2>1, OnPort, OpFacts DEF mem_port_op
    <2>3. NoRequest(port.at).dv = "none"
      BY DEF NoRequest
    <2> QED
      BY <1>1, <1>2, <2>1, <2>2, <2>3 DEF OwnerInv, Carries, Holder, Holders
  <1> QED
    BY <1>3, <1>4, <1>5, <1>6

\* From a port that the load in WB, a fill or the frame holds.
LEMMA BorrowedOwner ==
  ASSUME PortTypeOK, StageInv, OwnerInv, CacheInv, PortNext, NEW o \in {"load", "fill", "irq"}, Holder(o)
  PROVE  OwnerInv'
PROOF
  <1>1. /\ port.dv # "none" /\ port.at # Dev /\ (w_mrdy <=> resp # None) /\ mem_xc = 0
    BY Borrowed
  <1>2. wb_load' /\ ~wb'.h => wb_wait /\ wb' = wb /\ ld_out /\ ~w_mrdy
    BY <1>1, WbUnanswered DEF Holder
  <1>3. CASE mem_issue
    <2>1. o = "load"
      BY <1>3, NoIssue
    <2>2. /\ sq' = None /\ Holder("mem")' /\ mem_xc' = 1 /\ ~st_spec' /\ port' = ReqOf(mem.op)
          /\ mem_busy /\ ~sq_spec /\ ~wb_wait /\ mem_port_op /\ mem # None /\ st_post_ok' \in Verdicts
      BY <1>3, <2>1, LoadMem, OnPort DEF Put
    <2>3. wb' = None
      BY <2>2, WbEmpty
    <2>4. mem' # None /\ mem'.op = mem.op /\ mem'.h = mem.h /\ mem'.hok = mem.hok /\ ~mem'.h1
      BY <2>2, MemKeeps
    <2>5. mem_port_op' /\ (mem_port_wr' <=> mem_port_wr)
      BY <2>2, <2>4 DEF mem_port_op, mem_port_rd, mem_port_wr
    <2>6. st_post_ok' => mem_port_wr /\ InDram(mem.op)
      BY <2>2 DEF Verdicts
    <2>7. InDram(mem'.op) <=> InDram(mem.op)
      BY <2>4
    <2> QED
      BY <1>2, <2>2, <2>3, <2>4, <2>5, <2>6, <2>7 DEF OwnerInv, Carries, Holder, Holders, wb_load, wb_hmiss, ReqOf
  <1>4. CASE ~mem_issue
    <2>1. /\ sq' = None /\ ~st_spec' /\ ~st_post_ok'
          /\ o = "load" => (wb_wait <=> resp = None)
          /\ resp = None => Holder(o)' /\ port' = port
          /\ resp # None => Holder("none")' /\ port' = NoRequest(port.at)
      BY <1>4, BorrowedQuiet
    <2>2. o = "load" /\ resp = None => wb' = wb
      BY <2>1, WbNext, Zenon DEF mem_busy
    <2>3. NoRequest(port.at).dv = "none"
      BY DEF NoRequest
    <2>4. CASE resp # None
      BY <1>1, <1>2, <2>1, <2>3, <2>4 DEF OwnerInv, Carries, Holder, Holders
    <2>5. CASE resp = None /\ o = "load"
      BY <1>1, <1>2, <2>1, <2>2, <2>5 DEF OwnerInv, Carries, Holder, Holders, wb_load, wb_hmiss
    <2>6. CASE resp = None /\ o # "load"
      BY <1>1, <1>2, <2>1, <2>6 DEF OwnerInv, Carries, Holder, Holders
    <2> QED
      BY <2>4, <2>5, <2>6
  <1> QED
    BY <1>3, <1>4

\* From a port that an instruction in MEM holds.
LEMMA UsingOwner ==
  ASSUME PortTypeOK, StageInv, OwnerInv, CacheInv, PortNext, Holder("mem")
  PROVE  OwnerInv'
PROOF
  <1>1. /\ port.dv # "none" /\ mem_port_op /\ mem # None /\ ~wb_wait /\ ~sq_spec /\ mem_xc \in {1, 2, 3}
        /\ (port.at = Dev => mem_xc = 1) /\ ~ld_out
        /\ (mem_xc # 1 \/ InDram(mem.op) => port.at # Dev)
    BY Using
  <1>2. wb_load' /\ ~wb'.h => mem_xc = 1 /\ fastld(mem.op) /\ ~mem_busy
    BY <1>1, WbUnanswered
  <1>3. sq' = None /\ ~st_spec'
    BY UsingStep
  <1>4. mem_busy => /\ wb' = None
                    /\ mem' # None /\ mem'.op = mem.op /\ mem'.h = mem.h /\ mem'.hok = mem.hok /\ ~mem'.h1
    BY <1>1, WbEmpty, MemKeeps
  <1>5. mem_busy => mem_port_op'
    BY <1>1, <1>4 DEF mem_port_op, mem_port_rd, mem_port_wr
  <1>6. mem_busy => ~wb_load' /\ ~wb_hmiss'
    BY <1>4 DEF wb_load, wb_hmiss
  <1>7. CASE second
    <2>1. /\ Holder("mem")' /\ mem_xc' = 2 /\ mem_busy /\ mem.op.k = "pair"
          /\ ~st_post_ok' /\ port' = Fetch(Succ[mem.op.dw])
      BY <1>7, MemTwo
    <2>2. Succ[mem.op.dw] \in Dw
      BY <1>1, <2>1, OpFacts DEF PortTypeOK
    <2>3. port'.dv = "read" /\ port'.at = <<Succ[mem.op.dw], 0>> /\ port'.at # Dev
      BY <2>1, <2>2, NothingAssumption DEF Fetch, Addr, Lane
    <2> QED
      BY <1>3, <1>4, <1>5, <1>6, <2>1, <2>3 DEF OwnerInv, Carries, Holder, Holders
  <1>8. CASE w_mrdy /\ ~second
    <2>1. Holder("none")' /\ ~fastld(mem.op) /\ ~st_post_ok'
      BY <1>8, MemAnswered
    <2> QED
      BY <1>2, <1>3, <2>1 DEF OwnerInv, Carries, Holder, Holders
  <1>9. CASE ~w_mrdy /\ st_post_ok
    <2>1. /\ Holder("store")' /\ mem_xc = 1 /\ mem_port_wr /\ InDram(mem.op)
          /\ ~st_post_ok' /\ port' = port
      BY <1>9, MemPosts
    <2>2. port.dv = "write" /\ ~fastld(mem.op)
      BY <2>1 DEF OwnerInv, Carries, ReqOf, mem_port_wr, fastld
    <2> QED
      BY <1>1, <1>2, <1>3, <2>1, <2>2 DEF OwnerInv, Carries, Holder, Holders
  <1>10. CASE mem_xc = 1 /\ fastld(mem.op)
    <2>1. /\ Holder("load")' /\ wb' = Load(mem) /\ ~mem.h /\ ~st_post_ok' /\ port' = port
      BY <1>10, MemLeaves
    <2>2. /\ wb'.at = AddrOf(mem.op) /\ wb'.h = mem.h /\ wb' \notin {None, Plain}
      BY <1>1, <1>10, <2>1, LoadFacts
    <2>3. port.dv = "read" /\ port.at = AddrOf(mem.op) /\ port.at # Dev
      BY <1>1, <1>10 DEF OwnerInv, Carries, ReqOf, fastld
    <2> QED
      BY <1>1, <1>3, <2>1, <2>2, <2>3 DEF OwnerInv, Carries, Holder, Holders, wb_load, wb_hmiss
  <1>11. CASE ~w_mrdy /\ ~st_post_ok /\ ~(mem_xc = 1 /\ fastld(mem.op))
    <2>1. /\ Holder("mem")' /\ mem_busy /\ mem_xc' = (IF mem_xc = 1 THEN 1 ELSE 3)
          /\ ~st_post_ok' /\ port' = port
      BY <1>11, MemWaits
    <2>2. ReqOf(mem'.op) = ReqOf(mem.op) /\ AddrOf(mem'.op) = AddrOf(mem.op)
      BY <1>4, <2>1
    <2> QED
      BY <1>1, <1>3, <1>4, <1>5, <1>6, <2>1, <2>2 DEF OwnerInv, Carries, Holder, Holders
  <1> QED
    BY <1>7, <1>8, <1>9, <1>10, <1>11

\* Every request keeps one holder, whoever it is.
LEMMA OwnerStep ==
  ASSUME PortTypeOK, StageInv, OwnerInv, CacheInv, PortNext
  PROVE  OwnerInv'
PROOF
  <1>1. PICK o \in Holders : Holder(o)
    BY DEF OwnerInv
  <1> QED
    BY <1>1, FreeOwner, PostedOwner, BorrowedOwner, UsingOwner DEF Holders

-----------------------------------------------------------------------------
(* The stages and the types.                                               *)

\* What is in MEM stays there, or has come from EX.
LEMMA MemStage ==
  ASSUME PortTypeOK, StageInv, OwnerInv, PortNext, mem' # None
  PROVE  \/ /\ mem # None /\ mem_busy /\ ~sq_spec
            /\ left' = left
         \/ /\ ~mem_busy /\ ~sq_spec /\ ~fbr_taken /\ ex # None /\ mem' \in Entered
PROOF
  <1>1. CASE mem # None /\ mem_busy /\ ~sq_spec
    BY <1>1, LeftNext, PushStep DEF Leaves
  <1>2. CASE ~(mem # None /\ mem_busy /\ ~sq_spec)
    BY <1>2, MemNext
  <1> QED
    BY <1>1, <1>2

\* What the hit pipe has said, and what is queued, after a clock.
LEMMA StageStep ==
  ASSUME PortTypeOK, StageInv, OwnerInv, CacheInv, PortNext
  PROVE  StageInv'
PROOF
  <1>1. ASSUME mem' # None
        PROVE  /\ mem'.h1 \/ mem'.hok => mem'.h
               /\ mem'.h => mem'.op.k \in {"load", "return"} /\ InDram(mem'.op)
               /\ mem'.want = Reads(mem'.op, left')
    <2>1. CASE mem # None /\ mem_busy /\ ~sq_spec /\ left' = left
      <3>1. mem'.want = Reads(mem'.op, left')
        BY <2>1, MemKeeps DEF StageInv
      <3> QED
        BY <2>1, <3>1, MemKeeps DEF StageInv, InDram
    <2>2. CASE ex # None /\ mem' \in Entered
      BY <2>2, EnteredFacts, LeftNext DEF h_elig, h_base, ex_hld, InDram
    <2> QED
      BY <1>1, <2>1, <2>2, MemStage
  <1>2. sq' # None => sq'.k = "store" /\ InDram(sq')
    BY Latches DEF StageInv, enqueued, sq_enq_now, postable, mem_port_wr, InDram
  <1>3. ASSUME irq' = "push"
        PROVE  ex' = None /\ mem' = None /\ wb' = None
    <2>1. CASE pushes
      BY <2>1, PushStep
    <2>2. CASE ~pushes
      <3>1. irq = "push" /\ ex = None /\ mem = None /\ wb = None
        BY <1>3, <2>2 DEF PortNext, Irq, pushes, StageInv
      <3>2. ~wb_wait /\ mem' = None /\ wb' = None
        BY <3>1, MemNext, WbNext DEF wb_wait, wb_load
      <3>3. ex' = None
        BY <3>1 DEF PortNext, Stages, Stall, Squash, Hold, Advance
      <3> QED
        BY <3>2, <3>3
    <2> QED
      BY <2>1, <2>2
  <1> QED
    BY <1>1, <1>2, <1>3 DEF StageInv

\* Every register keeps its type.
LEMMA TypeStep ==
  ASSUME PortTypeOK, StageInv, OwnerInv, CacheInv, DevInv, PortNext
  PROVE  PortTypeOK'
PROOF
  <1>1. prog' = prog /\ prog \in Programs
    BY Latches DEF PortTypeOK
  <1>2. ex' \in prog.ops \cup {None}
    BY DEF PortNext, Stages, Stall, Squash, Hold, Advance, PortTypeOK
  <1>3. mem' \in InMem \cup {None} /\ (mem' # None => mem'.op \in prog.ops)
    <2>1. CASE mem' = None
      BY <2>1
    <2>2. CASE mem # None /\ mem_busy /\ ~sq_spec
      BY <2>2, MemKeeps DEF PortTypeOK
    <2>3. CASE ex # None /\ mem' \in Entered
      BY <2>3, EnteredFacts, LeftNext DEF PortTypeOK
    <2> QED
      BY <2>1, <2>2, <2>3, MemStage
  <1>4. wb' \in InWb \cup {Plain, None}
    BY WbNext, LoadFacts DEF PortTypeOK
  <1>5. port' \in Request \cup {NoRequest(Dev), NoRequest(None)}
    <2>1. NoRequest(port.at) \in {NoRequest(Dev), NoRequest(None)}
      BY NothingAssumption DEF NoRequest
    <2> QED
      BY <2>1, PortMoves DEF Stays, Drops, Starts, PortTypeOK
  <1>6. armed' \in BOOLEAN
    BY Zenon DEF PortNext, Port, Put
  <1>7. mem_xc' \in 0 .. 3
    <2>1. mem_xc \in 0 .. 3
      BY DEF PortTypeOK
    <2> QED
      BY <2>1 DEF PortNext, MemEngine, MemIssue, MemSecond, MemDone, MemPost, MemGoesOn, MemWait,
         MemSettle, MemLast, MemQuiet
  <1>8. dw0' \in Data
    <2>1. \/ dw0' = dw0 \/ dw0' = Zero
          \/ (mem_port_op /\ mem_xc = 1 /\ w_mrdy /\ mem_need2 /\ dw0' = resp.data)
      BY DEF PortNext, MemEngine, MemIssue, MemSecond, MemDone, MemPost, MemGoesOn, MemWait, MemPort1,
         MemSettle, MemLast, MemQuiet
    <2>2. ASSUME mem_port_op, mem_xc = 1, w_mrdy, mem_need2
          PROVE  resp.data \in Data
      <3>1. second
        BY <2>2 DEF second
      <3>2. PICK o \in Holders : Holder(o)
        BY DEF OwnerInv
      <3>3. Holder("mem")
        BY <2>2, <3>2 DEF Holder
      <3>4. resp # None /\ mem.op.k = "pair"
        BY <3>1, <3>3, MemTwo
      <3>5. port.dv = "read"
        BY <2>2, <3>4 DEF OwnerInv, Carries, ReqOf
      <3> QED
        BY <3>4, <3>5 DEF CacheInv, Reply
    <2>3. Zero \in Data
      BY ShapeAssumption, ReplicatedType DEF Zero
    <2> QED
      BY <2>1, <2>2, <2>3 DEF PortTypeOK
  <1>9. st_post' \in BOOLEAN /\ ld_out' \in BOOLEAN
    BY Zenon DEF PortNext, Posted
  <1>10. st_post_ok' \in BOOLEAN
    <2>1. Verdicts \subseteq BOOLEAN
      BY Zenon DEF Verdicts
    <2>2. \/ st_post_ok' \in Verdicts \/ st_post_ok' = FALSE \/ st_post_ok' = st_post_ok
          \/ st_post_ok' = (st_post_ok /\ ~st_spec)
      BY Zenon DEF PortNext, MemEngine, MemIssue, MemSecond, MemDone, MemPost, MemGoesOn, MemWait,
         MemSettle, MemLast, MemQuiet
    <2> QED
      BY <2>1, <2>2, Zenon DEF PortTypeOK
  <1>11. st_spec' \in BOOLEAN
    BY Zenon DEF PortNext, MemEngine, MemIssue, MemSecond, MemDone, MemPost, MemGoesOn, MemWait, MemPort1,
       MemSettle, MemLast, MemQuiet
  <1>12. sq' \in prog.ops \cup {None}
    BY Latches, OnPort DEF PortTypeOK, enqueued, sq_enq_now, postable, mem_port_op
  <1>13. if_look' \in BOOLEAN /\ if_xc' \in BOOLEAN
    <2>1. if_look \in BOOLEAN /\ if_xc \in BOOLEAN
      BY DEF PortTypeOK
    <2>2. if_xc' \in BOOLEAN
      BY Zenon DEF PortNext, Fetching
    <2>3. if_look' = if_look \/ if_look' = FALSE \/ if_look' = ~sq_spec
          \/ if_look' = (irq = "no" /\ ~sq_spec /\ prog.code # {})
      BY DEF PortNext, Fetching
    <2>4. if_look' \in BOOLEAN
      BY <2>1, <2>3, Zenon
    <2> QED
      BY <2>2, <2>4
  <1>14. irq' \in {"no", "drain", "push"}
    BY DEF PortNext, Irq
  <1>15. /\ served' \in Addr \cup {None} /\ latched' \in BOOLEAN /\ resp' \in Reply \cup {Ack, None}
         /\ store' \in [Dw -> Data]
    BY CacheNext
  <1>16. dev' \in [d1 : {"no", "old", "own"}, d2 : {"no", "old", "own"}, ready : {"no", "old", "own"}]
    BY DevStep
  <1>17. left' \in [Dw -> Data] /\ arch' \in [Dw -> Data]
    <2>1. arch' = Stored(arch, Retires)
      BY DEF PortNext, History
    <2>2. arch \in [Dw -> Data] /\ Retires \in BOOLEAN /\ (Retires => Leaves)
      BY DEF PortTypeOK, Retires, Leaves
    <2>3. arch' \in [Dw -> Data]
      BY <2>1, <2>2, StoredStep
    <2> QED
      BY <2>3, LeftNext
  <1> QED
    BY <1>1, <1>2, <1>3, <1>4, <1>5, <1>6, <1>7, <1>8, <1>9, <1>10, <1>11, <1>12, <1>13, <1>14,
       <1>15, <1>16, <1>17 DEF PortTypeOK

-----------------------------------------------------------------------------
(* The invariant, and what follows from it.                                *)

\* The invariant holds when the core starts,
LEMMA PortStart ==
  ASSUME PortInit
  PROVE  PortInv
PROOF
  <1>1. Zero \in Data
    BY ShapeAssumption, ReplicatedType DEF Zero
  <1>2. PortTypeOK
    <2>1. port \in Request \cup {NoRequest(Dev), NoRequest(None)} /\ armed \in BOOLEAN
      BY DEF PortInit
    <2>2. dev \in [d1 : {"no", "old", "own"}, d2 : {"no", "old", "own"}, ready : {"no", "old", "own"}]
      BY DEF PortInit
    <2>3. store \in [Dw -> Data] /\ left \in [Dw -> Data] /\ arch \in [Dw -> Data] /\ dw0 \in Data
      BY <1>1 DEF PortInit
    <2>4. /\ st_post \in BOOLEAN /\ st_post_ok \in BOOLEAN /\ st_spec \in BOOLEAN
          /\ ld_out \in BOOLEAN /\ if_look \in BOOLEAN /\ if_xc \in BOOLEAN /\ latched \in BOOLEAN
      BY Zenon DEF PortInit
    <2>5. /\ prog \in Programs /\ ex = None /\ mem = None /\ wb = None /\ mem_xc = 0
          /\ sq = None /\ irq = "no" /\ served = None /\ resp = None
      BY Zenon DEF PortInit
    <2> QED
      BY <2>1, <2>2, <2>3, <2>4, <2>5 DEF PortTypeOK
  <1>3. StageInv
    BY DEF PortInit, StageInv
  <1>4. port.dv = "none" /\ port.at = None /\ None # Dev
    BY NothingAssumption DEF PortInit, NoRequest
  <1>5. OwnerInv
    BY <1>4 DEF PortInit, OwnerInv, Holder, Holders, Carries, wb_load, wb_hmiss
  <1>6. CacheInv
    BY <1>4 DEF PortInit, CacheInv, DramDv
  <1>7. DevInv
    BY <1>4 DEF PortInit, DevInv, DramDv
  <1> QED
    BY <1>2, <1>3, <1>5, <1>6, <1>7 DEF PortInv

\* and every clock keeps it.
LEMMA PortStep ==
  ASSUME PortInv, PortNext
  PROVE  PortInv'
PROOF
  BY TypeStep, StageStep, OwnerStep, CacheStep, DevStep DEF PortInv

\* Where the clock does not run nothing changes.
LEMMA PortStutter ==
  ASSUME PortInv, UNCHANGED coreVars
  PROVE  PortInv'
PROOF
  <1>1. /\ prog' = prog /\ ex' = ex /\ mem' = mem /\ wb' = wb /\ port' = port /\ armed' = armed
        /\ mem_xc' = mem_xc /\ dw0' = dw0 /\ st_post' = st_post /\ st_post_ok' = st_post_ok
        /\ st_spec' = st_spec /\ sq' = sq /\ ld_out' = ld_out /\ if_look' = if_look
        /\ if_xc' = if_xc /\ irq' = irq /\ served' = served /\ latched' = latched
        /\ resp' = resp /\ store' = store /\ dev' = dev /\ left' = left /\ arch' = arch
    BY DEF coreVars, stages, engine, cache
  <1>2. PortTypeOK'
    BY <1>1 DEF PortInv, PortTypeOK
  <1>3. StageInv'
    BY <1>1 DEF PortInv, StageInv
  <1>4. OwnerInv'
    BY <1>1 DEF PortInv, OwnerInv, Holder, Carries, wb_load, wb_hmiss, mem_port_op, mem_port_rd, mem_port_wr
  <1>5. CacheInv'
    BY <1>1 DEF PortInv, CacheInv, DramDv
  <1>6. DevInv'
    BY <1>1 DEF PortInv, DevInv, DramDv, Draining, Chained
  <1> QED
    BY <1>2, <1>3, <1>4, <1>5, <1>6 DEF PortInv

\* The invariant, for every program and every timing of the cache and the devices.
THEOREM PortInvariant == CtlSpec => []PortInv
PROOF
  <1>1. CtlInit => PortInv
    BY PortStart DEF CtlInit
  <1>2. PortInv /\ [CtlNext]_allVars => PortInv'
    <2>1. CASE CtlNext
      BY <2>1, PortStep DEF CtlNext
    <2>2. CASE UNCHANGED allVars
      BY <2>2, PortStutter DEF allVars
    <2> QED
      BY <2>1, <2>2
  <1> QED
    BY <1>1, <1>2, PTL DEF CtlSpec

\* Every request on the port has exactly one owner that will take its answer, and
\* every owner has its request, whatever the program, the cache's delays, branches,
\* fills and interrupts (pipeline_core.sv:2203-2683).
THEOREM PortIsOwned == CtlSpec => []PortOwned
PROOF
  <1>1. PortInv => PortOwned
    <2> SUFFICES ASSUME PortInv PROVE PortOwned
      OBVIOUS
    <2>1. PICK o \in Holders : Holder(o)
      BY DEF PortInv, OwnerInv
    <2>2. Owners = IF o = "none" THEN {} ELSE {o}
      BY <2>1 DEF Holder, Holders, Owners
    <2>3. port.dv = "none" => Owners = {}
      BY <2>1, <2>2 DEF Holder
    <2>4. port.dv # "none" => \E h \in {"store", "load", "fill", "irq", "mem"} : Owners = {h}
      BY <2>1, <2>2 DEF Holder, Holders
    <2> QED
      BY <2>3, <2>4 DEF PortInv, OwnerInv, Carries, PortOwned
  <1> QED
    BY <1>1, PortInvariant, PTL

\* An answer is taken in its clock, and it is the answer of the request that is on
\* the port (pipeline_core.sv:1704-1709, KlaussCPU.sv:466-484).
THEOREM AnswersAreTaken == CtlSpec => []AnswersTaken
PROOF
  <1>1. PortInv => AnswersTaken
    <2> SUFFICES ASSUME PortInv PROVE AnswersTaken
      OBVIOUS
    <2>1. resp # None => w_mrdy
      BY Ready DEF PortInv, CacheInv, DramDv
    <2>2. ASSUME port.at = Dev, port.dv # "none", w_mrdy
          PROVE  dev.ready = "own"
      <3>1. armed /\ dev.ready # "no"
        BY <2>2, Zenon DEF w_mrdy, m_ready
      <3> QED
        BY <2>2, <3>1 DEF PortInv, DevInv, Chained
    <2> QED
      BY <2>1, <2>2 DEF AnswersTaken
  <1> QED
    BY <1>1, PortInvariant, PTL

\* The core holds a request until its answer, and then drops DV or changes the
\* address: what DCache assumes of its CPU side.
THEOREM CoreKeepsPort == CtlSpec => KeepsPort
PROOF
  <1>1. PortInv /\ [CtlNext]_allVars
          => [DramDv => IF resp = None THEN port' = port
                        ELSE port'.dv = "none" \/ port'.at # port.at]_coreVars
    <2>1. PortInv /\ CtlNext => (DramDv => IF resp = None THEN port' = port
                                           ELSE port'.dv = "none" \/ port'.at # port.at)
      BY Keeps DEF PortInv, CtlNext
    <2>2. UNCHANGED allVars => UNCHANGED coreVars
      BY DEF allVars
    <2> QED
      BY <2>1, <2>2
  <1> QED
    BY <1>1, PortInvariant, PTL DEF CtlSpec, KeepsPort

\* Every register stays in its type.
THEOREM PortTypes == CtlSpec => []PortTypeOK
PROOF
  <1>1. PortInv => PortTypeOK
    BY DEF PortInv
  <1> QED
    BY <1>1, PortInvariant, PTL

-----------------------------------------------------------------------------
(* Memory.                                                                 *)

\* What a store writes, and where.
LEMMA WroteAt ==
  ASSUME NEW m \in [Dw -> Data], NEW dw \in Dw, NEW be, NEW v \in Val, NEW d \in Dw
  PROVE  /\ Wrote(m, dw, be, v)[d] = (IF d = dw THEN Merge(m[d], be, v) ELSE m[d])
         /\ \A l \in Lane : l \in be => Merge(m[d], be, v)[l] = v
PROOF
  BY DEF Wrote, Merge

\* A store that is performed twice does what it does once.
LEMMA WroteTwice ==
  ASSUME NEW m \in [Dw -> Data], NEW dw \in Dw, NEW be, NEW v \in Val
  PROVE  Wrote(Wrote(m, dw, be, v), dw, be, v) = Wrote(m, dw, be, v)
PROOF
  <1> DEFINE w == Wrote(m, dw, be, v)
  <1>1. w \in [Dw -> Data] /\ Wrote(w, dw, be, v) \in [Dw -> Data]
    BY WroteType
  <1>2. m[dw] \in Data /\ w[dw] = Merge(m[dw], be, v)
    BY WroteAt
  <1>3. Merge(w[dw], be, v) = Merge(m[dw], be, v)
    BY <1>2 DEF Merge
  <1>4. ASSUME NEW d \in Dw
        PROVE  Wrote(w, dw, be, v)[d] = w[d]
    BY <1>1, <1>2, <1>3, WroteAt
  <1> QED
    BY <1>1, <1>4

\* The store on the port counts from the clock in which it is put there, and the cache
\* does not change that when it takes it.
LEMMA PortWord ==
  ASSUME PortTypeOK, port.dv # "none", port.at # Dev
  PROVE  port \in Request /\ port.at[1] \in Dw /\ port.v \in Val
PROOF
  BY DEF PortTypeOK, Request, NoRequest, Addr

\* Memory with the store on the port in it changes when another store starts.
LEMMA WithPortNext ==
  ASSUME PortInv, StoreInv, PortNext
  PROVE  /\ WithPort \in [Dw -> Data]
         /\ Stays \/ Drops => WithPort' = WithPort
         /\ Starts => /\ store' = store /\ WithPort = store
                      /\ WithPort' = IF port'.dv = "write" /\ port'.at # Dev
                                     THEN Wrote(WithPort, port'.at[1], port'.be, port'.v)
                                     ELSE WithPort
         /\ resp' # None /\ port'.dv = "write" => WithPort' = store'
PROOF
  <1>1. PortTypeOK /\ CacheInv /\ StageInv /\ OwnerInv /\ store \in [Dw -> Data]
    BY DEF PortInv, PortTypeOK
  <1>2. WithPort \in [Dw -> Data]
    BY <1>1, PortWord, WroteType DEF WithPort
  <1>3. DramDv => (w_mrdy <=> resp # None)
    BY <1>1, Ready DEF DramDv
  <1>4. CASE DramDv /\ resp = None
    <2>1. port' = port /\ ~w_mrdy /\ port.dv # "none"
      BY <1>1, <1>3, <1>4, Keeps DEF DramDv
    <2>2. ~Drops /\ ~Starts
      BY <1>4, <2>1 DEF Drops, Starts
    <2>3. CASE port.dv = "write"
      <3>1. /\ store' = store \/ (store' = Wrote(store, port.at[1], port.be, port.v))
            /\ resp' # None => store' = Wrote(store, port.at[1], port.be, port.v)
        BY <1>1, <1>4, <2>3, CacheNext
      <3>2. WithPort = Wrote(store, port.at[1], port.be, port.v)
            /\ WithPort' = Wrote(store', port.at[1], port.be, port.v)
        BY <1>4, <2>1, <2>3 DEF WithPort, DramDv
      <3>3. Wrote(WithPort, port.at[1], port.be, port.v) = WithPort
        BY <1>1, <1>4, <3>2, PortWord, WroteTwice DEF DramDv
      <3> QED
        BY <1>2, <2>2, <3>1, <3>2, <3>3
    <2>4. CASE port.dv # "write"
      <3>1. port.dv = "read"
        BY <1>1, <1>4, <2>4, PortWord DEF DramDv, Request
      <3>2. store' = store
        BY <1>1, <1>4, <3>1, CacheNext
      <3> QED
        BY <1>2, <2>1, <2>2, <2>4, <3>2 DEF WithPort
    <2> QED
      BY <2>3, <2>4
  <1>5. CASE ~(DramDv /\ resp = None)
    <2>1. store' = store /\ resp' = None
      BY <1>1, <1>5, CacheNext
    <2>2. WithPort = store
      BY <1>5 DEF WithPort, StoreInv, DramDv
    <2>3. Stays => ~DramDv
      BY <1>3, <1>5 DEF Stays, DramDv
    <2>4. NoRequest(port.at).dv = "none"
      BY DEF NoRequest
    <2>5. Stays \/ Drops => WithPort' = store'
      BY <2>3, <2>4 DEF Stays, Drops, WithPort, DramDv
    <2>6. WithPort' = IF port'.dv = "write" /\ port'.at # Dev
                      THEN Wrote(store', port'.at[1], port'.be, port'.v) ELSE store'
      BY DEF WithPort
    <2> QED
      BY <1>2, <2>1, <2>2, <2>5, <2>6
  <1> QED
    BY <1>4, <1>5

\* When a store that leaves MEM may do so.
LEMMA Retiring ==
  ASSUME PortNext, OwnerInv, Leaves
  PROVE  /\ mem_port_wr /\ mem_port_op /\ InDram(mem.op) /\ ~mem_busy /\ mem # None
         /\ st_spec_now \/ sq_enq_now \/ (mem_xc = 1 /\ (w_mrdy \/ st_post_ok))
PROOF
  <1>1. mem_port_wr /\ mem_port_op /\ InDram(mem.op) /\ ~mem_busy /\ mem # None
    BY DEF Leaves, mem_port_wr, mem_port_op
  <1>2. mem_done_now /\ mem.op.k = "store"
    BY <1>1 DEF mem_busy, mem_port_wr
  <1> QED
    BY <1>1, <1>2 DEF mem_done_now, fastld, OwnerInv, Carries

\* The request of an instruction that reads or writes DRAM.
LEMMA ReqFacts ==
  ASSUME PortTypeOK, NEW o \in prog.ops, o.k \notin {"branch", "other"}
  PROVE  /\ ReqOf(o).dv = "write" <=> o.k = "store"
         /\ o.dw = Dev => ReqOf(o).at = Dev
         /\ o.dw # Dev => ReqOf(o).at # Dev /\ ReqOf(o).at[1] = o.dw /\ o.dw \in Dw
         /\ ReqOf(o).be = o.be /\ (o.k = "store" => ReqOf(o).v = o.v) /\ o.v \in Val
PROOF
  <1>1. o.dw # Dev => AddrOf(o) # Dev /\ AddrOf(o) = <<o.dw, Base(o.be)>> /\ o.dw \in Dw
    BY OpFacts
  <1> QED
    BY <1>1, OpFacts DEF ReqOf, AddrOf

\* The store of o has reached memory w.
Done(w, o) == IF o.k = "store" /\ o.dw # Dev THEN Wrote(w, o.dw, o.be, o.v) ELSE w

\* MEM puts its request on the port and waits.
LEMMA IssueWord ==
  ASSUME PortInv, StoreInv, PortNext, Starts, mem_port_op, mem_busy, ~sq_spec, ~pushes, sq = None, sq' = None,
         mem_xc = 0, mem_xc' = 1, port' = ReqOf(mem.op)
  PROVE  /\ port' = ReqOf(mem'.op)
         /\ WithQueue' = IF Issued' THEN Wrote(left', mem'.op.dw, mem'.op.be, mem'.op.v) ELSE left'
PROOF
  <1>1. PortTypeOK /\ StageInv /\ OwnerInv
    BY DEF PortInv
  <1>2. mem # None /\ mem.op \in prog.ops /\ mem.op.k \notin {"branch", "other"}
    BY <1>1, OnPort
  <1>3. mem'.op = mem.op
    BY <1>1, <1>2, MemKeeps
  <1>4. left' = left
    BY <1>1, LeftNext, Retiring
  <1>5. WithPort' = Done(WithPort, mem.op)
    BY <1>1, <1>2, WithPortNext, ReqFacts DEF Done
  <1>6. WithPort = left
    BY DEF StoreInv, WithQueue, Issued
  <1>7. WithQueue' = WithPort'
    BY DEF WithQueue
  <1> QED
    BY <1>3, <1>4, <1>5, <1>6, <1>7 DEF Done, Issued

\* From a free port.
LEMMA FreeWord ==
  ASSUME PortInv, StoreInv, PortNext, Holder("none")
  PROVE  /\ mem_xc' = 1 => port' = ReqOf(mem'.op)
         /\ WithQueue' = IF Issued' THEN Wrote(left', mem'.op.dw, mem'.op.be, mem'.op.v) ELSE left'
PROOF
  <1>1. PortTypeOK /\ StageInv /\ OwnerInv /\ CacheInv
    BY DEF PortInv
  <1>2. port.dv = "none" /\ mem_xc = 0 /\ ~st_post /\ ~ld_out
    BY DEF Holder
  <1>3. WithQueue = left
    BY <1>2 DEF StoreInv, Issued
  <1>4. Leaves => st_spec_now \/ sq_enq_now
    BY <1>1, <1>2, Retiring
  <1>5. sq_enq_now => FALSE
    BY <1>2 DEF sq_enq_now
  <1>6. st_spec_now => mem_issue /\ sq = None
    BY DEF st_spec_now, postable, mem_issue, mem_port_op
  <1>7. CASE pushes
    <2>1. /\ sq = None /\ sq' = None /\ mem_xc' = 0
          /\ \E d \in prog.frame, v \in Val : Put(Push(d, v))
      BY <1>1, <1>7, PushStep DEF Holder
    <2>2. PICK d \in prog.frame, v \in Val : Put(Push(d, v))
      BY <2>1
    <2>3. d \in Dw
      BY <1>1, ProgramsAssumption DEF PortTypeOK
    <2>4. port' = Push(d, v) /\ port'.dv = "write" /\ port'.at = <<d, 0>> /\ port'.be = Lane /\ port'.v = v
      BY <2>2 DEF Put, Push
    <2>5. port'.at # Dev /\ port'.at[1] = d
      BY <2>3, <2>4, NothingAssumption DEF Addr, Lane
    <2>6. Starts
      BY <1>1, <1>2, <2>4, FreeMoves DEF Stays
    <2>7. WithPort' = Wrote(WithPort, d, Lane, v)
      BY <2>4, <2>5, <2>6, WithPortNext
    <2>8. left' = Wrote(left, d, Lane, v)
      BY <1>1, <1>7, <2>4, <2>5, LeftNext
    <2> QED
      BY <1>3, <2>1, <2>7, <2>8 DEF WithQueue, Issued
  <1>8. ASSUME Starts, ~pushes, ~Leaves, port'.dv = "read", sq = None, sq' = None, ~Issued'
        PROVE  WithQueue' = left'
    <2>1. left' = left
      BY <1>1, <1>8, LeftNext
    <2> QED
      BY <1>3, <1>8, <2>1, WithPortNext DEF WithQueue
  <1>9. CASE fills
    <2>1. ~mem_port_op /\ sq = None /\ sq' = None /\ mem_xc' = 0 /\ port'.dv = "read"
      BY <1>1, <1>9, FillStep DEF Holder, Put, Fetch
    <2>2. ~Leaves /\ ~pushes
      BY <1>1, <1>9, <2>1, Retiring, Fill DEF fills, fill_issue, pushes
    <2>3. Starts
      BY <1>1, <1>2, <2>1, FreeMoves DEF Stays
    <2> QED
      BY <1>8, <2>1, <2>2, <2>3 DEF Issued
  <1>10. CASE sq # None
    <2>1. /\ ~pushes /\ sq' = None /\ mem_xc' = 0 /\ port' = ReqOf(sq) /\ ReqOf(sq).dv # "none"
      BY <1>1, <1>10, FreeQueue DEF Holder, Put
    <2>2. ~Leaves
      BY <1>4, <1>5, <1>6, <1>10
    <2>3. left' = left
      BY <1>1, <2>1, <2>2, LeftNext
    <2>4. Starts
      BY <1>1, <1>2, <2>1, FreeMoves DEF Stays
    <2>5. sq \in prog.ops /\ sq.k = "store" /\ sq.dw # Dev
      BY <1>1, <1>10 DEF PortTypeOK, StageInv, InDram
    <2>6. WithPort' = Wrote(WithPort, sq.dw, sq.be, sq.v)
      BY <1>1, <2>1, <2>4, <2>5, WithPortNext, ReqFacts
    <2> QED
      BY <1>3, <1>10, <2>1, <2>3, <2>6 DEF WithQueue, Issued
  <1>11. CASE sq = None /\ wb_hmiss
    <2>1. /\ ~pushes /\ ~mem_issue /\ sq' = None /\ mem_xc' = 0 /\ port'.dv = "read"
      BY <1>1, <1>11, FreeMiss DEF Holder, Put
    <2>2. ~Leaves
      BY <1>4, <1>5, <1>6, <2>1
    <2>3. Starts
      BY <1>1, <1>2, <2>1, FreeMoves DEF Stays
    <2> QED
      BY <1>8, <1>11, <2>1, <2>2, <2>3 DEF Issued
  <1>12. CASE h_miss_now
    <2>1. /\ ~pushes /\ ~mem_issue /\ sq = None /\ sq' = None /\ mem_xc' = 0 /\ port'.dv = "read"
      BY <1>1, <1>12, FreeMissNow DEF Holder, Put, ReqOf, fastld
    <2>2. ~Leaves
      BY <1>4, <1>5, <1>6, <2>1
    <2>3. Starts
      BY <1>1, <1>2, <2>1, FreeMoves DEF Stays
    <2> QED
      BY <1>8, <2>1, <2>2, <2>3 DEF Issued
  <1>13. CASE mem_issue /\ st_spec_now
    <2>1. /\ ~pushes /\ ~mem_busy /\ mem_port_wr /\ InDram(mem.op) /\ sq = None /\ sq' = None
          /\ mem_xc' = 0 /\ ~sq_spec /\ port' = ReqOf(mem.op)
      BY <1>1, <1>13, FreeStore DEF Holder, Put
    <2>2. mem # None /\ mem.op \in prog.ops /\ mem.op.k = "store" /\ mem.op.dw # Dev
      BY <1>1, <2>1 DEF mem_port_wr, InDram, PortTypeOK
    <2>3. Starts
      <3>1. port'.dv # "none"
        BY <2>1 DEF ReqOf
      <3> QED
        BY <1>1, <1>2, <3>1, FreeMoves DEF Stays
    <2>4. WithPort' = Wrote(WithPort, mem.op.dw, mem.op.be, mem.op.v)
      BY <1>1, <2>1, <2>2, <2>3, WithPortNext, ReqFacts
    <2>5. left' = Wrote(left, mem.op.dw, mem.op.be, mem.op.v)
      BY <1>1, <2>1, <2>2, LeftNext DEF Leaves
    <2> QED
      BY <1>3, <2>1, <2>4, <2>5 DEF WithQueue, Issued
  <1>14. CASE mem_issue /\ ~st_spec_now
    <2>1. /\ ~pushes /\ mem_busy /\ mem_port_op /\ sq = None /\ sq' = None
          /\ mem_xc' = 1 /\ ~sq_spec /\ port' = ReqOf(mem.op)
      BY <1>1, <1>14, FreeMem DEF Put
    <2>2. Starts
      BY <1>1, <2>1, FreeMoves
    <2> QED
      BY <1>2, <2>1, <2>2, IssueWord
  <1>15. CASE w_early_ld
    <2>1. /\ ~pushes /\ ~mem_issue /\ sq = None /\ sq' = None /\ mem_xc' = 1 /\ port' = ReqOf(ex)
          /\ ex # None /\ ex.k \in {"read", "pair"} /\ mem' \in Entered
      BY <1>1, <1>15, FreeEarly DEF Put
    <2>2. ~Leaves
      BY <1>4, <1>5, <1>6, <2>1
    <2>3. Starts
      BY <1>1, <2>1, FreeMoves
    <2>4. mem'.op = ex
      BY <1>1, <2>1, EnteredFacts, LeftNext
    <2>5. port'.dv = "read" /\ ~Issued'
      BY <2>1, <2>4 DEF ReqOf, Issued
    <2> QED
      BY <1>8, <2>1, <2>2, <2>3, <2>4, <2>5
  <1>16. CASE ~pushes /\ ~fills /\ sq = None /\ ~wb_hmiss /\ ~h_miss_now /\ ~mem_issue /\ ~w_early_ld
    <2>1. ~issues
      BY <1>2, <1>16 DEF issues, post_next, sq_issue, miss_from_wb, second
    <2>2. sq' = None /\ mem_xc' = 0 /\ port' = port
      BY <1>1, <1>16, <2>1, FreeQuiet DEF Holder
    <2>3. left' = left
      BY <1>1, <1>4, <1>5, <1>6, <1>16, LeftNext
    <2>4. WithPort' = WithPort
      BY <1>2, <2>2, WithPortNext DEF Stays
    <2> QED
      BY <1>3, <1>16, <2>2, <2>3, <2>4 DEF WithQueue, Issued
  <1> QED
    BY <1>7, <1>9, <1>10, <1>11, <1>12, <1>13, <1>14, <1>15, <1>16

\* From a port that a posted store holds.
LEMMA PostedWord ==
  ASSUME PortInv, StoreInv, PortNext, Holder("store")
  PROVE  /\ mem_xc' = 1 => port' = ReqOf(mem'.op)
         /\ WithQueue' = IF Issued' THEN Wrote(left', mem'.op.dw, mem'.op.be, mem'.op.v) ELSE left'
PROOF
  <1>1. PortTypeOK /\ StageInv /\ OwnerInv /\ CacheInv
    BY DEF PortInv
  <1>2. /\ st_post /\ port.dv = "write" /\ mem_xc = 0 /\ (w_mrdy <=> resp # None) /\ ~pushes
    BY <1>1, Posting, NoNew DEF Holder
  <1>3. WithQueue = left
    BY <1>2 DEF StoreInv, Issued
  <1>4. Leaves => sq_enq_now /\ mem_port_wr
    BY <1>1, <1>2, Retiring DEF st_spec_now
  <1>5. sq_enq_now => mem_issue /\ sq = None
    BY <1>2 DEF sq_enq_now, postable, mem_issue, mem_port_op
  <1>6. CASE post_next
    <2>1. /\ sq # None /\ sq' = None /\ mem_xc' = 0 /\ port' = ReqOf(sq) /\ ReqOf(sq).dv # "none"
          /\ AddrOf(sq) # port.at /\ resp # None
      BY <1>1, <1>6, PostedQueue DEF Holder, Put
    <2>2. left' = left
      BY <1>1, <1>2, <1>4, <1>5, <2>1, LeftNext
    <2>3. Starts
      <3>1. port'.at # port.at
        BY <2>1 DEF ReqOf
      <3> QED
        BY <1>1, <1>2, <2>1, <3>1, PostedMoves DEF Stays, Drops, NoRequest
    <2>4. sq \in prog.ops /\ sq.k = "store" /\ sq.dw # Dev
      BY <1>1, <2>1 DEF PortTypeOK, StageInv, InDram
    <2>5. WithPort' = Wrote(WithPort, sq.dw, sq.be, sq.v)
      BY <1>1, <2>1, <2>3, <2>4, WithPortNext, ReqFacts
    <2> QED
      BY <1>3, <2>1, <2>2, <2>5 DEF WithQueue, Issued
  <1>7. CASE mem_issue /\ ~enqueued /\ sq_enq_now
    <2>1. /\ ~mem_busy /\ mem_port_wr /\ InDram(mem.op) /\ sq = None /\ sq' = None /\ resp # None
          /\ mem_xc' = 0 /\ ~sq_spec /\ port' = ReqOf(mem.op) /\ AddrOf(mem.op) # port.at
      BY <1>1, <1>7, PostedStore DEF Holder, Put
    <2>2. mem # None /\ mem.op \in prog.ops /\ mem.op.k = "store" /\ mem.op.dw # Dev
      BY <1>1, <2>1 DEF mem_port_wr, InDram, PortTypeOK
    <2>3. Starts
      <3>1. port'.at # port.at /\ port'.dv # "none"
        BY <2>1 DEF ReqOf
      <3> QED
        BY <1>1, <1>2, <2>1, <3>1, PostedMoves DEF Stays, Drops, NoRequest
    <2>4. WithPort' = Wrote(WithPort, mem.op.dw, mem.op.be, mem.op.v)
      BY <1>1, <2>1, <2>2, <2>3, WithPortNext, ReqFacts
    <2>5. left' = Wrote(left, mem.op.dw, mem.op.be, mem.op.v)
      BY <1>1, <2>1, <2>2, LeftNext DEF Leaves
    <2> QED
      BY <1>3, <2>1, <2>4, <2>5 DEF WithQueue, Issued
  <1>8. CASE mem_issue /\ ~sq_enq_now
    <2>1. /\ mem_busy /\ mem_port_op /\ sq = None /\ sq' = None
          /\ mem_xc' = 1 /\ ~sq_spec /\ port' = ReqOf(mem.op)
      BY <1>1, <1>8, PostedMem DEF Put
    <2>2. Starts
      BY <1>1, <2>1, PostedMoves
    <2> QED
      BY <1>2, <2>1, <2>2, IssueWord
  <1>9. CASE ~post_next /\ (mem_issue => enqueued)
    <2>1. /\ enqueued => /\ mem_port_wr /\ InDram(mem.op) /\ ~mem_busy /\ sq = None /\ sq' = mem.op
          /\ ~enqueued => sq' = sq
          /\ resp = None => Holder("store")' /\ port' = port
          /\ resp # None => Holder("none")' /\ port' = NoRequest(port.at)
      BY <1>1, <1>9, PostedQuiet
    <2>2. mem_xc' = 0
      BY <2>1 DEF Holder
    <2>3. WithPort' = WithPort
      BY <1>2, <2>1, WithPortNext DEF Stays, Drops
    <2>4. CASE ~enqueued
      BY <1>1, <1>2, <1>3, <1>4, <1>5, <1>9, <2>1, <2>2, <2>3, <2>4, LeftNext DEF WithQueue, Issued
    <2>5. CASE enqueued
      <3>1. mem # None /\ mem.op \in prog.ops /\ mem.op.k = "store" /\ mem.op # None
        BY <1>1, <2>1, <2>5, OpFacts DEF mem_port_wr, PortTypeOK
      <3>2. left' = Wrote(left, mem.op.dw, mem.op.be, mem.op.v)
        BY <1>1, <2>1, <2>5, <3>1, LeftNext DEF Leaves
      <3> QED
        BY <1>3, <2>1, <2>2, <2>3, <2>5, <3>1, <3>2 DEF WithQueue, Issued
    <2> QED
      BY <2>4, <2>5
  <1> QED
    BY <1>6, <1>7, <1>8, <1>9

\* From a port that the load in WB, a fill or the frame holds.
LEMMA BorrowedWord ==
  ASSUME PortInv, StoreInv, PortNext, NEW o \in {"load", "fill", "irq"}, Holder(o)
  PROVE  /\ mem_xc' = 1 => port' = ReqOf(mem'.op)
         /\ WithQueue' = IF Issued' THEN Wrote(left', mem'.op.dw, mem'.op.be, mem'.op.v) ELSE left'
PROOF
  <1>1. PortTypeOK /\ StageInv /\ OwnerInv /\ CacheInv
    BY DEF PortInv
  <1>2. /\ port.dv # "none" /\ port.at # Dev /\ (w_mrdy <=> resp # None) /\ mem_xc = 0 /\ sq = None /\ ~pushes
    BY <1>1, Borrowed, NoNew DEF Holder
  <1>3. WithQueue = left
    BY <1>2 DEF StoreInv, Issued
  <1>4. CASE mem_issue
    <2>1. o = "load"
      BY <1>1, <1>4, NoIssue
    <2>2. /\ mem_busy /\ mem_port_op /\ sq' = None /\ mem_xc' = 1 /\ ~sq_spec /\ port' = ReqOf(mem.op)
      BY <1>1, <1>4, <2>1, LoadMem DEF Put
    <2>3. Starts
      <3>1. port'.dv # "none" /\ port'.at # port.at
        BY <1>1, <1>4, <2>1, <2>2, LoadMem DEF ReqOf
      <3> QED
        BY <1>1, <3>1, BorrowedMoves DEF Stays, Drops, NoRequest
    <2> QED
      BY <1>2, <2>2, <2>3, IssueWord
  <1>5. CASE ~mem_issue
    <2>1. /\ sq' = None
          /\ resp = None => Holder(o)' /\ port' = port
          /\ resp # None => Holder("none")' /\ port' = NoRequest(port.at)
      BY <1>1, <1>5, BorrowedQuiet
    <2>2. mem_xc' = 0
      BY <2>1 DEF Holder
    <2>3. WithPort' = WithPort
      BY <1>2, <2>1, WithPortNext DEF Stays, Drops
    <2>4. ~Leaves
      <3>1. Leaves => mem_port_op /\ mem # None /\ (st_spec_now \/ sq_enq_now)
        BY <1>1, <1>2, Retiring
      <3>2. ~sq_enq_now
        BY DEF sq_enq_now, Holder
      <3>3. st_spec_now => mem_issue
        BY <1>2 DEF st_spec_now, postable, mem_issue, mem_port_op
      <3> QED
        BY <1>5, <3>1, <3>2, <3>3
    <2> QED
      BY <1>1, <1>2, <1>3, <2>1, <2>2, <2>3, <2>4, LeftNext DEF WithQueue, Issued
  <1> QED
    BY <1>4, <1>5

\* From a port that an instruction in MEM holds.
LEMMA UsingWord ==
  ASSUME PortInv, StoreInv, PortNext, Holder("mem")
  PROVE  /\ mem_xc' = 1 => port' = ReqOf(mem'.op)
         /\ WithQueue' = IF Issued' THEN Wrote(left', mem'.op.dw, mem'.op.be, mem'.op.v) ELSE left'
PROOF
  <1>1. PortTypeOK /\ StageInv /\ OwnerInv /\ CacheInv
    BY DEF PortInv
  <1>2. /\ port.dv # "none" /\ mem_port_op /\ mem # None /\ sq = None /\ ~sq_spec /\ ~wb_wait
        /\ mem_xc \in {1, 2, 3} /\ (mem_xc # 1 => mem.op.k = "pair")
    BY <1>1, Using
  <1>3. ~pushes /\ sq' = None
    BY <1>1, <1>2, NoNew, UsingStep DEF Holder
  <1>4. WithPort = IF Issued THEN Wrote(left, mem.op.dw, mem.op.be, mem.op.v) ELSE left
    BY <1>2 DEF StoreInv, WithQueue
  <1>5. WithQueue' = WithPort'
    BY <1>3 DEF WithQueue
  <1>6. ~mem_busy => left' = (IF Issued THEN Wrote(left, mem.op.dw, mem.op.be, mem.op.v) ELSE left)
    <2>1. Leaves <=> ~mem_busy /\ mem.op.k = "store" /\ InDram(mem.op)
      BY <1>2 DEF Leaves
    <2>2. mem_xc # 1 => mem.op.k # "store"
      BY <1>2
    <2> QED
      BY <1>1, <1>3, <2>1, <2>2, LeftNext DEF Issued, InDram
  <1>7. mem_busy => left' = left /\ mem' # None /\ mem'.op = mem.op
    BY <1>1, <1>2, <1>3, MemKeeps, LeftNext DEF Leaves
  <1>8. CASE second
    <2>1. /\ mem_xc' = 2 /\ mem_busy /\ mem.op.k = "pair" /\ port' = Fetch(Succ[mem.op.dw]) /\ resp # None
      BY <1>1, <1>8, MemTwo
    <2>2. port'.dv = "read"
      BY <2>1 DEF Fetch
    <2>3. WithPort' = WithPort
      BY <1>1, <2>2, UsingMoves, WithPortNext DEF Stays, Drops, Starts
    <2> QED
      BY <1>4, <1>5, <1>7, <2>1, <2>3 DEF Issued
  <1>9. CASE w_mrdy /\ ~second
    <2>1. /\ mem_xc' = 0 /\ ~mem_busy /\ port' = NoRequest(port.at)
      BY <1>1, <1>9, MemAnswered DEF Holder
    <2>2. WithPort' = WithPort
      BY <1>2, <1>9, <2>1, WithPortNext DEF Drops
    <2> QED
      BY <1>4, <1>5, <1>6, <2>1, <2>2 DEF Issued
  <1>10. CASE ~w_mrdy /\ st_post_ok
    <2>1. mem_xc' = 0 /\ ~mem_busy /\ port' = port
      BY <1>1, <1>10, MemPosts DEF Holder
    <2>2. WithPort' = WithPort
      BY <1>10, <2>1, WithPortNext DEF Stays
    <2> QED
      BY <1>4, <1>5, <1>6, <2>1, <2>2 DEF Issued
  <1>11. CASE mem_xc = 1 /\ fastld(mem.op)
    <2>1. mem_xc' = 0 /\ ~mem_busy /\ port' = port /\ ~w_mrdy
      BY <1>1, <1>11, MemLeaves, Using DEF Holder
    <2>2. WithPort' = WithPort
      BY <2>1, WithPortNext DEF Stays
    <2> QED
      BY <1>4, <1>5, <1>6, <2>1, <2>2 DEF Issued
  <1>12. CASE ~w_mrdy /\ ~st_post_ok /\ ~(mem_xc = 1 /\ fastld(mem.op))
    <2>1. mem_busy /\ mem_xc' = (IF mem_xc = 1 THEN 1 ELSE 3) /\ port' = port
      BY <1>1, <1>12, MemWaits
    <2>2. WithPort' = WithPort
      BY <1>12, <2>1, WithPortNext DEF Stays
    <2>3. mem_xc' = 1 => port' = ReqOf(mem'.op)
      BY <1>2, <1>7, <2>1 DEF StoreInv
    <2> QED
      BY <1>2, <1>4, <1>5, <1>7, <2>1, <2>2, <2>3 DEF Issued
  <1> QED
    BY <1>8, <1>9, <1>10, <1>11, <1>12

\* Memory with what is on its way is what the stores have made of it, after every clock.
LEMMA StoreStep ==
  ASSUME PortInv, StoreInv, PortNext
  PROVE  StoreInv'
PROOF
  <1>1. PICK o \in Holders : Holder(o)
    BY DEF PortInv, OwnerInv
  <1>2. /\ mem_xc' = 1 => port' = ReqOf(mem'.op)
        /\ WithQueue' = IF Issued' THEN Wrote(left', mem'.op.dw, mem'.op.be, mem'.op.v) ELSE left'
    BY <1>1, FreeWord, PostedWord, BorrowedWord, UsingWord DEF Holders
  <1> QED
    BY <1>2, WithPortNext DEF StoreInv

-----------------------------------------------------------------------------
(* What the loads read.                                                    *)

\* No store is on its way: memory is what the stores have made of it.
LEMMA Drained ==
  ASSUME PortInv, StoreInv, port.dv # "write", sq = None
  PROVE  store = left
PROOF
  <1>1. ~Issued
    <2> SUFFICES ASSUME Issued PROVE FALSE
      OBVIOUS
    <2>1. port = ReqOf(mem.op) /\ mem.op.k = "store"
      BY DEF Issued, StoreInv
    <2> QED
      BY <2>1 DEF ReqOf
  <1> QED
    BY <1>1 DEF StoreInv, WithQueue, WithPort

\* A read is answered while no store is on its way.
LEMMA ReadAnswer ==
  ASSUME PortInv, StoreInv, port.dv = "read", mem_xc # 0 \/ ld_out \/ if_xc
  PROVE  sq = None /\ store = left
PROOF
  <1>1. sq = None
    BY DEF PortInv, OwnerInv
  <1> QED
    BY <1>1, Drained

\* What is read of a dword that was written.
LEMMA LaneOf ==
  ASSUME NEW m \in [Dw -> Data], NEW dw \in Dw, NEW w \in Dw, NEW be, NEW v \in Val, NEW l \in Lane
  PROVE  /\ dw # w => Wrote(m, dw, be, v)[w] = m[w]
         /\ dw = w /\ l \in be => Wrote(m, dw, be, v)[w][l] = v
PROOF
  BY WroteAt

\* The value forwarded to a load, and the word the hit pipe has for it, are what the
\* stores before it leave there, the one that leaves MEM in the same clock included.
LEMMA EnteredValue ==
  ASSUME PortInv, StoreInv, PortNext, ~mem_busy, ~sq_spec, ex # None, mem' \in Entered, mem'.hok
  PROVE  Same(mem'.op.be, mem'.data, left'[mem'.op.dw])
PROOF
  <1>1. PortTypeOK /\ StageInv /\ OwnerInv /\ CacheInv /\ left \in [Dw -> Data] /\ left' \in [Dw -> Data]
    BY LeftNext DEF PortInv, PortTypeOK
  <1>2. /\ mem'.op = ex /\ h_elig
        /\ h_fwd => mem'.data = Replicated(youngest.v)
        /\ ~h_fwd => mem'.data \in PipeWords(ex.dw)
    BY <1>1, EnteredFacts
  <1>3. ex \in prog.ops /\ ex.dw \in Dw /\ ex.dw # Dev /\ ex.be \subseteq Lane
    BY <1>1, <1>2, OpFacts DEF PortTypeOK, h_elig, h_base, InDram
  <1>4. ~pushes
    BY <1>1, PushStep
  <1>5. ASSUME sf_a
        PROVE  left' = Wrote(left, ex.dw, mem.op.be, mem.op.v) /\ mem.op.v \in Val
    <2>1. mem # None /\ mem.op \in prog.ops /\ mem.op.k = "store" /\ mem.op.dw = ex.dw
      BY <1>1, <1>5 DEF sf_a, mem_port_wr, PortTypeOK
    <2>2. Leaves
      BY <1>3, <2>1 DEF Leaves, InDram
    <2> QED
      BY <1>1, <2>1, <2>2, LeftNext, OpFacts
  <1>6. ASSUME ~sf_a
        PROVE  left'[ex.dw] = left[ex.dw] /\ WithQueue[ex.dw] = left[ex.dw]
    <2>1. Leaves => mem.op.dw # ex.dw /\ mem.op \in prog.ops
      BY <1>1, <1>6, Retiring DEF sf_a, PortTypeOK
    <2>2. left'[ex.dw] = left[ex.dw]
      BY <1>1, <1>3, <1>4, <2>1, LeftNext, OpFacts, WroteAt
    <2>3. Issued => mem # None /\ mem.op \in prog.ops /\ mem.op.dw # ex.dw /\ mem.op.dw # Dev
      BY <1>1, <1>6 DEF Issued, sf_a, OwnerInv, Carries, mem_port_wr, mem_port_op, mem_port_rd, PortTypeOK
    <2>4. Issued => mem.op.dw \in Dw /\ mem.op.v \in Val
      BY <1>1, <2>3, OpFacts
    <2>5. WithQueue[ex.dw] = left[ex.dw]
      BY <1>1, <1>3, <2>3, <2>4, WroteAt DEF StoreInv
    <2> QED
      BY <2>2, <2>5
  <1>7. WithPort \in [Dw -> Data]
    BY WithPortNext
  <1>8. ASSUME sf_c
        PROVE  WithQueue = Wrote(WithPort, ex.dw, sq.be, sq.v) /\ sq.v \in Val
    BY <1>1, <1>3, <1>8, OpFacts DEF sf_c, WithQueue, PortTypeOK
  <1>9. ASSUME ~sf_c
        PROVE  WithQueue[ex.dw] = WithPort[ex.dw]
    <2>1. sq # None => sq \in prog.ops /\ sq.dw # Dev /\ sq.dw # ex.dw
      BY <1>1, <1>9 DEF sf_c, PortTypeOK, StageInv, InDram
    <2>2. sq # None => sq.dw \in Dw /\ sq.v \in Val
      BY <1>1, <2>1, OpFacts
    <2> QED
      BY <1>3, <1>7, <2>1, <2>2, WroteAt DEF WithQueue
  <1>10. ASSUME sf_b
         PROVE  WithPort = Wrote(store, ex.dw, port.be, port.v) /\ port.v \in Val
    BY <1>1, <1>10, PortWord DEF sf_b, WithPort
  <1>11. store \in [Dw -> Data]
    BY <1>1 DEF PortTypeOK
  <1>12. ASSUME ~sf_b
         PROVE  WithPort[ex.dw] = store[ex.dw]
    <2>1. CASE port.dv = "write" /\ port.at # Dev
      BY <1>1, <1>3, <1>11, <1>12, <2>1, PortWord, WroteAt DEF sf_b, WithPort
    <2>2. CASE ~(port.dv = "write" /\ port.at # Dev)
      BY <2>2 DEF WithPort
    <2> QED
      BY <2>1, <2>2
  <1>13. CASE h_fwd
    <2>1. h_line_blk /\ ex.be \subseteq youngest.be /\ mem'.data = Replicated(youngest.v)
      BY <1>2, <1>13 DEF h_fwd
    <2> SUFFICES ASSUME NEW l \in ex.be
                 PROVE  left'[ex.dw][l] = youngest.v
      BY <1>2, <1>3, <2>1 DEF Same, Replicated
    <2>2. l \in Lane /\ l \in youngest.be
      BY <1>3, <2>1
    <2>3. CASE sf_a
      <3>1. youngest = [be |-> mem.op.be, v |-> mem.op.v]
        BY <2>3 DEF youngest
      <3> QED
        BY <1>1, <1>3, <1>5, <2>2, <2>3, <3>1, LaneOf
    <2>4. CASE ~sf_a /\ sf_c
      <3>1. youngest = [be |-> sq.be, v |-> sq.v]
        BY <2>4 DEF youngest
      <3> QED
        BY <1>3, <1>6, <1>7, <1>8, <2>2, <2>4, <3>1, LaneOf
    <2>5. CASE ~sf_a /\ ~sf_c
      <3>1. youngest = [be |-> port.be, v |-> port.v] /\ sf_b
        BY <2>1, <2>5 DEF youngest, h_line_blk
      <3> QED
        BY <1>3, <1>6, <1>9, <1>10, <1>11, <2>2, <2>5, <3>1, LaneOf
    <2> QED
      BY <2>3, <2>4, <2>5
  <1>14. CASE ~h_fwd
    <2>1. ~sf_a /\ ~sf_b /\ ~sf_c
      BY <1>2, <1>14 DEF h_elig, h_line_blk
    <2>2. PipeWords(ex.dw) = {store[ex.dw]}
      BY <2>1, Zenon DEF PipeWords, sf_b
    <2>3. mem'.data = left'[ex.dw]
      BY <1>2, <1>6, <1>9, <1>12, <1>14, <2>1, <2>2
    <2> QED
      BY <1>2, <2>3 DEF Same
  <1> QED
    BY <1>13, <1>14

\* What the loads in flight have got is what the stores have made, after every clock.
LEMMA LoadStep ==
  ASSUME PortInv, StoreInv, LoadInv, PortNext
  PROVE  LoadInv'
PROOF
  <1>1. PortTypeOK /\ StageInv /\ OwnerInv /\ CacheInv
    BY DEF PortInv
  <1>2. mem_busy /\ (mem # None \/ wb # None) => left' = left
    BY <1>1, LeftNext, Retiring, PushStep
  <1>3. mem' # None /\ mem'.hok => Same(mem'.op.be, mem'.data, left'[mem'.op.dw])
    <2>1. CASE mem # None /\ mem_busy /\ ~sq_spec
      <3>1. /\ mem'.op = mem.op /\ mem'.hok = mem.hok /\ mem'.data = mem.data
            /\ left' = left
        BY <1>1, <1>2, <2>1, MemKeeps
      <3>2. mem'.hok => Same(mem.op.be, mem.data, left[mem.op.dw])
        BY <2>1, <3>1, Zenon DEF LoadInv
      <3>3. Same(mem'.op.be, mem'.data, left'[mem'.op.dw])
              <=> Same(mem.op.be, mem.data, left[mem.op.dw])
        BY <3>1, Zenon
      <3> QED
        BY <3>2, <3>3
    <2>2. CASE ~mem_busy /\ ~sq_spec /\ ex # None /\ mem' \in Entered
      BY <2>2, EnteredValue
    <2> QED
      BY <1>1, <2>1, <2>2, MemStage
  <1>4. ASSUME wb_load'
        PROVE  wb'.want = left'[wb'.at[1]] /\ (wb'.hok => Same(wb'.be, wb'.data, wb'.want))
    <2>1. CASE wb_wait /\ wb' = wb
      <3>1. left' = left /\ wb_load
        BY <1>2, <2>1 DEF mem_busy, wb_wait, wb_load
      <3> QED
        BY <2>1, <3>1 DEF LoadInv, Same
    <2>2. CASE mem # None /\ fastld(mem.op) /\ wb' = Load(mem)
      <3>1. left' = left
        BY <1>1, <2>2, LeftNext, PushStep DEF Leaves, fastld
      <3> QED
        BY <1>1, <2>2, <3>1, LoadFacts DEF LoadInv, Same
    <2> QED
      BY <1>4, <2>1, <2>2, WbNext DEF wb_load
  <1>5. ASSUME resp' # None, port'.dv = "read"
        PROVE  /\ resp'.data = store'[port'.at[1]]
               /\ resp'.next # None => resp'.next = store'[Succ[port'.at[1]]]
    <2>1. DramDv /\ resp = None
      BY <1>1, <1>5, CacheNext
    <2>2. port' = port
      BY <1>1, <2>1, Keeps
    <2> QED
      BY <1>1, <1>5, <2>1, <2>2, CacheNext
  <1>6. ASSUME mem_xc' \in {2, 3}
        PROVE  dw0' = left'[mem'.op.dw]
    <2>1. ~Starts => mem_busy /\ ~sq_spec /\ mem # None
      BY <1>1, <1>6, PortMoves
    <2>2. PICK o \in Holders : Holder(o)
      BY <1>1 DEF OwnerInv
    <2>3. Holder("mem")
      BY <1>1, <1>6, <2>2, FreeMoves, PostedMoves, BorrowedMoves DEF Holders
    <2>4. CASE second
      <3>1. mem_xc = 1 /\ mem_busy /\ mem.op.k = "pair" /\ resp # None /\ dw0' = resp.data
            /\ mem # None /\ ~sq_spec
        BY <1>1, <2>3, <2>4, MemTwo, Using
      <3>2. port.dv = "read" /\ port.at[1] = mem.op.dw
        BY <1>1, <3>1, OpFacts DEF OwnerInv, Carries, ReqOf, PortTypeOK
      <3>3. store = left
        BY <3>1, <3>2, ReadAnswer
      <3> QED
        BY <1>1, <1>2, <3>1, <3>2, <3>3, MemKeeps DEF LoadInv
    <2>5. CASE ~second
      <3>1. ~w_mrdy /\ ~st_post_ok /\ ~(mem_xc = 1 /\ fastld(mem.op))
        BY <1>1, <1>6, <2>3, <2>5, MemAnswered, MemPosts, MemLeaves DEF Holder
      <3>2. mem_busy /\ dw0' = dw0 /\ mem_xc # 1 /\ mem # None /\ ~sq_spec /\ mem_xc \in {1, 2, 3}
        BY <1>1, <1>6, <2>3, <3>1, MemWaits, Using
      <3> QED
        BY <1>1, <1>2, <3>2, MemKeeps DEF LoadInv
    <2> QED
      BY <2>4, <2>5
  <1> QED
    BY <1>3, <1>4, <1>5, <1>6 DEF LoadInv

\* Memory and the loads when the core starts.
LEMMA MemoryStart ==
  ASSUME PortInit
  PROVE  StoreInv /\ LoadInv
PROOF
  <1>1. port.dv = "none"
    BY DEF PortInit, NoRequest
  <1>2. StoreInv
    BY <1>1 DEF PortInit, StoreInv, WithPort, WithQueue, Issued
  <1>3. LoadInv
    BY DEF PortInit, LoadInv, wb_load
  <1> QED
    BY <1>2, <1>3

\* Where the clock does not run, they do not change.
LEMMA MemoryStutter ==
  ASSUME StoreInv, LoadInv, UNCHANGED coreVars
  PROVE  StoreInv' /\ LoadInv'
PROOF
  <1>1. /\ prog' = prog /\ ex' = ex /\ mem' = mem /\ wb' = wb /\ port' = port /\ armed' = armed
        /\ mem_xc' = mem_xc /\ dw0' = dw0 /\ st_post' = st_post /\ st_post_ok' = st_post_ok
        /\ st_spec' = st_spec /\ sq' = sq /\ ld_out' = ld_out
        /\ resp' = resp /\ store' = store /\ left' = left
    BY DEF coreVars, stages, engine, cache
  <1>2. StoreInv'
    BY <1>1 DEF StoreInv, WithPort, WithQueue, Issued
  <1>3. LoadInv'
    BY <1>1 DEF LoadInv, wb_load
  <1> QED
    BY <1>2, <1>3

\* What memory and the loads in flight hold at every clock.
THEOREM MemoryInvariant == CtlSpec => [](PortInv /\ StoreInv /\ LoadInv)
PROOF
  <1>1. CtlInit => PortInv /\ StoreInv /\ LoadInv
    BY PortStart, MemoryStart DEF CtlInit
  <1>2. PortInv /\ StoreInv /\ LoadInv /\ [CtlNext]_allVars => (PortInv /\ StoreInv /\ LoadInv)'
    <2>1. CASE CtlNext
      BY <2>1, PortStep, StoreStep, LoadStep DEF CtlNext
    <2>2. CASE UNCHANGED allVars
      BY <2>2, PortStutter, MemoryStutter DEF allVars
    <2> QED
      BY <2>1, <2>2
  <1> QED
    BY <1>1, <1>2, PTL DEF CtlSpec

\* With no store on its way memory is what the stores that left MEM have made of it:
\* posted, queued or waited for, each is performed once and in their order, and no
\* other is (pipeline_core.sv:2369-2447, 2492-2501).
THEOREM StoresArePerformed == CtlSpec => []StoresPerformed
PROOF
  <1>1. PortInv /\ StoreInv /\ LoadInv => StoresPerformed
    BY Drained DEF StoresPerformed
  <1> QED
    BY <1>1, MemoryInvariant, PTL

\* Memory departs from the program in one way only: as long as no store leaves MEM in
\* the clock in which the store before it squashes it, memory is what the program has
\* stored (pipeline_core.sv:1776-1780; CPU_ARCHITECTURE.md:84-87).
THEOREM OnlySquashedStoresDiffer ==
  CtlSpec /\ [][~(sq_spec /\ Leaves)]_coreVars => []MemoryIsProgram
PROOF
  <1>1. CtlInit => left = arch
    BY DEF CtlInit, PortInit
  <1>2. left = arch /\ [CtlNext]_allVars /\ [~(sq_spec /\ Leaves)]_coreVars => (left = arch)'
    <2>1. CASE UNCHANGED coreVars
      BY <2>1 DEF coreVars
    <2>2. CASE CtlNext /\ ~(sq_spec /\ Leaves)
      <3>1. left' = Stored(left, Leaves) /\ arch' = Stored(arch, Retires)
        BY <2>2 DEF CtlNext, PortNext, History
      <3>2. Leaves = Retires
        BY <2>2 DEF Leaves, Retires
      <3> QED
        BY <3>1, <3>2
    <2> QED
      BY <2>1, <2>2 DEF allVars
  <1>3. StoresPerformed /\ left = arch => MemoryIsProgram
    BY DEF StoresPerformed, MemoryIsProgram
  <1> QED
    BY <1>1, <1>2, <1>3, StoresArePerformed, PTL DEF CtlSpec

\* What an instruction that waits for its data in MEM has when it leaves.
LEMMA GotInMem ==
  ASSUME PortInv, StoreInv, LoadInv, mem # None, ~mem_busy, mem.want # <<>>, ~fastld(mem.op)
  PROVE  \A i \in DOMAIN mem.want : Same(mem.op.be, Got[i], mem.want[i])
PROOF
  <1>1. PortTypeOK /\ StageInv /\ OwnerInv /\ CacheInv
    BY DEF PortInv
  <1>2. mem.want = Reads(mem.op, left) /\ mem.op \in prog.ops /\ mem_xc \in 0 .. 3
    BY <1>1 DEF StageInv, PortTypeOK
  <1>3. mem.op.k \in {"return", "read", "pair"} /\ mem.op.dw # Dev /\ mem.op.dw \in Dw
    <2>1. mem.op.k = "pair" \/ (mem.op.k \in {"load", "return", "read"} /\ mem.op.dw # Dev)
      BY <1>2 DEF Reads
    <2> QED
      BY <1>1, <1>2, <2>1, OpFacts DEF fastld, InDram
  <1>4. CASE mem_xc = 0
    <2>1. ~mem_done_now
      BY <1>3, <1>4 DEF mem_done_now, st_spec_now, sq_enq_now, postable, mem_port_wr
    <2>2. ~mem_port_op
      BY <2>1 DEF mem_busy
    <2>3. mem.h /\ mem.op.k = "return" /\ (mem.h1 \/ mem.hok)
      BY <1>1, <1>3, <2>2 DEF mem_port_op, mem_port_rd, StageInv
    <2>4. mem.hok
      BY <2>3 DEF mem_busy, ret_h_wait
    <2>5. mem.want = <<left[mem.op.dw]>> /\ Got = <<mem.data>>
      BY <1>2, <1>3, <1>4, <2>3 DEF Reads, Got
    <2> QED
      BY <2>4, <2>5 DEF LoadInv
  <1>5. CASE mem_xc # 0
    <2>1. PICK o \in Holders : Holder(o)
      BY <1>1 DEF OwnerInv
    <2>2. Holder("mem")
      BY <1>5, <2>1 DEF Holder
    <2>3. mem_port_op /\ ~st_post_ok /\ (w_mrdy <=> resp # None) /\ (mem_xc = 2 => ~w_mrdy)
          /\ (mem_xc # 1 => mem.op.k = "pair")
      BY <1>1, <1>3, <2>2, Using DEF InDram, mem_port_wr
    <2>4. /\ mem_xc \in {1, 3} /\ resp # None
          /\ mem_xc = 1 => ~mem_need2
      BY <1>2, <1>3, <1>5, <2>3 DEF mem_busy, mem_done_now, st_spec_now, sq_enq_now, postable, mem_port_wr, fastld
    <2>5. port.dv = "read"
      BY <1>1, <1>3, <2>4 DEF OwnerInv, Carries, ReqOf
    <2>6. /\ resp.data = left[port.at[1]]
          /\ resp.next # None => resp.next = left[Succ[port.at[1]]]
      BY <1>5, <2>4, <2>5, ReadAnswer DEF LoadInv
    <2>7. CASE mem_xc = 3
      <3>1. port.at = <<Succ[mem.op.dw], 0>> /\ mem.op.k = "pair" /\ dw0 = left[mem.op.dw]
        BY <1>1, <2>7 DEF OwnerInv, Carries, LoadInv
      <3>2. Got = <<left[mem.op.dw], left[Succ[mem.op.dw]]>>
        BY <2>6, <2>7, <3>1 DEF Got
      <3>3. mem.want = <<left[mem.op.dw], left[Succ[mem.op.dw]]>>
        BY <1>2, <3>1 DEF Reads
      <3> QED
        BY <3>2, <3>3 DEF Same
    <2>8. CASE mem_xc = 1
      <3>1. port.at[1] = mem.op.dw
        BY <1>1, <1>2, <1>3, <2>8, OpFacts DEF OwnerInv, Carries
      <3>2. CASE mem.op.k = "pair"
        <4>1. Got = <<left[mem.op.dw], left[Succ[mem.op.dw]]>>
          BY <2>4, <2>6, <2>8, <3>1, <3>2 DEF Got, mem_need2
        <4>2. mem.want = <<left[mem.op.dw], left[Succ[mem.op.dw]]>>
          BY <1>2, <3>2 DEF Reads
        <4> QED
          BY <4>1, <4>2 DEF Same
      <3>3. CASE mem.op.k # "pair"
        <4>1. Got = <<left[mem.op.dw]>>
          BY <2>6, <2>8, <3>1, <3>3 DEF Got
        <4>2. mem.want = <<left[mem.op.dw]>>
          BY <1>2, <1>3, <3>3 DEF Reads
        <4> QED
          BY <4>1, <4>2 DEF Same
      <3> QED
        BY <3>2, <3>3
    <2> QED
      BY <2>4, <2>7, <2>8
  <1> QED
    BY <1>4, <1>5

\* A load, a return or a two-dword read gets what the stores that left MEM ahead of it
\* have written, whichever way it comes, and so does a fill (pipeline_core.sv:1806-1829, 2634-2683).
THEOREM LoadsRead == CtlSpec => []LoadsReadLastStore
PROOF
  <1>1. PortInv /\ StoreInv /\ LoadInv => LoadsReadLastStore
    <2> SUFFICES ASSUME PortInv, StoreInv, LoadInv
                 PROVE  LoadsReadLastStore
      OBVIOUS
    <2>1. PortTypeOK /\ StageInv /\ OwnerInv /\ CacheInv
      BY DEF PortInv
    <2>2. wb_load /\ ~wb_wait => Same(wb.be, GotWb, wb.want)
      <3> SUFFICES ASSUME wb_load, ~wb_wait
                   PROVE  Same(wb.be, GotWb, wb.want)
        OBVIOUS
      <3>1. CASE wb.h /\ wb.hok
        BY <3>1 DEF GotWb, LoadInv
      <3>2. CASE ~(wb.h /\ wb.hok)
        <4>1. ld_out /\ w_mrdy
          BY <3>2 DEF wb_wait
        <4>2. PICK o \in Holders : Holder(o)
          BY <2>1 DEF OwnerInv
        <4>3. Holder("load")
          BY <4>1, <4>2 DEF Holder
        <4>4. resp # None /\ port.dv = "read" /\ port.at = wb.at
          BY <2>1, <4>1, <4>3, Borrowed DEF OwnerInv, Carries
        <4>5. resp.data = left[wb.at[1]]
          BY <4>1, <4>4, ReadAnswer DEF LoadInv
        <4> QED
          BY <3>2, <4>5 DEF GotWb, LoadInv, Same
      <3> QED
        BY <3>1, <3>2
    <2>3. if_xc /\ w_mrdy => /\ resp.data = left[port.at[1]]
                             /\ (resp.next # None => resp.next = left[Succ[port.at[1]]])
      <3> SUFFICES ASSUME if_xc, w_mrdy
                   PROVE  /\ resp.data = left[port.at[1]]
                          /\ (resp.next # None => resp.next = left[Succ[port.at[1]]])
        OBVIOUS
      <3>1. PICK o \in Holders : Holder(o)
        BY <2>1 DEF OwnerInv
      <3>2. Holder("fill")
        BY <3>1 DEF Holder
      <3>3. resp # None /\ port.dv = "read"
        BY <2>1, <3>2, Borrowed DEF OwnerInv, Carries
      <3> QED
        BY <3>3, ReadAnswer DEF LoadInv
    <2> QED
      BY <2>2, <2>3, GotInMem DEF LoadsReadLastStore
  <1> QED
    BY <1>1, MemoryInvariant, PTL

-----------------------------------------------------------------------------
(* The strobe of CACHE_CTRL.                                               *)

\* A strobe is up while a store to CACHE_CTRL is on the port, and the crossbar's
\* chain tells for how long.
ToCtl == port.dv = "write" /\ port.at = Dev
Age   == IF dev.d1 = "no" THEN 1 ELSE IF dev.d2 = "no" THEN 2
         ELSE IF dev.ready = "no" THEN 3 ELSE 4
StrobeInv ==
  /\ go # {} <=> Maintains /\ ToCtl
  /\ go \in SUBSET Kinds
  /\ goAge = IF go = {} THEN 0 ELSE Age

\* A store to CACHE_CTRL that is up stays for its four clocks, and then drops.
LEMMA CtlStays ==
  ASSUME PortInv, PortNext, ToCtl
  PROVE  \/ port' = port /\ Age \in {1, 2, 3} /\ Age' = Age + 1
         \/ ~ToCtl' /\ Age = 4
PROOF
  <1>1. /\ PortTypeOK /\ StageInv /\ OwnerInv /\ CacheInv /\ DevInv
        /\ port.dv # "none" /\ port.at = Dev /\ ~DramDv
    BY DEF PortInv, ToCtl, DramDv
  <1>2. w_mrdy <=> dev.ready # "no" /\ armed
    BY <1>1, Zenon DEF m_ready, w_mrdy
  <1>3. Stays \/ Drops
    BY <1>1, PortMoves DEF Starts
  <1>4. CASE Stays
    <2>1. ~w_mrdy /\ port' = port
      BY <1>1, <1>4 DEF Stays
    <2>2. dev'.d1 = "own" /\ dev'.d2 = dev.d1 /\ dev'.ready = dev.d2
      BY <1>1, <2>1 DEF PortNext, Devices, Aged
    <2>3. \/ dev.d1 = "no"
          \/ dev.d1 = "own" /\ dev.d2 = "no"
          \/ dev.d1 = "own" /\ dev.d2 = "own" /\ dev.ready = "no"
      BY <1>1, <1>2, <2>1 DEF DevInv, Chained
    <2> QED
      BY <2>1, <2>2, <2>3 DEF Age
  <1>5. CASE Drops
    <2>1. w_mrdy /\ port' = NoRequest(port.at)
      BY <1>5 DEF Drops
    <2>2. dev.d1 = "own" /\ dev.d2 = "own" /\ dev.ready = "own"
      BY <1>1, <1>2, <2>1 DEF DevInv, Chained
    <2> QED
      BY <2>1, <2>2 DEF Age, ToCtl, NoRequest
  <1> QED
    BY <1>3, <1>4, <1>5

\* One that comes on the port finds the chain empty at its start.
LEMMA CtlStarts ==
  ASSUME PortInv, PortNext, ~ToCtl, ToCtl'
  PROVE  Age' = 1
PROOF
  <1>1. PortTypeOK /\ StageInv /\ OwnerInv /\ CacheInv
    BY DEF PortInv
  <1>2. Starts
    BY <1>1, PortMoves DEF Stays, Drops, ToCtl, NoRequest
  <1>3. port.dv = "none" \/ port.at # Dev
    BY <1>2 DEF Starts, DramDv
  <1>4. dev'.d1 = "no"
    BY <1>3 DEF PortNext, Devices
  <1> QED
    BY <1>4 DEF Age

\* The strobe follows the store on the port, and is one that MaintCapture assumes.
LEMMA StrobeStep ==
  ASSUME PortInv, StrobeInv, GoHold = 4, CtlNext
  PROVE  StrobeInv' /\ Strobe
PROOF
  <1>1. PortNext /\ Maintains' = Maintains
    BY DEF CtlNext, PortNext, Maintains
  <1>2. CASE ~Maintains
    <2>1. go' = go /\ goAge' = goAge /\ go = {} /\ goAge = 0
      BY <1>2 DEF CtlNext, StrobeInv, vars
    <2> QED
      BY <1>1, <1>2, <2>1 DEF StrobeInv, Strobe, QuietGo
  <1>3. CASE Maintains /\ ToCtl'
    <2>1. PortStrobe
      BY <1>3 DEF CtlNext
    <2>2. CASE ToCtl
      <3>1. port' = port /\ Age \in {1, 2, 3} /\ Age' = Age + 1
        BY <1>1, <1>3, <2>2, CtlStays
      <3>2. go # {} /\ go' = go /\ goAge' = goAge + 1
        BY <1>3, <2>1, <2>2, <3>1 DEF PortStrobe, ToCtl, StrobeInv
      <3>3. goAge = Age
        BY <3>2 DEF StrobeInv
      <3> QED
        BY <1>1, <1>3, <3>1, <3>2, <3>3 DEF StrobeInv, Strobe, HoldGo
    <2>3. CASE ~ToCtl
      <3>1. Age' = 1
        BY <1>1, <1>3, <2>3, CtlStarts
      <3>2. go = {} /\ goAge = 0
        BY <2>3 DEF StrobeInv
      <3>3. go' \in Asks(port'.v) /\ goAge' = 1
        BY <1>3, <2>1, <3>2 DEF PortStrobe, ToCtl
      <3>4. go' \in SUBSET Kinds /\ go' # {}
        BY <3>3 DEF Asks, Kinds
      <3> QED
        BY <1>1, <1>3, <3>1, <3>2, <3>3, <3>4 DEF StrobeInv, Strobe, RaiseGo
    <2> QED
      BY <2>2, <2>3
  <1>4. CASE Maintains /\ ~ToCtl'
    <2>1. go' = {} /\ goAge' = 0
      BY <1>4 DEF CtlNext, PortStrobe, ToCtl
    <2>2. CASE ToCtl
      <3>1. Age = 4
        BY <1>1, <1>4, <2>2, CtlStays DEF ToCtl
      <3> QED
        BY <1>1, <1>4, <2>1, <2>2, <3>1 DEF StrobeInv, Strobe, DropGo
    <2>3. CASE ~ToCtl
      BY <1>1, <1>4, <2>1, <2>3 DEF StrobeInv, Strobe, QuietGo
    <2> QED
      BY <2>2, <2>3
  <1> QED
    BY <1>2, <1>3, <1>4

\* Where the clock does not run, it does not change.
LEMMA StrobeStutter ==
  ASSUME StrobeInv, UNCHANGED allVars
  PROVE  StrobeInv'
PROOF
  <1>1. prog' = prog /\ port' = port /\ dev' = dev /\ go' = go /\ goAge' = goAge
    BY DEF allVars, coreVars, vars
  <1> QED
    BY <1>1 DEF StrobeInv, Maintains, ToCtl, Age

\* A clock of the port is one of MaintCapture's as well, and where the program does
\* not maintain the cache nothing of it moves.
LEMMA CtlCapture ==
  ASSUME PortInv, StrobeInv, GoHold = 4, CtlNext
  PROVE  [Next]_vars
PROOF
  <1>1. Strobe
    BY StrobeStep
  <1> QED
    BY <1>1 DEF CtlNext, Next

\* No strobe is up when the core starts.
LEMMA StrobeStart ==
  ASSUME CtlInit
  PROVE  PortInv /\ StrobeInv
PROOF
  <1>1. port.dv = "none" /\ go = {} /\ goAge = 0
    BY DEF CtlInit, PortInit, NoRequest, Init
  <1> QED
    BY <1>1, PortStart DEF CtlInit, StrobeInv, ToCtl

\* The strobe of a store to CACHE_CTRL is one MaintCapture assumes, with the four
\* clocks of the crossbar's acknowledge, whatever is on the port before and behind
\* it (KlaussCPU.sv:466-487).
THEOREM StrobeIsDriven ==
  ASSUME GoHold = 4
  PROVE  CtlSpec => DrivesStrobe
PROOF
  <1>1. CtlInit => PortInv /\ StrobeInv
    BY StrobeStart
  <1>2. PortInv /\ StrobeInv /\ [CtlNext]_allVars
          => (PortInv /\ StrobeInv)' /\ [Strobe]_<<go, goAge>>
    <2>1. CASE CtlNext
      BY <2>1, PortStep, StrobeStep DEF CtlNext
    <2>2. CASE UNCHANGED allVars
      BY <2>2, PortStutter, StrobeStutter DEF allVars, vars
    <2> QED
      BY <2>1, <2>2
  <1> QED
    BY <1>1, <1>2, PTL DEF CtlSpec, DrivesStrobe

\* The core with its port is an implementation of MaintCapture: its initial state is
\* one, and every clock of it is a clock of the capture or leaves it as it is.
THEOREM CaptureIsDriven ==
  ASSUME GoHold = 4
  PROVE  CtlSpec => Safety
PROOF
  <1>1. CtlInit => Init /\ PortInv /\ StrobeInv
    BY StrobeStart DEF CtlInit
  <1>2. ASSUME PortInv, StrobeInv, [CtlNext]_allVars
        PROVE  (PortInv /\ StrobeInv)' /\ [Next]_vars
    <2>1. CASE CtlNext
      BY <1>2, <2>1, PortStep, StrobeStep, CtlCapture DEF CtlNext
    <2>2. CASE UNCHANGED allVars
      <3>1. UNCHANGED vars /\ UNCHANGED coreVars
        BY <2>2 DEF allVars
      <3> QED
        BY <1>2, <2>2, <3>1, PortStutter, StrobeStutter
    <2> QED
      BY <1>2, <2>1, <2>2
  <1> QED
    BY <1>1, <1>2, PTL DEF CtlSpec, Safety

\* With the port's own strobe for the one MaintCapture takes as a constant, every
\* request the program makes stays scheduled, in a mode that covers it, until a walk
\* takes it up (mem_read_write.sv:245-278).
THEOREM RequestsAreKept ==
  ASSUME GoHold = 4
  PROVE  CtlSpec => []NoRequestLost
PROOF
  <1>1. GoHold >= 2
    OBVIOUS
  <1> QED
    BY <1>1, CaptureIsDriven, RequestsKept, PTL

=============================================================================
