------------------------------ MODULE CorePort ------------------------------
(***************************************************************************)
(* The memory side of pipeline_core.sv: the stages EX, MEM and WB and the  *)
(* one memory port they share with the instruction fill and the interrupt  *)
(* entry.  A store may leave MEM posted, or queued behind the posted one;  *)
(* a load may leave MEM for WB with its read outstanding, be answered by   *)
(* the cache's load-hit pipe, or take its value from a store in flight.    *)
(*                                                                         *)
(* One step of PortNext is one rising edge of clk, with one conjunct per   *)
(* block of registers; each reads the values of the clock that ends.  The  *)
(* cache behind the port is the contract DCache has been shown to keep,    *)
(* devices are the acknowledge chain of the crossbar.  A dword has two     *)
(* lanes, the bytes a store writes are a set of lanes and all get the same *)
(* value, as the data of a store is replicated.  Instructions come in any  *)
(* order; the fetch side is what the port sees of it: look-ups, fills, and *)
(* whether it holds a copy of the dword a store writes.                    *)
(***************************************************************************)
EXTENDS Naturals, FiniteSets

CONSTANTS
  Dw,         \* dwords of DRAM
  Succ,       \* the next dword of each, None behind the last
  Programs,   \* bound: sets of instructions that run together, with the
              \* dwords that may hold code and may take an interrupt frame;
              \* without either, nothing is fetched or interrupts are masked
  Val, Val0,  \* values of a lane, and what memory holds at first
  Dev,        \* the address of a device
  Plain, None, Ack

Lane  == {0, 1}
Data  == [Lane -> Val]
Addr  == Dw \X Lane
OpKinds == {"load", "return", "read", "pair", "store", "branch", "other"}
Op    == [k : OpKinds, dw : Dw \cup {Dev}, be : SUBSET Lane, v : Val]

\* What a stage holds, and what the cache answers to a load.
InMem == [op : Op, h : BOOLEAN, h1 : BOOLEAN, hok : BOOLEAN, data : Data,
          want : {<<>>} \cup (Data \X Data) \cup {<<d>> : d \in Data}]
InWb  == [at : Addr, be : SUBSET Lane, h : BOOLEAN, hok : BOOLEAN,
          data : Data, want : Data]
Reply == [data : Data, next : Data \cup {None}]

ASSUME ProgramsAssumption ==
  /\ Programs \subseteq [ops : SUBSET Op, code : SUBSET Dw, frame : SUBSET Dw]
  /\ \A p \in Programs : \A o \in p.ops :
       /\ o.k \in {"branch", "other"} \/ o.be # {}
       /\ o.k = "pair" => o.dw # Dev /\ Succ[o.dw] # None
ASSUME ShapeAssumption ==
  /\ Val0 \in Val
  /\ Succ \in [Dw -> Dw \cup {None}] /\ \A d \in Dw : Succ[d] # d
ASSUME NothingAssumption ==
  /\ Dev \notin Dw \cup Addr /\ None \notin Dw \cup Addr \cup Op \cup {Dev}
  /\ None \notin InMem \cup InWb \cup Reply \cup Data /\ Plain \notin InWb
  /\ Ack \notin Reply /\ Ack # None /\ Plain # None

VARIABLES
  prog,         \* the program
  ex, mem, wb,  \* the stages; of a retiring instruction, only a load's data
  port,         \* m_read_DV/m_write_DV, m_addr, m_be, m_wdata
  armed,        \* rdy_armed
  mem_xc,       \* the port engine's phase
  dw0,          \* mem_dw0
  st_post, st_post_ok, st_spec, \* a posted store, its verdict, and whether it
                \* left MEM before the verdict
  sq,           \* sq_v with sq_addr, sq_wdata, sq_be
  ld_out,       \* the read of the load in WB is on the port
  if_look, if_xc, \* an I-cache look-up, and a fill on the port
  irq,          \* irq_active and irq_xc: none, draining, pushing the frame
  served, latched, resp, \* the cache: DV it has answered, read it works on, ready
  dev,          \* the crossbar's chain of delayed DVs, and r_ready
  store,        \* what memory holds, through the cache
  left,         \* history: what the stores that have left MEM make of it,
  arch          \* and what those make of it that nothing squashed

stages == <<ex, mem, wb>>
engine == <<mem_xc, dw0, st_post, st_post_ok, st_spec, sq, ld_out>>
cache  == <<served, latched, resp, store>>
coreVars == <<prog, stages, port, armed, engine, if_look, if_xc, irq, cache, dev, left, arch>>

Base(be)   == CHOOSE l \in be : \A m \in be : l <= m
AddrOf(o)  == IF o.dw = Dev THEN Dev ELSE <<o.dw, Base(o.be)>>
Request    == [dv : {"read", "write"}, at : Addr \cup {Dev},
               be : SUBSET Lane, v : Val]
NoRequest(at)   == [dv |-> "none", at |-> IF at = Dev THEN Dev ELSE None,
               be |-> {}, v |-> Val0]
ReqOf(o)   == [dv |-> IF o.k = "store" THEN "write" ELSE "read",
               at |-> AddrOf(o), be |-> o.be,
               v  |-> IF o.k = "store" THEN o.v ELSE Val0]
Fetch(d)   == [dv |-> "read", at |-> <<d, 0>>, be |-> Lane, v |-> Val0]
Push(d, v) == [dv |-> "write", at |-> <<d, 0>>, be |-> Lane, v |-> v]

Replicated(v)    == [l \in Lane |-> v]
Merge(d, be, v)  == [l \in Lane |-> IF l \in be THEN v ELSE d[l]]
Wrote(m, dw, be, v) == [m EXCEPT ![dw] = Merge(@, be, v)]

\* What an instruction reads: its dword, and for a pair the next one too.
Reads(o, m) ==
  CASE o.k \in {"load", "return", "read"} /\ o.dw # Dev -> <<m[o.dw]>>
    [] o.k = "pair" -> <<m[o.dw], m[Succ[o.dw]]>>
    [] OTHER -> <<>>

PortTypeOK ==
  /\ prog \in Programs
  /\ ex \in prog.ops \cup {None} /\ mem \in InMem \cup {None}
  /\ mem # None => mem.op \in prog.ops
  /\ wb \in InWb \cup {Plain, None}
  /\ port \in Request \cup {NoRequest(Dev), NoRequest(None)} /\ armed \in BOOLEAN
  /\ mem_xc \in 0 .. 3 /\ dw0 \in Data
  /\ st_post \in BOOLEAN /\ st_post_ok \in BOOLEAN /\ st_spec \in BOOLEAN
  /\ sq \in prog.ops \cup {None} /\ ld_out \in BOOLEAN
  /\ if_look \in BOOLEAN /\ if_xc \in BOOLEAN
  /\ irq \in {"no", "drain", "push"}
  /\ served \in Addr \cup {None} /\ latched \in BOOLEAN
  /\ resp \in Reply \cup {Ack, None}
  /\ dev \in [d1 : {"no", "old", "own"}, d2 : {"no", "old", "own"},
              ready : {"no", "old", "own"}]
  /\ store \in [Dw -> Data] /\ left \in [Dw -> Data] /\ arch \in [Dw -> Data]

Zero == Replicated(Val0)

PortInit ==
  /\ prog \in Programs
  /\ ex = None /\ mem = None /\ wb = None
  /\ port = NoRequest(None) /\ armed = FALSE
  /\ mem_xc = 0 /\ dw0 = Zero
  /\ st_post = FALSE /\ st_post_ok = FALSE /\ st_spec = FALSE
  /\ sq = None /\ ld_out = FALSE /\ if_look = FALSE /\ if_xc = FALSE
  /\ irq = "no"
  /\ served = None /\ latched = FALSE /\ resp = None
  /\ dev = [d1 |-> "no", d2 |-> "no", ready |-> "no"]
  /\ store = [d \in Dw |-> Zero] /\ left = store /\ arch = store

-----------------------------------------------------------------------------
(* The wires, under their names in the code.                               *)

m_ready == IF port.at = Dev THEN dev.ready # "no" ELSE resp # None

\* Mutant of w_mrdy: ready is not armed.
w_mrdy_unarmed == m_ready
w_mrdy == m_ready /\ armed

InDram(o) == o.dw # Dev

\* A plain load, which need not wait in MEM for its data.
fastld(o) == o.k = "load" /\ InDram(o)

wb_load  == wb \notin {None, Plain}
wb_wait  == wb_load /\ ~(ld_out /\ w_mrdy) /\ ~(wb.h /\ wb.hok)
wb_hmiss == wb_load /\ wb.h /\ ~wb.hok /\ ~ld_out

mem_port_rd ==
  /\ mem # None /\ mem.op.k \in {"load", "return", "read", "pair"}
  /\ ~mem.h \/ (mem.op.k = "return" /\ ~mem.h1 /\ ~mem.hok)
mem_port_wr == mem # None /\ mem.op.k = "store"
mem_port_op == mem_port_rd \/ mem_port_wr

\* Whether a pair's second dword is still to be read.
mem_need2 == mem.op.k = "pair" /\ resp.next = None

\* A store that may leave MEM before the cache has it.
postable == mem_port_wr /\ InDram(mem.op) /\ mem_xc = 0
            /\ ~if_xc /\ ~wb_hmiss /\ ~ld_out /\ sq = None
\* Mutant of st_spec_now: nothing asks for the port to be free of a fill.
st_spec_now_fill == mem_port_wr /\ InDram(mem.op) /\ mem_xc = 0
                    /\ ~wb_hmiss /\ ~ld_out /\ sq = None /\ ~st_post
st_spec_now == postable /\ ~st_post
sq_enq_now  == postable /\ st_post
sq_spec     == st_spec /\ ~st_post_ok

mem_done_now ==
  \/ st_spec_now \/ sq_enq_now
  \/ mem_xc = 1 /\ w_mrdy /\ ~mem_need2
  \/ mem_xc = 3 /\ w_mrdy
  \/ mem_xc = 1 /\ st_post_ok
  \/ mem_xc = 1 /\ fastld(mem.op)

ret_h_wait == mem # None /\ mem.op.k = "return" /\ mem.h /\ mem.h1
mem_busy   == (mem_port_op /\ ~mem_done_now) \/ wb_wait \/ ret_h_wait

fbr_taken == mem # None /\ mem.op.k = "branch" /\ ~wb_wait

\* A load whose answer is a miss sends its request as it leaves MEM...
h_miss_now ==
  /\ mem # None /\ mem.h /\ mem.h1 /\ ~mem.hok /\ mem.op.k # "return"
  /\ ~wb_hmiss /\ ~if_xc /\ ~if_look /\ ~st_post /\ sq = None /\ ~ld_out
  /\ mem_xc = 0 /\ irq # "push"
\* ...or from WB, as soon as the port is free.
miss_from_wb == /\ wb_hmiss /\ ~if_xc /\ ~st_post /\ sq = None
                /\ mem_xc = 0 /\ irq # "push"

ex_hld == ex.k \in {"load", "return"}

\* Mutant of w_early_ld: not withdrawn by a taken branch in MEM.
w_early_ld_branch ==
  /\ ex # None /\ ~mem_busy /\ ex.k \in {"read", "pair"}
  /\ ~wb_hmiss /\ ~(mem # None /\ mem.h) /\ ~mem_port_op /\ mem_xc = 0
  /\ ~if_xc /\ ~st_post /\ sq = None /\ irq # "push" /\ ~ld_out
w_early_ld ==
  /\ ex # None /\ ~mem_busy /\ ex.k \in {"read", "pair"}
  /\ ~wb_hmiss /\ ~(mem # None /\ mem.h) /\ ~mem_port_op /\ mem_xc = 0
  /\ ~if_xc /\ ~st_post /\ sq = None /\ irq # "push" /\ ~ld_out /\ ~fbr_taken

-----------------------------------------------------------------------------
(* Store to load forwarding and the hit pipe, for the instruction in EX.   *)

sf_a == mem_port_wr /\ mem.op.dw = ex.dw
sf_b == port.dv = "write" /\ port.at # Dev /\ port.at[1] = ex.dw
sf_c == sq # None /\ sq.dw = ex.dw

\* The youngest store to the load's dword.  Mutant: the queue comes last.
youngest_port_first == CASE sf_a -> [be |-> mem.op.be, v |-> mem.op.v]
                         [] sf_b /\ ~sf_a -> [be |-> port.be, v |-> port.v]
                         [] OTHER -> [be |-> sq.be, v |-> sq.v]
youngest == CASE sf_a -> [be |-> mem.op.be, v |-> mem.op.v]
              [] sf_c /\ ~sf_a -> [be |-> sq.be, v |-> sq.v]
              [] OTHER -> [be |-> port.be, v |-> port.v]

h_line_blk == sf_a \/ sf_b \/ sf_c
h_base == ex_hld /\ InDram(ex)
h_fwd  == h_base /\ h_line_blk /\ ex.be \subseteq youngest.be
h_elig == h_base /\ (h_fwd \/ ~h_line_blk)

\* What the cache's pipe holds; anything, while a store is on its way to it.
PipeWords(d) ==
  IF port.dv = "write" /\ port.at # Dev /\ port.at[1] = d THEN Data ELSE {store[d]}

\* The instruction in EX as it enters MEM, with what it has to read.
Entered ==
  LET Enter(h, h1, hok, d) ==
        [op |-> ex, h |-> h, h1 |-> h1, hok |-> hok, data |-> d,
         want |-> Reads(ex, left')]
  IN  IF ~h_elig THEN {Enter(FALSE, FALSE, FALSE, Zero)}
      ELSE IF h_fwd THEN {Enter(TRUE, FALSE, TRUE, Replicated(youngest.v))}
      ELSE {Enter(TRUE, TRUE, FALSE, Zero)}
             \cup {Enter(TRUE, TRUE, TRUE, d) : d \in PipeWords(ex.dw)}

-----------------------------------------------------------------------------
(* The stages.  What squashes: a branch or a mispredicted return in MEM, a *)
(* store that completes, or that has posted too soon, over fetched code.   *)

smc_st == mem_done_now /\ mem_port_wr /\ InDram(mem.op)
          /\ ~st_spec_now /\ ~sq_enq_now

\* The instruction in EX may be squashed as MEM's leaves.
squashes ==
  \/ fbr_taken
  \/ mem # None /\ mem.op.k \in {"return", "pair"} /\ ~mem_busy
  \/ smc_st /\ mem.op.dw \in prog.code

Load(m) == [at |-> AddrOf(m.op), be |-> m.op.be, h |-> m.h, hok |-> m.hok,
            data |-> m.data, want |-> m.want[1]]

\* MEM -> WB.
ToWb ==
  wb' = IF mem_busy THEN (IF wb_wait THEN wb ELSE None)
        ELSE IF mem = None \/ sq_spec THEN None
        ELSE IF fastld(mem.op) THEN Load(mem) ELSE Plain

\* A store that leaves MEM, and one that retires: the store before it does not
\* squash it.
Leaves  == mem # None /\ ~mem_busy /\ mem.op.k = "store" /\ InDram(mem.op)
Retires == Leaves /\ ~sq_spec

\* EX -> MEM and the next instruction into EX.
Stall ==
  /\ mem_busy /\ ~sq_spec
  /\ mem' = (IF mem = None THEN None ELSE [mem EXCEPT !.h1 = FALSE])
  /\ UNCHANGED ex

Squash == /\ sq_spec \/ (~mem_busy /\ squashes)
          /\ mem' = None /\ ex' = None

Going == ~mem_busy /\ ~sq_spec /\ ~fbr_taken

\* ex_busy: a division, a delay, a load's consumer.
Hold == /\ Going /\ ex # None /\ ex.k \in {"branch", "other"}
        /\ mem' = None /\ UNCHANGED ex

Advance ==
  /\ Going
  /\ mem' \in (IF ex = None THEN {None} ELSE Entered)
  /\ ex' \in (IF irq = "no" THEN prog.ops \cup {None} ELSE {None})

Stages == ToWb /\ (Stall \/ Squash \/ Hold \/ Advance)

-----------------------------------------------------------------------------
(* The port.                                                               *)

drained == mem_xc = 0 /\ ~if_xc /\ ~st_post /\ sq = None /\ ~ld_out

\* Where a request is put on the port.
irq_push  == irq = "drain" /\ ex = None /\ mem = None /\ wb = None /\ drained
\* Mutant of post_next: a request to the address just served is chained too.
post_next_same == st_post /\ w_mrdy /\ sq # None
post_next == st_post /\ w_mrdy /\ sq # None /\ AddrOf(sq) # port.at
sq_issue  == sq # None /\ ~st_post /\ ~if_xc /\ ~ld_out /\ mem_xc = 0
mem_chain == w_mrdy /\ AddrOf(mem.op) # port.at
mem_issue ==
  /\ mem_port_op /\ mem_xc = 0
  /\ \/ ~if_xc /\ ~wb_hmiss /\ sq = None /\ (~(ld_out \/ st_post) \/ mem_chain)
     \/ sq_enq_now
enqueued  == sq_enq_now /\ ~mem_chain
second    == mem_port_op /\ mem_xc = 1 /\ w_mrdy /\ mem_need2
\* Mutant of fill_issue: a look-up that was live when the interrupt was taken.
fill_issue_irq ==
  /\ if_look /\ ~mem_port_op /\ drained /\ ~w_early_ld /\ ~wb_hmiss
fill_issue ==
  /\ if_look /\ ~mem_port_op /\ drained /\ irq = "no" /\ ~w_early_ld /\ ~wb_hmiss

issues == \/ post_next \/ sq_issue \/ miss_from_wb \/ h_miss_now
          \/ (mem_issue /\ ~enqueued) \/ second \/ w_early_ld

\* What takes DV down.
completes ==
  w_mrdy /\ (st_post \/ ld_out \/ if_xc \/ irq = "push"
             \/ (mem_port_op /\ mem_xc \in {1, 3}))

Put(r) == port' = r /\ armed' = ~m_ready

\* The interrupt entry and the fetch side decide before the port: see below.
pushes == irq = "drain" /\ irq' = "push"
fills  == ~if_xc /\ if_xc'

Port ==
  \/ pushes /\ \E d \in prog.frame, v \in Val : Put(Push(d, v))
  \/ fills /\ \E d \in prog.code : Put(Fetch(d))
  \/ post_next /\ Put(ReqOf(sq))
  \/ sq_issue /\ Put(ReqOf(sq))
  \/ miss_from_wb /\ Put([dv |-> "read", at |-> wb.at, be |-> wb.be, v |-> Val0])
  \/ h_miss_now /\ Put(ReqOf(mem.op))
  \/ mem_issue /\ ~enqueued /\ Put(ReqOf(mem.op))
  \/ second /\ port' = Fetch(Succ[mem.op.dw]) /\ armed' = FALSE
  \/ w_early_ld /\ Put(ReqOf(ex))
  \/ /\ ~pushes /\ ~fills /\ ~issues
     /\ port' = (IF completes THEN NoRequest(port.at) ELSE port)
     /\ armed' = (armed \/ ~m_ready)

\* The interrupt is taken at a dispatch, entered when everything has drained,
\* and given up if its cause has gone by then.
Irq ==
  \/ irq = "no" /\ irq' \in (IF mem_busy \/ prog.frame = {} THEN {"no"} ELSE {"no", "drain"})
  \/ irq = "drain" /\ irq' \in (IF irq_push THEN {"push", "no"} ELSE {"drain"})
  \/ irq = "push" /\ irq' = (IF w_mrdy THEN "no" ELSE "push")

\* The fill engine: a look-up hits, goes on, or becomes a fill.
Fetching ==
  \/ if_xc /\ if_xc' = ~w_mrdy /\ UNCHANGED if_look
  \/ /\ ~if_xc /\ if_look
     /\ \/ fill_issue /\ if_xc' = TRUE /\ if_look' = FALSE
        \/ if_xc' = FALSE /\ if_look' \in {~sq_spec, FALSE}
  \/ /\ ~if_xc /\ ~if_look /\ if_xc' = FALSE
     /\ if_look' \in {FALSE, irq = "no" /\ ~sq_spec /\ prog.code # {}}

\* What the fetch side says of a store as it is issued: is it clear of fetched
\* code?
Verdicts ==
  IF ~mem_port_wr \/ ~InDram(mem.op) THEN {FALSE}
  ELSE IF mem.op.dw \in prog.code THEN BOOLEAN ELSE {TRUE}

-----------------------------------------------------------------------------
(* The port engine of MEM.                                                 *)

\* A store leaves MEM as it is issued; everything else waits for its answer,
\* or in the next clock for its verdict.
MemIssue ==
  /\ mem_issue /\ st_post_ok' \in Verdicts
  /\ st_spec' = (st_spec_now \/ sq_enq_now)
  /\ mem_xc' = (IF st_spec_now \/ sq_enq_now THEN 0 ELSE 1)
  /\ UNCHANGED dw0

MemPort1 == mem_port_op /\ mem_xc = 1 /\ st_spec' = FALSE

MemSecond == /\ MemPort1 /\ w_mrdy /\ mem_need2
             /\ dw0' = resp.data /\ mem_xc' = 2 /\ st_post_ok' = FALSE
MemDone   == /\ MemPort1 /\ w_mrdy /\ ~mem_need2
             /\ mem_xc' = 0 /\ st_post_ok' = FALSE /\ UNCHANGED dw0
MemPost   == /\ MemPort1 /\ ~w_mrdy /\ st_post_ok
             /\ mem_xc' = 0 /\ st_post_ok' = FALSE /\ UNCHANGED dw0
MemGoesOn == /\ MemPort1 /\ ~w_mrdy /\ ~st_post_ok /\ fastld(mem.op)
             /\ mem_xc' = 0 /\ UNCHANGED <<st_post_ok, dw0>>
MemWait   == /\ MemPort1 /\ ~w_mrdy /\ ~st_post_ok /\ ~fastld(mem.op)
             /\ UNCHANGED <<mem_xc, st_post_ok, dw0>>
MemSettle == /\ mem_port_op /\ mem_xc = 2 /\ mem_xc' = 3
             /\ st_spec' = FALSE /\ UNCHANGED <<st_post_ok, dw0>>
\* The first dword is not looked at again: back to Zero keeps states few.
MemLast   == /\ mem_port_op /\ mem_xc = 3
             /\ mem_xc' = (IF w_mrdy THEN 0 ELSE 3)
             /\ dw0' = (IF w_mrdy THEN Zero ELSE dw0)
             /\ st_spec' = FALSE /\ UNCHANGED st_post_ok

MemQuiet ==
  /\ ~mem_port_op \/ (mem_xc = 0 /\ ~mem_issue)
  /\ mem_xc' = (IF w_early_ld THEN 1 ELSE mem_xc)
  /\ st_spec' = FALSE /\ st_post_ok' = (st_post_ok /\ ~st_spec)
  /\ UNCHANGED dw0

MemEngine == \/ MemIssue \/ MemSecond \/ MemDone \/ MemPost \/ MemGoesOn
             \/ MemWait \/ MemSettle \/ MemLast \/ MemQuiet

\* The posted and the queued store, and the load that is out.
posts == \/ st_spec_now \/ (sq_enq_now /\ mem_chain)
         \/ mem_port_wr /\ mem_xc = 1 /\ ~w_mrdy /\ st_post_ok
goes_on == mem_port_rd /\ mem_xc = 1 /\ ~w_mrdy /\ fastld(mem.op)

Posted ==
  /\ st_post' = (posts \/ post_next \/ sq_issue \/ (st_post /\ ~w_mrdy))
  /\ sq' = IF enqueued THEN mem.op
           ELSE IF post_next \/ sq_issue THEN None ELSE sq
  /\ ld_out' = (miss_from_wb \/ h_miss_now \/ goes_on \/ (ld_out /\ ~w_mrdy))

-----------------------------------------------------------------------------
(* The cache, as DCache shows it: it takes a request it has not served, at *)
(* once or when it is free; a store is acknowledged and in effect when it  *)
(* is taken, a load is answered any number of clocks later.                *)

DramDv == port.dv # "none" /\ port.at # Dev
DvNew  == DramDv /\ served # port.at
Kept   == served' = IF DramDv THEN served ELSE None

CacheQuiet == ~latched /\ ~DvNew /\ resp' = None /\ Kept /\ UNCHANGED <<latched, store>>
CacheFull  == ~latched /\ DvNew /\ resp' = None /\ Kept /\ UNCHANGED <<latched, store>>
CacheStore ==
  /\ ~latched /\ DvNew /\ port.dv = "write"
  /\ store' = Wrote(store, port.at[1], port.be, port.v)
  /\ resp' = Ack /\ served' = port.at /\ UNCHANGED latched
CacheLoad ==
  /\ ~latched /\ DvNew /\ port.dv = "read"
  /\ latched' = TRUE /\ resp' = None /\ Kept /\ UNCHANGED store
CacheBusy == latched /\ resp' = None /\ Kept /\ UNCHANGED <<latched, store>>
CacheAnswer ==
  /\ latched /\ latched' = FALSE /\ served' = port.at
  /\ LET d == port.at[1] IN
     \E n \in {None} \cup (IF Succ[d] = None THEN {} ELSE {store[Succ[d]]}) :
       resp' = [data |-> store[d], next |-> n]
  /\ UNCHANGED store

Cache == \/ CacheQuiet \/ CacheFull \/ CacheStore \/ CacheLoad \/ CacheBusy
         \/ CacheAnswer

\* The crossbar: DV delayed by two clocks is the device's ready, which the
\* splitter registers.  "own" is of the request on the port, "old" of one before.
Aged(x) == IF x = "own" /\ port' # port /\ port'.dv # "none" THEN "old" ELSE x
Devices ==
  dev' = [d1    |-> IF port.dv # "none" /\ port.at = Dev THEN Aged("own") ELSE "no",
          d2    |-> Aged(dev.d1),
          ready |-> IF port.at = Dev THEN Aged(dev.d2) ELSE "no"]

\* A memory m with what is stored in this step, by the interrupt frame as it is
\* put on the port or, if `stores', by the store in MEM.
Stored(m, stores) ==
  CASE pushes -> Wrote(m, port'.at[1], Lane, port'.v)
    [] stores /\ ~pushes -> Wrote(m, mem.op.dw, mem.op.be, mem.op.v)
    [] OTHER -> m
History == left' = Stored(left, Leaves) /\ arch' = Stored(arch, Retires)

PortNext ==
  /\ prog' = prog
  /\ Irq /\ Fetching /\ Port /\ Posted /\ History /\ Stages /\ MemEngine
  /\ Cache /\ Devices

\* The clock runs; the cache answers what it has taken for a new request
\* (DCache shows it); EX does not hold its instruction for ever.
Held == Going /\ mem = None /\ ex # None /\ ex.k \in {"branch", "other"}
PortFairness == []<>(resp # None \/ ~(latched \/ DvNew)) /\ []<>~Held

-----------------------------------------------------------------------------
(* Properties.                                                             *)

\* What a load's data is when it commits from WB, or an instruction's that
\* waits for its data in MEM when it leaves.
Got ==
  CASE mem_xc = 3 -> <<dw0, resp.data>>
    [] mem_xc = 1 /\ mem.op.k = "pair" -> <<resp.data, resp.next>>
    [] mem_xc = 1 /\ mem.op.k # "pair" -> <<resp.data>>
    [] OTHER -> <<mem.data>>
GotWb == IF wb.h /\ wb.hok THEN wb.data ELSE resp.data

Same(be, x, y) == \A l \in be : x[l] = y[l]

\* A load, a return or a two-dword read gets what the stores that left MEM ahead
\* of it have written, whichever way it comes: the port, the hit pipe, a store in
\* MEM, in the queue or on the port (pipeline_core.sv:1806-1829).  An instruction
\* fill, too, brings what they have written (2634-2683).
LoadsReadLastStore ==
  /\ wb_load /\ ~wb_wait => Same(wb.be, GotWb, wb.want)
  /\ (mem # None /\ ~mem_busy /\ mem.want # <<>> /\ ~fastld(mem.op)) =>
       \A i \in DOMAIN mem.want : Same(mem.op.be, Got[i], mem.want[i])
  /\ if_xc /\ w_mrdy =>
       /\ resp.data = left[port.at[1]]
       /\ (resp.next # None => resp.next = left[Succ[port.at[1]]])

\* Every request on the port has exactly one owner that will take its answer,
\* and every owner has its request: no two issue points fire in one clock,
\* and no squash leaves a request behind (pipeline_core.sv:2203-2683).
Owners == (IF st_post THEN {"store"} ELSE {}) \cup (IF ld_out THEN {"load"} ELSE {})
     \cup (IF if_xc THEN {"fill"} ELSE {}) \cup (IF irq = "push" THEN {"irq"} ELSE {})
     \cup (IF mem_xc # 0 THEN {"mem"} ELSE {})
PortOwned ==
  /\ port.dv = "none" => Owners = {}
  /\ port.dv # "none" => \E o \in {"store", "load", "fill", "irq", "mem"} : Owners = {o}
  /\ st_post => port.dv = "write"
  /\ ld_out => wb_load /\ ~(wb.h /\ wb.hok) /\ port.dv = "read" /\ port.at = wb.at
  /\ mem_xc = 1 => mem_port_op /\ port.dv = ReqOf(mem.op).dv /\ port.at = AddrOf(mem.op)
  /\ mem_xc \in {2, 3} => mem_port_op /\ port.dv = "read" /\ mem.op.k = "pair"

\* With no store on its way memory is what the stores that left MEM have made of
\* it: posted, queued or waited for, each is performed once and in their order,
\* and no other is (pipeline_core.sv:2369-2447, 2492-2501).
StoresPerformed ==
  port.dv # "write" /\ sq = None => store = left

\* It is what the program has stored: a store over fetched code "squashes that
\* instruction and everything after it" (CPU_ARCHITECTURE.md:84-87), and what is
\* squashed writes nothing.
MemoryIsProgram ==
  port.dv # "write" /\ sq = None => store = arch

\* An answer is taken in its clock, and it is the answer of the request that
\* is on the port, never the tail of one before (pipeline_core.sv:1704-1709,
\* KlaussCPU.sv:466-484).
AnswersTaken ==
  /\ resp # None => w_mrdy
  /\ port.at = Dev /\ port.dv # "none" /\ w_mrdy => dev.ready = "own"

\* The core keeps its side of the cache's port: a request is held until its
\* answer; then DV drops or the address changes (the Cpu actions of DCache).
KeepsPort ==
  [][DramDv => IF resp = None THEN port' = port
               ELSE port'.dv = "none" \/ port'.at # port.at]_coreVars

\* The pipeline never stops on the port for good, whatever is in flight, and an
\* interrupt that is taken is entered, or given up: nothing that waits for the
\* port waits for what waits for it (pipeline_core.sv:1781-1790, 2203-2246).
MemMoves == []<>~mem_busy /\ (irq = "drain" ~> irq # "drain")

=============================================================================
