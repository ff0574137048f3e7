------------------------------- MODULE DCache -------------------------------
(***************************************************************************)
(* The write-back, two-way data cache of mem_read_write.sv, as the CPU     *)
(* port, the load-hit pipe and the DDR controller see it: fetch-first      *)
(* misses with an early restart, the dirty victim written back in the      *)
(* shadow of the restarted CPU, the served-DV guard, stores acknowledged   *)
(* when they are latched, and the flush/invalidate walk.                   *)
(*                                                                         *)
(* One step of Next is one rising edge of i_Clk.  A register is a          *)
(* variable; a step conjoins one action per block of registers, each       *)
(* reading the values of the clock that ends.                              *)
(*                                                                         *)
(* A dword of the code is a word here: what one store writes, its byte     *)
(* enables included.  The snapshot registers r_tag/r_dirty/r_lru/r_data    *)
(* are read from the arrays, which nothing writes between the clock that   *)
(* fills the snapshot and the clocks that use it.  A register whose value  *)
(* is not read again goes back to a fixed value (NoReq, NoVictim, None).   *)
(***************************************************************************)
EXTENDS Integers, FiniteSets

CONSTANTS
  Tags,      \* tag values
  LastSet,   \* CACHE_SIZE - 1
  LastOff,   \* last word of a line
  Val,       \* values a word can hold
  Val0,      \* what memory holds at power-up
  Asked,     \* bound: the requests the CPU makes
  GapLen,    \* r_gap_count after a refill or a walk writeback
  GoHold,    \* clocks the CACHE_CTRL strobe is up
  MntKinds,  \* bound: the sets of requests one CACHE_CTRL write makes
  NoTag, NoReq, NoVictim, None, Ack

ASSUME SizeAssumption ==
  LastSet \in Nat /\ LastOff \in Nat /\ GapLen \in Nat /\ GoHold \in Nat \ {0}
ASSUME ValAssumption == Val0 \in Val /\ None \notin Val
ASSUME TagAssumption == NoTag \notin Tags

Set  == 0 .. LastSet
Off  == 0 .. LastOff
Way  == {0, 1}
Line == Tags \X Set                                   \* {tag, index}
Addr == [tag : Tags, set : Set, off : Off]
Data == [Off -> Val]

LineOf(a) == <<a.tag, a.set>>

\* A request of the CPU; a load's data is idle.
Request == [dv : {"read", "write"}, addr : Addr, data : Val]
Response == [word : Val, next : Val \cup {None}]
ASSUME AskedAssumption == Asked \subseteq Request

\* What says "nothing" or "acknowledged" is not one of the values it stands beside.
ASSUME NothingAssumption ==
  /\ None \notin Addr /\ None \notin Request /\ NoReq \notin Request
  /\ None \notin Response /\ Ack \notin Response /\ Ack # None
  /\ NoVictim \notin [line : Line, data : Data]

VARIABLES
  port,       \* the CPU's request: read_DV/write_DV, addr, write_data
  resp,       \* cpu.ready with cpu.read_data and cpu.read_data_next
  served,     \* r_dv_served and r_served_addr
  state, sub, \* state and r_mnt_sub
  req,        \* the latched request: r_cache_tag, r_dw_offset, ...
  index,      \* r_cache_index
  evictWay,   \* r_evict_way
  missServed, \* r_miss_served
  victim,     \* r_do_evict with r_evict_data_hold and r_evict_ddr_addr_r
  gap,        \* r_gap_count
  array,      \* tag, valid, dirty and data arrays; the hit pipe's shadow too
  lru,        \* cache_lru
  cmd,        \* o_ddr_mem_read_DV/write_DV, _addr and _write_data
  go, goAge, pending, mode, active, activeD, walkMode, owed, \* MaintCapture's
  ctl,        \* the DDR controller's FSM, as the cache sees it
  ready,      \* i_ddr_mem_ready
  dwReady,    \* w_ddr_dw_ready
  mem,        \* what DDR holds
  grant,      \* who owns the controller: the cache or a DMA master
  arch,       \* history: the last value stored to each address
  must        \* history: lines a requested walk has still to write back

portVars  == <<port, arch>>
cacheVars == <<resp, served, state, sub, req, index, evictWay, missServed,
               victim, gap, array, lru, cmd>>
mntVars   == <<go, goAge, pending, mode, active, activeD, walkMode, owed>>
ddrVars   == <<ctl, ready, dwReady, mem, grant>>
vars      == <<portVars, cacheVars, mntVars, ddrVars, must>>

States == {"WAIT", "CHECK", "WRITE_FETCH", "READ_WAIT", "EVICT_SHADOW_GAP",
           "EVICT_SHADOW_WAIT", "MAINT"}
Subs   == {"READ", "W0", "W0_WAIT", "W0_GAP", "W1", "W1_WAIT", "W1_GAP",
           "CLR", "DONE"}
Frame    == [tag : Tags \cup {NoTag}, dirty : BOOLEAN, data : Data]

TypeOK ==
  /\ port \in Request \cup {None}
  /\ resp \in Response \cup {Ack, None}
  /\ served \in Addr \cup {None}
  /\ state \in States /\ sub \in Subs
  /\ req \in Request \cup {NoReq} /\ index \in Set
  /\ evictWay \in Way /\ missServed \in BOOLEAN
  /\ victim \in [line : Line, data : Data] \cup {NoVictim}
  /\ gap \in 0 .. GapLen
  /\ array \in [Set -> [Way -> Frame]] /\ lru \in [Set -> Way]
  /\ cmd \in [dv : {"none", "read", "write"}, line : Line, data : Data]
  /\ go \in SUBSET {"FLUSH", "INVALIDATE"} /\ goAge \in 0 .. GoHold
  /\ pending \in BOOLEAN /\ active \in BOOLEAN /\ activeD \in BOOLEAN
  /\ owed \in SUBSET {"FLUSH", "INVALIDATE"}
  /\ mode \in {"FLUSH", "INVALIDATE"} /\ walkMode \in {"FLUSH", "INVALIDATE"}
  /\ ctl \in {"IDLE", "WAIT", "WRITE", "READ", "TAIL"}
  /\ ready \in BOOLEAN /\ dwReady \in BOOLEAN
  /\ mem \in [Line -> Data]
  /\ grant \in {"cache", "vga", "dma"}
  /\ arch \in [Addr -> Val]
  /\ must \in SUBSET Line

-----------------------------------------------------------------------------
(* Decode of the latched request and of a probe of the load-hit pipe.      *)

HitWays(s, t) == {w \in Way : array[s][w].tag = t}
HitWay(s, t)  == IF array[s][0].tag = t THEN 0 ELSE 1

\* Mutant of Hit: only way 0 is compared.
HitWayZero == array[index][0].tag = req.addr.tag
Hit        == HitWays(index, req.addr.tag) # {}

\* Mutant of Evicted: the victim's data is taken from the way that stays.
EvictedOther == array[index][1 - lru[index]]
Evicted      == array[index][lru[index]]

\* The doubleword at off with its successor in the line.
Present(d, off) ==
  [word |-> d[off], next |-> IF off < LastOff THEN d[off + 1] ELSE None]

\* The early-restart channel: a companion only for an even offset.
PresentEarly(d, off) ==
  [word |-> d[off],
   next |-> IF off % 2 = 0 /\ off < LastOff THEN d[off + 1] ELSE None]

Merge(d, r) == [d EXCEPT ![r.addr.off] = r.data]

\* The load-hit pipe: what a probe of address a in this clock answers.
HOk(a) ==
  /\ HitWays(a.set, a.tag) # {}
  /\ ~(state = "MAINT" \/ (state # "WAIT" /\ index = a.set))

\* Mutant of HWord: the word is taken from way 0.
HWordWayZero(a) == array[a.set][0].data[a.off]
HWord(a) == array[a.set][HitWay(a.set, a.tag)].data[a.off]

CacheReady   == ready /\ grant = "cache"
CacheDwReady == dwReady /\ grant = "cache"

\* Mutant of MissPath: the writeback in the shadow is not covered.
MissPathRefill == state \in {"WRITE_FETCH", "READ_WAIT"}
MissPath == state \in {"WRITE_FETCH", "READ_WAIT", "EVICT_SHADOW_GAP",
                       "EVICT_SHADOW_WAIT"}

\* Mutant of MntBusy: not busy any more once the walk has started.
MntBusyPending == pending
MntBusy == active \/ pending

\* Mutant of DvNew: no memory of the request that was served.
DvAny == port # None
DvNew == port # None /\ served # port.addr

Init ==
  /\ port = None /\ resp = None /\ served = None
  /\ state = "WAIT" /\ sub = "READ" /\ req = NoReq /\ index = 0
  /\ evictWay = 0 /\ missServed = FALSE /\ victim = NoVictim /\ gap = 0
  /\ array = [s \in Set |-> [w \in Way |->
       [tag |-> NoTag, dirty |-> FALSE, data |-> [o \in Off |-> Val0]]]]
  /\ lru = [s \in Set |-> 0]
  /\ \E l \in Line :
       cmd = [dv |-> "none", line |-> l, data |-> [o \in Off |-> Val0]]
  /\ go = {} /\ goAge = 0 /\ pending = FALSE /\ mode = "FLUSH"
  /\ active = FALSE /\ activeD = FALSE /\ walkMode = "FLUSH"
  /\ owed = {}
  /\ ctl = "IDLE" /\ ready = FALSE /\ dwReady = FALSE
  /\ mem = [l \in Line |-> [o \in Off |-> Val0]] /\ grant = "cache"
  /\ arch = [a \in Addr |-> Val0]
  /\ must = {}

-----------------------------------------------------------------------------
(* The CPU's side of the port (pipeline_core.sv): a request is held until  *)
(* its answer; then DV drops, or the next request, to another address,     *)
(* follows at once.  A CACHE_CTRL store keeps the DRAM port idle.          *)

Issue(r) ==
  /\ port' = r
  /\ arch' = IF r.dv = "write" THEN [arch EXCEPT ![r.addr] = r.data] ELSE arch

CpuIdle    == port = None /\ port' = None /\ UNCHANGED arch
CpuStart   == port = None /\ go' = {} /\ \E r \in Asked : Issue(r)
CpuHold    == port # None /\ resp = None /\ UNCHANGED <<port, arch>>
CpuRelease == port # None /\ resp # None /\ port' = None /\ UNCHANGED arch
CpuChain   ==
  /\ port # None /\ resp # None /\ go' = {}
  /\ \E r \in Asked : r.addr # port.addr /\ Issue(r)

Cpu == CpuIdle \/ CpuStart \/ CpuHold \/ CpuRelease \/ CpuChain

-----------------------------------------------------------------------------
(* The maintenance request: MaintCapture's registers, driven by this FSM.  *)

Mnt == INSTANCE MaintCapture WITH
  state <- IF state \in {"WAIT", "MAINT"} THEN state ELSE "BUSY"

Maintenance ==
  /\ Mnt!Strobe /\ go' \in MntKinds \cup {{}} /\ (go' # {} => port' = None)
  /\ Mnt!Register

-----------------------------------------------------------------------------
(* The FSM.                                                                *)

ServedClear == IF port = None THEN None ELSE served

ToWait == state' = "WAIT" /\ req' = NoReq /\ missServed' = FALSE

Touch(w) == lru' = [lru EXCEPT ![index] = 1 - w]

Install(d, dirty) ==
  /\ array' = [array EXCEPT ![index][evictWay] =
                  [tag |-> req.addr.tag, dirty |-> dirty, data |-> d]]
  /\ Touch(evictWay)

\* The refill is over: the dirty victim is written back next, if there is one.
AfterRefill ==
  /\ cmd' = [cmd EXCEPT !.dv = "none"]
  /\ IF victim # NoVictim
     THEN /\ gap' = GapLen /\ state' = "EVICT_SHADOW_GAP"
          /\ req' = NoReq /\ missServed' = FALSE
     ELSE ToWait /\ UNCHANGED gap

NoMntStart == UNCHANGED <<active, walkMode>> /\ owed' = owed \cup Mnt!Requested

StartWalk ==
  /\ state = "WAIT" /\ pending
  /\ state' = "MAINT" /\ sub' = "READ" /\ index' = 0
  /\ active' = TRUE /\ walkMode' = mode
  /\ owed' = (owed \cup Mnt!Requested) \ Mnt!Covered
  /\ resp' = None /\ served' = ServedClear
  /\ UNCHANGED <<req, evictWay, missServed, victim, gap, array, lru, cmd>>

Quiet ==
  /\ state = "WAIT" /\ ~pending /\ ~DvNew
  /\ resp' = None /\ served' = ServedClear /\ NoMntStart
  /\ UNCHANGED <<state, sub, req, index, evictWay, missServed, victim, gap,
                 array, lru, cmd>>

\* A store is acknowledged here, before its hit or miss is known.
Latch ==
  /\ state = "WAIT" /\ ~pending /\ DvNew
  /\ req' = port /\ index' = port.addr.set /\ missServed' = (port.dv = "write")
  /\ IF port.dv = "write" THEN resp' = Ack /\ served' = port.addr
                          ELSE resp' = None /\ UNCHANGED served
  /\ state' = "CHECK" /\ NoMntStart
  /\ UNCHANGED <<sub, evictWay, victim, gap, array, lru, cmd>>

Written(f) ==
  IF f.tag # req.addr.tag THEN f
  ELSE [tag |-> f.tag, dirty |-> TRUE,
        data |-> Merge(array[index][HitWay(index, req.addr.tag)].data, req)]

WriteHit ==
  /\ state = "CHECK" /\ req.dv = "write" /\ Hit
  /\ array' = [array EXCEPT ![index] = [w \in Way |-> Written(@[w])]]
  /\ Touch(HitWay(index, req.addr.tag))
  /\ resp' = None /\ served' = ServedClear /\ ToWait /\ NoMntStart
  /\ UNCHANGED <<sub, index, evictWay, victim, gap, cmd>>

ReadHit ==
  /\ state = "CHECK" /\ req.dv = "read" /\ Hit
  /\ resp' = Present(array[index][HitWay(index, req.addr.tag)].data, req.addr.off)
  /\ Touch(HitWay(index, req.addr.tag))
  /\ served' = port.addr /\ ToWait /\ NoMntStart
  /\ UNCHANGED <<sub, index, evictWay, victim, gap, array, cmd>>

\* Fetch first: the refill is issued now, a dirty victim is put aside.
Miss ==
  /\ state = "CHECK" /\ ~Hit
  /\ evictWay' = lru[index]
  /\ victim' = IF Evicted.dirty
               THEN [line |-> <<Evicted.tag, index>>, data |-> Evicted.data]
               ELSE NoVictim
  /\ cmd' = [dv |-> "read", line |-> LineOf(req.addr), data |-> cmd.data]
  /\ state' = IF req.dv = "write" THEN "WRITE_FETCH" ELSE "READ_WAIT"
  /\ resp' = None /\ served' = ServedClear /\ NoMntStart
  /\ UNCHANGED <<sub, req, index, missServed, gap, array, lru>>

\* The requested word arrives before the line: the CPU goes on (a store has
\* been acknowledged already, so only a load is answered here).
EarlyRestart ==
  IF CacheDwReady /\ ~missServed
  THEN /\ resp' = IF req.dv = "write" THEN Ack
                  ELSE PresentEarly(mem[cmd.line], req.addr.off)
       /\ served' = port.addr /\ missServed' = TRUE
  ELSE resp' = None /\ served' = ServedClear /\ UNCHANGED missServed

Refilling ==
  /\ state \in {"WRITE_FETCH", "READ_WAIT"} /\ ~CacheReady
  /\ EarlyRestart /\ NoMntStart
  /\ UNCHANGED <<state, sub, req, index, evictWay, victim, gap, array, lru, cmd>>

\* The line arrives: it is installed, and a request not answered yet is.
Refilled ==
  /\ state \in {"WRITE_FETCH", "READ_WAIT"} /\ CacheReady
  /\ IF state = "WRITE_FETCH" THEN Install(Merge(mem[cmd.line], req), TRUE)
                              ELSE Install(mem[cmd.line], FALSE)
  /\ IF missServed
     THEN resp' = None /\ served' = ServedClear
     ELSE /\ resp' = IF state = "WRITE_FETCH" THEN Ack
                     ELSE Present(mem[cmd.line], req.addr.off)
          /\ served' = port.addr
  /\ AfterRefill /\ NoMntStart
  /\ UNCHANGED <<sub, index, evictWay, victim>>

ShadowGap ==
  /\ state = "EVICT_SHADOW_GAP" /\ gap > 0 /\ gap' = gap - 1
  /\ resp' = None /\ served' = ServedClear /\ NoMntStart
  /\ UNCHANGED <<state, sub, req, index, evictWay, missServed, victim, array,
                 lru, cmd>>

ShadowIssue ==
  /\ state = "EVICT_SHADOW_GAP" /\ gap = 0 /\ state' = "EVICT_SHADOW_WAIT"
  /\ cmd' = [dv |-> "write", line |-> victim.line, data |-> victim.data]
  /\ resp' = None /\ served' = ServedClear /\ NoMntStart
  /\ UNCHANGED <<sub, req, index, evictWay, missServed, victim, gap, array, lru>>

ShadowWait ==
  /\ state = "EVICT_SHADOW_WAIT" /\ ~CacheReady
  /\ served' = ServedClear /\ NoMntStart
  /\ UNCHANGED <<resp, state, sub, req, index, evictWay, missServed, victim,
                 gap, array, lru, cmd>>

\* Mutant of ShadowDone: DV stays up after the writeback.
ShadowDoneDvUp ==
  /\ state = "EVICT_SHADOW_WAIT" /\ CacheReady
  /\ victim' = NoVictim /\ served' = ServedClear /\ ToWait /\ NoMntStart
  /\ UNCHANGED <<resp, sub, index, evictWay, gap, array, lru, cmd>>

ShadowDone ==
  /\ state = "EVICT_SHADOW_WAIT" /\ CacheReady
  /\ cmd' = [cmd EXCEPT !.dv = "none"] /\ victim' = NoVictim
  /\ served' = ServedClear /\ ToWait /\ NoMntStart
  /\ UNCHANGED <<resp, sub, index, evictWay, gap, array, lru>>

-----------------------------------------------------------------------------
(* The walk: every set in turn, way 0 then way 1.                          *)

\* Mutant of WalkStep: the walk follows the mode of later requests.
WalkStepLive ==
  /\ state = "MAINT" /\ served' = ServedClear
  /\ owed' = owed \cup Mnt!Requested /\ walkMode' = mode
  /\ UNCHANGED <<resp, req, evictWay, missServed, victim, lru>>

WalkStep ==
  /\ state = "MAINT" /\ served' = ServedClear
  /\ owed' = owed \cup Mnt!Requested
  /\ UNCHANGED <<resp, req, evictWay, missServed, victim, lru, walkMode>>

InMaint == UNCHANGED <<state, active>>

WalkRead ==
  /\ WalkStep /\ InMaint /\ sub = "READ" /\ sub' = "W0"
  /\ UNCHANGED <<index, gap, array, cmd>>

WalkWay(w, at, wait, next) ==
  /\ WalkStep /\ InMaint /\ sub = at
  /\ LET f == array[index][w] IN
     IF f.tag # NoTag /\ f.dirty
     THEN /\ cmd' = [dv |-> "write", line |-> <<f.tag, index>>, data |-> f.data]
          /\ sub' = wait
     ELSE sub' = next /\ UNCHANGED cmd
  /\ UNCHANGED <<index, gap, array>>

WalkWait(at, next) ==
  /\ WalkStep /\ InMaint /\ sub = at
  /\ IF CacheReady
     THEN /\ cmd' = [cmd EXCEPT !.dv = "none"] /\ gap' = GapLen /\ sub' = next
     ELSE UNCHANGED <<cmd, gap, sub>>
  /\ UNCHANGED <<index, array>>

WalkGap(at, next) ==
  /\ WalkStep /\ InMaint /\ sub = at
  /\ IF gap = 0 THEN sub' = next /\ UNCHANGED gap
                ELSE gap' = gap - 1 /\ UNCHANGED sub
  /\ UNCHANGED <<index, array, cmd>>

\* Mutant of NextSet: the last set is left out.
NextSetEarly == IF index + 1 >= LastSet THEN sub' = "DONE" /\ UNCHANGED index
                                        ELSE sub' = "READ" /\ index' = index + 1
NextSet == IF index = LastSet THEN sub' = "DONE" /\ UNCHANGED index
                              ELSE sub' = "READ" /\ index' = index + 1

Cleared(f) == [tag |-> IF walkMode = "INVALIDATE" THEN NoTag ELSE f.tag,
               dirty |-> FALSE, data |-> f.data]

WalkClear ==
  /\ WalkStep /\ InMaint /\ sub = "CLR"
  /\ array' = [array EXCEPT ![index] = [w \in Way |-> Cleared(@[w])]]
  /\ NextSet
  /\ UNCHANGED <<gap, cmd>>

WalkDone ==
  /\ WalkStep /\ sub = "DONE" /\ state' = "WAIT" /\ active' = FALSE
  /\ UNCHANGED <<sub, index, gap, array, cmd>>

Walk ==
  \/ WalkRead
  \/ WalkWay(0, "W0", "W0_WAIT", "W1")  \/ WalkWay(1, "W1", "W1_WAIT", "CLR")
  \/ WalkWait("W0_WAIT", "W0_GAP")      \/ WalkWait("W1_WAIT", "W1_GAP")
  \/ WalkGap("W0_GAP", "W1")            \/ WalkGap("W1_GAP", "CLR")
  \/ WalkClear \/ WalkDone

Fsm ==
  \/ StartWalk \/ Quiet \/ Latch \/ WriteHit \/ ReadHit \/ Miss
  \/ Refilling \/ Refilled
  \/ ShadowGap \/ ShadowIssue \/ ShadowWait \/ ShadowDone
  \/ Walk

-----------------------------------------------------------------------------
(* The DDR controller, while the cache owns it.  It accepts a command only *)
(* after it has seen both DVs low, and takes any number of clocks over it. *)

CtlIdle ==
  /\ ctl = "IDLE" /\ ctl' = IF cmd.dv = "none" THEN "WAIT" ELSE "IDLE"
  /\ ready' = FALSE /\ dwReady' = FALSE /\ UNCHANGED mem

CtlAccept ==
  /\ ctl = "WAIT"
  /\ \/ cmd.dv = "write" /\ ctl' = "WRITE"
     \/ cmd.dv = "read"  /\ ctl' = "READ"
     \/ cmd.dv = "none"  /\ ctl' = "WAIT"
  /\ ready' = FALSE /\ dwReady' = FALSE /\ UNCHANGED mem

CtlBusy ==
  /\ ctl \in {"WRITE", "READ", "TAIL"}
  /\ dwReady' = FALSE /\ UNCHANGED <<ctl, ready, mem>>

CtlWritten ==
  /\ ctl = "WRITE" /\ ctl' = "IDLE" /\ ready' = TRUE
  /\ mem' = [mem EXCEPT ![cmd.line] = cmd.data] /\ UNCHANGED dwReady

\* The requested word is out; the rest of the line follows.
CtlFirstWord ==
  /\ ctl = "READ" /\ ctl' = "TAIL" /\ dwReady' = TRUE /\ UNCHANGED <<ready, mem>>

CtlRead ==
  /\ ctl = "TAIL" /\ ctl' = "IDLE" /\ ready' = TRUE /\ dwReady' = FALSE
  /\ UNCHANGED mem

CtlFinish == CtlWritten \/ CtlFirstWord \/ CtlRead

\* The grant: display reads go between any two cache transactions, the other
\* DMA masters wait for a requested walk as well.
GrantVga == /\ ~MissPath /\ (state = "MAINT" => sub = "READ") /\ grant' = "vga"
GrantDma == /\ ~MissPath /\ ~MntBusy /\ grant' = "dma"

CacheOwns ==
  /\ grant = "cache"
  /\ CtlIdle \/ CtlAccept \/ CtlBusy \/ CtlFinish
  /\ UNCHANGED grant \/ GrantVga \/ GrantDma

\* Another master's tenure: its transactions complete, on memory that the CPU
\* does not cache, and the controller is back in WAIT when it ends.
Tenure ==
  /\ grant # "cache" /\ ctl' = "WAIT" /\ ready' \in BOOLEAN /\ dwReady' \in BOOLEAN
  /\ UNCHANGED <<grant, mem>>

EndTenure ==
  /\ grant # "cache" /\ grant' = "cache"
  /\ ctl' = "WAIT" /\ ready' = FALSE /\ dwReady' = FALSE /\ UNCHANGED mem

Ddr == CacheOwns \/ Tenure \/ EndTenure

-----------------------------------------------------------------------------
\* Lines whose DDR copy is not what the CPU has stored.
Outdated == {l \in Line : \E o \in Off :
               mem[l][o] # arch[[tag |-> l[1], set |-> l[2], off |-> o]]}

History == must' = (must \cup IF goAge = 1 THEN Outdated ELSE {})
                     \ (IF ready' /\ ctl = "WRITE" THEN {cmd.line} ELSE {})

Next == Cpu /\ Maintenance /\ Fsm /\ Ddr /\ History

\* The clock runs; a DDR transaction ends and so does a tenure, which nothing in
\* the cache can put off (stated of the states: TLC need not evaluate ENABLED).
Fairness ==
  /\ WF_vars(Next)
  /\ []<>(ctl \in {"IDLE", "WAIT"})
  /\ []<>(grant = "cache")

Spec == Init /\ [][Next]_vars /\ Fairness

-----------------------------------------------------------------------------
(* Properties.                                                             *)

Successor(a) == [a EXCEPT !.off = @ + 1]

\* A load answered over the port, by a hit or by the early restart of a miss,
\* returns the last value stored, and so does the companion word it brings
\* for the instruction window (mem_read_write.sv:759-783, 887-943).
ReadsLastStore ==
  resp \in Response =>
    /\ resp.word = arch[port.addr]
    /\ resp.next # None => resp.next = arch[Successor(port.addr)]

\* A load the hit pipe answers returns the last value stored, unless the
\* store is still on the port, which the core checks: whatever the FSM is
\* doing to another set in the shadow (mem_read_write.sv:567-612).
PipeReadsLastStore ==
  \A a \in Addr :
    HOk(a) /\ ~(port # None /\ port.dv = "write" /\ port.addr = a)
      => HWord(a) = arch[a]

\* Every request is answered once: a ready never follows another at once, is
\* of the kind asked for and never comes without a request, however long DV
\* stays up after it (the served-DV guard, mem_read_write.sv:425-438).
AnsweredOnce ==
  /\ resp # None => port # None /\ (resp = Ack <=> port.dv = "write")
  /\ state = "WAIT" /\ resp # None => ~DvNew

\* No line is in both ways of its set.
LineInOneWay ==
  \A s \in Set : array[s][0].tag = array[s][1].tag => array[s][0].tag = NoTag

\* While another master owns DDR, a line whose DDR copy is out of date is in
\* the cache: the victim of a dirty miss, which is in neither, is never
\* exposed (mem_read_write.sv:945-951, 1126-1129).  A store that has not
\* reached the cache yet is not counted.
VictimHidden ==
  LET InFlight(a) == \/ port # None /\ port.dv = "write" /\ port.addr = a
                     \/ req # NoReq /\ req.dv = "write" /\ req.addr = a
  IN  grant # "cache" =>
        \A a \in Addr : \/ HitWays(a.set, a.tag) # {}
                        \/ mem[LineOf(a)][a.off] = arch[a]
                        \/ InFlight(a)

\* When no request is left, everything stored before a request is in DDR:
\* polling MNT_BUSY to zero is enough before a DMA read (MMIO_MAP.md:218-241).
FlushReachesMemory == go = {} /\ ~MntBusy => must = {}

\* A transaction the cache has started is not taken from it, and its command
\* does not change under the controller, which samples it more than once
\* (mem_read_write.sv:969-978, ddr2_control.sv:243-324).
TransactionUndisturbed ==
  [][grant = "cache" /\ ctl \in {"WRITE", "READ", "TAIL"}
       => /\ grant' = "cache"
          /\ cmd' = cmd]_vars

\* A walk leaves nothing dirty, and an INVALIDATE walk leaves nothing valid,
\* in any set (mem_read_write.sv:1061-1082).
WalkComplete ==
  [][active /\ ~active' =>
       \A s \in Set, w \in Way :
         /\ ~array'[s][w].dirty
         /\ walkMode = "INVALIDATE" => array'[s][w].tag = NoTag]_vars

\* The next access through the cache waits for the walk (MMIO_MAP.md:231-237):
\* once the CACHE_CTRL store is over, nothing is answered from the arrays
\* until the walk has run.
NextAccessStalls == go = {} /\ MntBusy => \A a \in Addr : ~HOk(a)

\* The maintenance half of this module is MaintCapture's.
ImplementsMaintCapture == Mnt!Safety

\* Every CPU request is answered: the FSM and the controller never wait for
\* each other, the parked miss gets the bus back, the walk ends.
RequestAnswered == port # None ~> resp # None

=============================================================================
