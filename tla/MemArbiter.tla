----------------------------- MODULE MemArbiter -----------------------------
(***************************************************************************)
(* The DDR controller and its four masters: the cache (mem_read_write.sv), *)
(* which owns the controller when no grant is out, VGA scanout             *)
(* (vga_scanout.sv), the blitter (blitter_dma.sv) and core 2               *)
(* (core2_subsys.sv).  Each master is its bus FSM; what it reads, writes   *)
(* or computes between two transactions is left out, and the cache is      *)
(* reduced to when it drives the controller and when its gates are open.   *)
(*                                                                         *)
(* One step of Next is one rising edge of i_Clk.                           *)
(***************************************************************************)
EXTENDS Integers

CONSTANTS
  VgaChunk,  \* CHUNK of vga_scanout: reads in one tenure
  BlitChunk, \* r_chunk_lim: transactions in one tenure
  LineReads, \* bound: reads of one display line
  Drain,     \* r_grant_orphan_cnt at which an orphaned grant is taken back
  MaxLat,    \* most clocks the controller takes over a transaction
  ResetLen,  \* clocks CPU_RESETN is down
  CanReset,  \* bound: whether CPU_RESETN is ever pressed
  Users      \* bound: the DMA masters that ever ask for the bus

ASSUME ChunkAssumption ==
  VgaChunk \in Nat \ {0} /\ BlitChunk \in Nat \ {0} /\ LineReads \in Nat \ {0}
ASSUME LatAssumption   == MaxLat \in Nat \ {0} /\ Drain \in Nat
ASSUME ResetAssumption == ResetLen \in Nat \ {0} /\ CanReset \in BOOLEAN

VARIABLES
  vst, vreq, vdv, vdone, vgap, vleft, vchunk, vpend,  \* VGA scanout
  bst, breq, bdv, bdone, bgap, bchunk, bfinal,        \* blitter
  cst, creq, cdv, cdone, cgap, cgo, cddone,           \* core 2's DDR adapter
  ast, adv, agap,            \* the cache FSM and its DV
  pending,                   \* r_mnt_pending
  grant,                     \* r_grant_*: whose tenure it is
  orphan,                    \* r_grant_orphan_cnt
  ctl, ready, lat,           \* ddr2_control: FSM, o_mem_ready, clocks busy
  rst,                       \* clocks of reset left
  owner,                     \* history: whose transaction is or was last served
  behind                     \* history: transactions a parked miss waited for

vgaVars   == <<vst, vreq, vdv, vdone, vgap, vleft, vchunk, vpend>>
blitVars  == <<bst, breq, bdv, bdone, bgap, bchunk, bfinal>>
coreVars  == <<cst, creq, cdv, cdone, cgap, cgo, cddone>>
cacheVars == <<ast, adv, agap, pending>>
busVars   == <<grant, orphan, ctl, ready, lat>>
vars == <<vgaVars, blitVars, coreVars, cacheVars, busVars, rst, owner, behind>>

Masters == {"cache", "vga", "blit", "core2"}
VgaStates   == {"IDLE", "REQ", "RD", "GAP", "REL", "WAITREL"}
BlitStates  == {"IDLE", "PIX", "WF_REQ", "WF_DRIVE", "WF_GAP", "WF_REL",
                "RD_REQ", "RD_DRIVE", "RD_REL", "END", "FINISH"}
CoreStates  == {"IDLE", "REQ", "RD", "WR", "GAP"}
MissPath    == {"MISS", "SGAP", "SWAIT"}
WalkStates  == {"READ", "W", "W_WAIT", "W_GAP", "CLR", "DONE"}

VgaType ==
  /\ vreq \in BOOLEAN /\ vdv \in BOOLEAN /\ vdone \in BOOLEAN /\ vpend \in BOOLEAN
  /\ vst \in VgaStates /\ vgap \in 0 .. 1
  /\ vleft \in 0 .. LineReads /\ vchunk \in 0 .. VgaChunk

BlitType ==
  /\ breq \in BOOLEAN /\ bdv \in BOOLEAN /\ bdone \in BOOLEAN /\ bfinal \in BOOLEAN
  /\ bst \in BlitStates /\ bgap \in 0 .. 2 /\ bchunk \in 0 .. BlitChunk - 1

CoreType ==
  /\ creq \in BOOLEAN /\ cdv \in BOOLEAN /\ cdone \in BOOLEAN
  /\ cgo \in BOOLEAN /\ cddone \in BOOLEAN
  /\ cst \in CoreStates /\ cgap \in 0 .. 2

CacheType ==
  /\ adv \in BOOLEAN /\ pending \in BOOLEAN
  /\ ast \in {"WAIT", "CHECK"} \cup MissPath \cup WalkStates /\ agap \in 0 .. 2

BusType ==
  /\ ready \in BOOLEAN
  /\ grant \in Masters /\ owner \in Masters /\ orphan \in 0 .. Drain
  /\ ctl \in {"IDLE", "WAIT", "BUSY"} /\ lat \in 0 .. MaxLat
  /\ rst \in 0 .. ResetLen
  /\ behind \in 0 .. VgaChunk + BlitChunk + 1

TypeOK == VgaType /\ BlitType /\ CoreType /\ CacheType /\ BusType

Init ==
  /\ vst = "IDLE" /\ vreq = FALSE /\ vdv = FALSE /\ vdone = FALSE
  /\ vgap = 0 /\ vleft = 0 /\ vchunk = 0 /\ vpend = FALSE
  /\ bst = "IDLE" /\ breq = FALSE /\ bdv = FALSE /\ bdone = FALSE
  /\ bgap = 0 /\ bchunk = 0 /\ bfinal = FALSE
  /\ cst = "IDLE" /\ creq = FALSE /\ cdv = FALSE /\ cdone = FALSE
  /\ cgap = 0 /\ cgo = FALSE /\ cddone = FALSE
  /\ ast = "WAIT" /\ adv = FALSE /\ agap = 0 /\ pending = FALSE
  /\ grant = "cache" /\ orphan = 0
  /\ ctl = "IDLE" /\ ready = FALSE /\ lat = 0
  /\ rst = 0 /\ owner = "cache" /\ behind = 0

Ready(m) == ready /\ grant = m

-----------------------------------------------------------------------------
(* CPU_RESETN resets every master but the cache, and not the arbiter.      *)

InReset == rst > 0

Reset ==
  \/ rst = 0 /\ rst' = 0
  \/ rst = 0 /\ CanReset /\ rst' = ResetLen
  \/ rst > 0 /\ rst' = rst - 1

-----------------------------------------------------------------------------
(* VGA scanout.  A new line may be queued at any time; it replaces the one *)
(* being fetched at the next gap.  A fetch old enough ignores the yield.   *)

VgaReset ==
  /\ InReset
  /\ vst' = "IDLE" /\ vreq' = FALSE /\ vdv' = FALSE /\ vdone' = FALSE /\ vpend' = FALSE
  /\ UNCHANGED <<vgap, vleft, vchunk>>

Queue == UNCHANGED vpend \/ ("vga" \in Users /\ vpend' = TRUE)

VgaIdle ==
  /\ vst = "IDLE" /\ vdone' = FALSE
  /\ IF vpend
     THEN /\ vpend' = FALSE /\ vleft' = LineReads /\ vchunk' = 0
          /\ vreq' = TRUE /\ vst' = "REQ"
     ELSE Queue /\ UNCHANGED <<vleft, vchunk, vreq, vst>>
  /\ UNCHANGED <<vdv, vgap>>

VgaReq ==
  /\ vst = "REQ" /\ vdone' = FALSE /\ Queue
  /\ IF grant = "vga" THEN vdv' = TRUE /\ vst' = "RD" ELSE UNCHANGED <<vdv, vst>>
  /\ UNCHANGED <<vreq, vgap, vleft, vchunk>>

VgaRd ==
  /\ vst = "RD" /\ vdone' = FALSE /\ Queue
  /\ IF Ready("vga")
     THEN /\ vdv' = FALSE /\ vleft' = vleft - 1 /\ vchunk' = vchunk + 1
          /\ vgap' = 1 /\ vst' = "GAP"
     ELSE UNCHANGED <<vdv, vleft, vchunk, vgap, vst>>
  /\ UNCHANGED vreq

TenureOver == vpend \/ vleft = 0 \/ vchunk = VgaChunk

\* Whether the fetch is old enough to ignore a waiting miss is left open.
VgaGap ==
  /\ vst = "GAP" /\ vdone' = FALSE /\ Queue
  /\ \/ vgap # 0 /\ vgap' = vgap - 1 /\ UNCHANGED <<vdv, vst>>
     \/ /\ vgap = 0 /\ (TenureOver \/ ast \in MissPath)
        /\ vgap' = 1 /\ vst' = "REL" /\ UNCHANGED vdv
     \/ /\ vgap = 0 /\ ~TenureOver
        /\ vdv' = TRUE /\ vst' = "RD" /\ UNCHANGED vgap
  /\ UNCHANGED <<vreq, vleft, vchunk>>

VgaRel ==
  /\ vst = "REL" /\ Queue
  /\ IF vgap # 0
     THEN vgap' = vgap - 1 /\ vdone' = FALSE /\ UNCHANGED <<vreq, vst>>
     ELSE /\ vdone' = TRUE /\ vst' = "WAITREL"
          /\ IF vpend \/ vleft = 0 THEN vreq' = FALSE ELSE UNCHANGED vreq
          /\ UNCHANGED vgap
  /\ UNCHANGED <<vdv, vleft, vchunk>>

VgaWaitRel ==
  /\ vst = "WAITREL" /\ vdone' = FALSE /\ Queue
  /\ IF grant # "vga"
     THEN vchunk' = 0 /\ vst' = (IF vpend \/ vleft = 0 THEN "IDLE" ELSE "REQ")
     ELSE UNCHANGED <<vchunk, vst>>
  /\ UNCHANGED <<vreq, vdv, vgap, vleft>>

Vga == \/ VgaReset
       \/ ~InReset /\ (VgaIdle \/ VgaReq \/ VgaRd \/ VgaGap \/ VgaRel \/ VgaWaitRel)

-----------------------------------------------------------------------------
(* Blitter.  S_PIX and the pixel states are one state that works for any   *)
(* number of clocks before it needs the bus or is done.                    *)

BlitReset ==
  /\ InReset
  /\ bst' = "IDLE" /\ breq' = FALSE /\ bdv' = FALSE /\ bdone' = FALSE /\ bchunk' = 0
  /\ UNCHANGED <<bgap, bfinal>>

BlitIdle ==
  /\ bst = "IDLE" /\ bdone' = FALSE
  /\ \/ UNCHANGED <<bst, bchunk>>
     \/ /\ "blit" \in Users
        /\ bst' \in {"PIX", "FINISH"} /\ bchunk' = 0      \* FINISH: an empty blit
  /\ UNCHANGED <<breq, bdv, bgap, bfinal>>

BlitPix ==
  /\ bst = "PIX" /\ bdone' = FALSE
  /\ \/ bst' \in {"PIX", "RD_REQ", "END"} /\ UNCHANGED bfinal
     \/ bst' = "WF_REQ" /\ bfinal' = FALSE
  /\ UNCHANGED <<breq, bdv, bgap, bchunk>>

BlitReq(at, drive) ==
  /\ bst = at /\ bdone' = FALSE /\ breq' = TRUE
  /\ IF grant = "blit" THEN bdv' = TRUE /\ bst' = drive ELSE UNCHANGED <<bdv, bst>>
  /\ UNCHANGED <<bgap, bchunk, bfinal>>

BlitDrive(at, next) ==
  /\ bst = at /\ bdone' = FALSE
  /\ IF Ready("blit")
     THEN bdv' = FALSE /\ bst' = next /\ bgap' = IF at = "WF_DRIVE" THEN 2 ELSE bgap
     ELSE UNCHANGED <<bdv, bst, bgap>>
  /\ UNCHANGED <<breq, bchunk, bfinal>>

BlitGap ==
  /\ bst = "WF_GAP" /\ bdone' = FALSE
  /\ IF bgap = 0 THEN bst' = "WF_REL" /\ UNCHANGED bgap
                 ELSE bgap' = bgap - 1 /\ UNCHANGED bst
  /\ UNCHANGED <<breq, bdv, bchunk, bfinal>>

\* Mutant of ChunkEnd: the bus is kept for the whole blit.
ChunkEndKeep == bdone' = FALSE /\ bchunk' = 0

\* The last transaction of a chunk gives the bus back but goes on asking.
ChunkEnd ==
  IF bchunk >= BlitChunk - 1 THEN bdone' = TRUE /\ bchunk' = 0
                             ELSE bdone' = FALSE /\ bchunk' = bchunk + 1

BlitRel ==
  /\ \/ /\ bst = "WF_REL" /\ bfinal
        /\ bdone' = TRUE /\ breq' = FALSE /\ bchunk' = 0 /\ bst' = "FINISH"
     \/ /\ bst = "RD_REL" \/ (bst = "WF_REL" /\ ~bfinal)
        /\ ChunkEnd /\ bst' = "PIX" /\ UNCHANGED breq
  /\ UNCHANGED <<bdv, bgap, bfinal>>

BlitEnd ==
  /\ bst = "END" /\ bdone' = FALSE
  /\ \/ bst' = "WF_REQ" /\ bfinal' = TRUE
     \/ bst' = "FINISH" /\ UNCHANGED bfinal
  /\ UNCHANGED <<breq, bdv, bgap, bchunk>>

BlitFinish ==
  /\ bst = "FINISH" /\ bst' = "IDLE"
  /\ breq' = FALSE /\ bdone' = TRUE /\ bchunk' = 0
  /\ UNCHANGED <<bdv, bgap, bfinal>>

Blit ==
  \/ BlitReset
  \/ /\ ~InReset
     /\ \/ BlitIdle \/ BlitPix
        \/ BlitReq("WF_REQ", "WF_DRIVE") \/ BlitReq("RD_REQ", "RD_DRIVE")
        \/ BlitDrive("WF_DRIVE", "WF_GAP") \/ BlitDrive("RD_DRIVE", "RD_REL")
        \/ BlitGap \/ BlitRel \/ BlitEnd \/ BlitFinish

-----------------------------------------------------------------------------
(* Core 2's DDR adapter: one transaction per tenure.  The core-2 side      *)
(* raises cgo (r_dgo) and drops it when it has seen cddone (r_ddone), or   *)
(* at any time, when core 1 stops core 2; the adapter goes on regardless.  *)
(* Bound: core 1 does not start core 2 again under a transaction (what     *)
(* comes of that is in Core2Bus).                                          *)

CoreReset ==
  /\ InReset
  /\ cst' = "IDLE" /\ creq' = FALSE /\ cdv' = FALSE /\ cdone' = FALSE
  /\ cgo' = FALSE /\ cddone' = FALSE /\ UNCHANGED cgap

CoreGo == \/ UNCHANGED cgo
          \/ ~cgo /\ cst = "IDLE" /\ "core2" \in Users /\ cgo' = TRUE
          \/ cgo /\ cgo' = FALSE

CoreIdle ==
  /\ cst = "IDLE" /\ cdone' = FALSE /\ CoreGo
  /\ cddone' = (cgo /\ cddone)
  /\ IF cgo /\ ~cddone THEN creq' = TRUE /\ cst' = "REQ" ELSE UNCHANGED <<creq, cst>>
  /\ UNCHANGED <<cdv, cgap>>

CoreReq ==
  /\ cst = "REQ" /\ cdone' = FALSE /\ CoreGo
  /\ IF grant = "core2" THEN cdv' = TRUE /\ cst' \in {"RD", "WR"}
                        ELSE UNCHANGED <<cdv, cst>>
  /\ UNCHANGED <<creq, cgap, cddone>>

CoreEnd == cdone' = TRUE /\ creq' = FALSE /\ cddone' = TRUE /\ cst' = "IDLE"

CoreDrive ==
  /\ cst \in {"RD", "WR"} /\ CoreGo
  /\ IF ~Ready("core2")
     THEN cdone' = FALSE /\ UNCHANGED <<cst, creq, cdv, cgap, cddone>>
     ELSE /\ cdv' = FALSE
          /\ IF cst = "RD" THEN CoreEnd /\ UNCHANGED cgap
             ELSE /\ cgap' = 2 /\ cst' = "GAP" /\ cdone' = FALSE
                  /\ UNCHANGED <<creq, cddone>>

CoreGap ==
  /\ cst = "GAP" /\ CoreGo /\ UNCHANGED cdv
  /\ IF cgap = 0 THEN CoreEnd /\ UNCHANGED cgap
     ELSE cgap' = cgap - 1 /\ cdone' = FALSE /\ UNCHANGED <<cst, creq, cddone>>

Core == CoreReset \/ (~InReset /\ (CoreIdle \/ CoreReq \/ CoreDrive \/ CoreGap))

-----------------------------------------------------------------------------
(* The cache, reduced to its bus: whether an access hits, whether a victim *)
(* or a way of the walk is dirty and how many sets the walk has are left   *)
(* open.  CPU_RESETN does not reach it.                                    *)

Request == UNCHANGED pending \/ pending' = TRUE       \* a CACHE_CTRL store

AWait ==
  /\ ast = "WAIT" /\ UNCHANGED <<adv, agap>>
  /\ IF pending THEN ast' = "READ" /\ pending' \in BOOLEAN
                ELSE ast' \in {"WAIT", "CHECK"} /\ Request

ACheck ==
  /\ ast = "CHECK" /\ Request /\ UNCHANGED agap
  /\ \/ ast' = "WAIT" /\ UNCHANGED adv
     \/ ast' = "MISS" /\ adv' = TRUE

AMiss ==
  /\ ast = "MISS" /\ Request
  /\ IF Ready("cache")
     THEN /\ adv' = FALSE
          /\ \/ ast' = "WAIT" /\ UNCHANGED agap
             \/ ast' = "SGAP" /\ agap' = 2
     ELSE UNCHANGED <<ast, adv, agap>>

ASGap ==
  /\ ast = "SGAP" /\ Request
  /\ IF agap = 0 THEN adv' = TRUE /\ ast' = "SWAIT" /\ UNCHANGED agap
                 ELSE agap' = agap - 1 /\ UNCHANGED <<ast, adv>>

\* Mutant of ASWait: DV stays up after the writeback of the victim.
ASWaitDvUp ==
  /\ ast = "SWAIT" /\ Request /\ UNCHANGED <<adv, agap>>
  /\ IF Ready("cache") THEN ast' = "WAIT" ELSE UNCHANGED ast

ASWait ==
  /\ ast = "SWAIT" /\ Request /\ UNCHANGED agap
  /\ IF Ready("cache") THEN adv' = FALSE /\ ast' = "WAIT" ELSE UNCHANGED <<ast, adv>>

AWalkRead == ast = "READ" /\ ast' = "W" /\ Request /\ UNCHANGED <<adv, agap>>

AWalkWay ==
  /\ ast = "W" /\ Request /\ UNCHANGED agap
  /\ \/ adv' = TRUE /\ ast' = "W_WAIT"
     \/ ast' \in {"W", "CLR"} /\ UNCHANGED adv

AWalkWait ==
  /\ ast = "W_WAIT" /\ Request
  /\ IF Ready("cache") THEN adv' = FALSE /\ agap' = 2 /\ ast' = "W_GAP"
                       ELSE UNCHANGED <<ast, adv, agap>>

AWalkGap ==
  /\ ast = "W_GAP" /\ Request /\ UNCHANGED adv
  /\ IF agap = 0 THEN ast' \in {"W", "CLR"} /\ UNCHANGED agap
                 ELSE agap' = agap - 1 /\ UNCHANGED ast

AWalkClear ==
  \/ ast = "CLR" /\ ast' \in {"READ", "DONE"} /\ Request /\ UNCHANGED <<adv, agap>>
  \/ ast = "DONE" /\ ast' = "WAIT" /\ Request /\ UNCHANGED <<adv, agap>>

Cache == \/ AWait \/ ACheck \/ AMiss \/ ASGap \/ ASWait
         \/ AWalkRead \/ AWalkWay \/ AWalkWait \/ AWalkGap \/ AWalkClear

-----------------------------------------------------------------------------
(* The arbiter.                                                            *)

Req(m)  == \/ m = "cache" \/ (m = "vga" /\ vreq)
           \/ (m = "blit" /\ breq) \/ (m = "core2" /\ creq)
Done(m) == (m = "vga" /\ vdone) \/ (m = "blit" /\ bdone) \/ (m = "core2" /\ cdone)
Dv(m)   == \/ (m = "cache" /\ adv) \/ (m = "vga" /\ vdv)
           \/ (m = "blit" /\ bdv) \/ (m = "core2" /\ cdv)

MntBusy  == pending \/ ast \in WalkStates
VgaGate  == ast \notin MissPath /\ (ast \in WalkStates => ast = "READ")

\* Mutant of DmaGate: the walk does not keep the blitter and core 2 away.
DmaGateNoMnt == ast \notin MissPath
DmaGate  == ast \notin MissPath /\ ~MntBusy
Orphaned == grant # "cache" /\ ~Req(grant) /\ ~Done(grant)

GrantVga   == grant = "cache" /\ vreq /\ VgaGate /\ grant' = "vga"
GrantBlit  == /\ grant = "cache" /\ ~(vreq /\ VgaGate) /\ DmaGate
              /\ breq /\ grant' = "blit"
GrantCore  == /\ grant = "cache" /\ ~(vreq /\ VgaGate) /\ DmaGate
              /\ ~breq /\ creq /\ grant' = "core2"
NoGrant    == /\ grant = "cache" /\ ~(vreq /\ VgaGate)
              /\ DmaGate => ~breq /\ ~creq
              /\ UNCHANGED grant

\* Mutant of TakeBack: an orphaned tenure is not drained.
TakeBackNow == grant # "cache" /\ grant' = "cache" /\ (Done(grant) \/ Orphaned)
TakeBack   == /\ grant # "cache" /\ grant' = "cache"
              /\ Done(grant) \/ (Orphaned /\ orphan = Drain)
KeepTenure == /\ grant # "cache" /\ UNCHANGED grant
              /\ ~Done(grant) /\ ~(Orphaned /\ orphan = Drain)

Arbiter ==
  /\ orphan' = IF Orphaned /\ orphan < Drain THEN orphan + 1 ELSE 0
  /\ GrantVga \/ GrantBlit \/ GrantCore \/ NoGrant \/ TakeBack \/ KeepTenure

-----------------------------------------------------------------------------
(* ddr2_control: a command is accepted in WAIT, and WAIT is reached only   *)
(* through a clock in which the owner's DV is low.                         *)

CtlIdle ==
  /\ ctl = "IDLE" /\ ctl' = (IF Dv(grant) THEN "IDLE" ELSE "WAIT")
  /\ ready' = FALSE /\ UNCHANGED <<lat, owner>>

CtlWait ==
  /\ ctl = "WAIT" /\ UNCHANGED ready
  /\ IF Dv(grant) THEN ctl' = "BUSY" /\ lat' = 1 /\ owner' = grant
                  ELSE UNCHANGED <<ctl, lat, owner>>

CtlBusy ==
  /\ ctl = "BUSY" /\ lat < MaxLat /\ lat' = lat + 1
  /\ UNCHANGED <<ctl, ready, owner>>

CtlDone ==
  /\ ctl = "BUSY" /\ ctl' = "IDLE" /\ ready' = TRUE /\ lat' = 0
  /\ UNCHANGED owner

Ddr == CtlIdle \/ CtlWait \/ CtlBusy \/ CtlDone

\* Transactions of other masters that end while a cache miss waits.
History == behind' =
  IF ast # "MISS" THEN 0
  ELSE IF ready /\ grant # "cache" /\ behind <= VgaChunk + BlitChunk
       THEN behind + 1 ELSE behind

Next == Reset /\ Vga /\ Blit /\ Core /\ Cache /\ Arbiter /\ Ddr /\ History

\* The clock runs, and the blitter does not compute pixels for ever (stated of
\* the state: TLC need not evaluate ENABLED).
Fairness == WF_vars(Next) /\ []<>(bst # "PIX")

Spec == Init /\ [][Next]_vars /\ Fairness

-----------------------------------------------------------------------------
(* Properties.                                                             *)

\* The completion a master sees is its own transaction's, whatever grants were
\* handed over while it ran: the gating of i_ddr_mem_ready by the grant is
\* enough (mem_read_write.sv:280-299, 1151-1159).
ReadyToOwner == ready => grant = owner

\* Nor is a tenure ever ended under a running transaction, whose width and
\* address the controller still takes from the owner (mem_read_write.sv:217-235).
TenureCoversTransaction == ctl = "BUSY" => grant = owner

\* The controller leaves IDLE only through a clock with DV low.  No hand-over
\* lets a master find it in IDLE with its DV already up, where both would wait
\* for each other for ever (ddr2_control.sv:212-228, core2_subsys.sv:430-449,
\* vga_scanout.sv:274-304, blitter_dma.sv:588-673).
NoBlockedCommand == ctl = "IDLE" /\ Dv(grant) => ready

\* A DMA master drives the bus only in its own tenure: none acts on a grant
\* that its own done pulse has already ended (blitter_dma.sv:577-673).
DriveOnlyInTenure ==
  \A m \in Masters \ {"cache"} : Dv(m) => grant = m

\* A cache miss waits for what is left of one tenure at most
\* (mem_read_write.sv:1131-1150).
MissBehindOneTenure ==
  behind <= IF BlitChunk > VgaChunk THEN BlitChunk ELSE VgaChunk

\* Whatever the cache asks of the controller, a refill, a shadow writeback or
\* a walk's writeback, is done in the end.
CacheServed == adv ~> ~adv
=============================================================================
