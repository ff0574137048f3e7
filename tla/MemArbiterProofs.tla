-------------------------- MODULE MemArbiterProofs --------------------------
(***************************************************************************)
(* Proofs about MemArbiter, for every chunk length, line length, latency,  *)
(* drain and reset length: every master sees only its own completions, no  *)
(* tenure ends under a transaction, and no hand-over blocks the bus.       *)
(***************************************************************************)
EXTENDS MemArbiter, TLAPS

\* What the reset needs of the environment: the drain outlasts a transaction
\* and CPU_RESETN stays down until the drain is over.
DrainSuffices == CanReset => MaxLat <= Drain /\ ResetLen >= Drain + 2

-----------------------------------------------------------------------------
(* The inductive invariant, one conjunct for each actor.                   *)

\* The controller while DV is up.
Served == ctl \in {"WAIT", "BUSY"} \/ (ctl = "IDLE" /\ ready)

VgaInv ==
  /\ vdv <=> vst = "RD"
  /\ vst \in {"RD", "GAP", "REL"} => grant = "vga" /\ vreq /\ ~vdone
  /\ vst = "REQ" => vreq /\ vleft # 0 /\ vchunk = 0
  /\ vst = "RD" => vleft # 0 /\ vchunk # VgaChunk
  /\ vst = "WAITREL" /\ ~vreq => vpend \/ vleft = 0
  /\ vdone => vst = "WAITREL"
  /\ vdv => Served
  /\ grant = "vga" /\ ~vdv /\ (vreq \/ vdone) =>
       ~ready /\ (ctl = "WAIT" \/ (ctl = "IDLE" /\ vst = "GAP" /\ vgap = 1))

BlitInv ==
  /\ bdv <=> bst \in {"WF_DRIVE", "RD_DRIVE"}
  /\ bst \in {"WF_DRIVE", "RD_DRIVE", "WF_GAP", "WF_REL", "RD_REL"}
       => grant = "blit" /\ breq /\ ~bdone
  /\ bdone => bst \in {"PIX", "FINISH", "IDLE"}
  /\ bdv => Served
  /\ grant = "blit" /\ ~bdv /\ (breq \/ bdone) =>
       ~ready /\ (\/ ctl = "WAIT"
                  \/ ctl = "IDLE" /\ (bst = "RD_REL" \/ (bst = "WF_GAP" /\ bgap = 2)))

CoreInv ==
  /\ cdv <=> cst \in {"RD", "WR"}
  /\ cst \in {"RD", "WR", "GAP"} => grant = "core2" /\ creq /\ ~cdone
  /\ cst = "REQ" => creq
  /\ cdone => cst = "IDLE"
  /\ cdv => Served
  /\ grant = "core2" /\ ~cdv /\ (creq \/ cdone) =>
       ~ready /\ (\/ ctl = "WAIT"
                  \/ ctl = "IDLE" /\ (cdone \/ (cst = "GAP" /\ cgap = 2)))

CacheInv ==
  /\ adv <=> ast \in {"MISS", "SWAIT", "W_WAIT"}
  /\ ast \in {"SGAP", "SWAIT", "W_GAP"} => grant = "cache"
  /\ grant = "cache" /\ adv => Served
  /\ grant = "cache" /\ ~adv =>
       ~ready /\ (\/ ctl = "WAIT"
                  \/ ctl = "IDLE" /\ (\/ ast = "WAIT"
                                      \/ ast \in {"SGAP", "W_GAP"} /\ agap = 2))

\* A grant is orphaned only by a reset, and counted from its second clock.
ResetInv ==
  /\ rst # 0 => CanReset
  /\ rst # 0 /\ rst # ResetLen =>
       /\ vst = "IDLE" /\ bst = "IDLE" /\ cst = "IDLE"
       /\ ~vreq /\ ~breq /\ ~creq /\ ~vdone /\ ~bdone /\ ~cdone
  /\ Orphaned => rst # 0 /\ rst + orphan = ResetLen - 1
  /\ Orphaned /\ ctl = "BUSY" => lat > orphan

BusInv ==
  /\ ctl = "BUSY" \/ ready => owner = grant
  /\ ready => ctl = "IDLE"
  /\ ctl = "BUSY" => lat # 0

IInv == TypeOK /\ VgaInv /\ BlitInv /\ CoreInv /\ CacheInv /\ ResetInv /\ BusInv

-----------------------------------------------------------------------------
\* The invariant holds initially.
LEMMA InitInv == Init => IInv
<1> SUFFICES ASSUME Init PROVE IInv
  OBVIOUS
<1> USE ChunkAssumption, LatAssumption, ResetAssumption
<1>1. VgaType
  <2>1. vreq \in BOOLEAN /\ vdv \in BOOLEAN /\ vdone \in BOOLEAN /\ vpend \in BOOLEAN
    BY Zenon DEF Init
  <2> QED BY <2>1 DEF Init, VgaType, VgaStates
<1>2. BlitType
  <2>1. /\ breq \in BOOLEAN /\ bdv \in BOOLEAN /\ bdone \in BOOLEAN
        /\ bfinal \in BOOLEAN
    BY Zenon DEF Init
  <2> QED BY <2>1 DEF Init, BlitType, BlitStates
<1>3. CoreType
  <2>1. /\ creq \in BOOLEAN /\ cdv \in BOOLEAN /\ cdone \in BOOLEAN
        /\ cgo \in BOOLEAN /\ cddone \in BOOLEAN
    BY Zenon DEF Init
  <2> QED BY <2>1 DEF Init, CoreType, CoreStates
<1>4. CacheType
  <2>1. adv \in BOOLEAN /\ pending \in BOOLEAN BY Zenon DEF Init
  <2> QED BY <2>1 DEF Init, CacheType
<1>5. BusType
  <2>1. ready \in BOOLEAN BY Zenon DEF Init
  <2> QED BY <2>1 DEF Init, BusType, Masters
<1>6. VgaInv /\ BlitInv /\ CoreInv BY DEF Init, VgaInv, BlitInv, CoreInv
<1>7. CacheInv BY DEF Init, CacheInv
<1>8. ResetInv /\ BusInv BY DEF Init, ResetInv, BusInv, Orphaned
<1> QED BY <1>1, <1>2, <1>3, <1>4, <1>5, <1>6, <1>7, <1>8 DEF IInv, TypeOK

-----------------------------------------------------------------------------
(* Types.  Bits are left to Zenon, numbers to SMT.                         *)

\* The scanout's registers keep their types (vga_scanout.sv:189-308).
LEMMA VgaTypes ==
  ASSUME VgaType, VgaInv, Vga
  PROVE  VgaType'
<1>1. /\ vreq' \in BOOLEAN /\ vdv' \in BOOLEAN /\ vdone' \in BOOLEAN
      /\ vpend' \in BOOLEAN
  BY Zenon DEF VgaType, Vga, VgaReset, VgaIdle, VgaReq, VgaRd, VgaGap, VgaRel,
               VgaWaitRel, Queue
<1>2. /\ vst' \in VgaStates /\ vgap' \in 0 .. 1
      /\ vleft' \in 0 .. LineReads /\ vchunk' \in 0 .. VgaChunk
  <2> USE ChunkAssumption DEF VgaType, VgaStates
  <2>1. CASE VgaReset BY <2>1 DEF VgaReset
  <2>2. CASE VgaIdle BY <2>2 DEF VgaIdle
  <2>3. CASE VgaReq BY <2>3 DEF VgaReq
  <2>4. CASE VgaRd
    <3>1. vleft # 0 /\ vchunk # VgaChunk BY <2>4 DEF VgaRd, VgaInv
    <3>2. vleft' \in 0 .. LineReads BY <2>4, <3>1 DEF VgaRd
    <3>3. vchunk' \in 0 .. VgaChunk BY <2>4, <3>1 DEF VgaRd
    <3>4. vst' \in VgaStates /\ vgap' \in 0 .. 1 BY <2>4 DEF VgaRd
    <3> QED BY <3>2, <3>3, <3>4
  <2>5. CASE VgaGap
    <3>1. vst' \in VgaStates BY <2>5 DEF VgaGap
    <3>2. vgap' \in 0 .. 1 BY <2>5 DEF VgaGap
    <3> QED BY <2>5, <3>1, <3>2 DEF VgaGap
  <2>6. CASE VgaRel BY <2>6 DEF VgaRel
  <2>7. CASE VgaWaitRel BY <2>7 DEF VgaWaitRel
  <2> QED BY <2>1, <2>2, <2>3, <2>4, <2>5, <2>6, <2>7 DEF Vga
<1> QED BY <1>1, <1>2 DEF VgaType

\* The blitter's registers keep their types (blitter_dma.sv:353-701).
LEMMA BlitTypes ==
  ASSUME BlitType, Blit
  PROVE  BlitType'
<1>1. /\ breq' \in BOOLEAN /\ bdv' \in BOOLEAN /\ bdone' \in BOOLEAN
      /\ bfinal' \in BOOLEAN
  BY Zenon DEF BlitType, Blit, BlitReset, BlitIdle, BlitPix, BlitReq, BlitDrive,
               BlitGap, BlitRel, ChunkEnd, BlitEnd, BlitFinish
<1>2. bst' \in BlitStates /\ bgap' \in 0 .. 2 /\ bchunk' \in 0 .. BlitChunk - 1
  <2> USE ChunkAssumption DEF BlitType, BlitStates
  <2>1. CASE BlitReset BY <2>1 DEF BlitReset
  <2>2. CASE BlitIdle BY <2>2 DEF BlitIdle
  <2>3. CASE BlitPix BY <2>3 DEF BlitPix
  <2>4. CASE BlitReq("WF_REQ", "WF_DRIVE") BY <2>4 DEF BlitReq
  <2>5. CASE BlitReq("RD_REQ", "RD_DRIVE") BY <2>5 DEF BlitReq
  <2>6. CASE BlitDrive("WF_DRIVE", "WF_GAP") BY <2>6 DEF BlitDrive
  <2>7. CASE BlitDrive("RD_DRIVE", "RD_REL") BY <2>7 DEF BlitDrive
  <2>8. CASE BlitGap BY <2>8 DEF BlitGap
  <2>9. CASE BlitRel BY <2>9 DEF BlitRel, ChunkEnd
  <2>10. CASE BlitEnd BY <2>10 DEF BlitEnd
  <2>11. CASE BlitFinish BY <2>11 DEF BlitFinish
  <2> QED BY <2>1, <2>2, <2>3, <2>4, <2>5, <2>6, <2>7, <2>8, <2>9, <2>10, <2>11
          DEF Blit
<1> QED BY <1>1, <1>2 DEF BlitType

\* Core 2's adapter keeps its types (core2_subsys.sv:411-462).
LEMMA CoreTypes ==
  ASSUME CoreType, Core
  PROVE  CoreType'
<1>1. /\ creq' \in BOOLEAN /\ cdv' \in BOOLEAN /\ cdone' \in BOOLEAN
      /\ cgo' \in BOOLEAN /\ cddone' \in BOOLEAN
  BY Zenon DEF CoreType, Core, CoreReset, CoreIdle, CoreReq, CoreDrive, CoreGap,
               CoreGo, CoreEnd
<1>2. cst' \in CoreStates /\ cgap' \in 0 .. 2
  BY DEF CoreType, CoreStates, Core, CoreReset, CoreIdle, CoreReq, CoreDrive,
         CoreGap, CoreEnd
<1> QED BY <1>1, <1>2 DEF CoreType

\* The cache's bus registers keep their types (mem_read_write.sv:639-1086).
LEMMA CacheTypes ==
  ASSUME CacheType, Cache
  PROVE  CacheType'
<1>1. adv' \in BOOLEAN /\ pending' \in BOOLEAN
  BY Zenon DEF CacheType, Cache, AWait, ACheck, AMiss, ASGap, ASWait, AWalkRead,
               AWalkWay, AWalkWait, AWalkGap, AWalkClear, Request
<1>2. /\ ast' \in {"WAIT", "CHECK"} \cup MissPath \cup WalkStates
      /\ agap' \in 0 .. 2
  BY DEF CacheType, Cache, AWait, ACheck, AMiss, ASGap, ASWait, AWalkRead,
         AWalkWay, AWalkWait, AWalkGap, AWalkClear, MissPath, WalkStates
<1> QED BY <1>1, <1>2 DEF CacheType

\* The bus's registers keep their types (mem_read_write.sv:1178-1200,
\* ddr2_control.sv:198-373).
LEMMA BusTypes ==
  ASSUME BusType, Reset, Arbiter, Ddr, History
  PROVE  BusType'
<1> USE LatAssumption, ResetAssumption DEF BusType
<1>1. ready' \in BOOLEAN
  BY Zenon DEF Ddr, CtlIdle, CtlWait, CtlBusy, CtlDone
<1>2. rst' \in 0 .. ResetLen
  BY DEF Reset
<1>3. grant' \in Masters
  BY DEF Arbiter, GrantVga, GrantBlit, GrantCore, NoGrant, TakeBack, KeepTenure,
         Masters
<1>4. orphan' \in 0 .. Drain
  BY DEF Arbiter
<1>5. ctl' \in {"IDLE", "WAIT", "BUSY"} /\ lat' \in 0 .. MaxLat /\ owner' \in Masters
  BY DEF Ddr, CtlIdle, CtlWait, CtlBusy, CtlDone
<1>6. behind' \in 0 .. VgaChunk + BlitChunk + 1
  BY ChunkAssumption DEF History
<1> QED BY <1>1, <1>2, <1>3, <1>4, <1>5, <1>6

-----------------------------------------------------------------------------
(* Hand-overs.                                                             *)

\* The bus is given away only while the cache does not drive it: no miss, no
\* writeback of the walk (mem_read_write.sv:1170-1196).
LEMMA GrantQuiet ==
  ASSUME CacheInv, GrantVga \/ GrantBlit \/ GrantCore, Ddr
  PROVE  /\ grant = "cache" /\ grant' # "cache" /\ ~adv
         /\ ctl' = "WAIT" /\ ~ready'
<1>1. grant = "cache" /\ grant' # "cache"
  BY DEF GrantVga, GrantBlit, GrantCore
<1>2. ast \notin {"MISS", "SWAIT", "W_WAIT", "SGAP", "W_GAP"}
  BY DEF GrantVga, GrantBlit, GrantCore, VgaGate, DmaGate, MntBusy, MissPath,
         WalkStates
<1>3. ~adv /\ ~ready /\ ctl \in {"IDLE", "WAIT"}
  BY <1>1, <1>2 DEF CacheInv
<1> QED BY <1>1, <1>3 DEF Ddr, CtlIdle, CtlWait, CtlBusy, CtlDone, Dv

\* An orphaned tenure has no master behind it, and its drain has outlasted
\* any transaction that was running when the reset came
\* (mem_read_write.sv:1151-1159, 1186-1188).
LEMMA OrphanQuiet ==
  ASSUME BusType, VgaInv, BlitInv, CoreInv, ResetInv, DrainSuffices, Orphaned
  PROVE  /\ rst # 0 /\ rst # ResetLen /\ ~Dv(grant)
         /\ orphan = Drain => ctl # "BUSY"
<1> USE LatAssumption, ResetAssumption DEF BusType
<1>1. CanReset /\ rst # 0 /\ rst + orphan = ResetLen - 1
  BY DEF ResetInv
<1>2. rst # ResetLen
  BY <1>1
<1>3. ~vdv /\ ~bdv /\ ~cdv
  BY <1>1, <1>2 DEF ResetInv, VgaInv, BlitInv, CoreInv
<1>4. orphan = Drain => ctl # "BUSY"
  BY <1>1 DEF ResetInv, DrainSuffices
<1> QED BY <1>1, <1>2, <1>3, <1>4 DEF Orphaned, Dv

\* A tenure ends only when its master has stopped driving and the controller
\* has seen it stop.
LEMMA TakeBackQuiet ==
  ASSUME BusType, VgaInv, BlitInv, CoreInv, ResetInv, BusInv, DrainSuffices,
         TakeBack, Ddr
  PROVE  grant' = "cache" /\ ~Dv(grant) /\ ctl' = "WAIT" /\ ~ready'
<1>1. grant # "cache" /\ grant' = "cache"
  BY DEF TakeBack
<1>2. CASE Done(grant)
  <2>1. ~Dv(grant) /\ ~ready /\ ctl \in {"WAIT", "IDLE"}
    BY <1>1, <1>2 DEF Done, Dv, VgaInv, BlitInv, CoreInv, BusType, Masters
  <2> QED BY <1>1, <2>1 DEF Ddr, CtlIdle, CtlWait, CtlBusy, CtlDone
<1>3. CASE Orphaned /\ orphan = Drain
  <2>1. ~Dv(grant) /\ ctl \in {"WAIT", "IDLE"}
    BY <1>3, OrphanQuiet DEF BusType
  <2>2. ctl = "WAIT" => ~ready
    BY DEF BusInv
  <2> QED BY <1>1, <2>1, <2>2 DEF Ddr, CtlIdle, CtlWait, CtlBusy, CtlDone
<1> QED BY <1>2, <1>3 DEF TakeBack

\* At a hand-over the bus is at rest: the next owner finds the controller in
\* WAIT and no completion on its way.
LEMMA HandOver ==
  ASSUME IInv, DrainSuffices, Arbiter, Ddr, grant' # grant
  PROVE  /\ grant = "cache" \/ grant' = "cache"
         /\ ~Dv(grant) /\ ctl' = "WAIT" /\ ~ready'
<1>1. CASE GrantVga \/ GrantBlit \/ GrantCore
  BY <1>1, GrantQuiet DEF IInv, Dv
<1>2. CASE TakeBack
  BY <1>2, TakeBackQuiet DEF IInv, TypeOK
<1>3. CASE NoGrant \/ KeepTenure
  BY <1>3 DEF NoGrant, KeepTenure
<1> QED BY <1>1, <1>2, <1>3 DEF Arbiter

\* A master that still asks keeps its tenure.
LEMMA TenureKept ==
  ASSUME Arbiter, grant # "cache", Req(grant), ~Done(grant)
  PROVE  grant' = grant
BY DEF Arbiter, GrantVga, GrantBlit, GrantCore, NoGrant, TakeBack, KeepTenure,
       Orphaned

\* The bus's own conjuncts are preserved.
LEMMA BusStep ==
  ASSUME IInv, DrainSuffices, Arbiter, Ddr
  PROVE  BusInv'
<1>1. CASE grant' # grant
  BY <1>1, HandOver DEF BusInv
<1>2. CASE grant' = grant
  BY <1>2, LatAssumption DEF IInv, TypeOK, BusType, BusInv, Ddr, CtlIdle, CtlWait, CtlBusy, CtlDone
<1> QED BY <1>1, <1>2

-----------------------------------------------------------------------------
(* Each actor's conjunct is preserved.                                     *)

\* What one clock does to the controller, as far as the owner's DV tells
\* (ddr2_control.sv:212-373).
LEMMA DdrStep ==
  ASSUME BusType, BusInv, Ddr
  PROVE  /\ ~Dv(grant) /\ ctl \in {"IDLE", "WAIT"} => ctl' = "WAIT" /\ ~ready'
         /\ Dv(grant) /\ ready => ctl' = "IDLE" /\ ~ready'
         /\ Dv(grant) /\ ~ready /\ Served => Served'
BY DEF BusType, BusInv, Ddr, CtlIdle, CtlWait, CtlBusy, CtlDone, Served

\* The scanout drives the bus only in its tenure, and finds it at rest when
\* it raises DV (vga_scanout.sv:246-303).
LEMMA VgaStep ==
  ASSUME IInv, DrainSuffices, Vga, Arbiter, Ddr
  PROVE  VgaInv'
<1>0. ~InReset /\ grant = "vga" => vreq \/ vdone
  BY ResetAssumption
  DEF IInv, TypeOK, BusType, ResetInv, Orphaned, Req, Done, InReset
<1>1. VgaType /\ BusType /\ VgaInv /\ BusInv
  BY DEF IInv, TypeOK
<1>2. grant' # grant => ctl' = "WAIT" /\ ~ready' /\ (grant = "vga" => ~vdv)
  BY HandOver DEF Dv
<1>3. grant = "vga" /\ vreq /\ ~vdone => grant' = "vga"
  BY TenureKept DEF Req, Done
<1>4. grant = "vga" =>
        /\ ~vdv /\ ctl \in {"IDLE", "WAIT"} => ctl' = "WAIT" /\ ~ready'
        /\ vdv /\ ready => ctl' = "IDLE" /\ ~ready'
        /\ vdv /\ ~ready /\ Served => Served'
  BY <1>1, DdrStep DEF Dv
<1>5. CASE VgaReset
  BY <1>5 DEF VgaReset, VgaInv
<1>6. CASE ~InReset /\ VgaIdle
  BY <1>0, <1>1, <1>2, <1>4, <1>6, ChunkAssumption DEF VgaIdle, VgaInv
<1>7. CASE VgaReq
  BY <1>1, <1>2, <1>3, <1>4, <1>7, ChunkAssumption DEF VgaReq, VgaInv, Served
<1>8. CASE VgaRd
  BY <1>1, <1>2, <1>3, <1>4, <1>8 DEF VgaRd, VgaInv, Ready
<1>9. CASE VgaGap
  BY <1>1, <1>2, <1>3, <1>4, <1>9 DEF VgaGap, TenureOver, VgaInv, VgaType, Served
<1>10. CASE VgaRel
  <2>1. grant = "vga" /\ grant' = "vga" /\ ~vdv /\ ctl' = "WAIT" /\ ~ready'
    BY <1>1, <1>3, <1>4, <1>10 DEF VgaRel, VgaInv
  <2>2. CASE vgap # 0
    BY <1>1, <1>10, <2>1, <2>2 DEF VgaRel, VgaInv
  <2>3. CASE vgap = 0
    <3>1. ~vreq' => vpend' \/ vleft' = 0
      <4>1. vpend \/ vleft = 0 => vpend' \/ vleft' = 0
        BY <1>10, <2>3 DEF VgaRel, Queue
      <4>2. ~(vpend \/ vleft = 0) => UNCHANGED vreq
        BY <1>10, <2>3, Zenon DEF VgaRel
      <4>3. vreq
        BY <1>1, <1>10 DEF VgaRel, VgaInv
      <4> QED BY <4>1, <4>2, <4>3, Zenon
    <3>2. vst' = "WAITREL" /\ ~vdv'
      BY <1>10, <2>1, <2>3 DEF VgaRel
    <3> QED BY <2>1, <3>1, <3>2 DEF VgaInv
  <2> QED BY <2>2, <2>3
<1>11. CASE ~InReset /\ VgaWaitRel
  BY <1>0, <1>1, <1>2, <1>4, <1>11, ChunkAssumption DEF VgaWaitRel, VgaInv, Queue
<1> QED BY <1>5, <1>6, <1>7, <1>8, <1>9, <1>10, <1>11 DEF Vga

\* The blitter, which goes on asking between the tenures of one blit, drives
\* the bus only in its tenure (blitter_dma.sv:577-673).
LEMMA BlitStep ==
  ASSUME IInv, DrainSuffices, Blit, Arbiter, Ddr
  PROVE  BlitInv'
<1>0. ~InReset /\ grant = "blit" => breq \/ bdone
  BY ResetAssumption
  DEF IInv, TypeOK, BusType, ResetInv, Orphaned, Req, Done, InReset
<1>1. BlitType /\ BusType /\ BlitInv /\ BusInv
  BY DEF IInv, TypeOK
<1>2. grant' # grant => ctl' = "WAIT" /\ ~ready' /\ (grant = "blit" => ~bdv)
  BY HandOver DEF Dv
<1>3. grant = "blit" /\ breq /\ ~bdone => grant' = "blit"
  BY TenureKept DEF Req, Done
<1>4. grant = "blit" =>
        /\ ~bdv /\ ctl \in {"IDLE", "WAIT"} => ctl' = "WAIT" /\ ~ready'
        /\ bdv /\ ready => ctl' = "IDLE" /\ ~ready'
        /\ bdv /\ ~ready /\ Served => Served'
  BY <1>1, DdrStep DEF Dv
<1>5. CASE BlitReset
  BY <1>5 DEF BlitReset, BlitInv
<1>6. CASE ~InReset /\ (BlitIdle \/ BlitPix \/ BlitEnd)
  BY <1>0, <1>1, <1>2, <1>4, <1>6 DEF BlitIdle, BlitPix, BlitEnd, BlitInv
<1>7. CASE ~InReset /\ BlitReq("WF_REQ", "WF_DRIVE")
  BY <1>0, <1>1, <1>2, <1>3, <1>4, <1>7 DEF BlitReq, BlitInv, Served
<1>8. CASE ~InReset /\ BlitReq("RD_REQ", "RD_DRIVE")
  BY <1>0, <1>1, <1>2, <1>3, <1>4, <1>8 DEF BlitReq, BlitInv, Served
<1>9. CASE BlitDrive("WF_DRIVE", "WF_GAP")
  BY <1>1, <1>2, <1>3, <1>4, <1>9 DEF BlitDrive, BlitInv, Ready
<1>10. CASE BlitDrive("RD_DRIVE", "RD_REL")
  BY <1>1, <1>2, <1>3, <1>4, <1>10 DEF BlitDrive, BlitInv, Ready
<1>11. CASE BlitGap
  BY <1>1, <1>2, <1>3, <1>4, <1>11 DEF BlitGap, BlitInv, BlitType
<1>12. CASE BlitRel
  BY <1>1, <1>2, <1>3, <1>4, <1>12 DEF BlitRel, ChunkEnd, BlitInv
<1>13. CASE ~InReset /\ BlitFinish
  BY <1>0, <1>1, <1>2, <1>4, <1>13 DEF BlitFinish, BlitInv
<1> QED BY <1>5, <1>6, <1>7, <1>8, <1>9, <1>10, <1>11, <1>12, <1>13 DEF Blit

\* Core 2's adapter drives the bus only in its tenure
\* (core2_subsys.sv:411-462).
LEMMA CoreStep ==
  ASSUME IInv, DrainSuffices, Core, Arbiter, Ddr
  PROVE  CoreInv'
<1>0. ~InReset /\ grant = "core2" => creq \/ cdone
  BY ResetAssumption
  DEF IInv, TypeOK, BusType, ResetInv, Orphaned, Req, Done, InReset
<1>1. CoreType /\ BusType /\ CoreInv /\ BusInv
  BY DEF IInv, TypeOK
<1>2. grant' # grant => ctl' = "WAIT" /\ ~ready' /\ (grant = "core2" => ~cdv)
  BY HandOver DEF Dv
<1>3. grant = "core2" /\ creq /\ ~cdone => grant' = "core2"
  BY TenureKept DEF Req, Done
<1>4. grant = "core2" =>
        /\ ~cdv /\ ctl \in {"IDLE", "WAIT"} => ctl' = "WAIT" /\ ~ready'
        /\ cdv /\ ready => ctl' = "IDLE" /\ ~ready'
        /\ cdv /\ ~ready /\ Served => Served'
  BY <1>1, DdrStep DEF Dv
<1>5. CASE CoreReset
  BY <1>5 DEF CoreReset, CoreInv
<1>6. CASE ~InReset /\ CoreIdle
  BY <1>0, <1>1, <1>2, <1>4, <1>6 DEF CoreIdle, CoreInv
<1>7. CASE CoreReq
  BY <1>1, <1>2, <1>3, <1>4, <1>7 DEF CoreReq, CoreInv, Served
<1>8. CASE CoreDrive
  BY <1>1, <1>2, <1>3, <1>4, <1>8 DEF CoreDrive, CoreEnd, CoreInv, Ready
<1>9. CASE CoreGap
  BY <1>1, <1>2, <1>3, <1>4, <1>9 DEF CoreGap, CoreEnd, CoreInv, CoreType
<1> QED BY <1>5, <1>6, <1>7, <1>8, <1>9 DEF Core

\* The cache, which owns the bus whenever no grant is out
\* (mem_read_write.sv:887-1059).
LEMMA CacheStep ==
  ASSUME IInv, DrainSuffices, Cache, Arbiter, Ddr
  PROVE  CacheInv'
<1>1. CacheType /\ BusType /\ CacheInv /\ BusInv
  BY DEF IInv, TypeOK
<1>2. grant' # grant => ctl' = "WAIT" /\ ~ready'
  BY HandOver
<1>3. grant = "cache" /\ grant' # "cache" =>
        ~adv /\ ast \notin MissPath \cup {"W", "W_WAIT", "W_GAP"}
  <2> SUFFICES ASSUME grant = "cache", grant' # "cache"
               PROVE  ~adv /\ ast \notin MissPath \cup {"W", "W_WAIT", "W_GAP"}
    OBVIOUS
  <2>1. ast \notin MissPath \cup {"W", "W_WAIT", "W_GAP"}
    BY DEF Arbiter, GrantVga, GrantBlit, GrantCore, NoGrant, TakeBack, KeepTenure,
           VgaGate, DmaGate, MntBusy, WalkStates
  <2> QED BY <1>1, <2>1 DEF CacheInv, MissPath
<1>4. grant = "cache" =>
        /\ ~adv /\ ctl \in {"IDLE", "WAIT"} => ctl' = "WAIT" /\ ~ready'
        /\ adv /\ ready => ctl' = "IDLE" /\ ~ready'
        /\ adv /\ ~ready /\ Served => Served'
  BY <1>1, DdrStep DEF Dv
<1>5. CASE AWait
  BY <1>1, <1>2, <1>4, <1>5 DEF AWait, CacheInv
<1>6. CASE ACheck
  BY <1>1, <1>2, <1>4, <1>6 DEF ACheck, CacheInv, Served
<1>7. CASE AMiss
  BY <1>1, <1>2, <1>3, <1>4, <1>7 DEF AMiss, CacheInv, Ready, MissPath, Served
<1>8. CASE ASGap
  BY <1>1, <1>2, <1>3, <1>4, <1>8 DEF ASGap, CacheInv, CacheType, MissPath, Served
<1>9. CASE ASWait
  BY <1>1, <1>2, <1>3, <1>4, <1>9 DEF ASWait, CacheInv, Ready, MissPath, Served
<1>10. CASE AWalkRead
  BY <1>1, <1>2, <1>3, <1>4, <1>10 DEF AWalkRead, CacheInv
<1>11. CASE AWalkWay
  BY <1>1, <1>2, <1>3, <1>4, <1>11 DEF AWalkWay, CacheInv, Served
<1>12. CASE AWalkWait
  BY <1>1, <1>2, <1>3, <1>4, <1>12 DEF AWalkWait, CacheInv, Ready, Served
<1>13. CASE AWalkGap
  BY <1>1, <1>2, <1>3, <1>4, <1>13 DEF AWalkGap, CacheInv, CacheType
<1>14. CASE AWalkClear
  BY <1>1, <1>2, <1>3, <1>4, <1>14 DEF AWalkClear, CacheInv
<1> QED BY <1>5, <1>6, <1>7, <1>8, <1>9, <1>10, <1>11, <1>12, <1>13, <1>14
        DEF Cache

\* A reset that orphans a tenure outlasts its drain (KlaussCPU.sv:542-553,
\* mem_read_write.sv:1178-1200).
LEMMA ResetStep ==
  ASSUME IInv, DrainSuffices, Next
  PROVE  ResetInv'
<1> USE LatAssumption, ResetAssumption DEF BusType
<1>1. /\ BusType /\ ResetInv /\ BusInv /\ VgaInv /\ BlitInv /\ CoreInv
      /\ Reset /\ Vga /\ Blit /\ Core /\ Arbiter /\ Ddr
  BY DEF IInv, TypeOK, Next
<1>2. rst' # 0 => CanReset
  BY <1>1 DEF Reset, ResetInv
<1>3. InReset => /\ vst' = "IDLE" /\ bst' = "IDLE" /\ cst' = "IDLE"
                 /\ ~vreq' /\ ~breq' /\ ~creq' /\ ~vdone' /\ ~bdone' /\ ~cdone'
  BY <1>1 DEF Vga, VgaReset, Blit, BlitReset, Core, CoreReset
<1>4. rst' # 0 /\ rst' # ResetLen => InReset
  BY <1>1 DEF Reset, InReset
\* Outside a reset no master stops asking before it says it is done.
<1>5. ~InReset => \A m \in Masters : Req(m) => Req(m)' \/ Done(m)'
  <2> SUFFICES ASSUME ~InReset
               PROVE  /\ vreq => vreq' \/ vdone'
                      /\ breq => breq' \/ bdone'
                      /\ creq => creq' \/ cdone'
    BY DEF Masters, Req, Done
  <2>1. vreq => vreq' \/ vdone'
    BY <1>1, Zenon DEF Vga, VgaIdle, VgaReq, VgaRd, VgaGap, VgaRel, VgaWaitRel, VgaReset
  <2>2. breq => breq' \/ bdone'
    BY <1>1, Zenon DEF Blit, BlitReset, BlitIdle, BlitPix, BlitReq, BlitDrive,
       BlitGap, BlitRel, ChunkEnd, BlitEnd, BlitFinish
  <2>3. creq => creq' \/ cdone'
    BY <1>1, Zenon DEF Core, CoreReset, CoreIdle, CoreReq, CoreDrive, CoreGap, CoreEnd
  <2> QED BY <2>1, <2>2, <2>3
<1>6. grant' # grant /\ grant' # "cache" => Req(grant')
  BY <1>1 DEF Arbiter, GrantVga, GrantBlit, GrantCore, NoGrant, TakeBack,
              KeepTenure, Req
<1>7. grant' = grant /\ grant # "cache" => ~Done(grant)
  BY <1>1 DEF Arbiter, GrantVga, GrantBlit, GrantCore, NoGrant, TakeBack, KeepTenure
<1>8. ASSUME Orphaned'
      PROVE  /\ InReset
             /\ rst = ResetLen => ~Orphaned
             /\ rst # ResetLen => Orphaned /\ orphan # Drain /\ ~Dv(grant)
  <2> PICK m \in Masters : m = grant'
    BY BusTypes DEF IInv, TypeOK, Next
  <2>1. m # "cache" /\ ~Req(m)' /\ ~Done(m)'
    BY <1>8 DEF Orphaned, Req, Done
  <2>2. InReset
    <3> SUFFICES ASSUME ~InReset PROVE FALSE
      OBVIOUS
    <3>1. ~Orphaned
      BY <1>1 DEF ResetInv, InReset
    <3>2. Req(m)
      BY <1>6, <1>7, <2>1, <3>1 DEF Orphaned
    <3> QED BY <1>5, <2>1, <3>2
  <2>3. rst = ResetLen => ~Orphaned
    BY <1>1 DEF ResetInv
  <2>4. ASSUME rst # ResetLen
        PROVE  Orphaned /\ orphan # Drain /\ ~Dv(grant)
    <3>1. ~vreq /\ ~breq /\ ~creq /\ ~vdone /\ ~bdone /\ ~cdone
      BY <1>1, <2>2, <2>4 DEF ResetInv, InReset
    <3>2. grant' = grant
      BY <1>6, <2>1, <3>1 DEF Req, Masters
    <3>3. Orphaned
      BY <2>1, <3>1, <3>2 DEF Orphaned, Req, Done
    <3>4. orphan # Drain
      BY <1>1, <2>1, <3>2, <3>3 DEF Arbiter, GrantVga, GrantBlit, GrantCore,
                                   NoGrant, TakeBack, KeepTenure
    <3> QED BY <1>1, <3>3, <3>4, OrphanQuiet
  <2> QED BY <2>2, <2>3, <2>4
<1>9. Orphaned' => rst' # 0 /\ rst' + orphan' = ResetLen - 1
  <2> SUFFICES ASSUME Orphaned' PROVE rst' # 0 /\ rst' + orphan' = ResetLen - 1
    OBVIOUS
  <2>1. rst > 0 /\ rst' = rst - 1 /\ ResetLen >= Drain + 2
    BY <1>1, <1>8 DEF Reset, InReset, ResetInv, DrainSuffices
  <2>2. CASE rst = ResetLen
    <3>1. orphan' = 0
      BY <1>1, <1>8, <2>2 DEF Arbiter
    <3> QED BY <2>1, <2>2, <3>1
  <2>3. CASE rst # ResetLen
    <3>1. orphan < Drain /\ rst + orphan = ResetLen - 1
      BY <1>1, <1>8, <2>3 DEF ResetInv
    <3>2. orphan' = orphan + 1
      BY <1>1, <1>8, <2>3, <3>1 DEF Arbiter
    <3> QED BY <1>1, <2>1, <3>1, <3>2
  <2> QED BY <2>2, <2>3
<1>10. Orphaned' /\ ctl' = "BUSY" => lat' > orphan'
  <2> SUFFICES ASSUME Orphaned', ctl' = "BUSY" PROVE lat' > orphan'
    OBVIOUS
  <2>1. CASE rst = ResetLen
    <3>1. orphan' = 0
      BY <1>1, <1>8, <2>1 DEF Arbiter
    <3>2. lat' > 0
      BY <1>1 DEF Ddr, CtlIdle, CtlWait, CtlBusy, CtlDone
    <3> QED BY <3>1, <3>2
  <2>2. CASE rst # ResetLen
    <3>1. ctl = "BUSY" /\ lat' = lat + 1
      BY <1>1, <1>8, <2>2 DEF Ddr, CtlIdle, CtlWait, CtlBusy, CtlDone
    <3>2. lat > orphan /\ orphan' = orphan + 1
      BY <1>1, <1>8, <2>2, <3>1 DEF Arbiter, ResetInv
    <3> QED BY <1>1, <3>1, <3>2
  <2> QED BY <2>1, <2>2
<1> QED BY <1>2, <1>3, <1>4, <1>9, <1>10 DEF ResetInv

-----------------------------------------------------------------------------
(* The invariant and what it gives.                                        *)

\* Every step keeps the invariant.
LEMMA NextInv ==
  ASSUME IInv, DrainSuffices, [Next]_vars
  PROVE  IInv'
<1>1. CASE Next
  <2>1. Reset /\ Vga /\ Blit /\ Core /\ Cache /\ Arbiter /\ Ddr /\ History
    BY <1>1 DEF Next
  <2>2. TypeOK'
    BY <2>1, VgaTypes, BlitTypes, CoreTypes, CacheTypes, BusTypes DEF IInv, TypeOK
  <2>3. VgaInv' /\ BlitInv' /\ CoreInv' /\ CacheInv' /\ BusInv'
    BY <2>1, VgaStep, BlitStep, CoreStep, CacheStep, BusStep
  <2>4. ResetInv'
    BY <1>1, ResetStep
  <2> QED BY <2>2, <2>3, <2>4 DEF IInv
<1>2. CASE UNCHANGED vars
  <2> USE <1>2 DEF vars, vgaVars, blitVars, coreVars, cacheVars, busVars
  <2>1. VgaType' BY Zenon DEF IInv, TypeOK, VgaType
  <2>2. BlitType' BY Zenon DEF IInv, TypeOK, BlitType
  <2>3. CoreType' BY Zenon DEF IInv, TypeOK, CoreType
  <2>4. CacheType' BY Zenon DEF IInv, TypeOK, CacheType
  <2>5. BusType' BY Zenon DEF IInv, TypeOK, BusType
  <2>6. VgaInv' BY Zenon DEF IInv, VgaInv, Served
  <2>7. BlitInv' BY Zenon DEF IInv, BlitInv, Served
  <2>8. CoreInv' BY Zenon DEF IInv, CoreInv, Served
  <2>9. CacheInv' BY Zenon DEF IInv, CacheInv, Served
  <2>10. ResetInv' BY Zenon DEF IInv, ResetInv, Orphaned, Req, Done
  <2>11. BusInv' BY Zenon DEF IInv, BusInv
  <2> QED BY <2>1, <2>2, <2>3, <2>4, <2>5, <2>6, <2>7, <2>8, <2>9, <2>10, <2>11
          DEF IInv, TypeOK
<1> QED BY <1>1, <1>2

\* The invariant holds in every reachable state.
THEOREM Invariance ==
  ASSUME DrainSuffices
  PROVE  Spec => []IInv
<1>1. Init => IInv
  BY InitInv
<1>2. IInv /\ [Next]_vars => IInv'
  BY NextInv
<1> QED BY <1>1, <1>2, PTL DEF Spec

\* The registers of the arbiter, the controller and the masters keep their
\* types: no read counter of the scanout underflows, no chunk overruns.
THEOREM Typed ==
  ASSUME DrainSuffices
  PROVE  Spec => []TypeOK
<1>1. IInv => TypeOK
  BY DEF IInv
<1> QED BY <1>1, Invariance, PTL

\* Each master sees only the completions of its own transactions.
THEOREM OwnCompletions ==
  ASSUME DrainSuffices
  PROVE  Spec => []ReadyToOwner
<1>1. IInv => ReadyToOwner
  BY DEF IInv, BusInv, ReadyToOwner
<1> QED BY <1>1, Invariance, PTL

\* No tenure ends under a running transaction.
THEOREM TenuresCover ==
  ASSUME DrainSuffices
  PROVE  Spec => []TenureCoversTransaction
<1>1. IInv => TenureCoversTransaction
  BY DEF IInv, BusInv, TenureCoversTransaction
<1> QED BY <1>1, Invariance, PTL

\* No hand-over leaves a master and the controller waiting for each other.
THEOREM NoneBlocked ==
  ASSUME DrainSuffices
  PROVE  Spec => []NoBlockedCommand
<1>1. IInv => NoBlockedCommand
  <2> SUFFICES ASSUME IInv, ctl = "IDLE", Dv(grant) PROVE ready
    BY DEF NoBlockedCommand
  <2>1. Served
    BY DEF IInv, VgaInv, BlitInv, CoreInv, CacheInv, Dv
  <2> QED BY <2>1 DEF Served
<1> QED BY <1>1, Invariance, PTL

\* No DMA master drives the bus outside its tenure.
THEOREM DrivesInTenure ==
  ASSUME DrainSuffices
  PROVE  Spec => []DriveOnlyInTenure
<1>1. IInv => DriveOnlyInTenure
  BY DEF IInv, VgaInv, BlitInv, CoreInv, DriveOnlyInTenure, Dv, Masters
<1> QED BY <1>1, Invariance, PTL
-----------------------------------------------------------------------------
(* How long a parked miss waits: what it has waited for and what the       *)
(* tenure before it may still do are together one chunk at most.           *)

Longest  == IF BlitChunk > VgaChunk THEN BlitChunk ELSE VgaChunk
InFlight == IF ctl = "BUSY" \/ ready THEN 1 ELSE 0

\* Completions that the master can still have in its tenure; one that a reset
\* has stopped has only the transaction it left behind.
VgaLeft ==
  IF vst \in {"RD", "GAP"} THEN VgaChunk - vchunk
  ELSE IF vst \in {"IDLE", "REQ"} /\ vreq THEN VgaChunk ELSE InFlight

BlitLeft ==
  IF ~breq \/ bdone THEN InFlight
  ELSE IF bst \in {"WF_GAP", "WF_REL", "RD_REL"} THEN BlitChunk - bchunk - 1
  ELSE BlitChunk - bchunk

CoreLeft == IF cst \in {"REQ", "RD", "WR"} THEN 1 ELSE InFlight

Left(m) == IF m = "vga" THEN VgaLeft ELSE IF m = "blit" THEN BlitLeft
           ELSE IF m = "core2" THEN CoreLeft ELSE 0

WaitInv ==
  /\ bst = "IDLE" => ~breq
  /\ cst = "IDLE" => ~creq
  /\ behind + Left(grant) <= Longest

\* The controller ends one transaction at a time, and starts none of its own
\* (ddr2_control.sv:198-373).
LEMMA FlightStep ==
  ASSUME BusType, BusInv, Ddr
  PROVE  /\ InFlight \in {0, 1} /\ InFlight' \in {0, 1}
         /\ ready => InFlight = 1 /\ InFlight' = 0
         /\ ~Dv(grant) => InFlight' = 0 \/ InFlight = 1
<1>1. CASE ctl = "IDLE"
  BY <1>1 DEF BusType, BusInv, Ddr, CtlIdle, CtlWait, CtlBusy, CtlDone, InFlight
<1>2. CASE ctl = "WAIT"
  BY <1>2 DEF BusType, BusInv, Ddr, CtlIdle, CtlWait, CtlBusy, CtlDone, InFlight
<1>3. CASE ctl = "BUSY"
  BY <1>3 DEF BusType, BusInv, Ddr, CtlIdle, CtlWait, CtlBusy, CtlDone, InFlight
<1> QED BY <1>1, <1>2, <1>3 DEF BusType

\* Every completion of the scanout's tenure is one of its chunk
\* (vga_scanout.sv:246-303).
LEMMA VgaLeftStep ==
  ASSUME IInv, DrainSuffices, Vga, Arbiter, Ddr, grant = "vga", grant' = "vga"
  PROVE  VgaLeft' <= VgaLeft /\ (ready => VgaLeft' < VgaLeft)
<1>0. ~InReset => vreq \/ vdone
  BY ResetAssumption
  DEF IInv, TypeOK, BusType, ResetInv, Orphaned, Req, Done, InReset
<1>1. VgaType /\ BusType /\ VgaInv /\ BusInv
  BY DEF IInv, TypeOK
<1>2. /\ InFlight \in {0, 1} /\ InFlight' \in {0, 1}
      /\ ready => InFlight = 1 /\ InFlight' = 0
      /\ ~vdv => InFlight' = 0 \/ InFlight = 1
  BY <1>1, FlightStep DEF Dv
<1>3. ~vdv /\ (vreq \/ vdone) => ~ready /\ InFlight = 0
  BY <1>1 DEF VgaInv, InFlight
<1>4. VgaLeft \in Int /\ InFlight <= VgaLeft /\ (vdv => 1 <= VgaLeft)
  <2>1. CASE vst = "RD"
    BY <1>1, <1>2, <2>1, ChunkAssumption DEF VgaInv, VgaType, VgaLeft
  <2>2. CASE vst # "RD"
    BY <1>1, <1>2, <1>3, <2>2, ChunkAssumption DEF VgaInv, VgaType, VgaLeft
  <2> QED BY <2>1, <2>2
\* A step that ends the tenure, or that only a reset leaves possible.
<1>5. ASSUME VgaLeft' = InFlight'
      PROVE  VgaLeft' <= VgaLeft /\ (ready => VgaLeft' < VgaLeft)
  <2>1. CASE InFlight' = 0
    BY <1>2, <1>4, <1>5, <2>1
  <2>2. CASE InFlight' = 1
    <3>1. ~ready /\ 1 <= VgaLeft
      BY <1>2, <1>4, <2>2
    <3> QED BY <1>5, <2>2, <3>1
  <2> QED BY <1>2, <2>1, <2>2
\* A step between two transactions.
<1>6. ASSUME VgaLeft' = VgaLeft, ~vdv, vreq
      PROVE  VgaLeft' <= VgaLeft /\ (ready => VgaLeft' < VgaLeft)
  BY <1>3, <1>4, <1>6
<1>7. CASE VgaReset
  BY <1>5, <1>7 DEF VgaReset, VgaLeft
<1>8. CASE ~InReset /\ VgaIdle
  BY <1>0, <1>1, <1>6, <1>8 DEF VgaIdle, VgaInv, VgaLeft
<1>9. CASE VgaReq
  <2>1. vreq /\ vreq' /\ vchunk = 0 /\ vchunk' = 0 /\ ~vdv
    BY <1>1, <1>9 DEF VgaReq, VgaInv
  <2>2. VgaLeft = VgaChunk /\ VgaLeft' = VgaChunk
    BY <1>9, <2>1, ChunkAssumption DEF VgaReq, VgaLeft
  <2> QED BY <1>6, <2>1, <2>2
<1>10. CASE VgaRd
  <2>1. ready => VgaLeft' = VgaLeft - 1
    BY <1>1, <1>10, ChunkAssumption DEF VgaRd, Ready, VgaLeft, VgaType
  <2>2. ~ready => VgaLeft' = VgaLeft
    BY <1>10 DEF VgaRd, Ready, VgaLeft
  <2> QED BY <1>4, <2>1, <2>2
<1>11. CASE VgaGap
  <2>1. ~vdv /\ vreq
    BY <1>1, <1>11 DEF VgaGap, VgaInv
  <2>2. VgaLeft' = VgaLeft \/ VgaLeft' = InFlight'
    BY <1>11 DEF VgaGap, VgaLeft
  <2> QED BY <1>5, <1>6, <2>1, <2>2
<1>12. CASE VgaRel \/ VgaWaitRel
  BY <1>5, <1>12 DEF VgaRel, VgaWaitRel, VgaLeft
<1> QED BY <1>7, <1>8, <1>9, <1>10, <1>11, <1>12 DEF Vga

\* Every completion of the blitter's tenure is one of its chunk
\* (blitter_dma.sv:577-673).
LEMMA BlitLeftStep ==
  ASSUME IInv, WaitInv, DrainSuffices, Blit, Arbiter, Ddr,
         grant = "blit", grant' = "blit"
  PROVE  BlitLeft' <= BlitLeft /\ (ready => BlitLeft' < BlitLeft)
<1>0. ~InReset => breq \/ bdone
  BY ResetAssumption
  DEF IInv, TypeOK, BusType, ResetInv, Orphaned, Req, Done, InReset
<1>1. BlitType /\ BusType /\ BlitInv /\ BusInv
  BY DEF IInv, TypeOK
<1>2. /\ InFlight \in {0, 1} /\ InFlight' \in {0, 1}
      /\ ready => InFlight = 1 /\ InFlight' = 0
      /\ ~bdv => InFlight' = 0 \/ InFlight = 1
  BY <1>1, FlightStep DEF Dv
<1>3. ~bdv /\ (breq \/ bdone) => ~ready /\ InFlight = 0
  BY <1>1 DEF BlitInv, InFlight
<1>4. BlitLeft \in Int /\ InFlight <= BlitLeft /\ (bdv => 1 <= BlitLeft)
  <2>1. CASE bdv
    BY <1>1, <1>2, <2>1, ChunkAssumption DEF BlitInv, BlitType, BlitLeft
  <2>2. CASE ~bdv
    BY <1>1, <1>2, <1>3, <2>2, ChunkAssumption DEF BlitInv, BlitType, BlitLeft
  <2> QED BY <2>1, <2>2
\* A step that ends the tenure, or that only a reset leaves possible.
<1>5. ASSUME BlitLeft' = InFlight'
      PROVE  BlitLeft' <= BlitLeft /\ (ready => BlitLeft' < BlitLeft)
  <2>1. CASE InFlight' = 0
    BY <1>2, <1>4, <1>5, <2>1
  <2>2. CASE InFlight' = 1
    <3>1. ~ready /\ 1 <= BlitLeft
      BY <1>2, <1>4, <2>2
    <3> QED BY <1>5, <2>2, <3>1
  <2> QED BY <1>2, <2>1, <2>2
\* A step between two transactions.
<1>6. ASSUME BlitLeft' = BlitLeft, ~bdv, breq
      PROVE  BlitLeft' <= BlitLeft /\ (ready => BlitLeft' < BlitLeft)
  BY <1>3, <1>4, <1>6
<1>7. ~bdone
  BY DEF Arbiter, GrantVga, GrantBlit, GrantCore, NoGrant, TakeBack, KeepTenure, Done
<1>8. CASE ~breq' \/ bdone'
  BY <1>5, <1>8 DEF BlitLeft
<1>9. CASE breq' /\ ~bdone'
  <2>1. ~InReset /\ breq
    BY <1>0, <1>7, <1>9 DEF Blit, BlitReset
  <2>2. bst # "IDLE"
    BY <2>1 DEF WaitInv
  <2>3. CASE BlitPix \/ BlitEnd \/ BlitGap
    <3>1. ~bdv /\ BlitLeft' = BlitLeft
      BY <1>1, <1>7, <1>9, <2>1, <2>3 DEF BlitPix, BlitEnd, BlitGap, BlitLeft, BlitInv
    <3> QED BY <1>6, <2>1, <3>1
  <2>4. CASE BlitReq("WF_REQ", "WF_DRIVE") \/ BlitReq("RD_REQ", "RD_DRIVE")
    <3>1. ~bdv /\ BlitLeft' = BlitLeft
      BY <1>1, <1>7, <1>9, <2>1, <2>4 DEF BlitReq, BlitLeft, BlitInv
    <3> QED BY <1>6, <2>1, <3>1
  <2>5. CASE BlitDrive("WF_DRIVE", "WF_GAP") \/ BlitDrive("RD_DRIVE", "RD_REL")
    <3>1. ready => BlitLeft' = BlitLeft - 1
      BY <1>7, <1>9, <2>1, <2>5 DEF BlitDrive, Ready, BlitLeft
    <3>2. ~ready => BlitLeft' = BlitLeft
      BY <1>7, <1>9, <2>1, <2>5 DEF BlitDrive, Ready, BlitLeft
    <3> QED BY <1>4, <3>1, <3>2
  <2>6. CASE BlitRel
    <3>1. bst \in {"WF_REL", "RD_REL"} /\ bst' = "PIX" /\ bchunk' = bchunk + 1
      BY <1>9, <2>6 DEF BlitRel, ChunkEnd
    <3>2. ~bdv
      BY <1>1, <3>1 DEF BlitInv
    <3>3. BlitLeft = BlitChunk - bchunk - 1 /\ BlitLeft' = BlitChunk - (bchunk + 1)
      BY <1>7, <1>9, <2>1, <3>1 DEF BlitLeft
    <3>4. BlitLeft' = BlitLeft
      BY <1>1, <3>3, ChunkAssumption DEF BlitType
    <3> QED BY <1>6, <2>1, <3>2, <3>4
  <2> QED BY <1>9, <2>1, <2>2, <2>3, <2>4, <2>5, <2>6
          DEF Blit, BlitReset, BlitIdle, BlitFinish
<1> QED BY <1>8, <1>9

\* Core 2's adapter has one transaction in a tenure (core2_subsys.sv:411-462).
LEMMA CoreLeftStep ==
  ASSUME IInv, WaitInv, DrainSuffices, Core, Arbiter, Ddr,
         grant = "core2", grant' = "core2"
  PROVE  CoreLeft' <= CoreLeft /\ (ready => CoreLeft' < CoreLeft)
<1>0. ~InReset => creq \/ cdone
  BY ResetAssumption
  DEF IInv, TypeOK, BusType, ResetInv, Orphaned, Req, Done, InReset
<1>1. CoreType /\ BusType /\ CoreInv /\ BusInv
  BY DEF IInv, TypeOK
<1>2. /\ InFlight \in {0, 1} /\ InFlight' \in {0, 1}
      /\ ready => InFlight = 1 /\ InFlight' = 0
      /\ ~cdv => InFlight' = 0 \/ InFlight = 1
  BY <1>1, FlightStep DEF Dv
<1>3. ~cdv /\ (creq \/ cdone) => ~ready /\ InFlight = 0
  BY <1>1 DEF CoreInv, InFlight
<1>4. CoreLeft \in Int /\ InFlight <= CoreLeft /\ (cdv => 1 <= CoreLeft)
  BY <1>1, <1>2 DEF CoreInv, CoreLeft
<1>5. ASSUME CoreLeft' = InFlight'
      PROVE  CoreLeft' <= CoreLeft /\ (ready => CoreLeft' < CoreLeft)
  <2>1. CASE InFlight' = 0
    BY <1>2, <1>4, <1>5, <2>1
  <2>2. CASE InFlight' = 1
    <3>1. ~ready /\ 1 <= CoreLeft
      BY <1>2, <1>4, <2>2
    <3> QED BY <1>5, <2>2, <3>1
  <2> QED BY <1>2, <2>1, <2>2
<1>6. ~cdone
  BY DEF Arbiter, GrantVga, GrantBlit, GrantCore, NoGrant, TakeBack, KeepTenure, Done
<1>7. CASE CoreReset
  BY <1>5, <1>7 DEF CoreReset, CoreLeft
<1>8. CASE ~InReset /\ CoreIdle
  BY <1>0, <1>6, <1>8 DEF CoreIdle, WaitInv
<1>9. CASE CoreReq
  <2>1. ~cdv /\ creq /\ CoreLeft = 1 /\ CoreLeft' = 1
    BY <1>1, <1>9 DEF CoreReq, CoreInv, CoreLeft
  <2> QED BY <1>3, <2>1
<1>10. CASE CoreDrive /\ ~ready
  <2>1. CoreLeft' = CoreLeft
    BY <1>10 DEF CoreDrive, Ready, CoreLeft
  <2> QED BY <1>4, <1>10, <2>1
<1>11. CASE (CoreDrive /\ ready) \/ CoreGap
  BY <1>5, <1>11 DEF CoreDrive, CoreGap, CoreEnd, Ready, CoreLeft
<1> QED BY <1>7, <1>8, <1>9, <1>10, <1>11 DEF Core

\* What is left of a tenure is between nothing and the longest chunk.
LEMMA LeftBound ==
  ASSUME IInv
  PROVE  Left(grant) \in Nat /\ Left(grant) <= Longest /\ Longest \in Nat
<1>1. InFlight \in {0, 1}
  BY DEF InFlight
<1>2. VgaLeft \in Nat /\ VgaLeft <= VgaChunk
  BY <1>1, ChunkAssumption DEF IInv, TypeOK, VgaType, VgaLeft
<1>3. BlitLeft \in Nat /\ BlitLeft <= BlitChunk
  BY <1>1, ChunkAssumption DEF IInv, TypeOK, BlitType, BlitLeft
<1>4. CoreLeft \in Nat /\ CoreLeft <= 1
  BY <1>1 DEF CoreLeft
<1> QED BY <1>2, <1>3, <1>4, ChunkAssumption DEF Left, Longest

\* A completion on the bus of a DMA master is one of those left to it.
LEMMA ReadyLeft ==
  ASSUME IInv, ready, grant # "cache"
  PROVE  1 <= Left(grant)
<1>1. InFlight = 1
  BY DEF InFlight
<1>2. CASE grant = "vga"
  BY <1>1, <1>2, ChunkAssumption DEF IInv, TypeOK, VgaType, VgaInv, Left, VgaLeft
<1>3. CASE grant = "blit"
  BY <1>1, <1>3, ChunkAssumption DEF IInv, TypeOK, BlitType, BlitInv, Left, BlitLeft
<1>4. CASE grant = "core2"
  BY <1>1, <1>4 DEF Left, CoreLeft
<1> QED BY <1>2, <1>3, <1>4 DEF IInv, TypeOK, BusType, Masters

\* Every step keeps what a miss has waited for, and has still to wait for,
\* within one chunk.  A tenure starts only when no miss is parked
\* (mem_read_write.sv:1131-1150, 1170-1196).
LEMMA WaitStep ==
  ASSUME IInv, IInv', WaitInv, DrainSuffices, [Next]_vars
  PROVE  WaitInv'
<1>1. CASE Next
  <2>1. Vga /\ Blit /\ Core /\ Arbiter /\ Ddr /\ History
    BY <1>1 DEF Next
  <2>2. bst' = "IDLE" => ~breq'
    BY <2>1 DEF WaitInv, Blit, BlitReset, BlitIdle, BlitPix, BlitReq, BlitDrive,
                BlitGap, BlitRel, BlitEnd, BlitFinish
  <2>3. cst' = "IDLE" => ~creq'
    BY <2>1 DEF WaitInv, Core, CoreReset, CoreIdle, CoreReq, CoreDrive, CoreGap,
                CoreEnd
  <2>4. behind \in Nat /\ behind' \in Nat
    BY DEF IInv, TypeOK, BusType
  <2>5. Longest \in Nat
    BY LeftBound
  <2>6. PICK left \in Nat : left = Left(grant) /\ behind + left <= Longest
    BY LeftBound DEF WaitInv
  <2>7. PICK rest \in Nat : rest = Left(grant)' /\ rest <= Longest
    <3>1. (Left(grant) \in Nat /\ Left(grant) <= Longest)'
      BY LeftBound, PTL
    <3> QED BY <3>1
  <2>8. behind' + rest <= Longest
    <3>1. CASE grant = "cache" /\ grant' = "cache"
      <4>1. behind' <= behind /\ rest <= 0
        BY <2>1, <2>4, <2>7, <3>1 DEF History, Left
      <4> QED BY <2>4, <2>5, <2>6, <2>7, <4>1
    <3>2. CASE grant = "cache" /\ grant' # "cache"
      <4>1. ast \notin MissPath
        BY <2>1, <3>2 DEF Arbiter, GrantVga, GrantBlit, GrantCore, NoGrant,
                          TakeBack, VgaGate, DmaGate, KeepTenure
      <4>2. behind' = 0
        BY <2>1, <4>1 DEF History, MissPath
      <4> QED BY <2>5, <2>7, <4>2
    <3>3. CASE grant # "cache" /\ grant' # grant
      <4>1. rest <= 0
        BY <2>1, <2>7, <3>3 DEF Arbiter, GrantVga, GrantBlit, GrantCore, NoGrant,
                               TakeBack, KeepTenure, Left
      <4>2. ready => 1 <= left
        BY <2>6, <3>3, ReadyLeft
      <4>3. behind' <= behind + (IF ready THEN 1 ELSE 0)
        BY <2>1, <2>4 DEF History
      <4> QED BY <2>4, <2>5, <2>6, <2>7, <4>1, <4>2, <4>3
    <3>4. CASE grant # "cache" /\ grant' = grant
      <4>1. rest <= left /\ (ready => rest < left)
        BY <2>1, <2>7, <2>6, <3>4, VgaLeftStep, BlitLeftStep, CoreLeftStep
        DEF Left, IInv, TypeOK, BusType, Masters
      <4>2. behind' <= behind + (IF ready THEN 1 ELSE 0)
        BY <2>1, <2>4 DEF History
      <4> QED BY <2>4, <2>5, <2>7, <2>6, <4>1, <4>2
    <3> QED BY <3>1, <3>2, <3>3, <3>4
  <2> QED BY <2>2, <2>3, <2>7, <2>8 DEF WaitInv
<1>2. CASE UNCHANGED vars
  BY <1>2 DEF vars, vgaVars, blitVars, coreVars, busVars, WaitInv, Left, VgaLeft,
              BlitLeft, CoreLeft, InFlight
<1> QED BY <1>1, <1>2

\* A miss waits for what is left of one tenure at most, whatever the other
\* masters ask for meanwhile, if there is no reset or the reset's drain outlasts
\* a transaction (mem_read_write.sv:1131-1150).
THEOREM OneTenureAtMost ==
  ASSUME DrainSuffices
  PROVE  Spec => []MissBehindOneTenure
<1>1. Init => WaitInv
  BY ChunkAssumption DEF Init, WaitInv, Left, Longest
<1>2. IInv /\ IInv' /\ WaitInv /\ [Next]_vars => WaitInv'
  BY WaitStep
<1>3. IInv /\ WaitInv => MissBehindOneTenure
  <2> SUFFICES ASSUME IInv, WaitInv PROVE MissBehindOneTenure
    OBVIOUS
  <2>1. behind \in Nat /\ Left(grant) \in Nat /\ Longest \in Nat
    BY LeftBound DEF IInv, TypeOK, BusType
  <2>2. behind <= Longest
    BY <2>1 DEF WaitInv
  <2> QED BY <2>2 DEF Longest, MissBehindOneTenure
<1> QED BY <1>1, <1>2, <1>3, Invariance, PTL DEF Spec
=============================================================================
