---------------------------- MODULE MaintCapture ----------------------------
(***************************************************************************)
(* Capture of cache-maintenance requests (mem_read_write.sv).  The CPU     *)
(* writes CACHE_CTRL; the strobe raises a sticky pending flag and a mode;  *)
(* the cache FSM consumes the request when it is idle (WAIT), freezes the  *)
(* mode for the walk and walks every set (MAINT).                          *)
(*                                                                         *)
(* One step of Next is one rising edge of i_Clk: the strobe, the capture   *)
(* registers and the FSM all move together, each reading the values of     *)
(* the clock that ends.                                                    *)
(***************************************************************************)
EXTENDS Naturals

CONSTANT GoHold    \* clocks one CACHE_CTRL strobe stays up

ASSUME GoHoldAssumption == GoHold \in Nat \ {0}

VARIABLES
  go,        \* requests whose strobe is up: i_flush_go, i_inval_go
  goAge,     \* clocks the strobe has been up
  pending,   \* r_mnt_pending
  mode,      \* r_mnt_mode
  active,    \* r_mnt_active
  activeD,   \* r_mnt_active_d
  walkMode,  \* r_mnt_walk_mode
  state,     \* the FSM: WAIT, BUSY (serving an access) or MAINT
  owed       \* history: requests that no walk has taken up yet

vars == <<go, goAge, pending, mode, active, activeD, walkMode, state, owed>>

Kinds == {"FLUSH", "INVALIDATE"}

TypeOK ==
  /\ go \in SUBSET Kinds /\ goAge \in 0 .. GoHold
  /\ pending \in BOOLEAN /\ mode \in Kinds
  /\ active \in BOOLEAN /\ activeD \in BOOLEAN /\ walkMode \in Kinds
  /\ state \in {"WAIT", "BUSY", "MAINT"}
  /\ owed \in SUBSET Kinds

Init ==
  /\ go = {} /\ goAge = 0
  /\ pending = FALSE /\ mode = "FLUSH" /\ active = FALSE /\ activeD = FALSE
  /\ walkMode = "FLUSH" /\ state = "WAIT"
  /\ owed = {}

-----------------------------------------------------------------------------
(* The strobe: CACHE_CTRL write data bits 1 and 2 while w_mmio_write_DV.   *)

RaiseGo == go = {} /\ go' \in (SUBSET Kinds) \ {{}} /\ goAge' = 1
HoldGo  == go # {} /\ goAge < GoHold /\ go' = go /\ goAge' = goAge + 1
DropGo  == go # {} /\ goAge = GoHold /\ go' = {} /\ goAge' = 0
QuietGo == go = {} /\ go' = {} /\ goAge' = 0

-----------------------------------------------------------------------------
(* The capture registers.                                                  *)

\* Mutant of Capture: a later FLUSH downgrades a pending INVALIDATE.
CaptureDowngrade ==
  /\ go # {} /\ pending' = TRUE
  /\ mode' = IF "INVALIDATE" \in go THEN "INVALIDATE" ELSE "FLUSH"

\* A strobe sets pending, also in the clock that would clear it; INVALIDATE
\* wins over FLUSH and over a FLUSH that follows it.
Capture ==
  /\ go # {}
  /\ pending' = TRUE
  /\ mode' = IF "INVALIDATE" \in go \/ (pending /\ mode = "INVALIDATE")
             THEN "INVALIDATE" ELSE "FLUSH"

\* The first clock of a walk clears the request that started it.
Consume == go = {} /\ active /\ ~activeD /\ pending' = FALSE /\ mode' = mode

KeepRequest == go = {} /\ ~(active /\ ~activeD) /\ UNCHANGED <<pending, mode>>

-----------------------------------------------------------------------------
(* The FSM, as far as it touches the request.                              *)

\* WAIT prefers a pending request to a CPU access.
StartWalk ==
  /\ state = "WAIT" /\ pending
  /\ state' = "MAINT" /\ active' = TRUE /\ walkMode' = mode

Idle ==
  /\ state = "WAIT" /\ ~pending /\ state' = "WAIT"
  /\ UNCHANGED <<active, walkMode>>

Access ==
  /\ state = "WAIT" /\ ~pending /\ state' = "BUSY"
  /\ UNCHANGED <<active, walkMode>>

Serve ==
  /\ state = "BUSY" /\ state' \in {"BUSY", "WAIT"}
  /\ UNCHANGED <<active, walkMode>>

Walk ==
  /\ state = "MAINT" /\ state' = "MAINT"
  /\ UNCHANGED <<active, walkMode>>

EndWalk ==
  /\ state = "MAINT"
  /\ state' = "WAIT" /\ active' = FALSE
  /\ UNCHANGED walkMode

-----------------------------------------------------------------------------
\* History: a request is owed from the end of its strobe's first clock until
\* a walk starts in a mode that covers it.  An INVALIDATE walk flushes too.
Requested == IF goAge = 1 THEN go ELSE {}
Covered   == IF mode = "INVALIDATE" THEN Kinds ELSE {"FLUSH"}

Strobe   == RaiseGo \/ HoldGo \/ DropGo \/ QuietGo
Register == (Capture \/ Consume \/ KeepRequest) /\ activeD' = active
Fsm ==
  \/ StartWalk /\ owed' = (owed \cup Requested) \ Covered
  \/ (Idle \/ Access \/ Serve \/ Walk \/ EndWalk)
       /\ owed' = owed \cup Requested

Next == Strobe /\ Register /\ Fsm

Safety == Init /\ [][Next]_vars

-----------------------------------------------------------------------------
\* Every request that no walk has taken up is still scheduled, in a mode that
\* covers it: neither the clear at the start of a walk nor a later FLUSH may
\* drop or downgrade it (mem_read_write.sv:245-278).
NoRequestLost ==
  /\ owed # {} => pending
  /\ "INVALIDATE" \in owed => mode = "INVALIDATE"

=============================================================================
