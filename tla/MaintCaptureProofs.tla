------------------------- MODULE MaintCaptureProofs -------------------------
(***************************************************************************)
(* Proofs about MaintCapture: a strobe of two clocks or more is never      *)
(* lost, however its rise meets the walk that is starting.                 *)
(***************************************************************************)
EXTENDS MaintCapture, TLAPS

\* What NoRequestLost needs: a request that the starting walk does not cover
\* rose with the walk, so its strobe is still up when pending would be cleared.
IInv ==
  /\ TypeOK
  /\ NoRequestLost
  /\ goAge = 0 <=> go = {}
  /\ active => state = "MAINT"
  /\ active /\ ~activeD /\ owed # {} => goAge >= 2

-----------------------------------------------------------------------------
\* The invariant holds initially.
LEMMA InitInv == Init => IInv
<1> SUFFICES ASSUME Init PROVE IInv
  OBVIOUS
<1>1. pending \in BOOLEAN /\ active \in BOOLEAN /\ activeD \in BOOLEAN
  BY Zenon DEF Init, TypeOK
<1>2. TypeOK
  BY <1>1, GoHoldAssumption DEF Init, TypeOK, Kinds
<1> QED BY <1>2 DEF Init, IInv, NoRequestLost

\* The strobe, the registers and the FSM keep their types
\* (mem_read_write.sv:257-278, 639-650).
LEMMA Types ==
  ASSUME TypeOK, Next
  PROVE  TypeOK'
<1>1. pending' \in BOOLEAN /\ active' \in BOOLEAN /\ activeD' \in BOOLEAN
  BY Zenon DEF TypeOK, Next, Register, Capture, Consume, KeepRequest, Fsm,
               StartWalk, Idle, Access, Serve, Walk, EndWalk
<1>2. go' \in SUBSET Kinds /\ goAge' \in 0 .. GoHold
  BY GoHoldAssumption DEF TypeOK, Next, Strobe, RaiseGo, HoldGo, DropGo, QuietGo
<1>3. mode' \in Kinds
  BY DEF TypeOK, Next, Register, Capture, Consume, KeepRequest, Kinds
<1>4. walkMode' \in Kinds /\ state' \in {"WAIT", "BUSY", "MAINT"}
  BY DEF TypeOK, Next, Fsm, StartWalk, Idle, Access, Serve, Walk, EndWalk
<1>5. owed' \in SUBSET Kinds
  BY DEF TypeOK, Next, Fsm, Requested, Covered
<1> QED BY <1>1, <1>2, <1>3, <1>4, <1>5 DEF TypeOK

\* Whatever is still owed after a clock was owed before it or rose with it.
LEMMA OwedStep ==
  ASSUME Fsm
  PROVE  owed' \subseteq owed \cup Requested
BY DEF Fsm

\* A walk that starts leaves nothing owed but an INVALIDATE whose strobe is in
\* its first clock (mem_read_write.sv:642-650).
LEMMA StartStep ==
  ASSUME IInv, StartWalk, owed' = (owed \cup Requested) \ Covered, owed' # {}
  PROVE  goAge = 1
<1>1. mode # "INVALIDATE"
  BY DEF IInv, TypeOK, Covered, Requested
<1>2. "INVALIDATE" \in owed \cup Requested
  BY <1>1 DEF IInv, TypeOK, Covered, Requested, Kinds
<1> QED BY <1>1, <1>2 DEF IInv, NoRequestLost, Requested

\* No clock loses a request: Capture overrides the clear, and when the clear
\* happens nothing is owed (mem_read_write.sv:265-278).
LEMMA KeptStep ==
  ASSUME IInv, Next
  PROVE  NoRequestLost'
<1>1. owed' \subseteq owed \cup Requested
  BY OwedStep DEF Next
<1>2. CASE Capture
  <2>1. owed' # {} => pending'
    BY <1>2 DEF Capture
  <2>2. "INVALIDATE" \in owed' => "INVALIDATE" \in go \/ "INVALIDATE" \in owed
    BY <1>1 DEF Requested
  <2> QED BY <1>2, <2>1, <2>2 DEF Capture, IInv, NoRequestLost
<1>3. CASE Consume
  <2>1. owed = {} /\ Requested = {}
    BY <1>3 DEF Consume, IInv, Requested
  <2> QED BY <1>1, <2>1 DEF NoRequestLost
<1>4. CASE KeepRequest
  <2>1. Requested = {}
    BY <1>4 DEF KeepRequest, IInv, Requested
  <2> QED BY <1>1, <1>4, <2>1 DEF KeepRequest, IInv, NoRequestLost
<1> QED BY <1>2, <1>3, <1>4 DEF Next, Register

\* Every step keeps the invariant.
LEMMA NextInv ==
  ASSUME IInv, GoHold >= 2, [Next]_vars
  PROVE  IInv'
<1>1. CASE Next
  <2>1. TypeOK' /\ NoRequestLost'
    BY <1>1, Types, KeptStep DEF IInv
  <2>2. goAge' = 0 <=> go' = {}
    BY <1>1 DEF IInv, TypeOK, Next, Strobe, RaiseGo, HoldGo, DropGo, QuietGo
  <2>3. active' => state' = "MAINT"
    BY <1>1 DEF IInv, Next, Fsm, StartWalk, Idle, Access, Serve, Walk, EndWalk
  <2>4. ASSUME active', ~activeD', owed' # {}
        PROVE  goAge' >= 2
    <3>1. StartWalk /\ owed' = (owed \cup Requested) \ Covered
      BY <1>1, <2>4 DEF IInv, Next, Register, Fsm, Idle, Access, Serve, Walk, EndWalk
    <3>2. goAge = 1
      BY <2>4, <3>1, StartStep
    <3> QED BY <1>1, <3>2, GoHoldAssumption
            DEF IInv, Next, Strobe, RaiseGo, HoldGo, DropGo, QuietGo
  <2> QED BY <2>1, <2>2, <2>3, <2>4 DEF IInv
<1>2. CASE UNCHANGED vars
  BY <1>2, Zenon DEF vars, IInv, TypeOK, NoRequestLost
<1> QED BY <1>1, <1>2

\* With a strobe of at least two clocks, and the SoC's is four, every request
\* stays scheduled, in a mode that covers it, until a walk takes it up.
THEOREM RequestsKept ==
  ASSUME GoHold >= 2
  PROVE  Safety => []NoRequestLost
<1>1. Init => IInv
  BY InitInv
<1>2. IInv /\ [Next]_vars => IInv'
  BY NextInv
<1>3. IInv => NoRequestLost
  BY DEF IInv
<1> QED BY <1>1, <1>2, <1>3, PTL DEF Safety
=============================================================================
