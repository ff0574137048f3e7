---------------------------- MODULE CacheControl ----------------------------
(***************************************************************************)
(* The core's port with what a store to one device starts: CACHE_CTRL,     *)
(* whose strobe is the store's own DV (KlaussCPU.sv:361-373), and the      *)
(* maintenance request it raises in mem_read_write.sv.  MaintCapture takes *)
(* the length of the strobe as a constant; here the port drives it, and    *)
(* DrivesStrobe says that it drives one of that length.                    *)
(*                                                                         *)
(* The FSM of MaintCapture and the cache of CorePort are the same circuit; *)
(* they are not tied together, so that the FSM may serve, idle or walk     *)
(* beside any state of the port.                                           *)
(***************************************************************************)
EXTENDS CorePort, MaintCaptureProofs

CONSTANT CtlPrograms  \* bound: the programs for which Dev is CACHE_CTRL

Maintains == prog \in CtlPrograms

allVars == <<coreVars, vars>>

CtlInit == PortInit /\ Init

\* What the data on the port asks CACHE_CTRL for, by its bits 1 and 2.
Asks(v) == IF v = Val0 THEN {{"FLUSH"}} ELSE {{"INVALIDATE"}, Kinds}

PortStrobe ==
  IF port'.dv = "write" /\ port'.at = Dev
  THEN /\ go' \in (IF go # {} /\ port' = port THEN {go} ELSE Asks(port'.v))
       /\ goAge' = IF go = {} THEN 1 ELSE goAge + 1
  ELSE go' = {} /\ goAge' = 0

CtlNext ==
  /\ PortNext
  /\ \/ Maintains /\ PortStrobe /\ Register /\ Fsm
     \/ ~Maintains /\ UNCHANGED vars

CtlSpec == CtlInit /\ [][CtlNext]_allVars /\ WF_allVars(CtlNext) /\ PortFairness

\* The strobe of a store to CACHE_CTRL is one MaintCapture assumes: it stays up
\* for GoHold clocks, and falls before the next store's rises, whatever is on
\* the port before and behind it (KlaussCPU.sv:466-487, MaintCapture!Strobe).
DrivesStrobe == [][Strobe]_<<go, goAge>>

=============================================================================
