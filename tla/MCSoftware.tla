----------------------------- MODULE MCSoftware -----------------------------
(***************************************************************************)
(* The programs of the board gates and the three host-side tools, one at a *)
(* time: `tool` says which of them this behaviour is about, the variables  *)
(* of the others stay as they are.                                         *)
(***************************************************************************)
EXTENDS BoardProgs, HazProbe, VncSession, Vsim

VARIABLE tool

softVars == <<tool, vars, probeVars, vncVars, vsimVars>>

\* Programs that run on the board after each other.
Board(A) == tool = "board" /\ A /\ UNCHANGED <<tool, probeVars, vncVars, vsimVars>>

\* The hazard probe.
Probe(A) == tool = "probe" /\ A /\ UNCHANGED <<tool, vars, vncVars, vsimVars>>

\* The VNC viewer beside a key press in an 8-bit session, with hextile from a
\* version 3.3 server, asking for full frames, refused; and the VNC probe.
Meets(client, format, hextile, full, second, minor, auth, keys) ==
  [client |-> client, fmt |-> format, hextile |-> hextile, full |-> full,
   core2 |-> second, minor |-> minor, auth |-> auth, keys |-> keys]
SetupsDef ==
  {Meets("viewer", "auto",   FALSE, FALSE, TRUE,  8, FALSE, 1),
   Meets("viewer", "auto",   TRUE,  FALSE, FALSE, 3, FALSE, 0),
   Meets("viewer", "rgb565", FALSE, TRUE,  TRUE,  8, FALSE, 1),
   Meets("viewer", "rgb565", FALSE, TRUE,  TRUE,  8, TRUE,  0),
   Meets("probe",  "8bit",   TRUE,  FALSE, TRUE,  8, FALSE, 0)}
Vnc(A) == tool = "vnc" /\ A /\ UNCHANGED <<tool, vars, probeVars, vsimVars>>

\* Versions of the core: the base, one that differs in the second program's
\* trace and fails an assertion in the first, one that does not compile.
Done(steps, state, why) == [trace |-> steps, final |-> state, end |-> why]
DoesDef == <<<<Done(1, 1, "park"),  Done(1, 1, "park")>>,
             <<Done(1, 2, "fatal"), Done(2, 1, "park")>>,
             <<Done(1, 1, "park"),  Done(1, 1, "park")>>>>
BaseSourceDef == [rtl |-> 1, tb |-> 1]
ExpectedDef   == <<1, 1>>
Give(command, n) == [cmd |-> command, seeds |-> n]
PlansDef ==
  {<<Give("test", 2), Give("test", 2), Give("test", 2)>>, <<Give("irq", 1), Give("diff", 1)>>,
   <<Give("diff", 2)>>, <<Give("socdiff", 2), Give("socdiff", 2)>>}
Simulations(A) == tool = "vsim" /\ A /\ UNCHANGED <<tool, vars, probeVars, vncVars>>

\* Of what is not at work one initial state is enough.
SoftInit == /\ tool \in {"board", "probe", "vnc", "vsim"}
            /\ Init /\ ProbeInit /\ SessionInit /\ VsimInit
            /\ tool # "board" => cache = [a \in Addr |-> Free]
            /\ tool # "vnc" => setup = CHOOSE s \in Setups : TRUE
            /\ tool # "vsim" => plan = CHOOSE p \in Plans : TRUE

SoftNext == \/ Board(Next) \/ Probe(ProbeNext) \/ Vnc(SessionNext)
            \/ Simulations(VsimNext)

\* The fairness of BoardProgs and of VncSession; the others have none.
SoftSpec == /\ SoftInit /\ [][SoftNext]_softVars
            /\ WF_softVars(Board(Core1)) /\ WF_softVars(Board(WalkLine))
            /\ WF_softVars(Board(Execute))
            /\ WF_softVars(Vnc(ServerWorks)) /\ WF_softVars(Vnc(Handshake))
            /\ WF_softVars(Vnc(Reader)) /\ WF_softVars(Vnc(Tk))
=============================================================================
