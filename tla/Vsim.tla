-------------------------------- MODULE Vsim --------------------------------
(***************************************************************************)
(* tools/vsim/run.py: it builds a simulator of a revision or of the        *)
(* working tree, or takes the one an earlier invocation left, runs         *)
(* programs on it and says what came of them.  What invocations leave each *)
(* other are files: the executable and its stamp in a directory per        *)
(* revision, the final state (.out) and the retire trace of each run.      *)
(* Meanwhile the user edits the working tree, and an invocation can be     *)
(* killed at any point.                                                    *)
(*                                                                         *)
(* A source is [rtl, tb]: a version of the core and one of its test bench. *)
(***************************************************************************)
EXTENDS Integers, Sequences

CONSTANTS
  Rtl, Benches,   \* bound: the versions there are of either
  BaseSource,     \* what --base names
  NoCompile,      \* the versions of the core that do not compile
  Does,           \* what a version does with the program of a seed
  Seeds,          \* bound: programs and tests there are, numbered from 1
  ExpectedState,  \* the final state the test of a seed expects
  Plans,          \* bound: the commands given one after the other: [cmd, seeds]
  Edits           \* bound: edits of the working tree

Sources == [rtl : Rtl, tb : Benches]

ASSUME VsimAssumption ==
  /\ Rtl \subseteq Nat \ {0} /\ BaseSource \in Sources /\ NoCompile \subseteq Rtl
  /\ Seeds \in Nat \ {0} /\ Edits \in Nat
  /\ Plans \subseteq Seq([cmd : {"test", "diff", "irq", "socdiff"}, seeds : 1 .. Seeds])
  /\ \A r \in Rtl, s \in 1 .. Seeds :
       Does[r][s].end \in {"park", "timeout", "fatal"} /\ {"trace", "final"} \subseteq DOMAIN Does[r][s]

VARIABLES
  tree, edits,     \* the working tree
  dir,             \* the build directories: [exe, stamp]
  torn,            \* history: exe is not what the stamp was written for
  out, trace,      \* the files of the runs
  plan, proc,      \* the commands to come, the invocation there is
  verdict          \* the last thing it said

vsimVars == <<tree, edits, dir, torn, out, trace, plan, proc, verdict>>

NoExe    == [rtl |-> 0, tb |-> 0]
CutExe   == [rtl |-> -1, tb |-> 0]         \* its linker died
NoTrace  == <<>>
CutTrace == <<0>>                         \* its simulator died
NoOut    == [end |-> "none", final |-> 0]
Trees    == {"base", "wt"}
Dirs     == {"build", "soc"} \X Trees
Runs     == {"test", "diff", "socdiff"} \X Trees \X (1 .. Seeds)
Off      == [pc |-> "off"]
Unsaid   == [says |-> "none"]

VsimInit ==
  /\ tree = BaseSource /\ edits = 0
  /\ dir = [d \in Dirs |-> [exe |-> NoExe, stamp |-> NoExe]] /\ torn = [d \in Dirs |-> FALSE]
  /\ out = [n \in Runs |-> NoOut] /\ trace = [n \in Runs |-> NoTrace]
  /\ plan \in Plans /\ proc = Off /\ verdict = Unsaid

At(pc)      == proc.pc = pc
Soc         == proc.cmd = "socdiff"
DirOf(t)    == <<IF Soc THEN "soc" ELSE "build", t>>
Dir         == DirOf(proc.tree)
Files       == UNCHANGED <<out, trace>>
World       == UNCHANGED <<tree, edits, plan, verdict>>
Directories == UNCHANGED <<dir, torn>>

Invoke ==
  /\ At("off") /\ plan # <<>> /\ plan' = Tail(plan) /\ verdict' = Unsaid
  /\ proc' = [pc |-> "read", cmd |-> Head(plan).cmd, seeds |-> Head(plan).seeds,
              tree |-> IF Head(plan).cmd = "test" THEN "wt" ELSE "base",
              read |-> [t \in Trees |-> BaseSource], seed |-> 1, early |-> FALSE,
              st |-> [t \in Trees |-> NoOut]]
  /\ Directories /\ Files /\ UNCHANGED <<tree, edits>>

-----------------------------------------------------------------------------
(* build() and build_soc().                                                *)

\* Of a revision, the core's test bench is still the working tree's; the
\* SoC's is the revision's own.
SourceRead ==
  IF proc.tree = "wt" THEN tree
  ELSE IF Soc THEN BaseSource ELSE [BaseSource EXCEPT !.tb = tree.tb]

ReadSources ==
  /\ At("read")
  /\ proc' = [proc EXCEPT !.pc = "stamped", !.read[proc.tree] = SourceRead]
  /\ World /\ Directories /\ Files

\* The other build of the command, or the first of its runs.
Built == IF proc.tree = "base" THEN [proc EXCEPT !.pc = "read", !.tree = "wt"]
         ELSE [proc EXCEPT !.pc = "launch", !.tree = IF proc.cmd = "test" THEN "wt" ELSE "base"]

Stamped == dir[Dir].exe # NoExe /\ dir[Dir].stamp = proc.read[proc.tree]

Reuse ==
  /\ At("stamped") /\ Stamped /\ proc' = Built
  /\ World /\ Directories /\ Files

\* Mutant of WriteSources: the stamp is written with the sources.
WriteAndStamp ==
  /\ At("stamped") /\ ~Stamped /\ proc' = [proc EXCEPT !.pc = "verilate"]
  /\ dir' = [dir EXCEPT ![Dir].stamp = proc.read[proc.tree]]
  /\ World /\ Files /\ UNCHANGED torn

WriteSources ==
  /\ At("stamped") /\ ~Stamped /\ proc' = [proc EXCEPT !.pc = "verilate"]
  /\ World /\ Directories /\ Files

\* The core's test bench is not copied: verilator reads the working tree's.
Compiled == IF Soc THEN proc.read[proc.tree] ELSE [proc.read[proc.tree] EXCEPT !.tb = tree.tb]

Verilate ==
  /\ At("verilate") /\ World /\ Files
  /\ IF Compiled.rtl \in NoCompile
     THEN proc' = Off /\ Directories                                  \* SystemExit
     ELSE /\ dir' = [dir EXCEPT ![Dir].exe = Compiled]
          /\ torn' = [torn EXCEPT ![Dir] = TRUE] /\ proc' = [proc EXCEPT !.pc = "stamp"]

Stamp ==
  /\ At("stamp") /\ dir' = [dir EXCEPT ![Dir].stamp = proc.read[proc.tree]]
  /\ torn' = [torn EXCEPT ![Dir] = dir[Dir].exe.tb # proc.read[proc.tree].tb]
  /\ proc' = Built /\ World /\ Files

-----------------------------------------------------------------------------
(* run() and run_soc(): one run of one executable.                         *)

Traced == proc.cmd # "test"
Name   == <<IF proc.cmd = "irq" THEN "diff" ELSE proc.cmd, proc.tree, proc.seed>>
Exe(t) == dir[DirOf(t)].exe
Outcome == Does[Exe(proc.tree).rtl][proc.seed]

\* Mutant of Launch: the final state of an earlier run is left in place.
LaunchOver == At("launch") /\ proc' = [proc EXCEPT !.pc = "sim"] /\ World /\ Directories /\ Files

\* The old .out goes, the old .trace stays.
Launch ==
  /\ At("launch") /\ proc' = [proc EXCEPT !.pc = "sim"]
  /\ out' = IF Soc THEN out ELSE [out EXCEPT ![Name] = NoOut]
  /\ World /\ Directories /\ UNCHANGED trace

\* With the run over: what it left, then the other run or the comparison.
Crash   == [end |-> "crash", final |-> 0]
After(left, early) ==
  proc' = [proc EXCEPT
    !.st[proc.tree] = IF left = NoOut THEN Crash ELSE left,
    !.early = early \/ @,
    !.pc   = IF proc.tree = "base" THEN "launch" ELSE "compare",
    !.tree = "wt"]

\* A failed assertion ends the simulation with no final state.
SimEnds ==
  /\ At("sim") /\ Exe(proc.tree) # CutExe
  /\ trace' = IF Traced THEN [trace EXCEPT ![Name] = <<Outcome.trace, Exe(proc.tree).tb>>] ELSE trace
  /\ LET kept == IF Soc THEN [end |-> Outcome.end, final |-> 0]
                 ELSE IF Outcome.end = "fatal" THEN out[Name]
                 ELSE [end |-> Outcome.end, final |-> Outcome.final]
     IN /\ out' = IF Soc THEN out ELSE [out EXCEPT ![Name] = kept]
        /\ After(kept, FALSE)
  /\ World /\ Directories

\* The simulator dies on its own, before or after it opens its trace.  The
\* SoC's caller then reads the file of UART bytes, opened with the trace.
SimCrashes ==
  /\ At("sim") /\ World /\ Directories /\ UNCHANGED out
  /\ \E early \in BOOLEAN :
       /\ Exe(proc.tree) = CutExe => early
       /\ trace' = IF early \/ ~Traced THEN trace ELSE [trace EXCEPT ![Name] = CutTrace]
       /\ IF Soc /\ trace'[Name] = NoTrace THEN proc' = Off
          ELSE After(IF Soc THEN NoOut ELSE out[Name], early)

-----------------------------------------------------------------------------
(* cmd_test, cmd_diff and cmd_socdiff: what they make of it.               *)

TraceOf(t) == trace[[Name EXCEPT ![2] = t]]
Fatal(t)   == Does[Exe(t).rtl][proc.seed].end = "fatal" /\ proc.st[t].end = "crash"
AnyFatal   == \E t \in Trees : Exe(t) \notin {NoExe, CutExe} /\ Fatal(t)

Good ==
  CASE proc.cmd = "test"    -> /\ proc.st["wt"] = [end |-> "park", final |-> ExpectedState[proc.seed]]
                               /\ ~Fatal("wt")
    [] proc.cmd = "irq"     -> /\ proc.st["base"].end = "park" /\ proc.st["wt"] = proc.st["base"]
                               /\ ~AnyFatal
    [] proc.cmd = "diff"    -> /\ proc.st["base"].end = "park" /\ TraceOf("base") = TraceOf("wt")
                               /\ ~AnyFatal
    [] proc.cmd = "socdiff" -> proc.st["base"].end = "park" /\ TraceOf("base") = TraceOf("wt")

\* A trace that is not there cannot be opened; it is opened only if need be.
Unreadable == /\ proc.cmd \in {"diff", "socdiff"} /\ proc.st["base"].end = "park"
              /\ NoTrace \in {TraceOf("base"), TraceOf("wt")}

Compare ==
  /\ At("compare")
  /\ IF Unreadable THEN proc' = Off /\ UNCHANGED verdict
     ELSE /\ verdict' = [says |-> IF Good THEN "same" ELSE "diff", cmd |-> proc.cmd,
                         seed |-> proc.seed, base |-> Exe("base"), wt |-> Exe("wt"),
                         early |-> proc.early]
          /\ proc' = IF proc.seed = proc.seeds THEN Off
                     ELSE [proc EXCEPT !.pc = "launch", !.seed = @ + 1, !.early = FALSE,
                                       !.tree = IF proc.cmd = "test" THEN "wt" ELSE "base"]
  /\ Directories /\ Files /\ UNCHANGED <<tree, edits, plan>>

-----------------------------------------------------------------------------
(* The user, and what may happen to an invocation.                         *)

Edit ==
  /\ edits < Edits /\ edits' = edits + 1 /\ tree' \in Sources \ {tree}
  /\ Directories /\ Files /\ UNCHANGED <<plan, proc, verdict>>

\* Killed, or run into its own timeout: the linker may leave a part of an
\* executable, the simulator a part of a trace.
Kill ==
  /\ ~At("off") /\ proc' = Off /\ World /\ UNCHANGED out
  /\ \/ UNCHANGED <<dir, torn, trace>>
     \/ /\ At("verilate") /\ dir' = [dir EXCEPT ![Dir].exe = CutExe]
        /\ torn' = [torn EXCEPT ![Dir] = TRUE] /\ UNCHANGED trace
     \/ /\ At("sim") /\ Traced /\ trace' = [trace EXCEPT ![Name] = CutTrace] /\ Directories

VsimNext ==
  \/ Invoke \/ ReadSources \/ Reuse \/ WriteSources \/ Verilate \/ Stamp
  \/ Launch \/ SimEnds \/ SimCrashes \/ Compare \/ Edit \/ Kill

VsimSpec == VsimInit /\ [][VsimNext]_vsimVars

-----------------------------------------------------------------------------
\* What runs is what the sources were when the build read them, however many
\* builds failed, were killed or were overtaken by edits before - but for the
\* two windows the stamp does not cover: a build killed between the executable
\* and its stamp, and a test bench edited while verilator reads it.
ExeIsSource ==
  proc.pc \in {"launch", "sim", "compare"} =>
    \A t \in Trees : (t = "wt" \/ proc.cmd # "test") =>
      Exe(t) = proc.read[t] \/ torn[DirOf(t)]

\* "same" (or "pass") is said only of what the two executables do in fact, not
\* of files an earlier run left: the traces agree, or with interrupts the final
\* states, no assertion failed, and the base came to its end.  The exception:
\* a simulator that dies before it opens its trace leaves the old one to be
\* compared.
SameIsSame ==
  verdict.says = "same" =>
    LET wt   == Does[verdict.wt.rtl][verdict.seed]
        base == Does[verdict.base.rtl][verdict.seed]
    IN CASE verdict.cmd = "test" -> wt.end = "park" /\ wt.final = ExpectedState[verdict.seed]
         [] verdict.cmd = "irq"  -> base.end = "park" /\ wt.end = "park" /\ wt.final = base.final
         [] verdict.cmd = "diff" -> verdict.early \/ (/\ base.end = "park" /\ wt.trace = base.trace
                                                      /\ wt.end # "fatal")
         [] OTHER                -> verdict.early \/ (base.end = "park" /\ wt.trace = base.trace)
=============================================================================
