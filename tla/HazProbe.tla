------------------------------ MODULE HazProbe ------------------------------
(***************************************************************************)
(* The hazard-attribution probe perf/m7/gen_probe.py writes, and what      *)
(* parse_haz.py makes of its output.  The probe is hand-written assembler: *)
(* routines that share one register file and one stack, no calling         *)
(* convention, six kernels between a clear and a read of the performance   *)
(* counters.  A routine is a sequence of instructions; a run of plain      *)
(* arithmetic is one instruction that says which registers it destroys.    *)
(*                                                                         *)
(* A counter's value is kept as what has been counted since the clear, by  *)
(* who caused it: the kernel, a setup routine, the dump or the printing.   *)
(***************************************************************************)
EXTENDS Integers, Sequences

CONSTANTS
  ALU, MEM_WORDS, MEM_REPS, CHASE, BR, FIB, MD,   \* bound: the profile
  COUNTERS,   \* bound: counters read after the id, 10 in the code
  DIGITS      \* bound: digits printed of a value, 16 in the code

ASSUME ProfileAssumption ==
  /\ {ALU, MEM_WORDS, MEM_REPS, CHASE, BR, FIB, MD, COUNTERS, DIGITS} \subseteq Nat \ {0}
  /\ CHASE >= MEM_WORDS

Registers == {"A", "B", "C", "D", "E", "F", "G", "H", "I", "J", "M"}
Counts == [kernel |-> 0, setup |-> 0, dump |-> 0, print |-> 0]
Num(n) == [Counts EXCEPT !.kernel = n]     \* a plain number, to be printed

\* What a register holds: a number, or a counter's value or a digit of it.
Word(n) == [n |-> n, of |-> Counts, shift |-> 0]
Lost     == Word(-1)           \* what an arithmetic run leaves in a register

-----------------------------------------------------------------------------
(* Instructions.  One with a set of registers destroys those.              *)

Run(do, regs)          == [do |-> do, lose |-> regs]
SETR(reg, n)           == [do |-> "set", reg |-> reg, n |-> n]
ADDV(reg, n)           == [do |-> "add", reg |-> reg, n |-> n]
COPY(reg, from)        == [do |-> "copy", reg |-> reg, from |-> from]
ADDR(reg, one, two)    == [do |-> "sum", reg |-> reg, one |-> one, two |-> two]
JMP(to)                == [do |-> "jmp", to |-> to]
JMPULT(reg, limit, to) == [do |-> "less", reg |-> reg, limit |-> limit, to |-> to]
JMPULE(reg, limit, to) == [do |-> "atmost", reg |-> reg, limit |-> limit, to |-> to]
JMPUGEV(reg, n, to)    == [do |-> "atleastv", reg |-> reg, n |-> n, to |-> to]
JMPULTV(reg, n, to)    == [do |-> "lessv", reg |-> reg, n |-> n, to |-> to]
JMPZ(reg, to)          == [do |-> "zero", reg |-> reg, to |-> to]
JMPNZ(reg, to)         == [do |-> "nonzero", reg |-> reg, to |-> to]
CALL(routine)          == [do |-> "call", routine |-> routine]
PUSH(reg)              == [do |-> "push", reg |-> reg]
POP(reg)               == [do |-> "pop", reg |-> reg]
RET                    == [do |-> "ret"]
HALT                   == [do |-> "halt"]

putc == <<Run("putc", {"B", "C"}), RET>>

puthex16 == <<SETR("F", DIGITS), ADDV("F", -1), Run("digit", {"A", "H"}), CALL("putc"),
              JMPNZ("F", 2), RET>>

crlf == <<Run("newline", {"A", "B", "C"}), RET>>

clear_perf == <<Run("clear", {"A", "B"}), RET>>

\* Mutant of dump: every counter is printed as soon as it is read.
dump_as_read ==
  <<Run("id", {}), CALL("puthex16"), SETR("I", 1), SETR("J", COUNTERS),
    Run("read", {"G"}), Run("reload", {}), CALL("puthex16"), ADDV("I", 1), ADDV("J", -1),
    JMPNZ("J", 5), CALL("crlf"), RET>>

dump ==
  <<SETR("I", 1)>>
    \o [i \in 1 .. 2 * COUNTERS |-> IF i % 2 = 1 THEN Run("read", {"G"}) ELSE ADDV("I", 1)]
    \o <<Run("id", {}), CALL("puthex16"), SETR("I", 1), SETR("J", COUNTERS),
         Run("reload", {}), CALL("puthex16"), ADDV("I", 1), ADDV("J", -1),
         JMPNZ("J", 2 * COUNTERS + 6), CALL("crlf"), RET>>

-----------------------------------------------------------------------------
(* The kernels.                                                            *)

k_alu == <<SETR("C", 0), SETR("D", ALU), Run("work", {"A", "B", "E"}), ADDV("C", 1),
           JMPULT("C", "D", 3), RET>>

k_mem ==
  <<SETR("B", MEM_WORDS), SETR("C", 0),
    SETR("D", 0), Run("update", {"E", "F"}), ADDV("D", 1), JMPULT("D", "B", 4),
    SETR("D", 0), Run("work", {"E", "F", "H"}), ADDV("D", 1), JMPULT("D", "B", 8),
    ADDV("C", 1), JMPULTV("C", MEM_REPS, 3), RET>>

build_perm ==
  <<SETR("B", MEM_WORDS), SETR("C", 0),
    Run("identity", {"E"}), ADDV("C", 1), JMPULT("C", "B", 3),
    COPY("C", "B"), ADDV("C", -1),
    JMPZ("C", 12), Run("swap", {"D", "E", "F", "G", "H", "I"}), ADDV("C", -1), JMP(8), RET>>

k_chase == <<SETR("C", 0), SETR("D", 0), SETR("E", CHASE),
             Run("follow", {"F", "H"}), ADDV("D", 1), JMPULT("D", "E", 4), RET>>

k_branch == <<SETR("D", 0), SETR("E", BR), Run("work", {"A", "F", "H"}), ADDV("D", 1),
              JMPULT("D", "E", 3), RET>>

fib ==
  <<JMPUGEV("A", 2, 4), COPY("M", "A"), RET,
    PUSH("A"), ADDV("A", -1), CALL("fib"), POP("A"),
    PUSH("M"), ADDV("A", -2), CALL("fib"), POP("A"),
    ADDR("M", "A", "M"), RET>>

k_fib_top == <<SETR("A", FIB), CALL("fib"), RET>>

k_muldiv == <<SETR("C", 1), SETR("D", MD), Run("work", {"A", "E", "F", "H"}), ADDV("C", 1),
              JMPULE("C", "D", 3), RET>>

Kernels == <<"k_alu", "k_mem", "k_chase", "k_branch", "k_fib_top", "k_muldiv">>

Measure(id) ==
  (IF Kernels[id] = "k_chase" THEN <<CALL("build_perm")>> ELSE <<>>)
    \o <<CALL("clear_perf"), CALL(Kernels[id]), SETR("D", id - 1), CALL("dump")>>

Main == Measure(1) \o Measure(2) \o Measure(3) \o Measure(4) \o Measure(5) \o Measure(6)
          \o <<HALT>>

Code == [main |-> Main, putc |-> putc, puthex16 |-> puthex16, crlf |-> crlf,
         clear_perf |-> clear_perf, dump |-> dump, k_alu |-> k_alu, k_mem |-> k_mem,
         build_perm |-> build_perm, k_chase |-> k_chase, k_branch |-> k_branch, fib |-> fib,
         k_fib_top |-> k_fib_top, k_muldiv |-> k_muldiv]

-----------------------------------------------------------------------------
(* The machine.                                                            *)

VARIABLES
  at,        \* the next instruction: <<routine, number>>
  reg,       \* the registers
  stack,     \* return addresses and pushed values, [to, val]
  buf,       \* the words at BUF
  scratch,   \* the snapshot at SCRATCH
  perf,      \* the performance counters
  lines,     \* what the UART has sent
  visited    \* history: the words k_chase has been to

probeVars == <<at, reg, stack, buf, scratch, perf, lines, visited>>

Words == 0 .. MEM_WORDS - 1
Here  == Code[at[1]][at[2]]
Ended == Here.do = "halt"

ProbeInit ==
  /\ at = <<"main", 1>> /\ reg = [r \in Registers |-> Lost] /\ stack = <<>>
  /\ buf = [w \in Words |-> 0] /\ scratch = [k \in 1 .. COUNTERS |-> Counts]
  /\ perf = [Counts EXCEPT !.setup = 1] /\ lines = <<<<>>>> /\ visited = {}

Advance   == at' = <<at[1], at[2] + 1>> /\ UNCHANGED stack
Goto(to)  == at' = <<at[1], to>> /\ UNCHANGED stack
Count(who) == perf' = [perf EXCEPT ![who] = @ + 1]
Without(r) == [x \in Registers |-> IF x \in r THEN Lost ELSE reg[x]]
Quiet     == UNCHANGED <<perf, lines, visited>>
NoMemory  == UNCHANGED <<buf, scratch>>

Assign ==
  /\ \/ Here.do = "set"  /\ reg' = [reg EXCEPT ![Here.reg] = Word(Here.n)]
     \/ Here.do = "add"  /\ reg' = [reg EXCEPT ![Here.reg].n = @ + Here.n]
     \/ Here.do = "copy" /\ reg' = [reg EXCEPT ![Here.reg] = reg[Here.from]]
  /\ Advance /\ Quiet /\ NoMemory

AddRegisters ==
  /\ Here.do = "sum" /\ reg' = [reg EXCEPT ![Here.reg] = Word(reg[Here.one].n + reg[Here.two].n)]
  /\ Count("kernel") /\ Advance /\ NoMemory /\ UNCHANGED <<lines, visited>>

Taken ==
  CASE Here.do = "less"     -> reg[Here.reg].n < reg[Here.limit].n
    [] Here.do = "atmost"   -> reg[Here.reg].n <= reg[Here.limit].n
    [] Here.do = "lessv"    -> reg[Here.reg].n < Here.n
    [] Here.do = "atleastv" -> reg[Here.reg].n >= Here.n
    [] Here.do = "zero"     -> reg[Here.reg].n = 0
    [] Here.do = "nonzero"  -> reg[Here.reg].n # 0
    [] OTHER                -> TRUE

Jump ==
  /\ Here.do \in {"jmp", "less", "atmost", "lessv", "atleastv", "zero", "nonzero"}
  /\ IF Taken THEN Goto(Here.to) ELSE Advance
  /\ UNCHANGED reg /\ Quiet /\ NoMemory

Pushed == <<"", 0>>      \* where a pushed value would return to
Top == stack[Len(stack)]
Push(to, val) == stack' = Append(stack, [to |-> to, val |-> val])
Drop == stack' = SubSeq(stack, 1, Len(stack) - 1)

Call ==
  /\ Here.do = "call" /\ Push(<<at[1], at[2] + 1>>, Lost) /\ at' = <<Here.routine, 1>>
  /\ UNCHANGED reg /\ Quiet /\ NoMemory

Return ==
  /\ Here.do = "ret" /\ stack # <<>> /\ Top.to # Pushed /\ at' = Top.to /\ Drop
  /\ UNCHANGED reg /\ Quiet /\ NoMemory

PushRegister ==
  /\ Here.do = "push" /\ Push(Pushed, reg[Here.reg]) /\ at' = <<at[1], at[2] + 1>>
  /\ UNCHANGED reg /\ Quiet /\ NoMemory

PopRegister ==
  /\ Here.do = "pop" /\ stack # <<>> /\ Drop /\ at' = <<at[1], at[2] + 1>>
  /\ reg' = [reg EXCEPT ![Here.reg] = Top.val]
  /\ Quiet /\ NoMemory

-----------------------------------------------------------------------------
(* What the kernels, the setup and the dump do.                            *)

Work ==
  /\ Here.do = "work" /\ reg' = Without(Here.lose) /\ Count("kernel")
  /\ Advance /\ NoMemory /\ UNCHANGED <<lines, visited>>

UpdateWord ==
  /\ Here.do = "update" /\ reg' = Without(Here.lose) /\ buf' = [buf EXCEPT ![reg["D"].n] = 0]
  /\ Count("kernel") /\ Advance /\ UNCHANGED <<scratch, lines, visited>>

Identity ==
  /\ Here.do = "identity" /\ reg' = Without(Here.lose)
  /\ buf' = [buf EXCEPT ![reg["C"].n] = reg["C"].n]
  /\ Count("setup") /\ Advance /\ UNCHANGED <<scratch, lines, visited>>

\* Mutant of Partner: a word may stay where it is.
PartnerAny == 0 .. reg["C"].n
Partner    == 0 .. reg["C"].n - 1     \* rng % i

Swap ==
  /\ Here.do = "swap" /\ reg' = Without(Here.lose)
  /\ \E j \in Partner : buf' = [buf EXCEPT ![reg["C"].n] = buf[j], ![j] = buf[reg["C"].n]]
  /\ Count("setup") /\ Advance /\ UNCHANGED <<scratch, lines, visited>>

Follow ==
  /\ Here.do = "follow" /\ reg' = [Without(Here.lose) EXCEPT !["C"] = Word(buf[reg["C"].n])]
  /\ visited' = visited \cup {buf[reg["C"].n]}
  /\ Count("kernel") /\ Advance /\ NoMemory /\ UNCHANGED lines

Clear ==
  /\ Here.do = "clear" /\ reg' = Without(Here.lose) /\ perf' = Counts
  /\ Advance /\ NoMemory /\ UNCHANGED <<lines, visited>>

Read ==
  /\ Here.do = "read" /\ reg' = [Without(Here.lose) EXCEPT !["E"].of = perf]
  /\ scratch' = [scratch EXCEPT ![reg["I"].n] = perf]
  /\ Count("dump") /\ Advance /\ UNCHANGED <<buf, lines, visited>>

Reload ==
  /\ \/ Here.do = "reload" /\ reg' = [reg EXCEPT !["E"].of = scratch[reg["I"].n]]
     \/ Here.do = "id" /\ reg' = [reg EXCEPT !["E"].of = Num(reg["D"].n)]
  /\ Advance /\ Quiet /\ NoMemory

Digit ==
  /\ Here.do = "digit"
  /\ reg' = [Without(Here.lose) EXCEPT !["A"] = [reg["E"] EXCEPT !.shift = reg["F"].n]]
  /\ Advance /\ Quiet /\ NoMemory

PutChar ==
  /\ Here.do = "putc" /\ reg' = Without(Here.lose) /\ Count("print")
  /\ lines' = [lines EXCEPT ![Len(lines)] = Append(@, reg["A"])]
  /\ Advance /\ NoMemory /\ UNCHANGED visited

NewLine ==
  /\ Here.do = "newline" /\ reg' = Without(Here.lose) /\ Count("print")
  /\ lines' = Append(lines, <<>>) /\ Advance /\ NoMemory /\ UNCHANGED visited

ProbeNext ==
  \/ Assign \/ AddRegisters \/ Jump \/ Call \/ Return \/ PushRegister \/ PopRegister
  \/ Work \/ UpdateWord \/ Identity \/ Swap \/ Follow \/ Clear \/ Read \/ Reload
  \/ Digit \/ PutChar \/ NewLine

ProbeSpec == ProbeInit /\ [][ProbeNext]_probeVars

-----------------------------------------------------------------------------
(* parse_haz.py: a line of the right length is cut into fields.            *)

Field(line, k) == SubSeq(line, (k - 1) * DIGITS + 1, k * DIGITS)

Value(field) ==
  IF \A i \in 1 .. DIGITS : field[i] = [field[1] EXCEPT !.shift = DIGITS - i]
  THEN field[1].of ELSE Num(-1)

FieldsOf(line) == [k \in 1 .. COUNTERS + 1 |-> Value(Field(line, k))]
Parse(text)    ==
  LET rows[n \in 0 .. Len(text)] ==     \* after n lines
        IF n = 0 THEN <<>>
        ELSE IF Len(text[n]) = (COUNTERS + 1) * DIGITS
             THEN Append(rows[n - 1], FieldsOf(text[n])) ELSE rows[n - 1]
  IN rows[Len(text)]

-----------------------------------------------------------------------------
FibAdds[n \in Nat] == IF n < 2 THEN 0 ELSE 1 + FibAdds[n - 1] + FibAdds[n - 2]

Steps == <<ALU, 2 * MEM_WORDS * MEM_REPS, CHASE, BR, FibAdds[FIB], MD>>

Row(id) == <<Num(id - 1)>> \o
           [k \in 1 .. COUNTERS |-> [Counts EXCEPT !.kernel = Steps[id], !.dump = k - 1]]

\* What parse_haz reads is one row a kernel, and each counter holds that
\* kernel's whole run and nothing else but the reads of the counters before
\* it: no setup, no printing, no register the routines destroy for each other.
RowsMeasureKernels == Ended => Parse(lines) = [id \in 1 .. 6 |-> Row(id)]

\* Whatever the random numbers, the permutation is one cycle: the chase goes
\* to every word before it comes to one again.
ChaseVisitsAll == at = <<"k_chase", Len(k_chase)>> => visited = Words
=============================================================================
