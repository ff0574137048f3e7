------------------------------ MODULE HazProofs -----------------------------
(***************************************************************************)
(* The proofs about the hazard probe, for every profile and every sequence *)
(* of random numbers (perf/m7/gen_probe.py).                               *)
(*                                                                         *)
(* The chase goes to every word.  Two facts meet here: the shuffle leaves  *)
(* one cycle, because every swap joins the cycle of the word it settles to *)
(* another one; and nothing comes between the shuffle and the chase,       *)
(* because a routine written without a calling convention still returns    *)
(* where it was called from.                                               *)
(*                                                                         *)
(* Every row read from the output is one kernel's run.  Its proof follows  *)
(* the processor through a measurement, from the clear to the end of the   *)
(* line.                                                                   *)
(***************************************************************************)
EXTENDS HazProbe, FiniteSetTheorems, SequenceTheorems, WellFoundedInduction, TLAPS

-----------------------------------------------------------------------------
(* The shuffle.                                                            *)

\* The words form disjoint cycles under b, and each holds exactly one of the
\* words 0 .. n: root is that word, pos the distance from it, len the number of
\* words of the cycle.
Cycles(b, n, root, pos, len) ==
  /\ root \in [Words -> 0 .. n] /\ pos \in [Words -> Nat] /\ len \in [0 .. n -> Nat \ {0}]
  /\ \A r \in 0 .. n : root[r] = r /\ pos[r] = 0
  /\ \A w \in Words : /\ pos[w] < len[root[w]] /\ b[w] \in Words /\ root[b[w]] = root[w]
                      /\ pos[b[w]] = IF pos[w] + 1 = len[root[w]] THEN 0 ELSE pos[w] + 1
  /\ \A v, w \in Words : root[v] = root[w] /\ pos[v] = pos[w] => v = w
  /\ \A r \in 0 .. n : \A k \in 0 .. len[r] - 1 : \E w \in Words : root[w] = r /\ pos[w] = k

CyclesTo(b, n) == \E root, pos, len : Cycles(b, n, root, pos, len)

\* There is a word, and the chase is long enough.
LEMMA Profile ==
  /\ MEM_WORDS \in Nat \ {0} /\ CHASE \in Nat /\ CHASE >= MEM_WORDS
  /\ 0 \in Words /\ Words \subseteq Nat
  /\ COUNTERS \in Nat \ {0} /\ DIGITS \in Nat \ {0}
BY ProfileAssumption DEF Words

\* In the identity every word is a cycle of its own.
LEMMA IdentityCycles ==
  ASSUME NEW b, \A w \in Words : b[w] = w
  PROVE  CyclesTo(b, MEM_WORDS - 1)
<1> DEFINE root == [w \in Words |-> w]
           pos  == [w \in Words |-> 0]
           len  == [r \in 0 .. MEM_WORDS - 1 |-> 1]
<1>1. Words = 0 .. MEM_WORDS - 1
  BY DEF Words
<1>2. root \in [Words -> 0 .. MEM_WORDS - 1] /\ pos \in [Words -> Nat]
      /\ len \in [0 .. MEM_WORDS - 1 -> Nat \ {0}]
  BY <1>1
<1>3. \A r \in 0 .. MEM_WORDS - 1 : \A k \in 0 .. len[r] - 1 :
        \E w \in Words : root[w] = r /\ pos[w] = k
  BY <1>1
<1>4. Cycles(b, MEM_WORDS - 1, root, pos, len)
  BY <1>1, <1>2, <1>3 DEF Cycles
<1> QED BY <1>4 DEF CyclesTo

\* A swap of the root n with a smaller word j joins n's cycle to j's
\* (gen_probe.py:247-278).
LEMMA SwapJoins ==
  ASSUME NEW n \in Words, n # 0, NEW j \in 0 .. n - 1, NEW b \in [Words -> Words],
         NEW root, NEW pos, NEW len, Cycles(b, n, root, pos, len)
  PROVE  CyclesTo([b EXCEPT ![n] = b[j], ![j] = b[n]], n - 1)
<1> DEFINE c   == [b EXCEPT ![n] = b[j], ![j] = b[n]]
           rt  == [w \in Words |-> IF root[w] = n THEN j ELSE root[w]]
           ps  == [w \in Words |-> IF w = n THEN len[n]
                                   ELSE IF root[w] = j /\ w # j THEN pos[w] + len[n] ELSE pos[w]]
           ln  == [r \in 0 .. n - 1 |-> IF r = j THEN len[n] + len[j] ELSE len[r]]
<1>1. /\ n \in Nat \ {0} /\ j \in Nat /\ j < n /\ j # n /\ j \in Words
      /\ j \in 0 .. n /\ n \in 0 .. n
  BY Profile DEF Words
<1>2. /\ root \in [Words -> 0 .. n] /\ pos \in [Words -> Nat] /\ len \in [0 .. n -> Nat \ {0}]
      /\ root[n] = n /\ pos[n] = 0 /\ root[j] = j /\ pos[j] = 0
  BY <1>1 DEF Cycles
<1>3. \A w \in Words : /\ pos[w] < len[root[w]] /\ b[w] \in Words /\ root[b[w]] = root[w]
                       /\ pos[b[w]] = IF pos[w] + 1 = len[root[w]] THEN 0 ELSE pos[w] + 1
  BY DEF Cycles
<1>4. \A v, w \in Words : root[v] = root[w] /\ pos[v] = pos[w] => v = w
  BY DEF Cycles
<1>5. len[n] \in Nat \ {0} /\ len[j] \in Nat \ {0}
  BY <1>1, <1>2
<1>6. \A w \in Words : /\ root[w] \in 0 .. n /\ pos[w] \in Nat /\ len[root[w]] \in Nat \ {0}
                       /\ (root[w] = n => (w = n <=> pos[w] = 0))
                       /\ (root[w] = j => (w = j <=> pos[w] = 0))
  BY <1>1, <1>2, <1>4
<1>7. rt \in [Words -> 0 .. n - 1] /\ ps \in [Words -> Nat] /\ ln \in [0 .. n - 1 -> Nat \ {0}]
  <2>1. ASSUME NEW w \in Words PROVE rt[w] \in 0 .. n - 1 /\ ps[w] \in Nat
    BY <1>1, <1>5, <1>6
  <2>2. ASSUME NEW r \in 0 .. n - 1 PROVE ln[r] \in Nat \ {0}
    <3>1. r \in 0 .. n
      BY <1>1
    <3> QED BY <1>2, <1>5, <3>1
  <2> QED BY <2>1, <2>2
<1>8. \A r \in 0 .. n - 1 : rt[r] = r /\ ps[r] = 0
  <2> SUFFICES ASSUME NEW r \in 0 .. n - 1 PROVE rt[r] = r /\ ps[r] = 0
    OBVIOUS
  <2>1. r \in Words /\ r \in 0 .. n /\ r # n
    BY <1>1, Profile DEF Words
  <2>2. root[r] = r /\ pos[r] = 0
    BY <2>1 DEF Cycles
  <2> QED BY <2>1, <2>2
<1>9. ASSUME NEW w \in Words
      PROVE  /\ ps[w] < ln[rt[w]] /\ c[w] \in Words /\ rt[c[w]] = rt[w]
             /\ ps[c[w]] = IF ps[w] + 1 = ln[rt[w]] THEN 0 ELSE ps[w] + 1
  <2>0. /\ pos[w] < len[root[w]] /\ b[w] \in Words /\ root[b[w]] = root[w]
        /\ pos[b[w]] = IF pos[w] + 1 = len[root[w]] THEN 0 ELSE pos[w] + 1
        /\ root[w] \in 0 .. n /\ pos[w] \in Nat /\ len[root[w]] \in Nat \ {0}
    BY <1>3, <1>6
  <2>1. CASE w = n
    <3>1. c[w] = b[j] /\ root[w] = n /\ rt[w] = j /\ ps[w] = len[n] /\ ln[j] = len[n] + len[j]
      BY <1>1, <1>2, <2>1
    <3>2. /\ b[j] \in Words /\ root[b[j]] = j
          /\ pos[b[j]] = IF 1 = len[j] THEN 0 ELSE 1
      BY <1>1, <1>2, <1>3
    <3>3. b[j] = j <=> pos[b[j]] = 0
      BY <1>6, <3>2
    <3>5. rt[b[j]] = j /\ b[j] # n /\ (b[j] = j <=> len[j] = 1)
      BY <1>1, <1>2, <3>2, <3>3
    <3>4. ps[b[j]] = IF len[j] = 1 THEN 0 ELSE 1 + len[n]
      BY <1>1, <1>2, <1>5, <3>2, <3>5
    <3> QED BY <1>5, <3>1, <3>2, <3>4, <3>5
  <2>2. CASE w = j
    <3>1. c[w] = b[n] /\ root[w] = j /\ rt[w] = j /\ ps[w] = 0 /\ ln[j] = len[n] + len[j]
      BY <1>1, <1>2, <2>2
    <3>2. /\ b[n] \in Words /\ root[b[n]] = n
          /\ pos[b[n]] = IF 1 = len[n] THEN 0 ELSE 1
      BY <1>1, <1>2, <1>3
    <3>3. b[n] = n <=> pos[b[n]] = 0
      BY <1>6, <3>2
    <3>5. rt[b[n]] = j /\ (b[n] = n <=> len[n] = 1)
      BY <1>1, <1>2, <3>2, <3>3
    <3>4. ps[b[n]] = 1
      BY <1>1, <1>2, <1>5, <3>2, <3>5
    <3> QED BY <1>5, <3>1, <3>2, <3>4, <3>5
  <2>3. CASE w # n /\ w # j /\ root[w] = n
    <3>1. c[w] = b[w] /\ rt[w] = j /\ ps[w] = pos[w] /\ ln[j] = len[n] + len[j] /\ rt[b[w]] = j
      BY <1>1, <1>2, <2>0, <2>3
    <3>2. b[w] = n <=> pos[w] + 1 = len[n]
      BY <1>6, <2>0, <2>3
    <3>3. ps[b[w]] = pos[w] + 1
      BY <1>1, <1>5, <2>0, <2>3, <3>2
    <3> QED BY <1>5, <2>0, <2>3, <3>1, <3>3
  <2>4. CASE w # n /\ w # j /\ root[w] = j
    <3>1. /\ c[w] = b[w] /\ rt[w] = j /\ ps[w] = pos[w] + len[n] /\ ln[j] = len[n] + len[j]
          /\ rt[b[w]] = j /\ b[w] # n
      BY <1>1, <1>2, <2>0, <2>4
    <3>2. b[w] = j <=> pos[w] + 1 = len[j]
      BY <1>6, <2>0, <2>4
    <3>3. ps[b[w]] = IF pos[w] + 1 = len[j] THEN 0 ELSE pos[w] + 1 + len[n]
      BY <1>1, <1>2, <1>5, <2>0, <2>4, <3>1, <3>2
    <3> HIDE DEF c, rt, ps, ln
    <3>4. ln[rt[w]] = len[n] + len[j] /\ rt[c[w]] = rt[w] /\ c[w] \in Words
      BY <2>0, <3>1
    <3>5. pos[w] \in Nat /\ pos[w] < len[j] /\ len[j] \in Nat \ {0} /\ len[n] \in Nat \ {0}
      BY <1>5, <2>0, <2>4
    <3>6. ps[w] < ln[rt[w]] /\ (ps[w] + 1 = ln[rt[w]] <=> pos[w] + 1 = len[j])
          /\ ps[w] + 1 = pos[w] + 1 + len[n]
      BY <3>1, <3>4, <3>5
    <3> QED BY <3>1, <3>3, <3>4, <3>6
  <2>5. CASE root[w] # n /\ root[w] # j
    <3>1. w # n /\ w # j /\ b[w] # n
      BY <1>2, <2>0, <2>5
    <3>2. root[w] \in 0 .. n - 1
      BY <1>1, <2>0, <2>5
    <3>3. /\ c[w] = b[w] /\ rt[w] = root[w] /\ ps[w] = pos[w] /\ ln[root[w]] = len[root[w]]
          /\ rt[b[w]] = root[w] /\ ps[b[w]] = pos[b[w]]
      BY <1>1, <2>0, <2>5, <3>1, <3>2
    <3> QED BY <2>0, <3>3
  <2> QED BY <2>1, <2>2, <2>3, <2>4, <2>5
<1>10. ASSUME NEW v \in Words, NEW w \in Words, rt[v] = rt[w], ps[v] = ps[w]
       PROVE  v = w
  <2>1. /\ pos[v] < len[root[v]] /\ pos[v] \in Nat /\ root[v] \in 0 .. n
        /\ pos[w] < len[root[w]] /\ pos[w] \in Nat /\ root[w] \in 0 .. n
    BY <1>3, <1>6
  <2>4. ASSUME NEW x \in Words, root[x] = n PROVE ps[x] \in 1 .. len[n]
    <3>1. ps[x] = IF x = n THEN len[n] ELSE pos[x]
      BY <1>1, <2>4
    <3> HIDE DEF c, rt, ps, ln
    <3>2. pos[x] \in Nat /\ pos[x] < len[n] /\ (x = n <=> pos[x] = 0)
      BY <1>3, <1>6, <2>4
    <3> QED BY <1>5, <3>1, <3>2
  <2>5. ASSUME NEW x \in Words, root[x] = j PROVE ps[x] = 0 \/ ps[x] > len[n]
    <3>1. ps[x] = IF x = j THEN pos[x] ELSE pos[x] + len[n]
      BY <1>1, <1>2, <2>5
    <3> HIDE DEF c, rt, ps, ln
    <3>2. pos[x] \in Nat /\ (x = j <=> pos[x] = 0)
      BY <1>6, <2>5
    <3> QED BY <1>5, <3>1, <3>2
  <2>7. \A x \in Words : rt[x] = IF root[x] = n THEN j ELSE root[x]
    OBVIOUS
  <2>6. ~(root[v] = n /\ root[w] = j) /\ ~(root[v] = j /\ root[w] = n)
    <3> HIDE DEF c, rt, ps, ln
    <3>1. root[v] = n /\ root[w] = j => FALSE
      BY <1>5, <1>10, <2>4, <2>5
    <3>2. root[v] = j /\ root[w] = n => FALSE
      BY <1>5, <1>10, <2>4, <2>5
    <3> QED BY <3>1, <3>2
  <2>2. root[v] = root[w]
    <3> HIDE DEF c, rt, ps, ln
    <3> QED BY <1>10, <2>6, <2>7
  <2>3. pos[v] = pos[w]
    BY <1>1, <1>2, <1>5, <1>6, <1>10, <2>1, <2>2
  <2> QED BY <1>4, <2>2, <2>3
<1>11. ASSUME NEW r \in 0 .. n - 1, NEW k \in 0 .. ln[r] - 1
       PROVE  \E w \in Words : rt[w] = r /\ ps[w] = k
  <2>0. \A q \in 0 .. n : \A i \in 0 .. len[q] - 1 : \E w \in Words : root[w] = q /\ pos[w] = i
    BY DEF Cycles
  <2>1. r \in 0 .. n /\ r # n /\ len[r] \in Nat \ {0} /\ k \in Nat /\ k < ln[r]
    BY <1>1, <1>2, <1>7
  <2>2. CASE r # j
    <3>1. k \in 0 .. len[r] - 1
      BY <2>1, <2>2
    <3>2. PICK w \in Words : root[w] = r /\ pos[w] = k
      BY <2>0, <2>1, <3>1
    <3> QED BY <1>2, <2>1, <2>2, <3>2
  <2>3. CASE r = j /\ k = 0
    BY <1>1, <1>2, <2>3
  <2>4. CASE r = j /\ k = len[n]
    BY <1>1, <1>2, <2>4
  <2>5. CASE r = j /\ k # 0 /\ k < len[n]
    <3>1. k \in 0 .. len[n] - 1
      BY <1>5, <2>1, <2>5
    <3>2. PICK w \in Words : root[w] = n /\ pos[w] = k
      BY <1>1, <2>0, <3>1
    <3> QED BY <1>1, <1>2, <2>5, <3>2
  <2>6. CASE r = j /\ k > len[n]
    <3>1. k - len[n] \in 0 .. len[j] - 1 /\ k - len[n] # 0
      BY <1>5, <2>1, <2>6
    <3>2. PICK w \in Words : root[w] = j /\ pos[w] = k - len[n]
      BY <1>1, <2>0, <3>1
    <3>3. w # n /\ w # j
      BY <1>1, <1>2, <3>1, <3>2
    <3> QED BY <1>1, <1>5, <2>1, <2>6, <3>2, <3>3
  <2> QED BY <1>5, <2>1, <2>2, <2>3, <2>4, <2>5, <2>6
<1>12. Cycles(c, n - 1, rt, ps, ln)
  <2> HIDE DEF c, rt, ps, ln
  <2> QED BY <1>7, <1>8, <1>9, <1>10, <1>11 DEF Cycles
<1> QED BY <1>12 DEF CyclesTo

\* The last cycle left has no more words than there are.
LEMMA CycleShort ==
  ASSUME NEW b, NEW root, NEW pos, NEW len, Cycles(b, 0, root, pos, len)
  PROVE  len[0] \in Nat \ {0} /\ len[0] <= MEM_WORDS
<1> DEFINE T == 0 .. len[0] - 1
<1>1. /\ root \in [Words -> 0 .. 0] /\ pos \in [Words -> Nat] /\ len[0] \in Nat \ {0}
      /\ \A w \in Words : pos[w] < len[root[w]]
      /\ \A k \in T : \E w \in Words : root[w] = 0 /\ pos[w] = k
  BY DEF Cycles
<1>2. pos \in Surjection(Words, T)
  <2>1. ASSUME NEW w \in Words PROVE pos[w] \in T
    <3>1. root[w] = 0 /\ pos[w] \in Nat
      BY <1>1
    <3> QED BY <1>1, <3>1
  <2> QED BY <1>1, <2>1 DEF Surjection
<1>3. MEM_WORDS \in Nat \ {0}
  BY Profile
<1>4. IsFiniteSet(Words) /\ Cardinality(Words) = MEM_WORDS
  <2>1. MEM_WORDS - 1 \in Int /\ MEM_WORDS - 1 >= 0
    BY <1>3
  <2> QED BY <1>3, <2>1, FS_Interval DEF Words
<1>5. Cardinality(T) = len[0]
  <2>1. len[0] - 1 \in Int /\ len[0] - 1 >= 0
    BY <1>1
  <2> QED BY <1>1, <2>1, FS_Interval
<1> QED BY <1>1, <1>2, <1>4, <1>5, FS_Surjection

-----------------------------------------------------------------------------
(* The code.                                                               *)

Nested == {"putc", "puthex16", "crlf", "dump", "k_alu", "k_mem", "k_branch", "fib", "k_fib_top",
           "k_muldiv"}
Leaves == {"build_perm", "clear_perf", "k_chase"}
Jumps  == {"jmp", "less", "atmost", "lessv", "atleastv", "zero", "nonzero"}

\* An instruction of a routine that may call others stays within the routine or
\* calls one of them; only fib pushes and pops, around its calls.
Fits(r, n) ==
  LET h == Code[r][n] IN
  /\ h.do = "call" => h.routine \in Nested
  /\ h.do \in Jumps => h.to \in 1 .. Len(Code[r])
  /\ h.do \notin {"ret", "jmp"} => n + 1 \in 1 .. Len(Code[r])
  /\ h.do \notin {"halt", "follow", "swap", "identity"}
  /\ h.do \in {"push", "pop"} => r = "fib"
  /\ h.do = "push" => h.reg \in Registers
  /\ h.do = "copy" => h.from \in Registers
  /\ r = "fib" => /\ h.do = "push" => n \in {4, 8}
                  /\ h.do = "pop" => n \in {7, 11}
                  /\ n \in {4, 8} => h.do = "push"
                  /\ n \in {7, 11} => h.do = "pop"
                  /\ h.do = "call" <=> n \in {6, 10}
                  /\ h.do \in Jumps => h.to = 4 /\ n = 1
                  /\ h.do = "ret" => n \in {3, 13}

LEMMA CodeOf ==
  /\ Code["main"] = Main /\ Code["putc"] = putc /\ Code["puthex16"] = puthex16
  /\ Code["crlf"] = crlf /\ Code["clear_perf"] = clear_perf /\ Code["dump"] = dump
  /\ Code["k_alu"] = k_alu /\ Code["k_mem"] = k_mem /\ Code["build_perm"] = build_perm
  /\ Code["k_chase"] = k_chase /\ Code["k_branch"] = k_branch /\ Code["fib"] = fib
  /\ Code["k_fib_top"] = k_fib_top /\ Code["k_muldiv"] = k_muldiv
BY DEF Code

LEMMA FitsFib == \A n \in 1 .. Len(fib) : Fits("fib", n)
BY CodeOf DEF Fits, Jumps, Nested, Registers, fib, JMPUGEV, COPY, RET, PUSH, ADDV, CALL, POP, ADDR

LEMMA FitsMem == \A n \in 1 .. Len(k_mem) : Fits("k_mem", n)
BY CodeOf DEF Fits, Jumps, Nested, k_mem, SETR, Run, ADDV, JMPULT, JMPULTV, RET

LEMMA FitsSmall ==
  /\ \A n \in 1 .. Len(putc) : Fits("putc", n)
  /\ \A n \in 1 .. Len(crlf) : Fits("crlf", n)
  /\ \A n \in 1 .. Len(k_fib_top) : Fits("k_fib_top", n)
BY CodeOf DEF Fits, Jumps, Nested, putc, crlf, k_fib_top, SETR, Run, CALL, RET

LEMMA FitsPrinting == \A n \in 1 .. Len(puthex16) : Fits("puthex16", n)
BY CodeOf DEF Fits, Jumps, Nested, puthex16, SETR, ADDV, Run, CALL, JMPNZ, RET

LEMMA FitsAlu == \A n \in 1 .. Len(k_alu) : Fits("k_alu", n)
BY CodeOf DEF Fits, Jumps, Nested, k_alu, SETR, Run, ADDV, JMPULT, RET

LEMMA FitsBranch == \A n \in 1 .. Len(k_branch) : Fits("k_branch", n)
BY CodeOf DEF Fits, Jumps, Nested, k_branch, SETR, Run, ADDV, JMPULT, RET

LEMMA FitsMuldiv == \A n \in 1 .. Len(k_muldiv) : Fits("k_muldiv", n)
BY CodeOf DEF Fits, Jumps, Nested, k_muldiv, SETR, Run, ADDV, JMPULE, RET

\* One sequence behind another.
Joined(S, s, t, u) ==
  /\ u \in Seq(S) /\ Len(u) = Len(s) + Len(t) /\ Len(s) \in Nat /\ Len(t) \in Nat
  /\ \A k \in 1 .. Len(s) : u[k] = s[k]
  /\ \A k \in 1 .. Len(t) : u[Len(s) + k] = t[k]

LEMMA Behind == ASSUME NEW S, NEW s \in Seq(S), NEW t \in Seq(S) PROVE Joined(S, s, t, s \o t)
<1>1. /\ s \o t \in Seq(S) /\ Len(s \o t) = Len(s) + Len(t)
      /\ \A k \in 1 .. Len(s) + Len(t) :
           (s \o t)[k] = IF k <= Len(s) THEN s[k] ELSE t[k - Len(s)]
  BY ConcatProperties
<1>2. Len(s) \in Nat /\ Len(t) \in Nat
  BY LenProperties
<1>3. ASSUME NEW k \in 1 .. Len(t) PROVE (s \o t)[Len(s) + k] = t[k]
  <2>1. Len(s) + k \in 1 .. Len(s) + Len(t) /\ ~(Len(s) + k <= Len(s)) /\ Len(s) + k - Len(s) = k
    BY <1>2
  <2> QED BY <1>1, <2>1
<1>4. ASSUME NEW k \in 1 .. Len(s) PROVE (s \o t)[k] = s[k]
  <2>1. k \in 1 .. Len(s) + Len(t) /\ k <= Len(s)
    BY <1>2
  <2> QED BY <1>1, <2>1
<1> QED BY <1>1, <1>2, <1>3, <1>4 DEF Joined

\* A function on 1 .. n is a sequence of length n.
LEMMA SeqOf ==
  ASSUME NEW n \in Nat, NEW S, NEW f, f = [i \in 1 .. n |-> f[i]], \A i \in 1 .. n : f[i] \in S
  PROVE  f \in Seq(S) /\ Len(f) = n
<1>1. f \in [1 .. n -> S]
  OBVIOUS
<1> QED BY <1>1

\* The dump is one instruction, the reads with their counts, and the printing.
LEMMA FitsDump == 1 \in 1 .. Len(dump) /\ \A n \in 1 .. Len(dump) : Fits("dump", n)
<1> DEFINE n0    == 2 * COUNTERS
           reads == [i \in 1 .. 2 * COUNTERS |-> IF i % 2 = 1 THEN Run("read", {"G"}) ELSE ADDV("I", 1)]
           print == <<Run("id", {}), CALL("puthex16"), SETR("I", 1), SETR("J", COUNTERS),
                      Run("reload", {}), CALL("puthex16"), ADDV("I", 1), ADDV("J", -1),
                      JMPNZ("J", 2 * COUNTERS + 6), CALL("crlf"), RET>>
           S     == {reads[i] : i \in 1 .. n0} \cup {print[i] : i \in 1 .. 11} \cup {SETR("I", 1)}
<1>1. n0 \in Nat \ {0}
  BY Profile
<1>2. /\ <<SETR("I", 1)>> \in Seq(S) /\ Len(<<SETR("I", 1)>>) = 1
      /\ reads \in Seq(S) /\ Len(reads) = n0
  <2>1. reads = [i \in 1 .. n0 |-> reads[i]]
    BY DEF n0
  <2>2. SETR("I", 1) \in S /\ \A i \in 1 .. n0 : reads[i] \in S
    BY DEF S
  <2> HIDE DEF reads, S, n0
  <2>3. reads \in Seq(S) /\ Len(reads) = n0
    BY <1>1, <2>1, <2>2, SeqOf
  <2> QED BY <2>2, <2>3
<1>3. print \in Seq(S) /\ Len(print) = 11
  OBVIOUS
<1>4. dump = (<<SETR("I", 1)>> \o reads) \o print
  BY DEF dump
<1> HIDE DEF reads, print, S
<1> DEFINE one == <<SETR("I", 1)>> \o reads
<1>11. Joined(S, <<SETR("I", 1)>>, reads, one)
  BY <1>2, Behind
<1> HIDE DEF one, n0
<1>5. one \in Seq(S) /\ Len(one) = 1 + n0 /\ one[1] = SETR("I", 1)
      /\ \A i \in 1 .. n0 : one[1 + i] = reads[i]
  BY <1>1, <1>2, <1>11 DEF Joined
<1>9. /\ Len(dump) = 1 + n0 + 11
      /\ \A i \in 1 .. 1 + n0 : dump[i] = one[i]
      /\ \A i \in 1 .. 11 : dump[1 + n0 + i] = print[i]
  <2>1. dump = one \o print
    BY <1>4 DEF one
  <2>2. one \in Seq(S) /\ print \in Seq(S)
    BY <1>3, <1>5
  <2>3. Joined(S, one, print, dump)
    BY Zenon, <2>1, <2>2, Behind
  <2> QED BY <1>1, <1>3, <1>5, <2>3 DEF Joined
<1>10. 1 \in 1 .. Len(dump)
  BY <1>1, <1>9
<1> SUFFICES ASSUME NEW n \in 1 .. Len(dump) PROVE Fits("dump", n)
  BY <1>10
<1>6. CASE n = 1
  <2>1. dump[1] = SETR("I", 1) /\ 1 + 1 \in 1 .. Len(dump)
    BY <1>1, <1>5, <1>9
  <2> QED BY <1>6, <2>1, CodeOf DEF Fits, Jumps, SETR
<1>7. CASE n - 1 \in 1 .. n0
  <2>1. n \in 1 .. 1 + n0 /\ n = 1 + (n - 1) /\ n + 1 \in 1 .. Len(dump)
    BY <1>1, <1>7, <1>9
  <2>2. dump[n] = reads[n - 1]
    BY <1>5, <1>7, <1>9, <2>1
  <2>3. reads[n - 1] \in {Run("read", {"G"}), ADDV("I", 1)}
    BY <1>7 DEF reads, n0
  <2>4. dump[n].do \in {"read", "add"}
    BY <2>2, <2>3 DEF Run, ADDV
  <2> QED BY <2>1, <2>4, CodeOf DEF Fits, Jumps
<1>8. CASE n - n0 - 1 \in 1 .. 11
  <2> DEFINE k == n - n0 - 1
  <2>0. Len(dump) = n0 + 12 /\ k \in 1 .. 11 /\ n = 1 + n0 + k /\ n + 1 = n0 + k + 2
    BY <1>1, <1>8, <1>9
  <2>1. k \in 1 .. 11 /\ n = 1 + n0 + k /\ (k # 11 => n + 1 \in 1 .. Len(dump))
        /\ n0 + 6 \in 1 .. Len(dump)
    <3> HIDE DEF k
    <3> QED BY <1>1, <2>0
  <2>2. dump[n] = print[k]
    BY <1>9, <2>1
  <2> HIDE DEF k
  <2>3. /\ print[k].do = "call" => print[k].routine \in Nested
        /\ print[k].do \in Jumps => print[k].to = n0 + 6
        /\ k = 11 => print[k].do = "ret"
        /\ print[k].do \notin {"halt", "follow", "swap", "identity", "push", "pop", "copy"}
    <3>1. /\ print[1] = Run("id", {}) /\ print[2] = CALL("puthex16") /\ print[3] = SETR("I", 1)
          /\ print[4] = SETR("J", COUNTERS) /\ print[5] = Run("reload", {})
          /\ print[6] = CALL("puthex16") /\ print[7] = ADDV("I", 1) /\ print[8] = ADDV("J", -1)
          /\ print[9] = JMPNZ("J", n0 + 6) /\ print[10] = CALL("crlf") /\ print[11] = RET
      BY DEF print, n0
    <3>2. k \in {2, 6, 10} \/ k \in {1, 5} \/ k \in {3, 4, 7, 8} \/ k = 9 \/ k = 11
      BY <2>1
    <3>3. CASE k \in {2, 6, 10}
      BY <3>1, <3>3 DEF CALL, Nested, Jumps
    <3>4. CASE k \in {1, 5}
      BY <3>1, <3>4 DEF Run, Jumps
    <3>5. CASE k \in {3, 4, 7, 8}
      BY <3>1, <3>5 DEF SETR, ADDV, Jumps
    <3>6. CASE k = 9
      BY <3>1, <3>6 DEF JMPNZ
    <3>7. CASE k = 11
      BY <3>1, <3>7 DEF RET, Jumps
    <3> QED BY <3>2, <3>3, <3>4, <3>5, <3>6, <3>7
  <2> QED BY <2>1, <2>2, <2>3, CodeOf DEF Fits
<1> QED BY <1>1, <1>6, <1>7, <1>8, <1>9

LEMMA CodeFits == \A r \in Nested : \A n \in 1 .. Len(Code[r]) : Fits(r, n)
BY CodeOf, FitsFib, FitsMem, FitsSmall, FitsPrinting, FitsAlu, FitsBranch, FitsMuldiv, FitsDump
   DEF Nested

\* Every routine begins somewhere.
LEMMA CodeBegins == \A r \in Nested : 1 \in 1 .. Len(Code[r])
<1>1. 1 \in 1 .. Len(dump)
  BY FitsDump
<1>2. 1 \in 1 .. Len(putc) /\ 1 \in 1 .. Len(crlf) /\ 1 \in 1 .. Len(k_fib_top)
  BY DEF putc, crlf, k_fib_top
<1>3. 1 \in 1 .. Len(fib) /\ 1 \in 1 .. Len(k_mem)
  BY DEF fib, k_mem
<1>4. 1 \in 1 .. Len(puthex16) /\ 1 \in 1 .. Len(k_alu)
  BY DEF puthex16, k_alu
<1>5. 1 \in 1 .. Len(k_branch) /\ 1 \in 1 .. Len(k_muldiv)
  BY DEF k_branch, k_muldiv
<1> QED BY Zenon, <1>1, <1>2, <1>3, <1>4, <1>5, CodeOf DEF Nested

\* Where main clears the counters for a kernel.
First == <<1, 5, 10, 14, 18, 22>>

\* s has kernel id's calls at o.
Has(s, o, id) ==
  /\ s[o] = CALL("clear_perf") /\ s[o + 1] = CALL(Kernels[id])
  /\ s[o + 2] = SETR("D", id - 1) /\ s[o + 3] = CALL("dump")

LEMMA HasBehind ==
  ASSUME NEW S, NEW s, NEW t, NEW u, Joined(S, s, t, u)
  PROVE  \A o \in Nat \ {0}, id \in Nat :
           /\ o + 3 <= Len(s) /\ Has(s, o, id) => Has(u, o, id)
           /\ o + 3 <= Len(t) /\ Has(t, o, id) => Has(u, Len(s) + o, id)
<1> SUFFICES ASSUME NEW o \in Nat \ {0}, NEW id \in Nat
             PROVE  /\ o + 3 <= Len(s) /\ Has(s, o, id) => Has(u, o, id)
                    /\ o + 3 <= Len(t) /\ Has(t, o, id) => Has(u, Len(s) + o, id)
  OBVIOUS
<1>1. /\ Len(s) \in Nat /\ Len(t) \in Nat
      /\ \A k \in 1 .. Len(s) : u[k] = s[k]
      /\ \A k \in 1 .. Len(t) : u[Len(s) + k] = t[k]
  BY DEF Joined
<1>2. ASSUME o + 3 <= Len(s), Has(s, o, id) PROVE Has(u, o, id)
  <2>1. o \in 1 .. Len(s) /\ o + 1 \in 1 .. Len(s) /\ o + 2 \in 1 .. Len(s) /\ o + 3 \in 1 .. Len(s)
    BY <1>1, <1>2
  <2> QED BY <1>1, <1>2, <2>1 DEF Has
<1>3. ASSUME o + 3 <= Len(t), Has(t, o, id) PROVE Has(u, Len(s) + o, id)
  <2>1. o \in 1 .. Len(t) /\ o + 1 \in 1 .. Len(t) /\ o + 2 \in 1 .. Len(t) /\ o + 3 \in 1 .. Len(t)
    BY <1>1, <1>3
  <2>2. /\ Len(s) + (o + 1) = (Len(s) + o) + 1 /\ Len(s) + (o + 2) = (Len(s) + o) + 2
        /\ Len(s) + (o + 3) = (Len(s) + o) + 3
    BY <1>1
  <2>3. /\ u[Len(s) + o] = t[o] /\ u[(Len(s) + o) + 1] = t[o + 1]
        /\ u[(Len(s) + o) + 2] = t[o + 2] /\ u[(Len(s) + o) + 3] = t[o + 3]
    <3>1. /\ u[Len(s) + o] = t[o] /\ u[Len(s) + (o + 1)] = t[o + 1]
          /\ u[Len(s) + (o + 2)] = t[o + 2] /\ u[Len(s) + (o + 3)] = t[o + 3]
      BY Zenon, <1>1, <2>1
    <3> QED BY <2>2, <3>1
  <2> QED BY <1>3, <2>3 DEF Has
<1> QED BY <1>2, <1>3

\* main, from gen_probe.py:78-95: for each kernel a clear, the kernel, its
\* number, the dump; the shuffle before the third.
LEMMA MainIs ==
  /\ Len(Main) = 26 /\ Main[26] = HALT /\ Main[9] = CALL("build_perm")
  /\ \A id \in 1 .. 6 : Has(Main, First[id], id)
<1> DEFINE S == {CALL(r) : r \in Nested \cup Leaves} \cup {SETR("D", k) : k \in 0 .. 5} \cup {HALT}
           M1 == Measure(1)
           M2 == Measure(2)
           M3 == Measure(3)
           M4 == Measure(4)
           M5 == Measure(5)
           M6 == Measure(6)
           Q2 == M1 \o M2
           Q3 == Q2 \o M3
           Q4 == Q3 \o M4
           Q5 == Q4 \o M5
           Q6 == Q5 \o M6
<1>0. Main = Q6 \o <<HALT>> /\ <<HALT>> \in Seq(S) /\ Len(<<HALT>>) = 1 /\ <<HALT>>[1] = HALT
  BY DEF Main
<1>1. ASSUME NEW id \in {1, 2, 4, 5, 6}
      PROVE  /\ Measure(id) \in Seq(S) /\ Len(Measure(id)) = 4
             /\ Has(Measure(id), 1, id)
  <2>1. PICK r \in Nested : Kernels[id] = r
    BY DEF Kernels, Nested
  <2>2. r # "k_chase"
    BY DEF Nested
  <2>3. PICK k \in 0 .. 5 : k = id - 1
    OBVIOUS
  <2> DEFINE t == <<CALL("clear_perf"), CALL(r), SETR("D", k), CALL("dump")>>
  <2>4. Measure(id) = <<>> \o t
    BY <2>1, <2>2, <2>3 DEF Measure
  <2>5. t \in Seq(S) /\ Len(t) = 4
    BY DEF Nested, Leaves
  <2>6. <<>> \o t = t
    BY <2>5, ConcatEmptySeq
  <2>7. Has(t, 1, id)
    BY <2>1, <2>3 DEF Has
  <2> QED BY <2>4, <2>5, <2>6, <2>7
<1>2. /\ M3 \in Seq(S) /\ Len(M3) = 5 /\ M3[1] = CALL("build_perm") /\ Has(M3, 2, 3)
  <2> DEFINE t == <<CALL("clear_perf"), CALL("k_chase"), SETR("D", 2), CALL("dump")>>
             b == <<CALL("build_perm")>>
  <2>1. M3 = b \o t
    BY DEF Measure, Kernels
  <2>2. t \in Seq(S) /\ b \in Seq(S) /\ Len(t) = 4 /\ Len(b) = 1
    BY DEF Nested, Leaves
  <2>3. b[1] = CALL("build_perm") /\ Has(t, 1, 3)
    BY DEF Has, Kernels
  <2> HIDE DEF t, b, S, M3
  <2>4. Joined(S, b, t, M3)
    BY Zenon, <2>1, <2>2, Behind
  <2>5. M3 \in Seq(S) /\ Len(M3) = 5 /\ M3[1] = b[1]
    BY <2>2, <2>4 DEF Joined
  <2>6. \A o \in Nat \ {0}, id \in Nat : o + 3 <= Len(t) /\ Has(t, o, id) => Has(M3, Len(b) + o, id)
    BY Zenon, <2>4, HasBehind
  <2>7. 1 + 3 <= Len(t) /\ Len(b) + 1 = 2 /\ 1 \in Nat \ {0} /\ 3 \in Nat
    BY <2>2
  <2>8. Has(M3, 2, 3)
    BY Zenon, <2>3, <2>6, <2>7
  <2> QED BY <2>3, <2>5, <2>8
<1>3. /\ M1 \in Seq(S) /\ Len(M1) = 4 /\ Has(M1, 1, 1)
      /\ M2 \in Seq(S) /\ Len(M2) = 4 /\ Has(M2, 1, 2)
      /\ M4 \in Seq(S) /\ Len(M4) = 4 /\ Has(M4, 1, 4)
      /\ M5 \in Seq(S) /\ Len(M5) = 4 /\ Has(M5, 1, 5)
      /\ M6 \in Seq(S) /\ Len(M6) = 4 /\ Has(M6, 1, 6)
  BY <1>1
<1> HIDE DEF S, M1, M2, M3, M4, M5, M6
<1>4. Joined(S, M1, M2, Q2)
  BY <1>3, Behind
<1> HIDE DEF Q2
<1>5. Q2 \in Seq(S) /\ Len(Q2) = 8 /\ Has(Q2, 1, 1) /\ Has(Q2, 5, 2)
  <2>0. /\ \A o \in Nat \ {0}, id \in Nat : o + 3 <= 4 /\ Has(M1, o, id) => Has(Q2, o, id)
        /\ \A o \in Nat \ {0}, id \in Nat : o + 3 <= 4 /\ Has(M2, o, id) => Has(Q2, 4 + o, id)
    <3>1. Len(M1) = 4 /\ Len(M2) = 4
      BY <1>3
    <3> QED BY Zenon, <3>1, <1>4, HasBehind
  <2>1. Has(Q2, 1, 1) /\ Has(Q2, 4 + 1, 2)
    BY <1>3, <2>0
  <2> QED BY <1>3, <1>4, <2>1 DEF Joined
<1>6. Joined(S, Q2, M3, Q3)
  BY <1>2, <1>5, Behind
<1> HIDE DEF Q3
<1>7. /\ Q3 \in Seq(S) /\ Len(Q3) = 13 /\ Has(Q3, 1, 1) /\ Has(Q3, 5, 2) /\ Has(Q3, 10, 3)
      /\ Q3[9] = CALL("build_perm")
  <2>0. /\ \A o \in Nat \ {0}, id \in Nat : o + 3 <= 8 /\ Has(Q2, o, id) => Has(Q3, o, id)
        /\ \A o \in Nat \ {0}, id \in Nat : o + 3 <= 5 /\ Has(M3, o, id) => Has(Q3, 8 + o, id)
    <3>1. Len(Q2) = 8 /\ Len(M3) = 5
      BY <1>2, <1>5
    <3> QED BY Zenon, <3>1, <1>6, HasBehind
  <2>1. Has(Q3, 1, 1) /\ Has(Q3, 5, 2) /\ Has(Q3, 8 + 2, 3)
    BY <1>2, <1>5, <2>0
  <2>2. /\ Q3 \in Seq(S) /\ Len(Q3) = 13 /\ \A k \in 1 .. 5 : Q3[8 + k] = M3[k]
    BY <1>2, <1>5, <1>6 DEF Joined
  <2>3. Q3[9] = M3[1]
    BY <2>2
  <2> QED BY <1>2, <2>1, <2>2, <2>3
<1>8. Joined(S, Q3, M4, Q4)
  BY <1>3, <1>7, Behind
<1> HIDE DEF Q4
<1>9. /\ Q4 \in Seq(S) /\ Len(Q4) = 17 /\ Has(Q4, 1, 1) /\ Has(Q4, 5, 2) /\ Has(Q4, 10, 3)
      /\ Has(Q4, 14, 4) /\ Q4[9] = CALL("build_perm")
  <2>0. /\ \A o \in Nat \ {0}, id \in Nat : o + 3 <= 13 /\ Has(Q3, o, id) => Has(Q4, o, id)
        /\ \A o \in Nat \ {0}, id \in Nat : o + 3 <= 4 /\ Has(M4, o, id) => Has(Q4, 13 + o, id)
    <3>1. Len(Q3) = 13 /\ Len(M4) = 4
      BY <1>3, <1>7
    <3> QED BY Zenon, <3>1, <1>8, HasBehind
  <2>1. Has(Q4, 1, 1) /\ Has(Q4, 5, 2) /\ Has(Q4, 10, 3) /\ Has(Q4, 13 + 1, 4)
    BY <1>3, <1>7, <2>0
  <2> QED BY <1>3, <1>7, <1>8, <2>1 DEF Joined
<1>10. Joined(S, Q4, M5, Q5)
  BY <1>3, <1>9, Behind
<1> HIDE DEF Q5
<1>11. /\ Q5 \in Seq(S) /\ Len(Q5) = 21 /\ Has(Q5, 1, 1) /\ Has(Q5, 5, 2) /\ Has(Q5, 10, 3)
       /\ Has(Q5, 14, 4) /\ Has(Q5, 18, 5) /\ Q5[9] = CALL("build_perm")
  <2>0. /\ \A o \in Nat \ {0}, id \in Nat : o + 3 <= 17 /\ Has(Q4, o, id) => Has(Q5, o, id)
        /\ \A o \in Nat \ {0}, id \in Nat : o + 3 <= 4 /\ Has(M5, o, id) => Has(Q5, 17 + o, id)
    <3>1. Len(Q4) = 17 /\ Len(M5) = 4
      BY <1>3, <1>9
    <3> QED BY Zenon, <3>1, <1>10, HasBehind
  <2>1. Has(Q5, 1, 1) /\ Has(Q5, 5, 2) /\ Has(Q5, 10, 3) /\ Has(Q5, 14, 4) /\ Has(Q5, 17 + 1, 5)
    BY <1>3, <1>9, <2>0
  <2> QED BY <1>3, <1>9, <1>10, <2>1 DEF Joined
<1>12. Joined(S, Q5, M6, Q6)
  BY <1>3, <1>11, Behind
<1> HIDE DEF Q6
<1>13. /\ Q6 \in Seq(S) /\ Len(Q6) = 25 /\ Has(Q6, 1, 1) /\ Has(Q6, 5, 2) /\ Has(Q6, 10, 3)
       /\ Has(Q6, 14, 4) /\ Has(Q6, 18, 5) /\ Has(Q6, 22, 6) /\ Q6[9] = CALL("build_perm")
  <2>0. /\ \A o \in Nat \ {0}, id \in Nat : o + 3 <= 21 /\ Has(Q5, o, id) => Has(Q6, o, id)
        /\ \A o \in Nat \ {0}, id \in Nat : o + 3 <= 4 /\ Has(M6, o, id) => Has(Q6, 21 + o, id)
    <3>1. Len(Q5) = 21 /\ Len(M6) = 4
      BY <1>3, <1>11
    <3> QED BY Zenon, <3>1, <1>12, HasBehind
  <2>1. /\ Has(Q6, 1, 1) /\ Has(Q6, 5, 2) /\ Has(Q6, 10, 3) /\ Has(Q6, 14, 4) /\ Has(Q6, 18, 5)
        /\ Has(Q6, 21 + 1, 6)
    BY <1>3, <1>11, <2>0
  <2> QED BY <1>3, <1>11, <1>12, <2>1 DEF Joined
<1>14. Joined(S, Q6, <<HALT>>, Main)
  BY <1>0, <1>13, Behind
<1>15. /\ Has(Main, 1, 1) /\ Has(Main, 5, 2) /\ Has(Main, 10, 3)
       /\ Has(Main, 14, 4) /\ Has(Main, 18, 5) /\ Has(Main, 22, 6)
  <2>1. \A o \in Nat \ {0}, id \in Nat : o + 3 <= 25 /\ Has(Q6, o, id) => Has(Main, o, id)
    <3>1. Len(Q6) = 25
      BY <1>13
    <3> QED BY Zenon, <3>1, <1>14, HasBehind
  <2> QED BY <1>13, <2>1
<1>16. Len(Main) = 26 /\ Main[26] = HALT /\ \A n \in 1 .. 25 : Main[n] = Q6[n]
  <2>1. /\ Len(Main) = 25 + Len(<<HALT>>) /\ \A n \in 1 .. 25 : Main[n] = Q6[n]
        /\ \A k \in 1 .. Len(<<HALT>>) : Main[25 + k] = <<HALT>>[k]
    BY Zenon, <1>13, <1>14 DEF Joined
  <2>2. Len(<<HALT>>) = 1 /\ <<HALT>>[1] = HALT
    OBVIOUS
  <2>3. Main[25 + 1] = <<HALT>>[1]
    BY <2>1, <2>2
  <2> QED BY <2>1, <2>2, <2>3
<1>17. ASSUME NEW id \in 1 .. 6 PROVE Has(Main, First[id], id)
  <2>1. id \in {1, 2, 3, 4, 5, 6}
    OBVIOUS
  <2>2. First[1] = 1 /\ First[2] = 5 /\ First[3] = 10 /\ First[4] = 14 /\ First[5] = 18 /\ First[6] = 22
    BY DEF First
  <2> QED BY Zenon, <1>15, <2>1, <2>2
<1> QED BY <1>13, <1>16, <1>17

\* An instruction of main the chase has nothing to do with.
Plain(h) ==
  /\ h.do \in {"call", "set"}
  /\ h.do = "call" => h.routine \in (Nested \cup Leaves) \ {"build_perm", "k_chase"}

\* main calls the shuffle, the clear and the chase one after the other, and
\* nothing else calls the first or the last.
LEMMA MainCalls ==
  /\ Len(Main) = 26
  /\ \A n \in 1 .. 25 : n \in {9, 10, 11} \/ Plain(Main[n])
  /\ Main[9] = CALL("build_perm") /\ Main[10] = CALL("clear_perf") /\ Main[11] = CALL("k_chase")
  /\ Main[26] = HALT
<1>1. ASSUME NEW id \in 1 .. 6, NEW o, Has(Main, o, id)
      PROVE  /\ Plain(Main[o]) /\ Plain(Main[o + 2]) /\ Plain(Main[o + 3])
             /\ id # 3 => Plain(Main[o + 1])
  <2>1. id # 3 => Kernels[id] \in Nested
    BY DEF Kernels, Nested
  <2> QED BY <1>1, <2>1 DEF Has, Plain, CALL, SETR, Nested, Leaves
<1>2. /\ Has(Main, 1, 1) /\ Has(Main, 5, 2) /\ Has(Main, 10, 3)
      /\ Has(Main, 14, 4) /\ Has(Main, 18, 5) /\ Has(Main, 22, 6)
  BY MainIs DEF First
<1>3. \A n \in 1 .. 8 : Plain(Main[n])
  BY <1>1, <1>2
<1>4. \A n \in 12 .. 17 : Plain(Main[n])
  BY <1>1, <1>2
<1>5. \A n \in 18 .. 25 : Plain(Main[n])
  BY <1>1, <1>2
<1>6. Main[10] = CALL("clear_perf") /\ Main[11] = CALL("k_chase")
  BY <1>2 DEF Has, Kernels
<1> QED BY <1>3, <1>4, <1>5, <1>6, MainIs
-----------------------------------------------------------------------------
(* The stack.                                                              *)

Sequence(s) == s \in Seq({s[i] : i \in DOMAIN s})

Placed(p)    == p = <<p[1], p[2]>> /\ p[1] \in Nested /\ p[2] \in 1 .. Len(Code[p[1]])
Home(p)      == p = <<p[1], p[2]>> /\ p[1] = "main" /\ p[2] \in 2 .. 26
AfterPush(p) == p[1] = "fib" /\ p[2] \in {5, 6, 7, 9, 10, 11}
TopPushed(s) == Len(s) >= 2 /\ s[Len(s)].to = Pushed

\* main's return address is at the bottom; above it are return addresses of the
\* routines that call others, and the values fib has pushed, each below the
\* return address of the call it is pushed for.
Framed(s) ==
  /\ Sequence(s)
  /\ Len(s) >= 1 => Home(s[1].to)
  /\ \A k \in 2 .. Len(s) : s[k].to = Pushed \/ Placed(s[k].to)
  /\ \A k \in 1 .. Len(s) : AfterPush(s[k].to) => k - 1 \in 1 .. Len(s) /\ s[k - 1].to = Pushed

LEMMA SequenceParts ==
  ASSUME NEW s, Sequence(s)
  PROVE  Len(s) \in Nat /\ DOMAIN s = 1 .. Len(s) /\ (Len(s) = 0 <=> s = <<>>)
BY EmptySeq, LenProperties DEF Sequence

LEMMA IsSequence ==
  ASSUME NEW S, NEW s \in Seq(S)
  PROVE  Sequence(s)
<1>1. Len(s) \in Nat /\ DOMAIN s = 1 .. Len(s) /\ s \in [1 .. Len(s) -> S]
  BY LenProperties
<1>2. s \in [1 .. Len(s) -> {s[i] : i \in DOMAIN s}]
  BY <1>1
<1> QED BY <1>1, <1>2, SeqDef DEF Sequence

LEMMA Pushing ==
  ASSUME NEW s, Sequence(s), NEW e
  PROVE  /\ Sequence(Append(s, e)) /\ Len(Append(s, e)) = Len(s) + 1
         /\ \A k \in 1 .. Len(s) : Append(s, e)[k] = s[k]
         /\ Append(s, e)[Len(s) + 1] = e
<1> DEFINE S == {s[i] : i \in DOMAIN s} \cup {e}
<1>1. s \in Seq(S) /\ e \in S
  BY SeqMonotonic DEF Sequence
<1> HIDE DEF S
<1>2. /\ Append(s, e) \in Seq(S) /\ Len(Append(s, e)) = Len(s) + 1
      /\ \A k \in 1 .. Len(s) : Append(s, e)[k] = s[k]
      /\ Append(s, e)[Len(s) + 1] = e
  BY <1>1, AppendProperties
<1> QED BY <1>2, IsSequence

LEMMA Dropping ==
  ASSUME NEW s, Sequence(s), Len(s) >= 1
  PROVE  LET t == SubSeq(s, 1, Len(s) - 1) IN
         Sequence(t) /\ Len(t) = Len(s) - 1 /\ \A k \in 1 .. Len(s) - 1 : t[k] = s[k]
<1> DEFINE S == {s[i] : i \in DOMAIN s}
           n == Len(s) - 1
<1>1. s \in Seq(S) /\ Len(s) \in Nat /\ n \in Nat
  BY SequenceParts DEF Sequence
<1>2. \A i \in 1 .. n : i \in 1 .. Len(s)
  BY <1>1
<1> HIDE DEF S
<1>3. /\ SubSeq(s, 1, n) \in Seq(S) /\ Len(SubSeq(s, 1, n)) = IF 1 <= n THEN n - 1 + 1 ELSE 0
      /\ \A i \in 1 .. n - 1 + 1 : SubSeq(s, 1, n)[i] = s[1 + i - 1]
  BY <1>1, <1>2, SubSeqProperties
<1> HIDE DEF n
<1>4. Len(SubSeq(s, 1, n)) = n
  BY <1>1, <1>3
<1>5. ASSUME NEW i \in 1 .. n PROVE SubSeq(s, 1, n)[i] = s[i]
  <2>1. i \in 1 .. n - 1 + 1 /\ 1 + i - 1 = i
    BY <1>1
  <2> QED BY <1>3, <2>1
<1> QED BY <1>3, <1>4, <1>5, IsSequence DEF n

\* A call from main; a push; a call from one of the others.
LEMMA FramedPush ==
  ASSUME NEW s, Framed(s), NEW e,
         \/ s = <<>> /\ Home(e.to)
         \/ Len(s) >= 1 /\ e.to = Pushed
         \/ Len(s) >= 1 /\ Placed(e.to) /\ (AfterPush(e.to) => TopPushed(s))
  PROVE  /\ Framed(Append(s, e)) /\ Len(Append(s, e)) = Len(s) + 1
         /\ Len(s) >= 1 => Append(s, e)[1] = s[1]
         /\ Len(s) >= 1 /\ e.to = Pushed => TopPushed(Append(s, e))
         /\ Append(s, e)[Len(s) + 1] = e
<1>1. PICK t : t = Append(s, e)
  OBVIOUS
<1>2. /\ Sequence(t) /\ Len(t) = Len(s) + 1 /\ \A k \in 1 .. Len(s) : t[k] = s[k]
      /\ t[Len(s) + 1] = e /\ Len(s) \in Nat /\ (s = <<>> => Len(s) = 0)
  BY <1>1, Pushing, SequenceParts DEF Framed
<1>3. ~AfterPush(Pushed) /\ \A p : Home(p) => ~AfterPush(p)
  BY DEF AfterPush, Pushed, Home
<1>4. Home(t[1].to)
  <2>1. CASE s = <<>>
    BY <1>2, <2>1
  <2>2. CASE Len(s) >= 1
    <3>1. 1 \in 1 .. Len(s)
      BY <1>2, <2>2
    <3> QED BY <1>2, <2>2, <3>1 DEF Framed
  <2> QED BY <2>1, <2>2
<1>5. ASSUME NEW k \in 2 .. Len(t) PROVE t[k].to = Pushed \/ Placed(t[k].to)
  <2>1. CASE k = Len(s) + 1
    BY <1>2, <1>5, <2>1
  <2>2. CASE k # Len(s) + 1
    <3>1. k \in 2 .. Len(s) /\ k \in 1 .. Len(s)
      BY <1>2, <2>2
    <3> QED BY <1>2, <3>1 DEF Framed
  <2> QED BY <2>1, <2>2
<1>6. ASSUME NEW k \in 1 .. Len(t), AfterPush(t[k].to)
      PROVE  k - 1 \in 1 .. Len(t) /\ t[k - 1].to = Pushed
  <2>1. CASE k = Len(s) + 1
    <3>1. TopPushed(s)
      BY <1>2, <1>3, <1>6, <2>1
    <3>2. k - 1 = Len(s) /\ Len(s) \in 1 .. Len(s) /\ k - 1 \in 1 .. Len(t)
      BY <1>2, <2>1, <3>1 DEF TopPushed
    <3> QED BY <1>2, <3>1, <3>2 DEF TopPushed
  <2>2. CASE k # Len(s) + 1
    <3>1. k \in 1 .. Len(s)
      BY <1>2, <2>2
    <3>2. k - 1 \in 1 .. Len(s) /\ s[k - 1].to = Pushed
      BY <1>2, <1>6, <3>1 DEF Framed
    <3>3. k - 1 \in 1 .. Len(t)
      BY <1>2, <3>2
    <3> QED BY <1>2, <3>2, <3>3
  <2> QED BY <2>1, <2>2
<1>7. Framed(t)
  BY <1>2, <1>4, <1>5, <1>6 DEF Framed
<1>8. Len(s) >= 1 => t[1] = s[1] /\ Len(t) >= 2
  <2> SUFFICES ASSUME Len(s) >= 1 PROVE t[1] = s[1] /\ Len(t) >= 2
    OBVIOUS
  <2>1. 1 \in 1 .. Len(s)
    BY <1>2
  <2> QED BY <1>2, <2>1
<1> QED BY <1>1, <1>2, <1>7, <1>8 DEF TopPushed

\* A return or a pop.
LEMMA FramedDrop ==
  ASSUME NEW s, Framed(s), Len(s) >= 1
  PROVE  LET t == SubSeq(s, 1, Len(s) - 1) IN
         /\ Framed(t) /\ Len(t) = Len(s) - 1 /\ (Len(s) = 1 => t = <<>>)
         /\ Len(s) >= 2 => t[1] = s[1]
         /\ AfterPush(s[Len(s)].to) => TopPushed(t)
<1>1. PICK t : t = SubSeq(s, 1, Len(s) - 1)
  OBVIOUS
<1>2. /\ Sequence(t) /\ Len(t) = Len(s) - 1 /\ \A k \in 1 .. Len(s) - 1 : t[k] = s[k]
      /\ Len(s) \in Nat
  BY <1>1, Dropping, SequenceParts DEF Framed
<1>3. Len(s) = 1 => t = <<>>
  BY <1>2, SequenceParts
<1>4. Len(s) >= 2 => t[1] = s[1]
  <2> SUFFICES ASSUME Len(s) >= 2 PROVE t[1] = s[1]
    OBVIOUS
  <2>1. 1 \in 1 .. Len(s) - 1
    BY <1>2
  <2> QED BY <1>2, <2>1
<1>5. Len(t) >= 1 => Home(t[1].to)
  BY <1>2, <1>4 DEF Framed
<1>6. \A k \in 1 .. Len(t) : k \in 1 .. Len(s) - 1 /\ k \in 1 .. Len(s)
  BY <1>2
<1>7. \A k \in 2 .. Len(t) : t[k].to = Pushed \/ Placed(t[k].to)
  <2> SUFFICES ASSUME NEW k \in 2 .. Len(t) PROVE t[k].to = Pushed \/ Placed(t[k].to)
    OBVIOUS
  <2>1. k \in 2 .. Len(s) /\ k \in 1 .. Len(s) - 1
    BY <1>2
  <2> QED BY <1>2, <2>1 DEF Framed
<1>8. ASSUME NEW k \in 1 .. Len(t), AfterPush(t[k].to)
      PROVE  k - 1 \in 1 .. Len(t) /\ t[k - 1].to = Pushed
  <2>1. k \in 1 .. Len(s) /\ t[k] = s[k]
    BY <1>2, <1>6
  <2>2. k - 1 \in 1 .. Len(s) /\ s[k - 1].to = Pushed
    BY <1>8, <2>1 DEF Framed
  <2>3. k - 1 \in 1 .. Len(t) /\ k - 1 \in 1 .. Len(s) - 1
    BY <1>2, <2>2
  <2> QED BY <1>2, <2>2, <2>3
<1>9. AfterPush(s[Len(s)].to) => TopPushed(t)
  <2> SUFFICES ASSUME AfterPush(s[Len(s)].to) PROVE TopPushed(t)
    OBVIOUS
  <2>1. Len(s) \in 1 .. Len(s)
    BY <1>2
  <2>2. Len(s) - 1 \in 1 .. Len(s) /\ s[Len(s) - 1].to = Pushed
    BY <2>1 DEF Framed
  <2>3. ~Home(Pushed)
    BY DEF Home, Pushed
  <2>4. Len(s) - 1 # 1
    BY <2>2, <2>3 DEF Framed
  <2>5. Len(s) - 1 \in 1 .. Len(s) - 1 /\ Len(t) >= 2
    BY <1>2, <2>2, <2>4
  <2> QED BY <1>2, <2>2, <2>5 DEF TopPushed
<1> QED BY <1>1, <1>2, <1>3, <1>4, <1>5, <1>7, <1>8, <1>9 DEF Framed

-----------------------------------------------------------------------------
(* The chase.                                                              *)

\* After d steps along a cycle that holds word 0 the chase is at c, and has been
\* to the d words behind word 0, or to all.
Reached(b, c, v, d) ==
  /\ c \in Words
  /\ \E root, pos, len :
       /\ Cycles(b, 0, root, pos, len)
       /\ d < len[0] => pos[c] = d /\ \A w \in Words : pos[w] \in 1 .. d => w \in v
       /\ d >= len[0] => Words \subseteq v

LEMMA ChaseBegins ==
  ASSUME NEW b, NEW v, CyclesTo(b, 0)
  PROVE  Reached(b, 0, v, 0)
<1>1. PICK root, pos, len : Cycles(b, 0, root, pos, len)
  BY DEF CyclesTo
<1>2. pos[0] = 0 /\ len[0] \in Nat \ {0} /\ 0 \in Words
  BY <1>1, Profile DEF Cycles
<1> QED BY <1>1, <1>2 DEF Reached

LEMMA ChaseGoesOn ==
  ASSUME NEW b, NEW c, NEW v, NEW d \in Nat, Reached(b, c, v, d)
  PROVE  Reached(b, b[c], v \cup {b[c]}, d + 1) /\ b[c] \in Words
<1>1. PICK root, pos, len :
        /\ Cycles(b, 0, root, pos, len)
        /\ d < len[0] => pos[c] = d /\ \A w \in Words : pos[w] \in 1 .. d => w \in v
        /\ d >= len[0] => Words \subseteq v
  BY DEF Reached
<1>2. /\ len[0] \in Nat \ {0}
      /\ \A w \in Words : pos[w] \in Nat /\ pos[w] < len[0] /\ root[w] = 0
      /\ \A u, w \in Words : pos[u] = pos[w] => u = w
  BY <1>1 DEF Cycles
<1>3. /\ c \in Words /\ b[c] \in Words
      /\ pos[b[c]] = IF pos[c] + 1 = len[0] THEN 0 ELSE pos[c] + 1
  BY <1>1, <1>2 DEF Cycles, Reached
<1>4. PICK u : u = v \cup {b[c]}
  OBVIOUS
<1>5. CASE d >= len[0]
  <2>1. ~(d + 1 < len[0]) /\ Words \subseteq u
    BY <1>1, <1>2, <1>4, <1>5
  <2> QED BY <1>1, <1>3, <1>4, <2>1 DEF Reached
<1>6. CASE d + 1 < len[0]
  <2>1. pos[b[c]] = d + 1 /\ d < len[0] /\ ~(d + 1 >= len[0])
    BY <1>1, <1>2, <1>3, <1>6
  <2>2. ASSUME NEW w \in Words, pos[w] \in 1 .. d + 1 PROVE w \in u
    <3>1. CASE pos[w] = d + 1
      BY <1>2, <1>3, <1>4, <2>1, <3>1
    <3>2. CASE pos[w] # d + 1
      <4>1. pos[w] \in 1 .. d
        BY <2>2, <3>2
      <4> QED BY <1>1, <1>4, <2>1, <4>1
    <3> QED BY <3>1, <3>2
  <2> QED BY <1>1, <1>3, <1>4, <2>1, <2>2 DEF Reached
<1>7. CASE d + 1 = len[0]
  <2>1. pos[b[c]] = 0 /\ d < len[0] /\ ~(d + 1 < len[0])
    BY <1>1, <1>2, <1>3, <1>7
  <2>2. ASSUME NEW w \in Words PROVE w \in u
    <3>1. CASE pos[w] = 0
      BY <1>2, <1>3, <1>4, <2>1, <3>1
    <3>2. CASE pos[w] # 0
      <4>1. pos[w] \in 1 .. d
        BY <1>2, <1>7, <3>2
      <4> QED BY <1>1, <1>4, <2>1, <4>1
    <3> QED BY <3>1, <3>2
  <2> QED BY <1>1, <1>3, <1>4, <2>1, <2>2 DEF Reached
<1> QED BY <1>2, <1>5, <1>6, <1>7

LEMMA ChaseEnds ==
  ASSUME NEW b, NEW c, NEW v, Reached(b, c, v, CHASE)
  PROVE  Words \subseteq v
<1>1. PICK root, pos, len :
        /\ Cycles(b, 0, root, pos, len)
        /\ CHASE >= len[0] => Words \subseteq v
  BY DEF Reached
<1>2. CHASE >= len[0]
  BY <1>1, CycleShort, Profile
<1> QED BY <1>1, <1>2

-----------------------------------------------------------------------------
(* The inductive invariant.                                                *)

OneCycle == buf \in [Words -> Words] /\ CyclesTo(buf, 0)

\* Where the processor is: in main with nothing on the stack, in a routine that
\* may call others, or in one of those that do not, called from main.
InMain   == at[1] = "main" /\ at[2] \in 1 .. 26 /\ stack = <<>>
InNested == /\ Placed(at) /\ Len(stack) >= 1 /\ (AfterPush(at) => TopPushed(stack))
            /\ stack[1].to[2] \notin 10 .. 12
InLeaf   == /\ at[1] \in Leaves /\ at[2] \in 1 .. Len(Code[at[1]]) /\ Len(stack) = 1
            /\ at[1] = "build_perm" => stack[1].to[2] = 10
            /\ at[1] = "k_chase" => stack[1].to[2] = 12
            /\ at[1] = "clear_perf" => stack[1].to[2] # 10

ControlInv ==
  /\ at = <<at[1], at[2]>> /\ reg = [r \in Registers |-> reg[r]] /\ Framed(stack)
  /\ InMain \/ InNested \/ InLeaf

IsWord(v) == v = [n |-> v.n, of |-> v.of, shift |-> v.shift]

\* The shuffle at its instruction n, with i in C.
Shuffling(n, i) ==
  /\ n \in 2 .. 6 => IsWord(reg["B"]) /\ reg["B"].n = MEM_WORDS
  /\ n \in (3 .. 5) \cup (7 .. 12) => IsWord(reg["C"])
  /\ n \in {3, 4, 8, 9, 10, 11} => i \in Words
  /\ n = 3 => \A w \in 0 .. i - 1 : buf[w] = w
  /\ n = 4 => \A w \in 0 .. i : buf[w] = w
  /\ n = 5 => i \in 1 .. MEM_WORDS /\ \A w \in 0 .. i - 1 : buf[w] = w
  /\ n \in {6, 7} => \A w \in Words : buf[w] = w
  /\ n = 7 => i = MEM_WORDS
  /\ n \in 8 .. 12 => buf \in [Words -> Words]
  /\ n \in {8, 9, 11} => CyclesTo(buf, i)
  /\ n \in {9, 10} => i # 0
  /\ n = 10 => CyclesTo(buf, i - 1)
  /\ n = 12 => CyclesTo(buf, 0)

\* The chase at its instruction n, with c in C after d steps.
Chasing(n, c, d) ==
  /\ OneCycle
  /\ n \in 3 .. 7 => IsWord(reg["D"])
  /\ n \in {2, 3} => c = 0
  /\ n = 3 => d = 0
  /\ n \in 4 .. 6 => reg["E"].n = CHASE
  /\ n \in {4, 5} => d \in 0 .. CHASE - 1
  /\ n = 4 => Reached(buf, c, visited, d)
  /\ n = 5 => Reached(buf, c, visited, d + 1)
  /\ n = 6 => d \in 1 .. CHASE /\ Reached(buf, c, visited, d)
  /\ n = 7 => visited = Words

DataInv ==
  /\ buf = [w \in Words |-> buf[w]] /\ visited \subseteq Words
  /\ at[1] = "main" /\ at[2] \in {10, 11} => OneCycle
  /\ at[1] = "clear_perf" /\ stack[1].to[2] = 11 => OneCycle
  /\ at[1] = "build_perm" => Shuffling(at[2], reg["C"].n)
  /\ at[1] = "k_chase" => Chasing(at[2], reg["C"].n, reg["D"].n)

ChaseInv == ControlInv /\ DataInv

LEMMA ChaseInit == ProbeInit => ChaseInv
<1> SUFFICES ASSUME ProbeInit PROVE ChaseInv
  OBVIOUS
<1>1. Framed(<<>>)
  BY EmptySeq DEF Framed, Sequence
<1> QED BY <1>1 DEF ProbeInit, ChaseInv, ControlInv, InMain, DataInv

LEMMA ChaseHolds == ChaseInv => ChaseVisitsAll
BY DEF ChaseInv, DataInv, Chasing, ChaseVisitsAll, k_chase, SETR, Run, ADDV, JMPULT, RET
-----------------------------------------------------------------------------
(* Every step keeps it.                                                    *)

\* The four leaves' code, instruction by instruction.
LEMMA LeafCode ==
  /\ Len(build_perm) = 12 /\ Len(clear_perf) = 2 /\ Len(k_chase) = 7
  /\ clear_perf[1] = Run("clear", {"A", "B"}) /\ clear_perf[2] = RET
  /\ build_perm[1] = SETR("B", MEM_WORDS) /\ build_perm[2] = SETR("C", 0)
  /\ build_perm[3] = Run("identity", {"E"}) /\ build_perm[4] = ADDV("C", 1)
  /\ build_perm[5] = JMPULT("C", "B", 3) /\ build_perm[6] = COPY("C", "B")
  /\ build_perm[7] = ADDV("C", -1) /\ build_perm[8] = JMPZ("C", 12)
  /\ build_perm[9] = Run("swap", {"D", "E", "F", "G", "H", "I"})
  /\ build_perm[10] = ADDV("C", -1) /\ build_perm[11] = JMP(8) /\ build_perm[12] = RET
  /\ k_chase[1] = SETR("C", 0) /\ k_chase[2] = SETR("D", 0) /\ k_chase[3] = SETR("E", CHASE)
  /\ k_chase[4] = Run("follow", {"F", "H"}) /\ k_chase[5] = ADDV("D", 1)
  /\ k_chase[6] = JMPULT("D", "E", 4) /\ k_chase[7] = RET
BY DEF build_perm, clear_perf, k_chase

LEMMA LeafFits ==
  ASSUME NEW r \in Leaves
  PROVE  /\ 1 \in 1 .. Len(Code[r])
         /\ \A n \in 1 .. Len(Code[r]) :
              LET h == Code[r][n] IN
              /\ h.do \notin {"call", "push", "pop", "halt", "update"}
              /\ h.do \in Jumps => h.to \in 1 .. Len(Code[r])
              /\ h.do \notin {"ret", "jmp"} => n + 1 \in 1 .. Len(Code[r])
              /\ h.do = "ret" <=> n = Len(Code[r])
              /\ h.do = "copy" => h.from \in Registers
<1>1. CASE r = "build_perm"
  BY <1>1, CodeOf DEF build_perm, Jumps, SETR, Run, ADDV, JMPULT, COPY, JMPZ, JMP, RET, Registers
<1>2. CASE r = "clear_perf"
  BY <1>2, CodeOf DEF clear_perf, Jumps, Run, RET
<1>3. CASE r = "k_chase"
  BY <1>3, CodeOf DEF k_chase, Jumps, SETR, Run, ADDV, JMPULT, RET
<1> QED BY <1>1, <1>2, <1>3 DEF Leaves

\* What a step does to the buffer and to what the chase has seen.
LEMMA StepData ==
  ASSUME ProbeNext
  PROVE  /\ Here.do \notin {"update", "identity", "swap"} => UNCHANGED buf
         /\ Here.do # "follow" => UNCHANGED visited
  BY DEF ProbeNext, Assign, AddRegisters, Jump, Call, Return, PushRegister, PopRegister, Work,
     UpdateWord, Identity, Swap, Follow, Clear, Read, Reload, Digit, PutChar, NewLine, Quiet, NoMemory

\* A step goes on, jumps, calls, returns, pushes or pops, as its instruction says.
LEMMA StepControl ==
  ASSUME ProbeNext
  PROVE  \/ /\ Here.do \notin {"jmp", "call", "ret", "push", "pop", "halt"}
            /\ at' = <<at[1], at[2] + 1>> /\ stack' = stack
         \/ Here.do \in Jumps /\ at' = <<at[1], Here.to>> /\ stack' = stack
         \/ Here.do = "call" /\ Call
         \/ Here.do = "ret" /\ Return
         \/ Here.do = "push" /\ PushRegister
         \/ Here.do = "pop" /\ PopRegister
<1>1. CASE Jump
  <2>1. Here.do = "jmp" => Taken
    BY DEF Taken
  <2> QED BY <1>1, <2>1 DEF Jump, Goto, Advance, Jumps
<1>2. CASE Call \/ Return \/ PushRegister \/ PopRegister
  BY <1>2 DEF Call, Return, PushRegister, PopRegister
<1>3. CASE Assign \/ AddRegisters \/ Work \/ UpdateWord \/ Identity \/ Swap
  BY <1>3 DEF Assign, AddRegisters, Work, UpdateWord, Identity, Swap, Advance
<1>4. CASE Follow \/ Clear \/ Read \/ Reload \/ Digit \/ PutChar \/ NewLine
  BY <1>4 DEF Follow, Clear, Read, Reload, Digit, PutChar, NewLine, Advance
<1> QED BY <1>1, <1>2, <1>3, <1>4 DEF ProbeNext

\* The registers stay registers, the buffer a buffer.
LEMMA StepShape ==
  ASSUME ProbeNext, reg = [r \in Registers |-> reg[r]], buf = [w \in Words |-> buf[w]]
  PROVE  reg' = [r \in Registers |-> reg'[r]] /\ buf' = [w \in Words |-> buf'[w]]
<1>1. CASE Assign \/ AddRegisters \/ Jump \/ Call \/ Return \/ PushRegister \/ PopRegister
  BY <1>1 DEF Assign, AddRegisters, Jump, Call, Return, PushRegister, PopRegister, Quiet, NoMemory
<1>2. CASE Work \/ UpdateWord \/ Identity \/ Swap
  BY <1>2 DEF Work, UpdateWord, Identity, Swap, NoMemory, Without
<1>3. CASE Follow \/ Clear \/ Read \/ Reload \/ Digit \/ PutChar \/ NewLine
  BY <1>3 DEF Follow, Clear, Read, Reload, Digit, PutChar, NewLine, NoMemory, Without, Quiet
<1> QED BY <1>1, <1>2, <1>3 DEF ProbeNext

\* A routine that calls others, and those it calls, come back to main behind
\* their call, and only they run until then.
LEMMA NestedControl ==
  ASSUME ControlInv, InNested, ProbeNext
  PROVE  /\ at' = <<at'[1], at'[2]>> /\ Framed(stack')
         /\ (InMain' /\ at'[2] \notin 10 .. 12) \/ InNested'
         /\ Here.do \notin {"follow", "swap", "identity"}
<1> DEFINE r == at[1]
           n == at[2]
<1>1. /\ at = <<r, n>> /\ r \in Nested /\ n \in 1 .. Len(Code[r]) /\ Framed(stack)
      /\ Len(stack) >= 1 /\ (AfterPush(at) => TopPushed(stack)) /\ stack[1].to[2] \notin 10 .. 12
  BY DEF ControlInv, InNested, Placed
<1>2. Fits(r, n) /\ Here = Code[r][n]
  BY <1>1, CodeFits DEF Here
<1>3. Here.do \notin {"follow", "swap", "identity", "halt"}
  BY <1>2 DEF Fits
<1>4. Len(stack) \in Nat /\ n \in Nat
  BY <1>1, SequenceParts DEF Framed, Placed
<1>5. CASE /\ Here.do \notin {"jmp", "call", "ret", "push", "pop", "halt"}
           /\ at' = <<at[1], at[2] + 1>> /\ stack' = stack
  <2>1. n + 1 \in 1 .. Len(Code[r])
    BY <1>2, <1>5 DEF Fits
  <2>2. r = "fib" => n \notin {4, 8, 6, 10}
    BY <1>2, <1>5 DEF Fits
  <2>3. AfterPush(at') => AfterPush(at)
    BY <1>1, <1>4, <1>5, <2>2 DEF AfterPush
  <2> QED BY <1>1, <1>3, <1>5, <2>1, <2>3 DEF InNested, Placed
<1>6. CASE Here.do \in Jumps /\ at' = <<at[1], Here.to>> /\ stack' = stack
  <2>1. Here.to \in 1 .. Len(Code[r]) /\ (r = "fib" => Here.to = 4)
    BY <1>2, <1>6 DEF Fits
  <2>2. ~AfterPush(at')
    BY <1>1, <1>6, <2>1 DEF AfterPush
  <2> QED BY <1>1, <1>3, <1>6, <2>1, <2>2 DEF InNested, Placed
<1>7. CASE Here.do = "call" /\ Call
  <2> DEFINE e == [to |-> <<r, n + 1>>, val |-> Lost]
  <2>1. /\ Here.routine \in Nested /\ n + 1 \in 1 .. Len(Code[r]) /\ (r = "fib" => n \in {6, 10})
    BY <1>2, <1>7 DEF Fits
  <2>2. Placed(e.to) /\ (AfterPush(e.to) => AfterPush(at))
    BY <1>1, <1>4, <2>1 DEF Placed, AfterPush
  <2>3. stack' = Append(stack, e) /\ at' = <<Here.routine, 1>>
    BY <1>7 DEF Call, Push
  <2>4. Placed(at') /\ ~AfterPush(at')
    BY <2>1, <2>3, CodeBegins DEF Placed, AfterPush
  <2> HIDE DEF e
  <2>5. /\ Framed(Append(stack, e)) /\ Len(Append(stack, e)) = Len(stack) + 1
        /\ Append(stack, e)[1] = stack[1]
    BY <1>1, <2>2, FramedPush
  <2> QED BY <1>1, <1>3, <1>4, <2>3, <2>4, <2>5 DEF InNested, Placed
<1>8. CASE Here.do = "ret" /\ Return
  <2> DEFINE t == SubSeq(stack, 1, Len(stack) - 1)
  <2>1. stack' = t /\ at' = stack[Len(stack)].to /\ at' # Pushed
    BY <1>8 DEF Return, Top, Drop
  <2>2. /\ Framed(t) /\ Len(t) = Len(stack) - 1 /\ (Len(stack) = 1 => t = <<>>)
        /\ (Len(stack) >= 2 => t[1] = stack[1])
        /\ (AfterPush(at') => TopPushed(t))
    BY <1>1, <2>1, FramedDrop
  <2> HIDE DEF t
  <2>3. CASE Len(stack) = 1
    <3>1. Home(at') /\ at'[2] \notin 10 .. 12
      BY <1>1, <2>1, <2>3 DEF Framed
    <3> QED BY <1>3, <2>1, <2>2, <2>3, <3>1 DEF InMain, Home
  <2>4. CASE Len(stack) >= 2
    <3>1. Len(stack) \in 2 .. Len(stack)
      BY <1>4, <2>4
    <3>2. Placed(at')
      BY <1>1, <2>1, <3>1 DEF Framed
    <3>3. Len(stack') >= 1 /\ stack'[1] = stack[1]
      BY <1>4, <2>1, <2>2, <2>4
    <3> QED BY <1>1, <1>3, <2>1, <2>2, <3>2, <3>3 DEF InNested, Placed
  <2>6. Len(stack) >= 1
    BY <1>1
  <2>7. \A k \in Nat : k >= 1 => k = 1 \/ k >= 2
    OBVIOUS
  <2>5. Len(stack) = 1 \/ Len(stack) >= 2
    BY Zenon, <1>4, <2>6, <2>7
  <2> QED BY Zenon, <2>3, <2>4, <2>5
<1>9. CASE Here.do = "push" /\ PushRegister
  <2> DEFINE e == [to |-> Pushed, val |-> reg[Here.reg]]
  <2>1. r = "fib" /\ n \in {4, 8} /\ n + 1 \in 1 .. Len(Code[r])
    BY <1>2, <1>9 DEF Fits
  <2>2. stack' = Append(stack, e) /\ at' = <<r, n + 1>> /\ e.to = Pushed
    BY <1>9 DEF PushRegister, Push
  <2> HIDE DEF e
  <2>3. /\ Framed(Append(stack, e)) /\ Len(Append(stack, e)) = Len(stack) + 1
        /\ Append(stack, e)[1] = stack[1] /\ TopPushed(Append(stack, e))
    BY <1>1, <2>2, FramedPush
  <2> QED BY <1>1, <1>3, <1>4, <2>1, <2>2, <2>3 DEF InNested, Placed
<1>10. CASE Here.do = "pop" /\ PopRegister
  <2> DEFINE t == SubSeq(stack, 1, Len(stack) - 1)
  <2>1. r = "fib" /\ n \in {7, 11} /\ n + 1 \in 1 .. Len(Code[r])
    BY <1>2, <1>10 DEF Fits
  <2>2. stack' = t /\ at' = <<r, n + 1>> /\ ~AfterPush(at')
    BY <1>10, <2>1 DEF PopRegister, Drop, AfterPush
  <2>3. Len(stack) >= 2
    BY <1>1, <2>1 DEF AfterPush, TopPushed
  <2>4. Framed(t) /\ Len(t) = Len(stack) - 1 /\ t[1] = stack[1]
    BY <1>1, <2>3, FramedDrop
  <2> HIDE DEF t
  <2> QED BY <1>1, <1>3, <1>4, <2>1, <2>2, <2>3, <2>4 DEF InNested, Placed
<1> QED BY <1>3, <1>5, <1>6, <1>7, <1>8, <1>9, <1>10, StepControl

\* main puts a constant in a register or calls.
LEMMA MainControl ==
  ASSUME ControlInv, InMain, ProbeNext
  PROVE  /\ at' = <<at'[1], at'[2]>> /\ Framed(stack')
         /\ \/ InMain' /\ at'[2] \notin 10 .. 12
            \/ InNested'
            \/ InLeaf' /\ at'[2] = 1 /\ stack'[1].to[2] = at[2] + 1
         /\ Here.do \notin {"follow", "swap", "identity", "update"}
<1> DEFINE n == at[2]
<1>1. at = <<"main", n>> /\ n \in 1 .. 26 /\ stack = <<>> /\ Framed(stack)
  BY DEF ControlInv, InMain
<1>2. Here = Main[n]
  BY <1>1, CodeOf DEF Here
<1>3. /\ Len(stack) = 0
      /\ n = 9 => Here.do = "call" /\ Here.routine = "build_perm"
      /\ n = 10 => Here.do = "call" /\ Here.routine = "clear_perf"
      /\ n = 11 => Here.do = "call" /\ Here.routine = "k_chase"
      /\ n = 26 => Here.do = "halt"
      /\ n \in 1 .. 25 => n \in 9 .. 11 \/ Plain(Here)
  <2>1. n \in 1 .. 25 => n \in 9 .. 11 \/ Plain(Here)
    BY <1>2, MainCalls
  <2>2. Len(stack) = 0
    BY <1>1, SequenceParts DEF Framed
  <2>3. /\ n = 9 => Here = CALL("build_perm")
        /\ n = 10 => Here = CALL("clear_perf")
        /\ n = 11 => Here = CALL("k_chase")
        /\ n = 26 => Here = HALT
    BY <1>2, MainCalls
  <2> QED BY <2>1, <2>2, <2>3 DEF CALL, HALT
<1>4. n \in 1 .. 25 /\ Here.do \in {"call", "set"}
  <2>1. Here.do # "halt"
    BY StepControl DEF Jumps
  <2>2. n \in 1 .. 25
    BY <1>1, <1>3, <2>1
  <2> QED BY <1>3, <2>2 DEF Plain
<1>5. CASE Here.do = "set"
  <2>1. n \notin 9 .. 11 /\ at' = <<"main", n + 1>> /\ stack' = stack
    BY <1>1, <1>3, <1>5, StepControl DEF Jumps
  <2>2. at' = <<"main", n + 1>> /\ stack' = <<>> /\ Framed(stack')
    BY <1>1, <2>1
  <2>3. n + 1 \in 1 .. 26 /\ n + 1 \notin 10 .. 12
    BY <1>4, <2>1
  <2> HIDE DEF n
  <2>4. InMain' /\ at'[2] \notin 10 .. 12 /\ at' = <<at'[1], at'[2]>>
    BY <2>2, <2>3 DEF InMain
  <2> QED BY <1>5, <2>2, <2>4
<1>6. CASE Here.do = "call"
  <2> DEFINE e == [to |-> <<"main", n + 1>>, val |-> Lost]
  <2>1. stack' = Append(stack, e) /\ at' = <<Here.routine, 1>>
    BY <1>1, <1>6, StepControl DEF Call, Push, Jumps
  <2>2. Home(e.to) /\ e.to[2] = n + 1
    BY <1>4 DEF Home
  <2> HIDE DEF e
  <2>3. Framed(stack') /\ Len(stack') = 1 /\ stack'[1] = e
    <3>1. /\ Framed(Append(stack, e)) /\ Len(Append(stack, e)) = Len(stack) + 1
          /\ Append(stack, e)[Len(stack) + 1] = e
      BY <1>1, <2>2, FramedPush
    <3> QED BY <1>3, <2>1, <3>1
  <2>4. CASE Here.routine \in Nested
    <3>1. n \notin 9 .. 11
      BY <1>3, <2>4 DEF Nested
    <3>2. Placed(at') /\ ~AfterPush(at')
      BY <2>1, <2>4, CodeBegins DEF Placed, AfterPush
    <3>3. stack'[1].to[2] \notin 10 .. 12
      BY <1>4, <2>2, <2>3, <3>1
    <3> QED BY <1>4, <2>1, <2>3, <3>2, <3>3 DEF InNested, Placed
  <2>5. CASE Here.routine \in Leaves
    <3>1. /\ Here.routine = "build_perm" => n = 9
          /\ Here.routine = "k_chase" => n = 11
          /\ Here.routine = "clear_perf" => n # 9
      BY <1>3, <1>4, <1>6 DEF Plain
    <3>2. 1 \in 1 .. Len(Code[Here.routine])
      BY <2>5, LeafFits
    <3>4. at'[1] = Here.routine /\ at'[2] = 1 /\ stack'[1].to[2] = n + 1
      BY <2>1, <2>2, <2>3
    <3>5. /\ Here.routine = "build_perm" => n + 1 = 10
          /\ Here.routine = "k_chase" => n + 1 = 12
          /\ Here.routine = "clear_perf" => n + 1 # 10
      BY <1>4, <3>1
    <3>3. InLeaf'
      BY <2>3, <2>5, <3>2, <3>4, <3>5 DEF InLeaf
    <3>6. at' = <<at'[1], at'[2]>>
      BY <2>1
    <3> QED BY <1>4, <2>3, <3>3, <3>4, <3>6
  <2>6. Here.routine \in Nested \cup Leaves
    BY <1>3, <1>4, <1>6 DEF Plain, Leaves
  <2> QED BY <2>4, <2>5, <2>6
<1> QED BY <1>4, <1>5, <1>6

\* A leaf jumps, goes on or returns to main.
LEMMA LeafControl ==
  ASSUME ControlInv, InLeaf, ProbeNext
  PROVE  /\ at' = <<at'[1], at'[2]>> /\ Framed(stack')
         /\ \/ InLeaf' /\ at'[1] = at[1] /\ stack' = stack /\ at[2] # Len(Code[at[1]])
            \/ InMain' /\ at[2] = Len(Code[at[1]]) /\ at'[2] = stack[1].to[2]
<1> DEFINE r == at[1]
           n == at[2]
<1>1. /\ at = <<r, n>> /\ r \in Leaves /\ n \in 1 .. Len(Code[r]) /\ Framed(stack) /\ Len(stack) = 1
  BY DEF ControlInv, InLeaf
<1>2. Here = Code[r][n]
  BY <1>1 DEF Here
<1>3. /\ Here.do \notin {"call", "push", "pop", "halt"}
      /\ Here.do \in Jumps => Here.to \in 1 .. Len(Code[r])
      /\ Here.do \notin {"ret", "jmp"} => n + 1 \in 1 .. Len(Code[r])
      /\ Here.do = "ret" <=> n = Len(Code[r])
  BY <1>1, <1>2, LeafFits
<1>4. CASE /\ Here.do \notin {"jmp", "call", "ret", "push", "pop", "halt"}
           /\ at' = <<at[1], at[2] + 1>> /\ stack' = stack
  BY <1>1, <1>3, <1>4 DEF InLeaf
<1>5. CASE Here.do \in Jumps /\ at' = <<at[1], Here.to>> /\ stack' = stack
  BY <1>1, <1>3, <1>5 DEF InLeaf, Jumps
<1>6. CASE Here.do = "ret" /\ Return
  <2> DEFINE t == SubSeq(stack, 1, Len(stack) - 1)
  <2>1. stack' = t /\ at' = stack[1].to
    BY <1>1, <1>6 DEF Return, Top, Drop
  <2>4. Len(stack) >= 1
    BY <1>1
  <2>2. Framed(t) /\ t = <<>>
    BY <1>1, <2>4, FramedDrop
  <2> HIDE DEF t
  <2>3. Home(at')
    BY <1>1, <2>1 DEF Framed
  <2> QED BY <1>3, <1>6, <2>1, <2>2, <2>3 DEF InMain, Home
<1> QED BY <1>3, <1>4, <1>5, <1>6, StepControl

\* The actions by the instruction they are for.
LEMMA StepDoes ==
  ASSUME ProbeNext
  PROVE  /\ Here.do = "set"  => Assign /\ reg' = [reg EXCEPT ![Here.reg] = Word(Here.n)]
         /\ Here.do = "add"  => Assign /\ reg' = [reg EXCEPT ![Here.reg].n = @ + Here.n]
         /\ Here.do = "copy" => Assign /\ reg' = [reg EXCEPT ![Here.reg] = reg[Here.from]]
         /\ Here.do \in Jumps => Jump
         /\ Here.do = "identity" => Identity
         /\ Here.do = "swap" => Swap
         /\ Here.do = "follow" => Follow
BY DEF ProbeNext, Assign, AddRegisters, Jump, Call, Return, PushRegister, PopRegister, Work, Jumps,
   UpdateWord, Identity, Swap, Follow, Clear, Read, Reload, Digit, PutChar, NewLine

\* The shuffle sets the words to themselves, then settles them from the last
\* (gen_probe.py:233-280).
LEMMA ShuffleStep ==
  ASSUME ChaseInv, InLeaf, at[1] = "build_perm", ProbeNext
  PROVE  IF at[2] = 12 THEN OneCycle'
         ELSE (Shuffling(at[2], reg["C"].n))'
<1> DEFINE n == at[2]
           i == reg["C"].n
<1>1. /\ at = <<"build_perm", n>> /\ n \in 1 .. 12 /\ Here = build_perm[n]
      /\ reg = [r \in Registers |-> reg[r]] /\ buf = [w \in Words |-> buf[w]]
      /\ Shuffling(n, i)
  BY LeafCode, CodeOf DEF ChaseInv, ControlInv, DataInv, InLeaf, Here
<1>2. /\ "B" \in Registers /\ "C" \in Registers
      /\ MEM_WORDS \in Nat \ {0} /\ \A k : k \in Words <=> k \in Nat /\ k < MEM_WORDS
  BY Profile DEF Registers, Words
<1>3. CASE n = 1
  <2>1. Here.do = "set" /\ Here.reg = "B" /\ Here.n = MEM_WORDS
    BY <1>1, <1>3, LeafCode DEF SETR
  <2>2. at' = <<"build_perm", 2>> /\ reg'["B"] = Word(MEM_WORDS)
    BY <1>1, <1>2, <1>3, <2>1, StepDoes DEF Assign, Advance
  <2> QED BY <1>3, <2>2 DEF Shuffling, IsWord, Word
<1>4. CASE n = 2
  <2>1. Here.do = "set" /\ Here.reg = "C" /\ Here.n = 0
    BY <1>1, <1>4, LeafCode DEF SETR
  <2>2. at' = <<"build_perm", 3>> /\ reg'["C"] = Word(0) /\ reg'["B"] = reg["B"]
    BY <1>1, <1>2, <1>4, <2>1, StepDoes DEF Assign, Advance
  <2>3. reg'["C"].n = 0 /\ IsWord(reg'["C"]) /\ 0 \in Words
    BY <1>2, <2>2 DEF IsWord, Word
  <2> QED BY <1>1, <1>4, <2>2, <2>3 DEF Shuffling
<1>5. CASE n = 3
  <2>1. Here.do = "identity" /\ Here.lose = {"E"}
    BY <1>1, <1>5, LeafCode DEF Run
  <2>2. /\ at' = <<"build_perm", 4>> /\ reg'["C"] = reg["C"] /\ reg'["B"] = reg["B"]
        /\ buf' = [buf EXCEPT ![i] = i]
    BY <1>1, <1>2, <1>5, <2>1, StepDoes DEF Identity, Advance, Without
  <2>3. i \in Words /\ \A w \in 0 .. i - 1 : buf[w] = w
    BY <1>1, <1>5 DEF Shuffling
  <2>4. \A w \in 0 .. i : buf'[w] = w
    <3> SUFFICES ASSUME NEW w \in 0 .. i PROVE buf'[w] = w
      OBVIOUS
    <3>1. w \in Words /\ (w # i => w \in 0 .. i - 1)
      BY <1>2, <2>3
    <3> QED BY <1>1, <2>2, <2>3, <3>1
  <2> QED BY <1>1, <1>5, <2>2, <2>3, <2>4 DEF Shuffling
<1>6. CASE n = 4
  <2>1. Here.do = "add" /\ Here.reg = "C" /\ Here.n = 1
    BY <1>1, <1>6, LeafCode DEF ADDV
  <2>2. /\ at' = <<"build_perm", 5>> /\ reg'["C"] = [reg["C"] EXCEPT !.n = @ + 1]
        /\ reg'["B"] = reg["B"] /\ buf' = buf
    BY <1>1, <1>2, <1>6, <2>1, StepDoes DEF Assign, Advance, NoMemory
  <2>3. IsWord(reg["C"]) /\ i \in Words /\ \A w \in 0 .. i : buf[w] = w
    BY <1>1, <1>6 DEF Shuffling
  <2>4. reg'["C"].n = i + 1 /\ IsWord(reg'["C"])
    BY <2>2, <2>3 DEF IsWord
  <2>5. i + 1 \in 1 .. MEM_WORDS /\ \A w \in 0 .. (i + 1) - 1 : w \in 0 .. i
    BY <1>2, <2>3
  <2> QED BY <1>1, <1>6, <2>2, <2>3, <2>4, <2>5 DEF Shuffling
<1>7. CASE n = 5
  <2>1. Here.do = "less" /\ Here.reg = "C" /\ Here.limit = "B" /\ Here.to = 3
    BY <1>1, <1>7, LeafCode DEF JMPULT
  <2>2. /\ UNCHANGED <<reg, buf>>
        /\ at' = IF reg["C"].n < reg["B"].n THEN <<"build_perm", 3>> ELSE <<"build_perm", 6>>
    BY <1>1, <1>7, <2>1, StepDoes DEF Jump, Jumps, Taken, Goto, Advance, NoMemory
  <2>3. /\ IsWord(reg["C"]) /\ IsWord(reg["B"]) /\ reg["B"].n = MEM_WORDS
        /\ i \in 1 .. MEM_WORDS /\ \A w \in 0 .. i - 1 : buf[w] = w
    BY <1>1, <1>7 DEF Shuffling
  <2>4. CASE i < MEM_WORDS
    BY <1>2, <1>7, <2>2, <2>3, <2>4 DEF Shuffling
  <2>5. CASE i = MEM_WORDS
    <3>1. \A w \in Words : w \in 0 .. i - 1
      BY <1>2, <2>5
    <3>2. at' = <<"build_perm", 6>>
      BY <1>2, <2>2, <2>3, <2>5
    <3> QED BY <1>7, <2>2, <2>3, <3>1, <3>2 DEF Shuffling
  <2> QED BY <1>2, <1>7, <2>3, <2>4, <2>5
<1>8. CASE n = 6
  <2>1. Here.do = "copy" /\ Here.reg = "C" /\ Here.from = "B"
    BY <1>1, <1>8, LeafCode DEF COPY
  <2>2. at' = <<"build_perm", 7>> /\ reg'["C"] = reg["B"] /\ buf' = buf
    BY <1>1, <1>2, <1>8, <2>1, StepDoes DEF Assign, Advance, NoMemory
  <2>3. IsWord(reg["B"]) /\ reg["B"].n = MEM_WORDS /\ \A w \in Words : buf[w] = w
    BY <1>1, <1>8 DEF Shuffling
  <2> QED BY <1>8, <2>2, <2>3 DEF Shuffling, IsWord
<1>9. CASE n = 7
  <2>1. Here.do = "add" /\ Here.reg = "C" /\ Here.n = -1
    BY <1>1, <1>9, LeafCode DEF ADDV
  <2>2. at' = <<"build_perm", 8>> /\ reg'["C"] = [reg["C"] EXCEPT !.n = @ + -1] /\ buf' = buf
    BY <1>1, <1>2, <1>9, <2>1, StepDoes DEF Assign, Advance, NoMemory
  <2>3. IsWord(reg["C"]) /\ i = MEM_WORDS /\ \A w \in Words : buf[w] = w
    BY <1>1, <1>9 DEF Shuffling
  <2>4. reg'["C"].n = MEM_WORDS - 1 /\ IsWord(reg'["C"])
    BY <1>2, <2>2, <2>3 DEF IsWord
  <2>5. CyclesTo(buf, MEM_WORDS - 1) /\ buf \in [Words -> Words] /\ MEM_WORDS - 1 \in Words
    BY <1>1, <1>2, <2>3, IdentityCycles
  <2> QED BY <1>9, <2>2, <2>4, <2>5 DEF Shuffling
<1>10. CASE n = 8
  <2>1. Here.do = "zero" /\ Here.reg = "C" /\ Here.to = 12
    BY <1>1, <1>10, LeafCode DEF JMPZ
  <2>2. /\ UNCHANGED <<reg, buf>>
        /\ at' = IF reg["C"].n = 0 THEN <<"build_perm", 12>> ELSE <<"build_perm", 9>>
    BY <1>1, <1>10, <2>1, StepDoes DEF Jump, Jumps, Taken, Goto, Advance, NoMemory
  <2>3. IsWord(reg["C"]) /\ i \in Words /\ CyclesTo(buf, i) /\ buf \in [Words -> Words]
    BY <1>1, <1>10 DEF Shuffling
  <2>4. CASE i = 0
    BY <1>10, <2>2, <2>3, <2>4 DEF Shuffling
  <2>5. CASE i # 0
    BY <1>10, <2>2, <2>3, <2>5 DEF Shuffling
  <2> QED BY <2>4, <2>5
<1>11. CASE n = 9
  <2>1. Here.do = "swap" /\ Here.lose = {"D", "E", "F", "G", "H", "I"}
    BY <1>1, <1>11, LeafCode DEF Run
  <2>2. IsWord(reg["C"]) /\ i \in Words /\ i # 0 /\ CyclesTo(buf, i) /\ buf \in [Words -> Words]
    BY <1>1, <1>11 DEF Shuffling
  <2>3. Swap
    BY <2>1, StepDoes
  <2>4. at' = <<"build_perm", 10>> /\ reg'["C"] = reg["C"]
    BY <1>1, <1>2, <1>11, <2>1, <2>3 DEF Swap, Advance, Without
  <2>5. PICK j \in 0 .. i - 1 : buf' = [buf EXCEPT ![i] = buf[j], ![j] = buf[i]]
    BY <2>3 DEF Swap, Partner
  <2>6. CyclesTo(buf', i - 1)
    <3>1. PICK root, pos, len : Cycles(buf, i, root, pos, len)
      BY <2>2 DEF CyclesTo
    <3> QED BY <2>2, <2>5, <3>1, SwapJoins
  <2>7. buf' \in [Words -> Words]
    <3>1. j \in Words
      BY <1>2, <2>2
    <3>2. buf[i] \in Words /\ buf[j] \in Words
      BY <2>2, <3>1
    <3> QED BY <2>2, <2>5, <3>2
  <2> QED BY <1>11, <2>2, <2>4, <2>6, <2>7 DEF Shuffling
<1>12. CASE n = 10
  <2>1. Here.do = "add" /\ Here.reg = "C" /\ Here.n = -1
    BY <1>1, <1>12, LeafCode DEF ADDV
  <2>2. at' = <<"build_perm", 11>> /\ reg'["C"] = [reg["C"] EXCEPT !.n = @ + -1] /\ buf' = buf
    BY <1>1, <1>2, <1>12, <2>1, StepDoes DEF Assign, Advance, NoMemory
  <2>3. IsWord(reg["C"]) /\ i \in Words /\ i # 0 /\ CyclesTo(buf, i - 1) /\ buf \in [Words -> Words]
    BY <1>1, <1>12 DEF Shuffling
  <2>4. reg'["C"].n = i - 1 /\ IsWord(reg'["C"]) /\ i - 1 \in Words
    BY <1>2, <2>2, <2>3 DEF IsWord
  <2> QED BY <1>12, <2>2, <2>3, <2>4 DEF Shuffling
<1>13. CASE n = 11
  <2>1. Here.do = "jmp" /\ Here.to = 8
    BY <1>1, <1>13, LeafCode DEF JMP
  <2>2. at' = <<"build_perm", 8>> /\ UNCHANGED <<reg, buf>>
    BY <1>1, <1>13, <2>1, StepDoes DEF Jump, Jumps, Taken, Goto, NoMemory
  <2> QED BY <1>1, <1>13, <2>2 DEF Shuffling
<1>14. CASE n = 12
  <2>1. Here.do = "ret"
    BY <1>1, <1>14, LeafCode DEF RET
  <2>2. buf' = buf
    BY <2>1, StepData
  <2>3. OneCycle
    BY <1>1, <1>14 DEF Shuffling, OneCycle
  <2> QED BY <1>14, <2>2, <2>3 DEF OneCycle
<1> QED BY <1>1, <1>3, <1>4, <1>5, <1>6, <1>7, <1>8, <1>9, <1>10, <1>11, <1>12, <1>13, <1>14

\* The chase follows the words, CHASE times (gen_probe.py:283-300).
LEMMA FollowStep ==
  ASSUME ChaseInv, InLeaf, at[1] = "k_chase", ProbeNext
  PROVE  /\ visited' \subseteq Words
         /\ at[2] # 7 => (Chasing(at[2], reg["C"].n, reg["D"].n))'
<1> DEFINE n == at[2]
           c == reg["C"].n
           d == reg["D"].n
<1>1. /\ at = <<"k_chase", n>> /\ n \in 1 .. 7 /\ Here = k_chase[n]
      /\ reg = [r \in Registers |-> reg[r]] /\ visited \subseteq Words
      /\ Chasing(n, c, d) /\ OneCycle
  BY LeafCode, CodeOf DEF ChaseInv, ControlInv, DataInv, InLeaf, Here, Chasing
<1>2. /\ "C" \in Registers /\ "D" \in Registers /\ "E" \in Registers /\ CHASE \in Nat \ {0}
  BY Profile DEF Registers
<1>3. UNCHANGED buf /\ (n # 4 => UNCHANGED visited)
  <2>1. Here.do \notin {"update", "identity", "swap"} /\ (n # 4 => Here.do # "follow")
    BY <1>1, LeafCode DEF SETR, Run, ADDV, JMPULT, RET
  <2> QED BY <2>1, StepData
<1>4. OneCycle'
  BY <1>1, <1>3 DEF OneCycle
<1>5. CASE n = 1
  <2>1. Here.do = "set" /\ Here.reg = "C" /\ Here.n = 0
    BY <1>1, <1>5, LeafCode DEF SETR
  <2>2. at' = <<"k_chase", 2>> /\ reg'["C"] = Word(0)
    BY <1>1, <1>2, <1>5, <2>1, StepDoes DEF Assign, Advance
  <2> QED BY <1>1, <1>3, <1>4, <1>5, <2>2 DEF Chasing, Word
<1>6. CASE n = 2
  <2>1. Here.do = "set" /\ Here.reg = "D" /\ Here.n = 0
    BY <1>1, <1>6, LeafCode DEF SETR
  <2>2. at' = <<"k_chase", 3>> /\ reg'["D"] = Word(0) /\ reg'["C"] = reg["C"]
    BY <1>1, <1>2, <1>6, <2>1, StepDoes DEF Assign, Advance
  <2>3. reg'["D"].n = 0 /\ IsWord(reg'["D"]) /\ c = 0
    BY <1>1, <1>6, <2>2 DEF Word, IsWord, Chasing
  <2> QED BY <1>1, <1>3, <1>4, <1>6, <2>2, <2>3 DEF Chasing
<1>7. CASE n = 3
  <2>1. Here.do = "set" /\ Here.reg = "E" /\ Here.n = CHASE
    BY <1>1, <1>7, LeafCode DEF SETR
  <2>2. /\ at' = <<"k_chase", 4>> /\ reg'["E"] = Word(CHASE) /\ reg'["C"] = reg["C"]
        /\ reg'["D"] = reg["D"]
    BY <1>1, <1>2, <1>7, <2>1, StepDoes DEF Assign, Advance
  <2>3. reg'["E"].n = CHASE /\ IsWord(reg["D"]) /\ c = 0 /\ d = 0 /\ d \in 0 .. CHASE - 1
    BY <1>1, <1>2, <1>7, <2>2 DEF Word, Chasing
  <2>4. Reached(buf, 0, visited, 0)
    BY <1>1, ChaseBegins DEF OneCycle
  <2> QED BY <1>1, <1>3, <1>4, <1>7, <2>2, <2>3, <2>4 DEF Chasing
<1>8. CASE n = 4
  <2>1. Here.do = "follow" /\ Here.lose = {"F", "H"}
    BY <1>1, <1>8, LeafCode DEF Run
  <2>6. Follow
    BY <2>1, StepDoes
  <2>7. at' = <<"k_chase", 5>> /\ visited' = visited \cup {buf[c]}
    BY <1>1, <1>8, <2>6 DEF Follow, Advance
  <2>8. reg' = [Without({"F", "H"}) EXCEPT !["C"] = Word(buf[c])]
    BY <2>1, <2>6 DEF Follow
  <2>2. /\ at' = <<"k_chase", 5>> /\ reg'["C"] = Word(buf[c]) /\ reg'["D"] = reg["D"]
        /\ reg'["E"] = reg["E"] /\ visited' = visited \cup {buf[c]}
    BY <1>2, <2>7, <2>8 DEF Without
  <2>3. reg["E"].n = CHASE /\ IsWord(reg["D"]) /\ d \in 0 .. CHASE - 1 /\ Reached(buf, c, visited, d)
    BY <1>1, <1>8 DEF Chasing
  <2>4. reg'["C"].n = buf[c] /\ d \in Nat
    BY <1>2, <2>2, <2>3 DEF Word
  <2>5. Reached(buf, buf[c], visited \cup {buf[c]}, d + 1) /\ buf[c] \in Words
    BY <2>3, <2>4, ChaseGoesOn
  <2>9. /\ n' = 5 /\ c' = buf[c] /\ d' = d /\ visited' = visited \cup {buf[c]}
        /\ buf' = buf /\ reg'["D"] = reg["D"] /\ reg'["E"] = reg["E"]
    BY <1>3, <2>2, <2>4
  <2>10. Reached(buf, c, visited, d + 1)'
    BY <2>5, <2>9
  <2>11. (Chasing(n, c, d))'
    BY <1>4, <2>3, <2>9, <2>10 DEF Chasing
  <2>12. visited' \subseteq Words
    BY <1>1, <2>5, <2>9
  <2> QED BY <2>11, <2>12
<1>9. CASE n = 5
  <2>1. Here.do = "add" /\ Here.reg = "D" /\ Here.n = 1
    BY <1>1, <1>9, LeafCode DEF ADDV
  <2>5. Assign /\ reg' = [reg EXCEPT !["D"].n = @ + 1]
    BY <2>1, StepDoes
  <2>6. at' = <<"k_chase", 6>>
    BY <1>1, <1>9, <2>5 DEF Assign, Advance
  <2>2. /\ at' = <<"k_chase", 6>> /\ reg'["D"] = [reg["D"] EXCEPT !.n = @ + 1]
        /\ reg'["C"] = reg["C"] /\ reg'["E"] = reg["E"]
    BY <1>1, <1>2, <2>5, <2>6
  <2>3. /\ reg["E"].n = CHASE /\ IsWord(reg["D"]) /\ d \in 0 .. CHASE - 1
        /\ Reached(buf, c, visited, d + 1)
    BY <1>1, <1>9 DEF Chasing
  <2>4. reg'["D"].n = d + 1 /\ IsWord(reg'["D"]) /\ d + 1 \in 1 .. CHASE
    BY <1>2, <2>2, <2>3 DEF IsWord
  <2> QED BY <1>1, <1>3, <1>4, <1>9, <2>2, <2>3, <2>4 DEF Chasing
<1>10. CASE n = 6
  <2>1. Here.do = "less" /\ Here.reg = "D" /\ Here.limit = "E" /\ Here.to = 4
    BY <1>1, <1>10, LeafCode DEF JMPULT
  <2>2. /\ UNCHANGED reg
        /\ at' = IF d < reg["E"].n THEN <<"k_chase", 4>> ELSE <<"k_chase", 7>>
    BY <1>1, <1>10, <2>1, StepDoes DEF Jump, Jumps, Taken, Goto, Advance
  <2>3. /\ reg["E"].n = CHASE /\ IsWord(reg["D"]) /\ d \in 1 .. CHASE
        /\ Reached(buf, c, visited, d)
    BY <1>1, <1>10 DEF Chasing
  <2>4. CASE d < CHASE
    <3>1. d \in 0 .. CHASE - 1 /\ at' = <<"k_chase", 4>>
      BY <1>2, <2>2, <2>3, <2>4
    <3> QED BY <1>1, <1>3, <1>4, <1>10, <2>2, <2>3, <3>1 DEF Chasing
  <2>5. CASE ~(d < CHASE)
    <3>1. d = CHASE /\ at' = <<"k_chase", 7>>
      BY <1>2, <2>2, <2>3, <2>5
    <3>2. visited = Words
      BY <1>1, <2>3, <3>1, ChaseEnds
    <3> QED BY <1>1, <1>3, <1>4, <1>10, <2>2, <2>3, <3>1, <3>2 DEF Chasing
  <2> QED BY <2>4, <2>5
<1>11. CASE n = 7
  BY <1>1, <1>3, <1>11
<1> QED BY <1>1, <1>5, <1>6, <1>7, <1>8, <1>9, <1>10, <1>11

\* A stuttering step keeps it.
LEMMA ChaseStutters == ASSUME ChaseInv, UNCHANGED probeVars PROVE ChaseInv'
<1>1. /\ UNCHANGED <<at, reg, stack, buf, visited>>
  BY DEF probeVars
<1>2. ControlInv'
  BY <1>1 DEF ChaseInv, ControlInv, InMain, InNested, InLeaf
<1>3. DataInv'
  BY <1>1 DEF ChaseInv, DataInv, Shuffling, Chasing, OneCycle
<1> QED BY <1>2, <1>3 DEF ChaseInv

LEMMA ChaseNext ==
  ASSUME ChaseInv, [ProbeNext]_probeVars
  PROVE  ChaseInv'
<1> SUFFICES ASSUME ProbeNext PROVE ChaseInv'
  BY ChaseStutters
<1>1. /\ ControlInv /\ DataInv
      /\ reg' = [r \in Registers |-> reg'[r]] /\ buf' = [w \in Words |-> buf'[w]]
  BY StepShape DEF ChaseInv, ControlInv, DataInv
<1>2. /\ \A r \in Nested : r \notin Leaves \cup {"main"}
      /\ \A r \in Leaves : r # "main" /\ r \in {"build_perm", "clear_perf", "k_chase"}
  BY DEF Leaves, Nested
<1>3. Here.do # "follow" => visited' \subseteq Words
  BY <1>1, StepData DEF DataInv
<1>4. InNested' => at'[1] \notin Leaves \cup {"main"}
  BY <1>2 DEF InNested, Placed
<1>5. InMain' => at'[1] \notin Leaves
  BY <1>2 DEF InMain
<1>6. CASE InMain
  <2>1. /\ at' = <<at'[1], at'[2]>> /\ Framed(stack') /\ (InMain' \/ InNested' \/ InLeaf')
        /\ visited' \subseteq Words /\ UNCHANGED buf
    BY <1>1, <1>3, <1>6, MainControl, StepData
  <2>2. CASE (InMain' /\ at'[2] \notin 10 .. 12) \/ InNested'
    <3>1. at'[1] \notin Leaves /\ ~(at'[1] = "main" /\ at'[2] \in {10, 11})
      BY <1>4, <1>5, <2>2
    <3> QED BY <1>1, <2>1, <3>1 DEF ChaseInv, ControlInv, DataInv, Leaves
  <2>3. CASE InLeaf' /\ at'[2] = 1 /\ stack'[1].to[2] = at[2] + 1
    <3>1. at[1] = "main" /\ at[2] \in 1 .. 26
      BY <1>6 DEF InMain
    <3>8. at'[1] \in Leaves /\ (at'[1] = "k_chase" => stack'[1].to[2] = 12)
      BY <2>3 DEF InLeaf
    <3>9. at[2] + 1 = 12 => at[2] = 11
      BY <3>1
    <3>2. at'[1] # "main" /\ (at'[1] = "k_chase" => at[2] = 11)
      BY <1>2, <2>3, <3>8, <3>9
    <3>3. at[2] \in {10, 11} => OneCycle'
      BY <1>1, <2>1, <3>1 DEF DataInv, OneCycle
    <3>4. at'[1] = "k_chase" => (Chasing(at[2], reg["C"].n, reg["D"].n))'
      BY <2>3, <3>2, <3>3 DEF Chasing
    <3>5. (Shuffling(at[2], reg["C"].n))'
      BY <2>3 DEF Shuffling
    <3>6. at'[1] = "clear_perf" /\ stack'[1].to[2] = 11 => OneCycle'
      BY <2>3, <3>1, <3>3
    <3>7. DataInv'
      BY <1>1, <2>1, <3>2, <3>4, <3>5, <3>6 DEF DataInv
    <3> QED BY <1>1, <2>1, <3>7 DEF ChaseInv, ControlInv
  <2> QED BY <1>6, <1>1, <2>2, <2>3, MainControl
<1>7. CASE InNested
  <2>1. /\ at' = <<at'[1], at'[2]>> /\ Framed(stack') /\ (InMain' \/ InNested')
        /\ ((InMain' /\ at'[2] \notin 10 .. 12) \/ InNested') /\ visited' \subseteq Words
    BY <1>1, <1>3, <1>7, NestedControl
  <2>2. at'[1] \notin Leaves /\ ~(at'[1] = "main" /\ at'[2] \in {10, 11})
    BY <1>4, <1>5, <2>1
  <2> QED BY <1>1, <2>1, <2>2 DEF ChaseInv, ControlInv, DataInv, Leaves
<1>8. CASE InLeaf
  <2>1. /\ at' = <<at'[1], at'[2]>> /\ Framed(stack') /\ (InMain' \/ InLeaf')
    BY <1>1, <1>8, LeafControl
  <2>2. at[1] \in {"build_perm", "clear_perf", "k_chase"} /\ at[1] # "main"
    BY <1>2, <1>8 DEF InLeaf
  <2>3. /\ at[1] = "build_perm" => Len(Code[at[1]]) = 12 /\ stack[1].to[2] = 10
        /\ at[1] = "clear_perf" => stack[1].to[2] # 10
        /\ at[1] = "k_chase" => Len(Code[at[1]]) = 7 /\ stack[1].to[2] = 12
    BY <1>8, LeafCode, CodeOf DEF InLeaf
  <2>4. at[1] = "clear_perf" => Here.do \in {"clear", "ret"}
    BY <1>1, <1>8, LeafCode, CodeOf DEF ControlInv, InLeaf, Here, Run, RET
  <2>5. visited' \subseteq Words
    <3>1. at[1] = "build_perm" => Here.do # "follow"
      BY <1>1, <1>8, CodeOf DEF ControlInv, InLeaf, Here, build_perm, SETR, Run, ADDV, JMPULT, COPY, JMPZ, JMP, RET
    <3>2. at[1] = "k_chase" => visited' \subseteq Words
      BY <1>8, FollowStep
    <3> QED BY Zenon, <1>3, <2>2, <2>4, <3>1, <3>2
  <2>6. CASE InLeaf' /\ at'[1] = at[1] /\ stack' = stack /\ at[2] # Len(Code[at[1]])
    <3>1. at'[1] = "build_perm" => (Shuffling(at[2], reg["C"].n))'
      BY <1>8, <2>3, <2>6, ShuffleStep
    <3>2. at'[1] = "k_chase" => (Chasing(at[2], reg["C"].n, reg["D"].n))'
      BY <1>8, <2>3, <2>6, FollowStep
    <3>3. at'[1] = "clear_perf" /\ stack'[1].to[2] = 11 => OneCycle'
      BY <1>1, <2>4, <2>6, StepData DEF DataInv, OneCycle
    <3>4. DataInv'
      BY <1>1, <2>2, <2>5, <2>6, <3>1, <3>2, <3>3 DEF DataInv
    <3> QED BY <1>1, <2>1, <3>4 DEF ChaseInv, ControlInv
  <2>7. CASE InMain' /\ at[2] = Len(Code[at[1]]) /\ at'[2] = stack[1].to[2]
    <3>1. at[1] = "build_perm" => OneCycle'
      BY <1>8, <2>3, <2>7, ShuffleStep
    <3>2. at[1] = "clear_perf" /\ at'[2] = 11 => OneCycle'
      BY <1>1, <2>4, <2>7, StepData DEF DataInv, OneCycle
    <3>3. at'[2] \in {10, 11} => OneCycle'
      BY <2>2, <2>3, <2>7, <3>1, <3>2
    <3>4. at'[1] = "main" /\ at'[1] \notin Leaves
      BY <1>5, <2>7 DEF InMain
    <3>5. DataInv'
      BY <1>1, <2>5, <3>3, <3>4 DEF DataInv, Leaves
    <3> QED BY <1>1, <2>1, <3>5 DEF ChaseInv, ControlInv
  <2> QED BY <1>1, <1>8, <2>6, <2>7, LeafControl
<1> QED BY <1>1, <1>6, <1>7, <1>8 DEF ControlInv

\* When the chase ends it has been to every word, for every profile of the
\* probe and every sequence of random numbers (gen_probe.py:233-300).
THEOREM ChaseComplete == ProbeSpec => []ChaseVisitsAll
BY ChaseInit, ChaseNext, ChaseHolds, PTL DEF ProbeSpec

-----------------------------------------------------------------------------
(***************************************************************************)
(* Each row of the output is one kernel's run: the proof of                *)
(* RowsMeasureKernels.  RowInv says, of every place the processor can be   *)
(* in, which kernel is measured, what the counters hold and what of the    *)
(* snapshot and of the line is made; for the recursive kernel, that what   *)
(* is counted and what its stack still owes add up.                        *)
(***************************************************************************)
-----------------------------------------------------------------------------
(* fib's additions.                                                        *)

LEMMA Least ==
  ASSUME NEW S \in SUBSET Nat, S # {}
  PROVE  \E a \in S : \A b \in S : a <= b
<1>1. PICK a \in S : \A b \in S : ~(<<b, a>> \in OpToRel(<, Nat))
  BY NatLessThanWellFounded, WFMin
<1>2. ASSUME NEW b \in S PROVE a <= b
  <2>1. a \in Nat /\ b \in Nat /\ ~(<<b, a>> \in OpToRel(<, Nat))
    BY <1>1
  <2>2. b < a => <<b, a>> \in OpToRel(<, Nat)
    BY <2>1 DEF OpToRel
  <2>3. a \in Nat /\ b \in Nat /\ ~(b < a)
    BY Zenon, <2>1, <2>2
  <2> QED BY <2>3
<1> QED BY <1>2

\* f counts the additions of fib(0) to fib(m).
Sum(f, k)  == IF k < 2 THEN 0 ELSE 1 + f[k - 1] + f[k - 2]
Fibs(f, m) == f \in [0 .. m -> Nat] /\ \A k \in 0 .. m : f[k] = Sum(f, k)

LEMMA FibsAgree ==
  ASSUME NEW m \in Nat, NEW n \in Nat, NEW f, NEW g, Fibs(f, m), Fibs(g, n)
  PROVE  \A k \in Nat : k <= m /\ k <= n => f[k] = g[k]
<1> DEFINE S == {k \in Nat : k <= m /\ k <= n /\ f[k] # g[k]}
<1> SUFFICES ASSUME S # {} PROVE FALSE
  OBVIOUS
<1>1. PICK k \in S : \A j \in S : k <= j
  BY Least
<1>2. k \in Nat /\ k <= m /\ k <= n /\ f[k] # g[k] /\ f[k] = Sum(f, k) /\ g[k] = Sum(g, k)
  BY DEF Fibs
<1>3. ASSUME NEW j \in Nat, j < k PROVE f[j] = g[j]
  BY <1>1, <1>2, <1>3
<1>4. k >= 2 => k - 1 \in Nat /\ k - 1 < k /\ k - 2 \in Nat /\ k - 2 < k
  BY <1>2
<1>5. CASE k < 2
  BY <1>2, <1>5 DEF Sum
<1>6. CASE ~(k < 2)
  <2>1. f[k - 1] = g[k - 1] /\ f[k - 2] = g[k - 2]
    BY <1>2, <1>3, <1>4, <1>6
  <2> QED BY <1>2, <1>6, <2>1 DEF Sum
<1> QED BY <1>5, <1>6

LEMMA FibsExist == \A m \in Nat : \E f : Fibs(f, m)
<1> DEFINE S == {m \in Nat : ~ \E f : Fibs(f, m)}
<1> SUFFICES ASSUME S # {} PROVE FALSE
  OBVIOUS
<1>1. PICK m \in S : \A j \in S : m <= j
  BY Least
<1>2. m \in Nat /\ ~ \E f : Fibs(f, m)
  OBVIOUS
<1>3. CASE m = 0
  <2> DEFINE f == [k \in 0 .. 0 |-> 0]
  <2>1. Fibs(f, 0)
    BY DEF Fibs, Sum
  <2> QED BY <1>2, <1>3, <2>1
<1>4. CASE m # 0
  <2>1. m - 1 \in Nat /\ m - 1 < m
    BY <1>2, <1>4
  <2>2. PICK f : Fibs(f, m - 1)
    BY <1>1, <1>2, <2>1
  <2> DEFINE g == [k \in 0 .. m |-> IF k = m THEN Sum(f, m) ELSE f[k]]
  <2>3. ASSUME NEW k \in 0 .. m - 1 PROVE f[k] \in Nat /\ f[k] = Sum(f, k) /\ g[k] = f[k]
    BY <1>2, <2>1, <2>2 DEF Fibs
  <2>4. g[m] = Sum(f, m)
    BY <1>2
  <2>5. Sum(f, m) \in Nat
    <3>1. m >= 2 => m - 1 \in 0 .. m - 1 /\ m - 2 \in 0 .. m - 1
      BY <1>2
    <3>2. m >= 2 => f[m - 1] \in Nat /\ f[m - 2] \in Nat
      BY <2>3, <3>1
    <3> QED BY <1>2, <3>2 DEF Sum
  <2>6. \A k \in 0 .. m : k = m \/ k \in 0 .. m - 1
    BY <1>2
  <2>7. \A k \in 0 .. m : g[k] \in Nat
    BY <2>3, <2>4, <2>5, <2>6
  <2>8. ASSUME NEW k \in 0 .. m PROVE Sum(g, k) = Sum(f, k)
    <3>1. k >= 2 => k - 1 \in 0 .. m - 1 /\ k - 2 \in 0 .. m - 1
      BY <1>2
    <3> HIDE DEF g
    <3> QED BY <2>3, <3>1 DEF Sum
  <2>9. \A k \in 0 .. m : g[k] = Sum(g, k)
    BY <2>3, <2>4, <2>6, <2>8
  <2>10. g \in [0 .. m -> Nat]
    BY <2>7
  <2> HIDE DEF g
  <2> QED BY <1>2, <2>9, <2>10 DEF Fibs
<1> QED BY <1>3, <1>4

\* FibAdds is defined.
LEMMA FibAddsIs ==
  /\ \A n \in Nat : FibAdds[n] \in Nat
  /\ FibAdds[0] = 0 /\ FibAdds[1] = 0
  /\ \A n \in Nat : n >= 2 => FibAdds[n] = 1 + FibAdds[n - 1] + FibAdds[n - 2]
<1> DEFINE upto(n) == CHOOSE f : Fibs(f, n)
           F     == [n \in Nat |-> upto(n)[n]]
<1>1. \A n \in Nat : Fibs(upto(n), n)
  BY FibsExist
<1> HIDE DEF upto
<1>2. ASSUME NEW n \in Nat PROVE F[n] \in Nat /\ F[n] = Sum(F, n)
  <2>1. upto(n)[n] \in Nat /\ upto(n)[n] = Sum(upto(n), n)
    BY <1>1 DEF Fibs
  <2>2. \A k \in Nat : k <= n => upto(k)[k] = upto(n)[k]
    BY <1>1, FibsAgree
  <2>3. n >= 2 => n - 1 \in Nat /\ n - 1 <= n /\ n - 2 \in Nat /\ n - 2 <= n
    OBVIOUS
  <2>4. F[n] = upto(n)[n]
    OBVIOUS
  <2>5. n >= 2 => F[n - 1] = upto(n)[n - 1] /\ F[n - 2] = upto(n)[n - 2]
    BY <2>2, <2>3
  <2> HIDE DEF F
  <2> QED BY <2>1, <2>4, <2>5 DEF Sum
<1>3. F = [n \in Nat |-> IF n < 2 THEN 0 ELSE 1 + F[n - 1] + F[n - 2]]
  BY <1>2 DEF Sum
<1> HIDE DEF F
<1>4. FibAdds = [n \in Nat |-> IF n < 2 THEN 0 ELSE 1 + FibAdds[n - 1] + FibAdds[n - 2]]
  BY <1>3 DEF FibAdds
<1> DEFINE A == FibAdds
<1>5. A = [n \in Nat |-> A[n]] /\ \A n \in Nat : A[n] = Sum(A, n)
  BY <1>4 DEF Sum
<1> HIDE DEF A
<1>6. ASSUME NEW n \in Nat PROVE A[n] \in Nat
  <2> DEFINE S == {k \in Nat : A[k] \notin Nat}
  <2> SUFFICES ASSUME S # {} PROVE FALSE
    OBVIOUS
  <2>1. PICK k \in S : \A j \in S : k <= j
    BY Least
  <2>2. k >= 2 => A[k - 1] \in Nat /\ A[k - 2] \in Nat
    BY <2>1
  <2>3. A[k] = Sum(A, k)
    BY <1>5
  <2> QED BY <2>2, <2>3 DEF Sum
<1>7. A[0] = 0 /\ A[1] = 0 /\ \A n \in Nat : n >= 2 => A[n] = 1 + A[n - 1] + A[n - 2]
  <2>1. \A n \in Nat : A[n] = IF n < 2 THEN 0 ELSE 1 + A[n - 1] + A[n - 2]
    BY <1>5 DEF Sum
  <2> QED BY <2>1
<1> QED BY <1>6, <1>7 DEF A

-----------------------------------------------------------------------------
(* What the parser makes of lines.                                         *)

LineLen == (COUNTERS + 1) * DIGITS
Tally(w, k) == [Counts EXCEPT !.kernel = w, !.dump = k]

\* The f-th field of kernel id's line.
Entry(id, f) == IF f = 1 THEN Num(id - 1) ELSE Tally(Steps[id], f - 2)

\* The first len characters of that line, the register's number being n.
Printed(id, line, len, n) ==
  /\ Sequence(line) /\ Len(line) = len
  /\ \A f \in 1 .. COUNTERS + 1 : \A i \in 1 .. DIGITS :
       (f - 1) * DIGITS + i <= len =>
         line[(f - 1) * DIGITS + i] = [n |-> n, of |-> Entry(id, f), shift |-> DIGITS - i]

LEMMA RowIs ==
  ASSUME NEW id \in 1 .. 6
  PROVE  Row(id) = [f \in 1 .. COUNTERS + 1 |-> Entry(id, f)]
<1> DEFINE e(k) == Tally(Steps[id], k - 1)
           one  == <<Num(id - 1)>>
           rest == [k \in 1 .. COUNTERS |-> e(k)]
           S    == {one[1]} \cup {e(k) : k \in 1 .. COUNTERS}
<1>1. COUNTERS \in Nat
  BY Profile
<1>4. one[1] = Num(id - 1) /\ Row(id) = one \o rest
  BY DEF Row, Tally
<1> HIDE DEF e
<1>2. one \in Seq(S) /\ rest \in Seq(S) /\ Len(one) = 1 /\ Len(rest) = COUNTERS
  BY <1>1
<1>3. \A k \in 1 .. COUNTERS : rest[k] = Tally(Steps[id], k - 1)
  BY DEF e
<1> HIDE DEF one, rest, S
<1>5. Joined(S, one, rest, Row(id))
  BY <1>2, <1>4, Behind
<1>6. /\ Row(id) \in Seq(S) /\ Len(Row(id)) = 1 + COUNTERS
      /\ Row(id)[1] = one[1] /\ \A k \in 1 .. COUNTERS : Row(id)[1 + k] = rest[k]
  BY <1>2, <1>5 DEF Joined
<1>7. DOMAIN Row(id) = 1 .. COUNTERS + 1 /\ Row(id) = [f \in DOMAIN Row(id) |-> Row(id)[f]]
  BY <1>1, <1>6
<1>8. ASSUME NEW f \in 1 .. COUNTERS + 1 PROVE Row(id)[f] = Entry(id, f)
  <2>1. CASE f = 1
    BY <1>4, <1>6, <2>1 DEF Entry
  <2>2. CASE f # 1
    <3>1. f - 1 \in 1 .. COUNTERS /\ 1 + (f - 1) = f /\ (f - 1) - 1 = f - 2
      BY <1>1, <2>2
    <3>2. Row(id)[f] = rest[f - 1]
      BY <1>6, <3>1
    <3> QED BY <1>3, <2>2, <3>1, <3>2 DEF Entry
  <2> QED BY <2>1, <2>2
<1> QED BY <1>7, <1>8

\* No two digits have one place.
LEMMA PlaceUnique ==
  ASSUME NEW d \in Nat \ {0}, NEW f \in Nat, NEW g \in Nat, NEW i \in 1 .. d, NEW j \in 1 .. d,
         f * d + i = g * d + j
  PROVE  f = g /\ i = j
<1>1. ASSUME NEW a \in Nat, NEW b \in Nat, a < b PROVE a * d + d <= b * d
  <2>1. PICK c \in Nat : b = a + 1 + c
    <3>1. b - a - 1 \in Nat /\ b = a + 1 + (b - a - 1)
      BY <1>1
    <3> QED BY <3>1
  <2>2. b * d = a * d + d + c * d /\ c * d \in Nat /\ a * d \in Nat
    BY <2>1
  <2> QED BY <2>2
<1>2. f * d \in Nat /\ g * d \in Nat
  OBVIOUS
<1>3. ~(f < g) /\ ~(g < f)
  BY <1>1, <1>2
<1>4. f = g
  BY <1>3
<1> QED BY <1>2, <1>4

LEMMA PlaceIn ==
  ASSUME NEW d \in Nat \ {0}, NEW c \in Nat, NEW f \in 1 .. c, NEW i \in 1 .. d
  PROVE  /\ (f - 1) * d \in Nat /\ (f - 1) * d + i \in 1 .. c * d /\ f * d = (f - 1) * d + d
         /\ c * d \in Nat
<1>1. PICK e \in Nat : e = f - 1
  OBVIOUS
<1>2. PICK r \in Nat : c = e + 1 + r
  <2>1. c - f \in Nat /\ c = e + 1 + (c - f)
    BY <1>1
  <2> QED BY <2>1
<1>3. e * d \in Nat /\ r * d \in Nat /\ c * d = e * d + d + r * d /\ f = e + 1 /\ f * d = e * d + d
  BY <1>1, <1>2
<1> QED BY <1>1, <1>3

LEMMA LineParsed ==
  ASSUME NEW id \in 1 .. 6, NEW line, NEW n, Printed(id, line, LineLen, n)
  PROVE  FieldsOf(line) = Row(id)
<1>1. COUNTERS \in Nat /\ DIGITS \in Nat \ {0} /\ 1 \in 1 .. DIGITS
  BY Profile
<1>2. ASSUME NEW f \in 1 .. COUNTERS + 1 PROVE Value(Field(line, f)) = Entry(id, f)
  <2> DEFINE o == (f - 1) * DIGITS
             x == Field(line, f)
             S == {line[p] : p \in DOMAIN line}
  <2>1. /\ \A i \in 1 .. DIGITS : o + i \in 1 .. LineLen
        /\ o \in Nat /\ f * DIGITS = o + DIGITS /\ LineLen \in Nat
    <3>1. \A i \in 1 .. DIGITS : /\ o \in Nat /\ o + i \in 1 .. LineLen
                                 /\ f * DIGITS = o + DIGITS /\ LineLen \in Nat
      BY <1>1, PlaceIn DEF LineLen
    <3> QED BY <1>1, <3>1
  <2>2. /\ \A i \in 1 .. DIGITS :
             line[o + i] = [n |-> n, of |-> Entry(id, f), shift |-> DIGITS - i]
        /\ line \in Seq(S) /\ Len(line) = LineLen
    BY <2>1 DEF Printed, Sequence
  <2> HIDE DEF o, S
  <2>3. x = SubSeq(line, o + 1, o + DIGITS)
    BY <2>1 DEF Field, o
  <2>4. \A i \in o + 1 .. o + DIGITS : i \in 1 .. Len(line)
    <3> SUFFICES ASSUME NEW i \in o + 1 .. o + DIGITS PROVE i \in 1 .. Len(line)
      OBVIOUS
    <3>1. i - o \in 1 .. DIGITS /\ o + (i - o) = i
      BY <1>1, <2>1
    <3> QED BY <2>1, <2>2, <3>1
  <2>5. \A i \in 1 .. DIGITS : x[i] = line[o + i]
    <3> DEFINE a == o + 1
               b == o + DIGITS
    <3>1. a \in Nat /\ b \in Nat /\ b - a + 1 = DIGITS /\ a <= b
      BY <1>1, <2>1
    <3>2. \A i \in a .. b : i \in 1 .. Len(line)
      BY <2>4
    <3> HIDE DEF a, b
    <3>3. \A i \in 1 .. b - a + 1 : SubSeq(line, a, b)[i] = line[a + i - 1]
      BY <2>2, <3>1, <3>2, SubSeqProperties
    <3> SUFFICES ASSUME NEW i \in 1 .. DIGITS PROVE x[i] = line[o + i]
      OBVIOUS
    <3>4. a + i - 1 = o + i
      BY <1>1, <2>1 DEF a
    <3>5. SubSeq(line, a, b)[i] = line[o + i]
      BY <3>1, <3>3, <3>4
    <3> QED BY <2>3, <3>5 DEF a, b
  <2>6. \A i \in 1 .. DIGITS : x[i] = [n |-> n, of |-> Entry(id, f), shift |-> DIGITS - i]
    BY <2>2, <2>5
  <2> HIDE DEF x
  <2>7. /\ x[1].of = Entry(id, f)
        /\ \A i \in 1 .. DIGITS : x[i] = [x[1] EXCEPT !.shift = DIGITS - i]
    <3>1. x[1] = [n |-> n, of |-> Entry(id, f), shift |-> DIGITS - 1]
      BY <1>1, <2>6
    <3>2. \A s : [x[1] EXCEPT !.shift = s] = [n |-> n, of |-> Entry(id, f), shift |-> s]
      BY <3>1
    <3> QED BY <2>6, <3>1, <3>2
  <2> QED BY <2>7 DEF Value, x
<1> QED BY <1>2, RowIs DEF FieldsOf

\* The loop of parse() over six lines of this length and a short one.
Body(text, f) ==
  [n \in 0 .. Len(text) |->
     IF n = 0 THEN <<>>
     ELSE IF Len(text[n]) = (COUNTERS + 1) * DIGITS
          THEN Append(f[n - 1], FieldsOf(text[n])) ELSE f[n - 1]]

LEMMA ParseLoop ==
  ASSUME NEW text, NEW f, f = Body(text, f)
  PROVE  \E g : g = Body(text, g) /\ Parse(text) = g[Len(text)]
BY DEF Parse, Body

LEMMA RowsParsed ==
  ASSUME NEW text, Len(text) = 7, \A n \in 1 .. 6 : Len(text[n]) = LineLen, Len(text[7]) # LineLen
  PROVE  Parse(text) = [id \in 1 .. 6 |-> FieldsOf(text[id])]
<1> DEFINE x(n)  == FieldsOf(text[n])
           to(n) == [k \in 1 .. n |-> x(k)]
           f == [n \in 0 .. 7 |-> to(IF n = 7 THEN 6 ELSE n)]
<1> HIDE DEF x
<1>1. ASSUME NEW n \in 1 .. 6 PROVE Append(to(n - 1), x(n)) = to(n)
  <2> DEFINE S == {x(k) : k \in 1 .. 6}
  <2>1. PICK m \in Nat : m = n - 1
    OBVIOUS
  <2>2. to(m) \in Seq(S) /\ Len(to(m)) = m /\ x(n) \in S
    <3>1. to(m) = [k \in 1 .. m |-> to(m)[k]] /\ \A k \in 1 .. m : to(m)[k] = x(k)
      OBVIOUS
    <3>2. x(n) \in S /\ \A k \in 1 .. m : x(k) \in S
      BY <2>1
    <3> HIDE DEF S, to
    <3> QED BY <2>1, <3>1, <3>2, SeqOf
  <2>3. /\ Append(to(m), x(n)) \in Seq(S) /\ Len(Append(to(m), x(n))) = m + 1
        /\ \A k \in 1 .. m : Append(to(m), x(n))[k] = to(m)[k]
        /\ Append(to(m), x(n))[m + 1] = x(n)
    BY <2>2, AppendProperties
  <2>4. \A k \in 1 .. n : k \in 1 .. m \/ k = m + 1
    BY <2>1
  <2>5. \A k \in 1 .. n : Append(to(m), x(n))[k] = x(k)
    BY <2>1, <2>3, <2>4
  <2>6. DOMAIN Append(to(m), x(n)) = 1 .. n
    BY <2>1, <2>3
  <2>7. Append(to(m), x(n)) = [k \in 1 .. n |-> Append(to(m), x(n))[k]]
    BY <2>3, <2>6
  <2> QED BY <2>1, <2>5, <2>7
<1>2. to(0) = <<>>
  OBVIOUS
<1>3. f = Body(text, f)
  <2>1. f[0] = <<>> /\ f[7] = to(6) /\ \A n \in 0 .. 6 : f[n] = to(n)
    BY <1>2
  <2>2. \A n \in 1 .. 6 : n - 1 \in 0 .. 6 /\ n \in 0 .. 6 /\ n # 0
    OBVIOUS
  <2>3. f = [n \in 0 .. 7 |-> f[n]]
    OBVIOUS
  <2> HIDE DEF f, to
  <2>4. \A n \in 1 .. 6 : f[n] = Append(f[n - 1], x(n))
    BY <1>1, <2>1, <2>2
  <2>5. \A n \in 0 .. 7 : n = 0 \/ n \in 1 .. 6 \/ n = 7
    OBVIOUS
  <2>6. f[7] = f[7 - 1]
    BY <2>1
  <2>7. ASSUME NEW n \in 0 .. 7
        PROVE  f[n] = IF n = 0 THEN <<>>
                      ELSE IF Len(text[n]) = LineLen THEN Append(f[n - 1], x(n)) ELSE f[n - 1]
    BY <2>1, <2>4, <2>5, <2>6
  <2> QED BY <2>3, <2>7 DEF Body, LineLen, x
<1>4. PICK g : g = Body(text, g) /\ Parse(text) = g[7]
  BY <1>3, ParseLoop
<1>5. /\ g[0] = <<>> /\ g[7] = g[7 - 1]
      /\ \A n \in 1 .. 6 : g[n] = Append(g[n - 1], x(n))
  <2>1. \A n \in 0 .. 7 :
          g[n] = IF n = 0 THEN <<>>
                 ELSE IF Len(text[n]) = LineLen THEN Append(g[n - 1], x(n)) ELSE g[n - 1]
    BY <1>4 DEF Body, LineLen, x
  <2>2. g[0] = <<>>
    BY <2>1
  <2>3. g[7] = g[7 - 1]
    <3>1. 7 \in 0 .. 7 /\ 7 # 0 /\ Len(text[7]) # LineLen
      OBVIOUS
    <3> QED BY <2>1, <3>1
  <2>4. ASSUME NEW n \in 1 .. 6 PROVE g[n] = Append(g[n - 1], x(n))
    <3>1. n \in 0 .. 7 /\ n # 0 /\ Len(text[n]) = LineLen
      OBVIOUS
    <3> QED BY <2>1, <3>1
  <2> QED BY <2>2, <2>3, <2>4
<1> HIDE DEF to
<1>6. \A n \in 1 .. 6 : g[n - 1] = to(n - 1) => g[n] = to(n)
  BY <1>1, <1>5
<1>7. g[0] = to(0)
  BY <1>2, <1>5
<1>8. g[1] = to(1) /\ g[2] = to(2) /\ g[3] = to(3)
  <2>1. /\ g[0] = to(0) => g[1] = to(1)
        /\ g[1] = to(1) => g[2] = to(2)
        /\ g[2] = to(2) => g[3] = to(3)
    BY <1>6
  <2> QED BY <1>7, <2>1
<1>9. g[6] = to(6)
  <2>1. /\ g[3] = to(3) => g[4] = to(4)
        /\ g[4] = to(4) => g[5] = to(5)
        /\ g[5] = to(5) => g[6] = to(6)
    BY <1>6
  <2> QED BY <1>8, <2>1
<1>10. g[7] = g[6]
  BY <1>5
<1> QED BY <1>4, <1>9, <1>10 DEF to, x

LEMMA SmallCode ==
  /\ putc[1] = Run("putc", {"B", "C"}) /\ putc[2] = RET
  /\ crlf[1] = Run("newline", {"A", "B", "C"}) /\ crlf[2] = RET
  /\ puthex16[1] = SETR("F", DIGITS) /\ puthex16[2] = ADDV("F", -1)
  /\ puthex16[3] = Run("digit", {"A", "H"}) /\ puthex16[4] = CALL("putc")
  /\ puthex16[5] = JMPNZ("F", 2) /\ puthex16[6] = RET
  /\ k_fib_top[1] = SETR("A", FIB) /\ k_fib_top[2] = CALL("fib") /\ k_fib_top[3] = RET
BY DEF putc, crlf, puthex16, k_fib_top

LEMMA KernelCode ==
  /\ k_alu[1] = SETR("C", 0) /\ k_alu[2] = SETR("D", ALU) /\ k_alu[3] = Run("work", {"A", "B", "E"})
  /\ k_alu[4] = ADDV("C", 1) /\ k_alu[5] = JMPULT("C", "D", 3) /\ k_alu[6] = RET
  /\ k_branch[1] = SETR("D", 0) /\ k_branch[2] = SETR("E", BR)
  /\ k_branch[3] = Run("work", {"A", "F", "H"}) /\ k_branch[4] = ADDV("D", 1)
  /\ k_branch[5] = JMPULT("D", "E", 3) /\ k_branch[6] = RET
  /\ k_muldiv[1] = SETR("C", 1) /\ k_muldiv[2] = SETR("D", MD)
  /\ k_muldiv[3] = Run("work", {"A", "E", "F", "H"}) /\ k_muldiv[4] = ADDV("C", 1)
  /\ k_muldiv[5] = JMPULE("C", "D", 3) /\ k_muldiv[6] = RET
BY DEF k_alu, k_branch, k_muldiv

LEMMA MemCode ==
  /\ k_mem[1] = SETR("B", MEM_WORDS) /\ k_mem[2] = SETR("C", 0) /\ k_mem[3] = SETR("D", 0)
  /\ k_mem[4] = Run("update", {"E", "F"}) /\ k_mem[5] = ADDV("D", 1) /\ k_mem[6] = JMPULT("D", "B", 4)
  /\ k_mem[7] = SETR("D", 0) /\ k_mem[8] = Run("work", {"E", "F", "H"}) /\ k_mem[9] = ADDV("D", 1)
  /\ k_mem[10] = JMPULT("D", "B", 8) /\ k_mem[11] = ADDV("C", 1)
  /\ k_mem[12] = JMPULTV("C", MEM_REPS, 3) /\ k_mem[13] = RET
BY DEF k_mem

LEMMA FibCode ==
  /\ fib[1] = JMPUGEV("A", 2, 4) /\ fib[2] = COPY("M", "A") /\ fib[3] = RET
  /\ fib[4] = PUSH("A") /\ fib[5] = ADDV("A", -1) /\ fib[6] = CALL("fib") /\ fib[7] = POP("A")
  /\ fib[8] = PUSH("M") /\ fib[9] = ADDV("A", -2) /\ fib[10] = CALL("fib") /\ fib[11] = POP("A")
  /\ fib[12] = ADDR("M", "A", "M") /\ fib[13] = RET
BY DEF fib

\* Where the dump has read all counters.
Full == 2 * COUNTERS + 2

LEMMA DumpCode ==
  /\ dump[1] = SETR("I", 1)
  /\ \A k \in 1 .. COUNTERS : dump[2 * k] = Run("read", {"G"}) /\ dump[2 * k + 1] = ADDV("I", 1)
  /\ dump[Full] = Run("id", {}) /\ dump[Full + 1] = CALL("puthex16")
  /\ dump[Full + 2] = SETR("I", 1) /\ dump[Full + 3] = SETR("J", COUNTERS)
  /\ dump[Full + 4] = Run("reload", {}) /\ dump[Full + 5] = CALL("puthex16")
  /\ dump[Full + 6] = ADDV("I", 1) /\ dump[Full + 7] = ADDV("J", -1)
  /\ dump[Full + 8] = JMPNZ("J", Full + 4) /\ dump[Full + 9] = CALL("crlf") /\ dump[Full + 10] = RET
<1> DEFINE n0    == 2 * COUNTERS
           reads == [i \in 1 .. 2 * COUNTERS |-> IF i % 2 = 1 THEN Run("read", {"G"}) ELSE ADDV("I", 1)]
           print == <<Run("id", {}), CALL("puthex16"), SETR("I", 1), SETR("J", COUNTERS),
                      Run("reload", {}), CALL("puthex16"), ADDV("I", 1), ADDV("J", -1),
                      JMPNZ("J", 2 * COUNTERS + 6), CALL("crlf"), RET>>
           start == <<SETR("I", 1)>>
           S     == {reads[i] : i \in 1 .. n0} \cup {print[i] : i \in 1 .. 11} \cup {SETR("I", 1)}
<1>0. n0 \in Nat \ {0}
  BY Profile
<1>1. n0 \in Nat \ {0} /\ COUNTERS \in Nat
  BY Profile
<1>2. start \in Seq(S) /\ Len(start) = 1 /\ start[1] = SETR("I", 1)
      /\ reads \in Seq(S) /\ Len(reads) = n0
  <2>1. start \in Seq(S) /\ Len(start) = 1 /\ start[1] = SETR("I", 1)
    OBVIOUS
  <2>2. reads \in Seq(S) /\ Len(reads) = n0
    <3>1. reads = [i \in 1 .. n0 |-> reads[i]]
      BY DEF n0
    <3>2. \A i \in 1 .. n0 : reads[i] \in S
      BY DEF S
    <3> HIDE DEF reads, S, n0
    <3> QED BY <1>0, <3>1, <3>2, SeqOf
  <2> QED BY <2>1, <2>2
<1>3. print \in Seq(S) /\ Len(print) = 11
  OBVIOUS
<1>4. dump = (start \o reads) \o print
  BY DEF dump
<1>5. \A k \in 1 .. COUNTERS : /\ reads[2 * k - 1] = Run("read", {"G"}) /\ reads[2 * k] = ADDV("I", 1)
                               /\ 2 * k - 1 \in 1 .. n0 /\ 2 * k \in 1 .. n0
                               /\ 1 + (2 * k - 1) = 2 * k /\ 1 + 2 * k = 2 * k + 1
  BY <1>1
<1>6. /\ print[1] = Run("id", {}) /\ print[2] = CALL("puthex16") /\ print[3] = SETR("I", 1)
      /\ print[4] = SETR("J", COUNTERS) /\ print[5] = Run("reload", {}) /\ print[6] = CALL("puthex16")
      /\ print[7] = ADDV("I", 1) /\ print[8] = ADDV("J", -1) /\ print[9] = JMPNZ("J", 2 * COUNTERS + 6)
      /\ print[10] = CALL("crlf") /\ print[11] = RET
  OBVIOUS
<1> HIDE DEF reads, print, S, start
<1>7. Joined(S, start, reads, start \o reads)
  BY <1>2, Behind
<1>8. PICK u : u = start \o reads
  OBVIOUS
<1>9. /\ u \in Seq(S) /\ Len(u) = 1 + n0 /\ u[1] = SETR("I", 1)
      /\ \A k \in 1 .. n0 : u[1 + k] = reads[k]
  BY <1>2, <1>7, <1>8 DEF Joined
<1>10. Joined(S, u, print, dump)
  BY <1>3, <1>4, <1>8, <1>9, Behind
<1>11. /\ \A k \in 1 .. 1 + n0 : dump[k] = u[k]
       /\ \A k \in 1 .. 11 : dump[(1 + n0) + k] = print[k]
  <2>1. /\ \A k \in 1 .. Len(u) : dump[k] = u[k]
        /\ \A k \in 1 .. Len(print) : dump[Len(u) + k] = print[k]
    BY <1>10 DEF Joined
  <2> QED BY <1>3, <1>9, <2>1
<1>12. dump[1] = SETR("I", 1)
  BY <1>1, <1>9, <1>11
<1>13. ASSUME NEW k \in 1 .. COUNTERS
       PROVE  dump[2 * k] = Run("read", {"G"}) /\ dump[2 * k + 1] = ADDV("I", 1)
  <2>1. \A i \in 1 .. n0 : 1 + i \in 1 .. 1 + n0
    BY <1>1
  <2>2. \A i \in 1 .. n0 : dump[1 + i] = reads[i]
    BY <1>9, <1>11, <2>1
  <2> QED BY <1>5, <2>2
<1>14. \A k \in 1 .. 11 : dump[Full + (k - 1)] = print[k]
  <2> SUFFICES ASSUME NEW k \in 1 .. 11 PROVE dump[Full + (k - 1)] = print[k]
    OBVIOUS
  <2>1. Full + (k - 1) = (1 + n0) + k
    BY <1>1 DEF Full
  <2> QED BY <1>11, <2>1
<1>15. /\ dump[Full + 0] = print[1] /\ dump[Full + 1] = print[2] /\ dump[Full + 2] = print[3]
       /\ dump[Full + 3] = print[4] /\ dump[Full + 4] = print[5] /\ dump[Full + 5] = print[6]
  BY <1>14
<1>16. /\ dump[Full + 6] = print[7] /\ dump[Full + 7] = print[8] /\ dump[Full + 8] = print[9]
       /\ dump[Full + 9] = print[10] /\ dump[Full + 10] = print[11]
  BY <1>14
<1>17. Full + 0 = Full /\ Full + 4 = 2 * COUNTERS + 6
  BY <1>1 DEF Full
<1> QED BY <1>6, <1>12, <1>13, <1>15, <1>16, <1>17

-----------------------------------------------------------------------------
(* What each instruction does to the registers, the counters and the lines. *)

LEMMA StepTakes ==
  ASSUME ProbeNext
  PROVE  /\ Here.do \in {"set", "add", "copy"} => Assign
         /\ Here.do = "sum" => AddRegisters
         /\ Here.do \in Jumps => Jump
         /\ Here.do = "call" => Call
         /\ Here.do = "ret" => Return
         /\ Here.do = "push" => PushRegister
         /\ Here.do = "pop" => PopRegister
         /\ Here.do = "work" => Work
         /\ Here.do = "update" => UpdateWord
         /\ Here.do = "follow" => Follow
         /\ Here.do = "clear" => Clear
         /\ Here.do = "read" => Read
         /\ Here.do \in {"reload", "id"} => Reload
         /\ Here.do = "digit" => Digit
         /\ Here.do = "putc" => PutChar
         /\ Here.do = "newline" => NewLine
BY DEF ProbeNext, Assign, AddRegisters, Jump, Call, Return, PushRegister, PopRegister, Work, Jumps,
   UpdateWord, Identity, Swap, Follow, Clear, Read, Reload, Digit, PutChar, NewLine

AllWords   == reg = [r \in Registers |-> reg[r]] /\ \A r \in Registers : IsWord(reg[r])
Onward     == at' = <<at[1], at[2] + 1>> /\ stack' = stack
Keeps(set) == \A r \in Registers \ set : reg'[r] = reg[r]
Counted1   == perf' = [perf EXCEPT !["kernel"] = @ + 1]
Same       == perf' = perf /\ lines' = lines /\ scratch' = scratch

LEMMA SetStep ==
  ASSUME ProbeNext, AllWords, NEW r \in Registers, NEW n, Here = SETR(r, n)
  PROVE  Onward /\ Same /\ Keeps({r}) /\ reg'[r].n = n
<1>1. Here.do = "set" /\ Here.reg = r /\ Here.n = n
  BY DEF SETR
<1>2. Assign /\ reg' = [reg EXCEPT ![r] = Word(n)]
  BY <1>1, StepTakes DEF Assign
<1>3. Onward /\ Same
  BY <1>2 DEF Assign, Advance, Quiet, NoMemory, Onward, Same
<1>4. reg'[r] = Word(n) /\ Keeps({r})
  BY <1>2 DEF AllWords, Keeps
<1> QED BY <1>3, <1>4 DEF Word

LEMMA AddStep ==
  ASSUME ProbeNext, AllWords, NEW r \in Registers, NEW n, Here = ADDV(r, n)
  PROVE  Onward /\ Same /\ Keeps({r}) /\ reg'[r].n = reg[r].n + n
<1>1. Here.do = "add" /\ Here.reg = r /\ Here.n = n
  BY DEF ADDV
<1>2. Assign /\ reg' = [reg EXCEPT ![r].n = @ + n]
  BY <1>1, StepTakes DEF Assign
<1>3. Onward /\ Same
  BY <1>2 DEF Assign, Advance, Quiet, NoMemory, Onward, Same
<1>4. reg'[r] = [reg[r] EXCEPT !.n = @ + n] /\ Keeps({r})
  BY <1>2 DEF AllWords, Keeps
<1>5. reg[r] = [n |-> reg[r].n, of |-> reg[r].of, shift |-> reg[r].shift]
  BY DEF AllWords, IsWord
<1>6. PICK a, b, c : reg[r] = [n |-> a, of |-> b, shift |-> c]
  BY <1>5
<1>7. reg'[r].n = a + n /\ reg[r].n = a
  BY <1>4, <1>6
<1> QED BY <1>3, <1>4, <1>7

LEMMA CopyStep ==
  ASSUME ProbeNext, AllWords, NEW r \in Registers, NEW f \in Registers, Here = COPY(r, f)
  PROVE  Onward /\ Same /\ Keeps({r})
<1>1. Here.do = "copy" /\ Here.reg = r /\ Here.from = f
  BY DEF COPY
<1>2. Assign /\ reg' = [reg EXCEPT ![r] = reg[f]]
  BY <1>1, StepTakes DEF Assign
<1>3. Onward /\ Same
  BY <1>2 DEF Assign, Advance, Quiet, NoMemory, Onward, Same
<1>4. Keeps({r})
  BY <1>2 DEF AllWords, Keeps
<1> QED BY <1>3, <1>4

LEMMA SumStep ==
  ASSUME ProbeNext, AllWords, NEW r \in Registers, NEW e, NEW f, Here = ADDR(r, e, f)
  PROVE  Onward /\ Counted1 /\ lines' = lines /\ scratch' = scratch /\ Keeps({r})
<1>1. Here.do = "sum" /\ Here.reg = r
  BY DEF ADDR
<1>2. AddRegisters
  BY <1>1, StepTakes
<1>3. Onward /\ Counted1 /\ lines' = lines /\ scratch' = scratch
  BY <1>2 DEF AddRegisters, Advance, Count, Counted1, NoMemory, Onward
<1>4. Keeps({r})
  BY <1>1, <1>2 DEF AddRegisters, AllWords, Keeps
<1> QED BY <1>3, <1>4

LEMMA WorkStep ==
  ASSUME ProbeNext, AllWords, NEW set \in SUBSET Registers,
         Here \in {Run("work", set), Run("update", set)}
  PROVE  Onward /\ Counted1 /\ lines' = lines /\ scratch' = scratch /\ Keeps(set)
<1>1. Here.do \in {"work", "update"} /\ Here.lose = set
  BY DEF Run
<1>2. Work \/ UpdateWord
  BY <1>1, StepTakes
<1>3. Onward /\ Counted1 /\ lines' = lines /\ scratch' = scratch /\ reg' = Without(set)
  BY <1>1, <1>2 DEF Work, UpdateWord, Advance, Count, Counted1, NoMemory, Onward
<1>4. Keeps(set)
  BY <1>3 DEF Without, Keeps
<1> QED BY <1>3, <1>4

LEMMA FollowsStep ==
  ASSUME ProbeNext, AllWords, NEW set \in SUBSET Registers, Here = Run("follow", set)
  PROVE  Onward /\ Counted1 /\ lines' = lines /\ scratch' = scratch /\ Keeps(set \cup {"C"})
<1>1. Here.do = "follow" /\ Here.lose = set
  BY DEF Run
<1>2. Follow
  BY <1>1, StepTakes
<1>3. Onward /\ Counted1 /\ lines' = lines /\ scratch' = scratch
  BY <1>2 DEF Follow, Advance, Count, Counted1, NoMemory, Onward
<1>4. reg' = [Without(set) EXCEPT !["C"] = Word(buf[reg["C"].n])]
  BY <1>1, <1>2 DEF Follow
<1>5. Keeps(set \cup {"C"})
  BY <1>4 DEF Without, Keeps
<1> QED BY <1>3, <1>5

LEMMA ClearStep ==
  ASSUME ProbeNext, AllWords, NEW set, Here = Run("clear", set)
  PROVE  Onward /\ perf' = Counts /\ lines' = lines /\ scratch' = scratch
<1>1. Here.do = "clear"
  BY DEF Run
<1>2. Clear
  BY <1>1, StepTakes
<1> QED BY <1>2 DEF Clear, Advance, NoMemory, Onward

LEMMA ReadStep ==
  ASSUME ProbeNext, AllWords, NEW set \in SUBSET Registers, Here = Run("read", set)
  PROVE  /\ Onward /\ perf' = [perf EXCEPT !["dump"] = @ + 1] /\ lines' = lines
         /\ scratch' = [scratch EXCEPT ![reg["I"].n] = perf] /\ Keeps(set \cup {"E"})
<1>1. Here.do = "read" /\ Here.lose = set
  BY DEF Run
<1>2. Read
  BY <1>1, StepTakes
<1>3. /\ Onward /\ perf' = [perf EXCEPT !["dump"] = @ + 1] /\ lines' = lines
      /\ scratch' = [scratch EXCEPT ![reg["I"].n] = perf]
  BY <1>2 DEF Read, Advance, Count, Onward
<1>4. reg' = [Without(set) EXCEPT !["E"].of = perf]
  BY <1>1, <1>2 DEF Read
<1>5. Keeps(set \cup {"E"})
  BY <1>4 DEF Without, Keeps
<1> QED BY <1>3, <1>5

LEMMA OfStep ==
  ASSUME AllWords, NEW x, reg' = [reg EXCEPT !["E"].of = x]
  PROVE  Keeps({"E"}) /\ reg'["E"].of = x /\ reg'["E"].n = reg["E"].n
<1>1. "E" \in Registers
  BY DEF Registers
<1>2. Keeps({"E"}) /\ reg'["E"] = [reg["E"] EXCEPT !.of = x]
  BY <1>1 DEF AllWords, Keeps
<1>3. PICK a, b, c : reg["E"] = [n |-> a, of |-> b, shift |-> c]
  BY <1>1 DEF AllWords, IsWord
<1>4. reg'["E"].of = x /\ reg'["E"].n = a /\ reg["E"].n = a
  BY <1>2, <1>3
<1> QED BY <1>2, <1>4

LEMMA ReloadStep ==
  ASSUME ProbeNext, AllWords, NEW set, Here = Run("reload", set)
  PROVE  /\ Onward /\ Same /\ Keeps({"E"})
         /\ reg'["E"].of = scratch[reg["I"].n] /\ reg'["E"].n = reg["E"].n
<1>1. Here.do = "reload"
  BY DEF Run
<1>2. Reload
  BY <1>1, StepTakes
<1>3. Onward /\ Same
  BY <1>2 DEF Reload, Advance, Quiet, NoMemory, Onward, Same
<1>4. reg' = [reg EXCEPT !["E"].of = scratch[reg["I"].n]]
  BY <1>1, <1>2 DEF Reload
<1> QED BY <1>3, <1>4, OfStep

LEMMA IdStep ==
  ASSUME ProbeNext, AllWords, NEW set, Here = Run("id", set)
  PROVE  /\ Onward /\ Same /\ Keeps({"E"})
         /\ reg'["E"].of = Num(reg["D"].n) /\ reg'["E"].n = reg["E"].n
<1>1. Here.do = "id"
  BY DEF Run
<1>2. Reload
  BY <1>1, StepTakes
<1>3. Onward /\ Same
  BY <1>2 DEF Reload, Advance, Quiet, NoMemory, Onward, Same
<1>4. reg' = [reg EXCEPT !["E"].of = Num(reg["D"].n)]
  BY <1>1, <1>2 DEF Reload
<1> QED BY <1>3, <1>4, OfStep

LEMMA DigitStep ==
  ASSUME ProbeNext, AllWords, NEW set \in SUBSET Registers, Here = Run("digit", set)
  PROVE  /\ Onward /\ Same /\ Keeps(set \cup {"A"})
         /\ reg'["A"] = [n |-> reg["E"].n, of |-> reg["E"].of, shift |-> reg["F"].n]
<1>1. Here.do = "digit" /\ Here.lose = set
  BY DEF Run
<1>2. Digit
  BY <1>1, StepTakes
<1>3. Onward /\ Same
  BY <1>2 DEF Digit, Advance, Quiet, NoMemory, Onward, Same
<1>4. reg' = [Without(set) EXCEPT !["A"] = [reg["E"] EXCEPT !.shift = reg["F"].n]]
  BY <1>1, <1>2 DEF Digit
<1>5. "A" \in Registers /\ "E" \in Registers
  BY DEF Registers
<1>6. Keeps(set \cup {"A"}) /\ reg'["A"] = [reg["E"] EXCEPT !.shift = reg["F"].n]
  BY <1>4, <1>5 DEF Without, Keeps
<1>7. PICK a, b, c : reg["E"] = [n |-> a, of |-> b, shift |-> c]
  BY <1>5 DEF AllWords, IsWord
<1>8. \A s : [reg["E"] EXCEPT !.shift = s] = [n |-> reg["E"].n, of |-> reg["E"].of, shift |-> s]
  BY <1>7
<1> QED BY <1>3, <1>6, <1>8

LEMMA PutStep ==
  ASSUME ProbeNext, AllWords, NEW set \in SUBSET Registers, Here = Run("putc", set)
  PROVE  /\ Onward /\ scratch' = scratch /\ Keeps(set)
         /\ lines' = [lines EXCEPT ![Len(lines)] = Append(@, reg["A"])]
<1>1. Here.do = "putc" /\ Here.lose = set
  BY DEF Run
<1>2. PutChar
  BY <1>1, StepTakes
<1>3. /\ Onward /\ scratch' = scratch /\ lines' = [lines EXCEPT ![Len(lines)] = Append(@, reg["A"])]
  BY <1>2 DEF PutChar, Advance, NoMemory, Onward
<1>4. Keeps(set)
  BY <1>1, <1>2 DEF PutChar, Without, Keeps
<1> QED BY <1>3, <1>4

LEMMA NewLineStep ==
  ASSUME ProbeNext, AllWords, NEW set, Here = Run("newline", set)
  PROVE  Onward /\ scratch' = scratch /\ lines' = Append(lines, <<>>)
<1>1. Here.do = "newline"
  BY DEF Run
<1>2. NewLine
  BY <1>1, StepTakes
<1> QED BY <1>2 DEF NewLine, Advance, NoMemory, Onward

-----------------------------------------------------------------------------
(* What an instruction does to the place and the stack.                    *)

Still    == stack' = stack /\ reg' = reg /\ Same
Goes(to) == at' = <<at[1], to>> /\ Still

LEMMA JumpStep ==
  ASSUME ProbeNext
  PROVE  /\ \A r, l, to : Here = JMPULT(r, l, to) =>
                Goes(IF reg[r].n < reg[l].n THEN to ELSE at[2] + 1)
         /\ \A r, l, to : Here = JMPULE(r, l, to) =>
                Goes(IF reg[r].n <= reg[l].n THEN to ELSE at[2] + 1)
         /\ \A r, n, to : Here = JMPULTV(r, n, to) =>
                Goes(IF reg[r].n < n THEN to ELSE at[2] + 1)
         /\ \A r, n, to : Here = JMPUGEV(r, n, to) =>
                Goes(IF reg[r].n >= n THEN to ELSE at[2] + 1)
         /\ \A r, to : Here = JMPNZ(r, to) => Goes(IF reg[r].n # 0 THEN to ELSE at[2] + 1)
<1>1. Here.do \in Jumps => Goes(IF Taken THEN Here.to ELSE at[2] + 1)
  <2> SUFFICES ASSUME Here.do \in Jumps PROVE Goes(IF Taken THEN Here.to ELSE at[2] + 1)
    OBVIOUS
  <2>1. Jump
    BY StepTakes
  <2>2. Still
    BY <2>1 DEF Jump, Goto, Advance, Quiet, NoMemory, Still, Same
  <2>3. at' = <<at[1], IF Taken THEN Here.to ELSE at[2] + 1>>
    <3>1. CASE Taken
      BY <2>1, <3>1 DEF Jump, Goto
    <3>2. CASE ~Taken
      BY <2>1, <3>2 DEF Jump, Advance
    <3> QED BY <3>1, <3>2
  <2> QED BY <2>2, <2>3 DEF Goes
<1>2. ASSUME NEW r, NEW l, NEW to, Here = JMPULT(r, l, to)
      PROVE  Goes(IF reg[r].n < reg[l].n THEN to ELSE at[2] + 1)
  <2>1. Here.do = "less" /\ Here.reg = r /\ Here.limit = l /\ Here.to = to
    BY <1>2 DEF JMPULT
  <2>2. Taken <=> reg[r].n < reg[l].n
    BY <2>1 DEF Taken
  <2> QED BY <1>1, <2>1, <2>2 DEF Jumps
<1>3. ASSUME NEW r, NEW l, NEW to, Here = JMPULE(r, l, to)
      PROVE  Goes(IF reg[r].n <= reg[l].n THEN to ELSE at[2] + 1)
  <2>1. Here.do = "atmost" /\ Here.reg = r /\ Here.limit = l /\ Here.to = to
    BY <1>3 DEF JMPULE
  <2>2. Taken <=> reg[r].n <= reg[l].n
    BY <2>1 DEF Taken
  <2> QED BY <1>1, <2>1, <2>2 DEF Jumps
<1>4. ASSUME NEW r, NEW n, NEW to, Here = JMPULTV(r, n, to)
      PROVE  Goes(IF reg[r].n < n THEN to ELSE at[2] + 1)
  <2>1. Here.do = "lessv" /\ Here.reg = r /\ Here.n = n /\ Here.to = to
    BY <1>4 DEF JMPULTV
  <2>2. Taken <=> reg[r].n < n
    BY <2>1 DEF Taken
  <2> QED BY <1>1, <2>1, <2>2 DEF Jumps
<1>5. ASSUME NEW r, NEW n, NEW to, Here = JMPUGEV(r, n, to)
      PROVE  Goes(IF reg[r].n >= n THEN to ELSE at[2] + 1)
  <2>1. Here.do = "atleastv" /\ Here.reg = r /\ Here.n = n /\ Here.to = to
    BY <1>5 DEF JMPUGEV
  <2>2. Taken <=> reg[r].n >= n
    BY <2>1 DEF Taken
  <2> QED BY <1>1, <2>1, <2>2 DEF Jumps
<1>6. ASSUME NEW r, NEW to, Here = JMPNZ(r, to)
      PROVE  Goes(IF reg[r].n # 0 THEN to ELSE at[2] + 1)
  <2>1. Here.do = "nonzero" /\ Here.reg = r /\ Here.to = to
    BY <1>6 DEF JMPNZ
  <2>2. Taken <=> reg[r].n # 0
    BY <2>1 DEF Taken
  <2> QED BY <1>1, <2>1, <2>2 DEF Jumps
<1> QED BY <1>2, <1>3, <1>4, <1>5, <1>6

\* The stack one higher, e on top; and one lower.
Higher(e) ==
  /\ Len(stack') = Len(stack) + 1 /\ stack'[Len(stack) + 1] = e
  /\ \A k \in 1 .. Len(stack) : stack'[k] = stack[k]
Lower == Len(stack') = Len(stack) - 1 /\ \A k \in 1 .. Len(stack) - 1 : stack'[k] = stack[k]

LEMMA CallStep ==
  ASSUME ProbeNext, Sequence(stack), NEW r, Here = CALL(r)
  PROVE  /\ at' = <<r, 1>> /\ reg' = reg /\ Same
         /\ Higher([to |-> <<at[1], at[2] + 1>>, val |-> Lost])
<1>1. Here.do = "call" /\ Here.routine = r
  BY DEF CALL
<1>2. Call
  BY <1>1, StepTakes
<1>3. at' = <<r, 1>> /\ reg' = reg /\ Same
  BY <1>1, <1>2 DEF Call, Quiet, NoMemory, Same
<1>4. stack' = Append(stack, [to |-> <<at[1], at[2] + 1>>, val |-> Lost])
  BY <1>2 DEF Call, Push
<1> QED BY <1>3, <1>4, Pushing DEF Higher

LEMMA PushStep ==
  ASSUME ProbeNext, Sequence(stack), NEW r, Here = PUSH(r)
  PROVE  /\ at' = <<at[1], at[2] + 1>> /\ reg' = reg /\ Same
         /\ Higher([to |-> Pushed, val |-> reg[r]])
<1>1. Here.do = "push" /\ Here.reg = r
  BY DEF PUSH
<1>2. PushRegister
  BY <1>1, StepTakes
<1>3. at' = <<at[1], at[2] + 1>> /\ reg' = reg /\ Same
  BY <1>1, <1>2 DEF PushRegister, Quiet, NoMemory, Same
<1>4. stack' = Append(stack, [to |-> Pushed, val |-> reg[r]])
  BY <1>1, <1>2 DEF PushRegister, Push
<1> QED BY <1>3, <1>4, Pushing DEF Higher

LEMMA RetStep ==
  ASSUME ProbeNext, Sequence(stack), Here = RET
  PROVE  /\ Len(stack) \in Nat \ {0} /\ at' = stack[Len(stack)].to /\ reg' = reg /\ Same
         /\ Lower /\ stack[Len(stack)].to # Pushed
<1>1. Here.do = "ret"
  BY DEF RET
<1>2. Return
  BY <1>1, StepTakes
<1>3. at' = stack[Len(stack)].to /\ reg' = reg /\ Same /\ stack[Len(stack)].to # Pushed
  BY <1>1, <1>2 DEF Return, Top, Quiet, NoMemory, Same
<1>4. stack' = SubSeq(stack, 1, Len(stack) - 1) /\ stack # <<>>
  BY <1>2 DEF Return, Drop
<1>5. Len(stack) \in Nat \ {0} /\ Len(stack) >= 1
  BY <1>4, SequenceParts
<1> QED BY <1>3, <1>4, <1>5, Dropping DEF Lower

LEMMA PopStep ==
  ASSUME ProbeNext, Sequence(stack), AllWords, NEW r \in Registers, Here = POP(r)
  PROVE  /\ Len(stack) \in Nat \ {0} /\ at' = <<at[1], at[2] + 1>> /\ Same /\ Lower
         /\ Keeps({r}) /\ reg'[r] = stack[Len(stack)].val
<1>1. Here.do = "pop" /\ Here.reg = r
  BY DEF POP
<1>2. PopRegister
  BY <1>1, StepTakes
<1>3. at' = <<at[1], at[2] + 1>> /\ Same
  BY <1>1, <1>2 DEF PopRegister, Quiet, NoMemory, Same
<1>4. reg' = [reg EXCEPT ![r] = stack[Len(stack)].val]
  BY <1>1, <1>2 DEF PopRegister, Top
<1>5. Keeps({r}) /\ reg'[r] = stack[Len(stack)].val
  BY <1>4 DEF AllWords, Keeps
<1>6. stack' = SubSeq(stack, 1, Len(stack) - 1) /\ stack # <<>>
  BY <1>2 DEF PopRegister, Drop
<1>7. Len(stack) \in Nat \ {0} /\ Len(stack) >= 1
  BY <1>6, SequenceParts
<1> QED BY <1>3, <1>5, <1>6, <1>7, Dropping DEF Lower

\* What the registers, the pushed values and the snapshot are, always.
StoreInv ==
  /\ AllWords /\ \A k \in 1 .. Len(stack) : IsWord(stack[k].val)
  /\ scratch = [k \in 1 .. COUNTERS |-> scratch[k]]

LEMMA Rewritten ==
  ASSUME NEW v, IsWord(v), NEW w, NEW x,
         w = [v EXCEPT !.n = x] \/ w = [v EXCEPT !.of = x] \/ w = [v EXCEPT !.shift = x]
  PROVE  IsWord(w)
<1>1. PICK a, b, c : v = [n |-> a, of |-> b, shift |-> c]
  BY DEF IsWord
<1> QED BY <1>1 DEF IsWord

LEMMA WordIs == \A n : IsWord(Word(n)) /\ Word(n).n = n
BY DEF IsWord, Word

LEMMA StoreStep ==
  ASSUME StoreInv, Sequence(stack), ProbeNext, reg' = [r \in Registers |-> reg'[r]],
         Here.do = "copy" => Here.from \in Registers,
         Here.do = "push" => Here.reg \in Registers
  PROVE  StoreInv'
<1>1. reg = [r \in Registers |-> reg[r]] /\ \A r \in Registers : IsWord(reg[r])
  BY DEF StoreInv, AllWords
<1>2. scratch' = [k \in 1 .. COUNTERS |-> scratch'[k]]
  <2>1. scratch' = scratch \/ \E i, x : scratch' = [scratch EXCEPT ![i] = x]
    BY DEF ProbeNext, Assign, AddRegisters, Jump, Call, Return, PushRegister, PopRegister, Work,
       UpdateWord, Identity, Swap, Follow, Clear, Read, Reload, Digit, PutChar, NewLine, Quiet, NoMemory
  <2> QED BY <2>1 DEF StoreInv
<1>3. Lost = Word(-1) /\ IsWord(Lost)
  BY WordIs DEF Lost
<1>4. \A l : \A r \in Registers : IsWord(Without(l)[r])
  BY <1>1, <1>3 DEF Without
<1>5. \A r \in Registers : IsWord(reg'[r])
  <2> SUFFICES ASSUME NEW r \in Registers PROVE IsWord(reg'[r])
    OBVIOUS
  <2>1. CASE Assign
    <3>1. CASE Here.do = "set" /\ reg' = [reg EXCEPT ![Here.reg] = Word(Here.n)]
      BY <1>1, <3>1, WordIs
    <3>2. CASE Here.do = "add" /\ reg' = [reg EXCEPT ![Here.reg].n = @ + Here.n]
      <4>1. reg'[r] = reg[r] \/ \E x : reg'[r] = [reg[r] EXCEPT !.n = x]
        BY <1>1, <3>2
      <4> QED BY Zenon, <1>1, <4>1, Rewritten
    <3>3. CASE Here.do = "copy" /\ reg' = [reg EXCEPT ![Here.reg] = reg[Here.from]]
      BY <1>1, <3>3
    <3> QED BY <2>1, <3>1, <3>2, <3>3 DEF Assign
  <2>2. CASE AddRegisters
    BY <1>1, <2>2, WordIs DEF AddRegisters
  <2>3. CASE Jump \/ Call \/ Return \/ PushRegister
    BY <1>1, <2>3 DEF Jump, Call, Return, PushRegister
  <2>4. CASE PopRegister
    <3>1. Here.do = "pop" /\ reg' = [reg EXCEPT ![Here.reg] = stack[Len(stack)].val] /\ stack # <<>>
      BY <2>4 DEF PopRegister, Top
    <3>2. Len(stack) \in 1 .. Len(stack)
      BY <3>1, SequenceParts
    <3>3. IsWord(stack[Len(stack)].val)
      BY <3>2 DEF StoreInv
    <3> QED BY <1>1, <3>1, <3>3
  <2>5. CASE Work \/ UpdateWord \/ Identity \/ Swap \/ Clear \/ PutChar \/ NewLine
    <3>1. reg' = Without(Here.lose)
      BY <2>5 DEF Work, UpdateWord, Identity, Swap, Clear, PutChar, NewLine
    <3> QED BY <1>4, <3>1
  <2>6. CASE Follow
    <3>1. PICK x : reg' = [Without(Here.lose) EXCEPT !["C"] = Word(x)]
      BY <2>6 DEF Follow
    <3>2. reg'[r] = Word(x) \/ reg'[r] = Without(Here.lose)[r]
      BY <3>1 DEF Without
    <3> QED BY <1>4, <3>2, WordIs
  <2>7. CASE Read
    <3>1. reg' = [Without(Here.lose) EXCEPT !["E"].of = perf]
      BY <2>7 DEF Read
    <3>2. reg'[r] = Without(Here.lose)[r] \/ reg'[r] = [Without(Here.lose)[r] EXCEPT !.of = perf]
      BY <3>1 DEF Without
    <3> QED BY Zenon, <1>4, <3>2, Rewritten
  <2>8. CASE Reload
    <3>1. PICK x : reg' = [reg EXCEPT !["E"].of = x]
      BY <2>8 DEF Reload
    <3>2. reg'[r] = reg[r] \/ reg'[r] = [reg[r] EXCEPT !.of = x]
      BY <1>1, <3>1
    <3> QED BY Zenon, <1>1, <3>2, Rewritten
  <2>9. CASE Digit
    <3>1. PICK x : reg' = [Without(Here.lose) EXCEPT !["A"] = [reg["E"] EXCEPT !.shift = x]]
      BY <2>9 DEF Digit
    <3>2. reg'[r] = Without(Here.lose)[r] \/ reg'[r] = [reg["E"] EXCEPT !.shift = x]
      BY <3>1 DEF Without
    <3>3. "E" \in Registers
      BY DEF Registers
    <3> QED BY Zenon, <1>1, <1>4, <3>2, <3>3, Rewritten
  <2> QED BY <2>1, <2>2, <2>3, <2>4, <2>5, <2>6, <2>7, <2>8, <2>9 DEF ProbeNext
<1>6. \A k \in 1 .. Len(stack') : IsWord(stack'[k].val)
  <2>0. \A k \in 1 .. Len(stack) : IsWord(stack[k].val)
    BY DEF StoreInv
  <2>1. CASE stack' = stack
    BY <2>0, <2>1
  <2>2. ASSUME NEW e, stack' = Append(stack, e), IsWord(e.val)
        PROVE  \A k \in 1 .. Len(stack') : IsWord(stack'[k].val)
    <3>1. /\ Len(stack') = Len(stack) + 1 /\ stack'[Len(stack) + 1] = e
          /\ \A k \in 1 .. Len(stack) : stack'[k] = stack[k]
      BY <2>2, Pushing
    <3>2. \A k \in 1 .. Len(stack') : k \in 1 .. Len(stack) \/ k = Len(stack) + 1
      BY <3>1, SequenceParts
    <3> QED BY <2>0, <2>2, <3>1, <3>2
  <2>3. CASE stack' = SubSeq(stack, 1, Len(stack) - 1) /\ stack # <<>>
    <3>1. Len(stack) \in Nat /\ Len(stack) >= 1
      BY <2>3, SequenceParts
    <3>2. Len(stack') = Len(stack) - 1 /\ \A k \in 1 .. Len(stack) - 1 : stack'[k] = stack[k]
      BY <2>3, <3>1, Dropping
    <3>3. \A k \in 1 .. Len(stack') : k \in 1 .. Len(stack) - 1 /\ k \in 1 .. Len(stack)
      BY <3>1, <3>2
    <3> QED BY <2>0, <3>2, <3>3
  <2>4. CASE Call
    <3>1. stack' = Append(stack, [to |-> <<at[1], at[2] + 1>>, val |-> Lost])
      BY <2>4 DEF Call, Push
    <3> QED BY <1>3, <2>2, <3>1
  <2>5. CASE PushRegister
    <3>1. stack' = Append(stack, [to |-> Pushed, val |-> reg[Here.reg]]) /\ Here.reg \in Registers
      BY <2>5 DEF PushRegister, Push
    <3> QED BY <1>1, <2>2, <3>1
  <2>6. CASE Return \/ PopRegister
    BY <2>3, <2>6 DEF Return, PopRegister, Drop
  <2>7. CASE Assign \/ AddRegisters \/ Jump \/ Work \/ UpdateWord \/ Identity \/ Swap
    BY <2>1, <2>7 DEF Assign, AddRegisters, Jump, Work, UpdateWord, Identity, Swap, Advance, Goto
  <2>8. CASE Follow \/ Clear \/ Read \/ Reload \/ Digit \/ PutChar \/ NewLine
    BY <2>1, <2>8 DEF Follow, Clear, Read, Reload, Digit, PutChar, NewLine, Advance
  <2> QED BY <2>4, <2>5, <2>6, <2>7, <2>8 DEF ProbeNext
<1> QED BY <1>2, <1>5, <1>6 DEF StoreInv, AllWords

-----------------------------------------------------------------------------
(* Where a measurement is: kernel id's, from its setup to the end of its     *)
(* line.                                                                     *)

\* The lines before id are whole; line id is empty; line id has len characters.
LinesDone(id) ==
  /\ Sequence(lines) /\ Len(lines) = id
  /\ \A j \in 1 .. id - 1 : \E n : Printed(j, lines[j], LineLen, n)
Ready(id)       == LinesDone(id) /\ lines[id] = <<>>
Partly(id, len) == LinesDone(id) /\ Printed(id, lines[id], len, reg["E"].n)

\* The stack holds one return address, behind the n-th instruction of kernel
\* id's calls in main.
Called(id, n) == stack[1].to = <<"main", First[id] + n>>

MainAt(id) ==
  /\ at[1] = "main" /\ Len(stack) = 0 /\ Ready(id)
  /\ \/ at[2] = First[id] \/ (id = 3 /\ at[2] = 9)
     \/ at[2] = First[id] + 1 /\ perf = Counts
     \/ at[2] = First[id] + 2 /\ perf = Tally(Steps[id], 0)
     \/ at[2] = First[id] + 3 /\ perf = Tally(Steps[id], 0) /\ reg["D"].n = id - 1

PermAt(id) == id = 3 /\ at[1] = "build_perm" /\ Len(stack) = 1 /\ Called(id, 0) /\ Ready(id)

ClearAt(id) ==
  /\ at[1] = "clear_perf" /\ at[2] \in 1 .. 2 /\ Len(stack) = 1 /\ Called(id, 1) /\ Ready(id)
  /\ at[2] = 2 => perf = Counts

\* A loop whose body is at b: register i counts from `from`, l holds its end,
\* and w of its n runs are done.
Loop(b, i, l, from, n) ==
  \E w \in 0 .. n :
    /\ perf = Tally(w, 0) /\ at[2] \in b - 2 .. b + 3
    /\ at[2] \in {b - 2, b - 1} => w = 0
    /\ at[2] = b - 1 => reg[i].n = from
    /\ at[2] \in {b, b + 1, b + 2} => reg[l].n = n
    /\ at[2] = b => w < n
    /\ at[2] \in {b, b + 2} => reg[i].n = from + w
    /\ at[2] = b + 1 => reg[i].n + 1 = from + w
    /\ at[2] = b + 3 => w = n

\* k_mem goes over the words twice, MEM_REPS times: c times, then in the pass
\* that begins at instruction b with w counted, d words.
Pass(b, w) ==
  \E d \in 0 .. MEM_WORDS :
    /\ at[2] \in b .. b + 2 /\ (at[2] # b + 2 => d < MEM_WORDS)
    /\ reg["D"].n = d /\ perf = Tally(w + d + (IF at[2] = b + 1 THEN 1 ELSE 0), 0)
Sweep(c) == 2 * MEM_WORDS * c
MemLoop ==
  /\ at[2] \in 2 .. 12 => reg["B"].n = MEM_WORDS
  /\ \/ at[2] \in {1, 2} /\ perf = Tally(0, 0)
     \/ \E c \in 0 .. MEM_REPS - 1 :
          /\ reg["C"].n = c
          /\ \/ at[2] = 3 /\ perf = Tally(Sweep(c), 0)
             \/ Pass(4, Sweep(c))
             \/ at[2] = 7 /\ perf = Tally(Sweep(c) + MEM_WORDS, 0)
             \/ Pass(8, Sweep(c) + MEM_WORDS)
             \/ at[2] = 11 /\ perf = Tally(Sweep(c + 1), 0)
     \/ at[2] = 12 /\ \E c \in 1 .. MEM_REPS : reg["C"].n = c /\ perf = Tally(Sweep(c), 0)
     \/ at[2] = 13 /\ perf = Tally(Sweep(MEM_REPS), 0)

KernelAt(id) ==
  /\ Len(stack) = 1 /\ Called(id, 2) /\ Ready(id) /\ at[1] = Kernels[id]
  /\ id = 1 => Loop(3, "C", "D", 0, ALU)
  /\ id = 2 => MemLoop
  /\ id = 3 => (at[2] = 1 /\ perf = Counts) \/ Loop(4, "D", "E", 0, CHASE)
  /\ id = 4 => Loop(3, "D", "E", 0, BR)
  /\ id = 5 => /\ at[2] \in 1 .. 3
               /\ at[2] # 3 => perf = Counts
               /\ at[2] = 2 => reg["A"].n = FIB
               /\ at[2] = 3 => perf = Tally(FibAdds[FIB], 0)
  /\ id = 6 => Loop(3, "C", "D", 1, MD)

\* fib's stack: pushed values, and returns behind the first and second call of
\* itself, each above what was pushed for it.
FibEntry(k) ==
  \/ stack[k].to = Pushed
  \/ /\ stack[k].to = <<"fib", 7>> /\ k >= 4 /\ stack[k - 1].to = Pushed
     /\ stack[k - 1].val.n \in Nat /\ stack[k - 1].val.n >= 2
  \/ stack[k].to = <<"fib", 11>> /\ k >= 4 /\ stack[k - 1].to = Pushed

\* The additions still to come behind the return at k, and those of the call
\* at work.
Owes(k) ==
  IF stack[k].to = <<"fib", 7>> THEN FibAdds[stack[k - 1].val.n - 2] + 1
  ELSE IF stack[k].to = <<"fib", 11>> THEN 1 ELSE 0

FibTop == stack[Len(stack)].val.n
Left ==
  CASE at[2] \in {1, 4}  -> FibAdds[reg["A"].n]
    [] at[2] \in {2, 3, 13} -> 0
    [] at[2] \in {5, 6}  -> FibAdds[FibTop]
    [] at[2] = 7         -> FibAdds[FibTop - 2] + 1
    [] at[2] \in {8, 9}  -> FibAdds[reg["A"].n - 2] + 1
    [] at[2] = 10        -> FibAdds[reg["A"].n] + 1
    [] OTHER             -> 1

\* u[k] is what the returns up to k leave to be added.
Owed(u) ==
  /\ u = [k \in 2 .. Len(stack) |-> u[k]] /\ u[2] = 0
  /\ \A k \in 3 .. Len(stack) : u[k] \in Nat /\ u[k] = u[k - 1] + Owes(k)

FibPlace ==
  /\ at[2] \in 1 .. 13
  /\ AfterPush(at) => Len(stack) >= 3 /\ stack[Len(stack)].to = Pushed
  /\ at[2] \in {1, 4, 8, 9, 10} => reg["A"].n \in Nat
  /\ at[2] \in {4, 8, 9} => reg["A"].n >= 2
  /\ at[2] \in {5, 6, 7} => FibTop \in Nat /\ FibTop >= 2
  /\ at[2] = 5 => reg["A"].n = FibTop
  /\ at[2] = 6 => reg["A"].n = FibTop - 1

FibAt(id) ==
  /\ id = 5 /\ at[1] = "fib" /\ Ready(id)
  /\ Len(stack) >= 2 /\ Called(id, 2) /\ stack[2].to = <<"k_fib_top", 3>>
  /\ \A k \in 3 .. Len(stack) : FibEntry(k)
  /\ FibPlace
  /\ \E w \in Nat : \E u : perf = Tally(w, 0) /\ Owed(u)
                             /\ w + Left + u[Len(stack)] = FibAdds[FIB]

\* The first m words of the snapshot are taken.
Saved(id, m) == \A j \in 1 .. m : scratch[j] = Entry(id, j + 1)

DumpAt(id) ==
  /\ at[1] = "dump" /\ Len(stack) = 1 /\ Called(id, 4)
  /\ \/ /\ Ready(id) /\ reg["D"].n = id - 1
        /\ \/ at[2] = 1 /\ perf = Tally(Steps[id], 0)
           \/ \E k \in 1 .. COUNTERS :
                /\ at[2] = 2 * k /\ reg["I"].n = k /\ perf = Tally(Steps[id], k - 1)
                /\ Saved(id, k - 1)
           \/ \E k \in 1 .. COUNTERS :
                /\ at[2] = 2 * k + 1 /\ reg["I"].n = k /\ perf = Tally(Steps[id], k)
                /\ Saved(id, k)
           \/ at[2] = Full /\ Saved(id, COUNTERS)
     \/ /\ Saved(id, COUNTERS)
        /\ \/ at[2] = Full + 1 /\ Partly(id, 0) /\ reg["E"].of = Entry(id, 1)
           \/ at[2] = Full + 2 /\ Partly(id, DIGITS)
           \/ at[2] = Full + 3 /\ Partly(id, DIGITS) /\ reg["I"].n = 1
           \/ \E k \in 1 .. COUNTERS :
                \/ /\ at[2] \in {Full + 4, Full + 5} /\ Partly(id, k * DIGITS)
                   /\ reg["I"].n = k /\ reg["J"].n = (COUNTERS + 1) - k
                   /\ at[2] = Full + 5 => reg["E"].of = Entry(id, k + 1)
                \/ /\ at[2] \in {Full + 6, Full + 7, Full + 8} /\ Partly(id, (k + 1) * DIGITS)
                   /\ reg["I"].n = k + (IF at[2] = Full + 6 THEN 0 ELSE 1)
                   /\ reg["J"].n = (COUNTERS - k) + (IF at[2] = Full + 8 THEN 0 ELSE 1)
           \/ at[2] = Full + 9 /\ Partly(id, LineLen)
     \/ at[2] = Full + 10 /\ Ready(id + 1)

\* Of field f of the line, q digits are printed.
Printing(id, f, q) ==
  /\ Called(id, 4) /\ Saved(id, COUNTERS) /\ Partly(id, (f - 1) * DIGITS + q)
  /\ f = 1 => stack[2].to = <<"dump", Full + 2>>
  /\ f > 1 => /\ stack[2].to = <<"dump", Full + 6>>
              /\ reg["I"].n = f - 1 /\ reg["J"].n = (COUNTERS + 2) - f
  /\ reg["E"].of = Entry(id, f)

\* The next digit is in A.
InA(id, f, q) == reg["A"] = [n |-> reg["E"].n, of |-> Entry(id, f), shift |-> DIGITS - (q + 1)]

HexAt(id) ==
  /\ at[1] = "puthex16" /\ Len(stack) = 2
  /\ \E f \in 1 .. COUNTERS + 1, q \in 0 .. DIGITS :
       /\ Printing(id, f, q)
       /\ \/ at[2] = 1 /\ q = 0
          \/ at[2] = 2 /\ q < DIGITS /\ reg["F"].n = DIGITS - q
          \/ at[2] = 3 /\ q < DIGITS /\ reg["F"].n = DIGITS - (q + 1)
          \/ at[2] = 4 /\ q < DIGITS /\ reg["F"].n = DIGITS - (q + 1) /\ InA(id, f, q)
          \/ at[2] = 5 /\ reg["F"].n = DIGITS - q
          \/ at[2] = 6 /\ q = DIGITS

PutAt(id) ==
  /\ at[1] = "putc" /\ Len(stack) = 3 /\ stack[3].to = <<"puthex16", 5>>
  /\ \E f \in 1 .. COUNTERS + 1, q \in 0 .. DIGITS :
       /\ Printing(id, f, q)
       /\ \/ at[2] = 1 /\ q < DIGITS /\ reg["F"].n = DIGITS - (q + 1) /\ InA(id, f, q)
          \/ at[2] = 2 /\ reg["F"].n = DIGITS - q

CrlfAt(id) ==
  /\ at[1] = "crlf" /\ Len(stack) = 2 /\ Called(id, 4) /\ stack[2].to = <<"dump", Full + 10>>
  /\ \/ at[2] = 1 /\ Partly(id, LineLen)
     \/ at[2] = 2 /\ Ready(id + 1)

Measuring(id) ==
  MainAt(id) \/ PermAt(id) \/ ClearAt(id) \/ KernelAt(id) \/ FibAt(id) \/ DumpAt(id) \/ HexAt(id)
    \/ PutAt(id) \/ CrlfAt(id)
AllDone == at = <<"main", 26>> /\ Len(stack) = 0 /\ Ready(7)

RowInv == StoreInv /\ (AllDone \/ \E id \in 1 .. 6 : Measuring(id))

LEMMA Sizes ==
  /\ ALU \in Nat \ {0} /\ MEM_WORDS \in Nat \ {0} /\ MEM_REPS \in Nat \ {0} /\ CHASE \in Nat \ {0}
  /\ BR \in Nat \ {0} /\ FIB \in Nat \ {0} /\ MD \in Nat \ {0}
  /\ COUNTERS \in Nat \ {0} /\ DIGITS \in Nat \ {0}
BY ProfileAssumption

LEMMA FirstIs ==
  /\ First[1] = 1 /\ First[2] = 5 /\ First[3] = 10 /\ First[4] = 14 /\ First[5] = 18 /\ First[6] = 22
  /\ Kernels[1] = "k_alu" /\ Kernels[2] = "k_mem" /\ Kernels[3] = "k_chase"
  /\ Kernels[4] = "k_branch" /\ Kernels[5] = "k_fib_top" /\ Kernels[6] = "k_muldiv"
  /\ Steps[1] = ALU /\ Steps[2] = 2 * MEM_WORDS * MEM_REPS /\ Steps[3] = CHASE
  /\ Steps[4] = BR /\ Steps[5] = FibAdds[FIB] /\ Steps[6] = MD
BY DEF First, Kernels, Steps

LEMMA FirstNat == \A id \in 1 .. 6 : First[id] \in Nat
BY FirstIs

LEMMA StepsNat ==
  \A id \in 1 .. 6 : Steps[id] \in Nat
<1>1. ALU \in Nat /\ CHASE \in Nat /\ BR \in Nat /\ MD \in Nat /\ FIB \in Nat
  BY Sizes
<1>2. MEM_WORDS \in Nat /\ MEM_REPS \in Nat
  BY Sizes
<1>3. 2 * MEM_WORDS * MEM_REPS \in Nat
  BY <1>2
<1>4. FibAdds[FIB] \in Nat
  BY <1>1, FibAddsIs
<1>5. \A id \in 1 .. 6 : id = 1 \/ id = 2 \/ id = 3 \/ id = 4 \/ id = 5 \/ id = 6
  OBVIOUS
<1> QED BY Zenon, <1>1, <1>3, <1>4, <1>5, FirstIs

\* Counting one more.
LEMMA TallyIs ==
  ASSUME NEW w, NEW k
  PROVE  Tally(w, k) = [kernel |-> w, setup |-> 0, dump |-> k, print |-> 0]
<1> DEFINE D == {"kernel", "setup", "dump", "print"}
           x == [Counts EXCEPT !.kernel = w, !.dump = k]
           y == [kernel |-> w, setup |-> 0, dump |-> k, print |-> 0]
<1>1. x = [r \in D |-> x[r]] /\ x["kernel"] = w /\ x["setup"] = 0 /\ x["dump"] = k /\ x["print"] = 0
  BY DEF Counts
<1>2. y = [r \in D |-> y[r]]
  OBVIOUS
<1>3. y["kernel"] = w /\ y["setup"] = 0 /\ y["dump"] = k /\ y["print"] = 0
  OBVIOUS
<1> HIDE DEF x, y
<1>4. \A r \in D : x[r] = y[r]
  BY <1>1, <1>3
<1>5. x = y
  BY <1>1, <1>2, <1>4
<1> QED BY <1>5 DEF x, y, Tally

LEMMA TallyMore ==
  /\ Tally(0, 0) = Counts
  /\ \A w, k : [Tally(w, k) EXCEPT !["kernel"] = @ + 1] = Tally(w + 1, k)
  /\ \A w, k : [Tally(w, k) EXCEPT !["dump"] = @ + 1] = Tally(w, k + 1)
<1>1. \A w, k : Tally(w, k) = [kernel |-> w, setup |-> 0, dump |-> k, print |-> 0]
  BY TallyIs
<1>2. \A w, k : [[kernel |-> w, setup |-> 0, dump |-> k, print |-> 0] EXCEPT !["kernel"] = @ + 1]
                  = [kernel |-> w + 1, setup |-> 0, dump |-> k, print |-> 0]
  OBVIOUS
<1>3. \A w, k : [[kernel |-> w, setup |-> 0, dump |-> k, print |-> 0] EXCEPT !["dump"] = @ + 1]
                  = [kernel |-> w, setup |-> 0, dump |-> k + 1, print |-> 0]
  OBVIOUS
<1> QED BY Zenon, <1>1, <1>2, <1>3 DEF Counts

LEMMA Standing ==
  ASSUME ControlInv, StoreInv
  PROVE  /\ at = <<at[1], at[2]>> /\ Sequence(stack) /\ Len(stack) \in Nat /\ AllWords
         /\ Here = Code[at[1]][at[2]]
<1>1. Sequence(stack)
  BY DEF ControlInv, Framed
<1> QED BY <1>1, SequenceParts DEF ControlInv, StoreInv, Here

LEMMA ReadyStays == ASSUME NEW id, Ready(id), lines' = lines PROVE Ready(id)'
BY DEF Ready, LinesDone, Printed

LEMMA MainStep ==
  ASSUME ControlInv, StoreInv, ProbeNext, NEW id \in 1 .. 6, MainAt(id)
  PROVE  MainAt(id)' \/ PermAt(id)' \/ ClearAt(id)' \/ KernelAt(id)' \/ DumpAt(id)'
<1> DEFINE f == First[id]
<1>1. /\ at = <<"main", at[2]>> /\ Here = Main[at[2]] /\ Sequence(stack) /\ Len(stack) = 0
      /\ AllWords /\ Ready(id) /\ f \in Nat
  BY Standing, CodeOf, FirstNat DEF MainAt
<1>2. /\ Main[f] = CALL("clear_perf") /\ Main[f + 1] = CALL(Kernels[id])
      /\ Main[f + 2] = SETR("D", id - 1) /\ Main[f + 3] = CALL("dump")
  BY MainIs DEF Has
<1>3. ASSUME NEW r, Here = CALL(r)
      PROVE  /\ at' = <<r, 1>> /\ Len(stack') = 1 /\ stack'[1].to = <<"main", at[2] + 1>>
             /\ Same /\ Ready(id)' /\ at'[1] = r /\ at'[2] = 1
  <2>1. /\ at' = <<r, 1>> /\ Same
        /\ Higher([to |-> <<at[1], at[2] + 1>>, val |-> Lost])
    BY <1>1, <1>3, CallStep
  <2>2. Len(stack') = 1 /\ stack'[1].to = <<"main", at[2] + 1>>
    BY <1>1, <2>1 DEF Higher
  <2> QED BY <1>1, <2>1, <2>2, ReadyStays DEF Same
<1>4. CASE id = 3 /\ at[2] = 9
  <2>1. Here = CALL("build_perm")
    BY <1>1, <1>4, MainIs
  <2>2. PermAt(id)'
    BY <1>3, <1>4, <2>1, FirstIs DEF PermAt, Called
  <2> QED BY <2>2
<1>5. CASE at[2] = f
  <2>1. Here = CALL("clear_perf")
    BY <1>1, <1>2, <1>5
  <2>2. ClearAt(id)'
    BY <1>3, <1>5, <2>1 DEF ClearAt, Called
  <2> QED BY <2>2
<1>6. CASE at[2] = f + 1 /\ perf = Counts
  <2>1. Here = CALL(Kernels[id])
    BY <1>1, <1>2, <1>6
  <2>2. /\ at'[1] = Kernels[id] /\ at'[2] = 1 /\ Len(stack') = 1 /\ Ready(id)' /\ perf' = Counts
        /\ stack'[1].to = <<"main", f + 1 + 1>>
    BY <1>3, <1>6, <2>1 DEF Same
  <2>3. Called(id, 2)'
    <3>1. f + 1 + 1 = f + 2
      BY <1>1
    <3> QED BY <2>2, <3>1 DEF Called
  <2>4. perf' = Tally(0, 0)
    BY <2>2, TallyMore
  <2>5. ALU \in Nat /\ BR \in Nat /\ MD \in Nat
    BY Sizes
  <2>6. \A i, l, from, n : n \in Nat => Loop(3, i, l, from, n)'
    <3> SUFFICES ASSUME NEW i, NEW l, NEW from, NEW n \in Nat PROVE Loop(3, i, l, from, n)'
      OBVIOUS
    <3>1. 0 \in 0 .. n
      OBVIOUS
    <3> QED BY <2>2, <2>4, <3>1 DEF Loop
  <2>7. MemLoop'
    BY <2>2, <2>4 DEF MemLoop
  <2>8. KernelAt(id)'
    BY <2>2, <2>3, <2>5, <2>6, <2>7 DEF KernelAt
  <2> QED BY <2>8
<1>7. CASE at[2] = f + 2 /\ perf = Tally(Steps[id], 0)
  <2>1. Here = SETR("D", id - 1)
    BY <1>1, <1>2, <1>7
  <2>2. "D" \in Registers
    BY DEF Registers
  <2>3. Onward /\ Same /\ reg'["D"].n = id - 1
    BY <1>1, <2>1, <2>2, SetStep
  <2>4. /\ at'[1] = "main" /\ at'[2] = f + 3 /\ Len(stack') = 0 /\ perf' = perf /\ Ready(id)'
    BY <1>1, <1>7, <2>3, ReadyStays DEF Onward, Same
  <2>5. MainAt(id)'
    BY <1>7, <2>3, <2>4 DEF MainAt
  <2> QED BY <2>5
<1>8. CASE at[2] = f + 3 /\ perf = Tally(Steps[id], 0) /\ reg["D"].n = id - 1
  <2>1. Here = CALL("dump")
    BY <1>1, <1>2, <1>8
  <2>2. reg' = reg
    BY <1>1, <2>1, CallStep
  <2>3. /\ at'[1] = "dump" /\ at'[2] = 1 /\ Len(stack') = 1 /\ Ready(id)' /\ perf' = perf
        /\ stack'[1].to = <<"main", f + 3 + 1>>
    BY <1>3, <1>8, <2>1 DEF Same
  <2>4. Called(id, 4)'
    <3>1. f + 3 + 1 = f + 4
      BY <1>1
    <3> QED BY <2>3, <3>1 DEF Called
  <2>5. DumpAt(id)'
    BY <1>8, <2>2, <2>3, <2>4 DEF DumpAt
  <2> QED BY <2>5
<1> QED BY <1>4, <1>5, <1>6, <1>7, <1>8 DEF MainAt

\* A return to main.
LEMMA BackToMain ==
  ASSUME ControlInv, StoreInv, ProbeNext, NEW id \in 1 .. 6, NEW n \in 0 .. 4, Here = RET,
         Len(stack) = 1, Called(id, n)
  PROVE  at' = <<"main", First[id] + n>> /\ Len(stack') = 0 /\ reg' = reg /\ Same
<1>1. Sequence(stack)
  BY Standing
<1>2. at' = stack[1].to /\ reg' = reg /\ Same /\ Len(stack') = 0
  BY <1>1, RetStep DEF Lower
<1> QED BY <1>2 DEF Called

LEMMA PermStep ==
  ASSUME ControlInv, StoreInv, ProbeNext, NEW id \in 1 .. 6, PermAt(id)
  PROVE  PermAt(id)' \/ MainAt(id)'
<1>1. /\ id = 3 /\ at[1] = "build_perm" /\ Len(stack) = 1 /\ stack[1].to = <<"main", 10>> /\ Ready(id)
  BY FirstIs DEF PermAt, Called
<1>2. InLeaf
  BY <1>1 DEF ControlInv, InMain, InNested, Placed, Nested
<1>3. at[2] \in 1 .. Len(build_perm) /\ Here = build_perm[at[2]]
  BY <1>1, <1>2, CodeOf DEF InLeaf, Here
<1>4. Here.do \notin {"putc", "newline"}
  BY <1>3 DEF build_perm, SETR, Run, ADDV, JMPULT, COPY, JMPZ, JMP, RET
<1>5. lines' = lines
  BY <1>4 DEF ProbeNext, Assign, AddRegisters, Jump, Call, Return, PushRegister, PopRegister, Work,
     UpdateWord, Identity, Swap, Follow, Clear, Read, Reload, Digit, PutChar, NewLine, Quiet
<1>6. Ready(id)'
  BY <1>1, <1>5, ReadyStays
<1>7. CASE InLeaf' /\ at'[1] = at[1] /\ stack' = stack
  <2>1. PermAt(id)'
    BY <1>1, <1>6, <1>7, FirstIs DEF PermAt, Called
  <2> QED BY <2>1
<1>8. CASE InMain' /\ at'[2] = stack[1].to[2]
  <2>1. at'[1] = "main" /\ stack' = <<>> /\ at'[2] = 10
    BY <1>1, <1>8 DEF InMain
  <2>2. Len(stack') = 0
    BY <2>1
  <2>3. MainAt(id)'
    BY <1>1, <1>6, <2>1, <2>2, FirstIs DEF MainAt
  <2> QED BY <2>3
<1> QED BY <1>2, <1>7, <1>8, LeafControl

LEMMA ClearsStep ==
  ASSUME ControlInv, StoreInv, ProbeNext, NEW id \in 1 .. 6, ClearAt(id)
  PROVE  ClearAt(id)' \/ MainAt(id)'
<1>1. /\ at = <<"clear_perf", at[2]>> /\ Here = clear_perf[at[2]] /\ Len(stack) = 1 /\ AllWords
      /\ Ready(id) /\ Called(id, 1)
  BY Standing, CodeOf DEF ClearAt
<1>2. CASE at[2] = 1
  <2>1. Here = Run("clear", {"A", "B"})
    BY <1>1, <1>2, LeafCode
  <2>2. Onward /\ perf' = Counts /\ lines' = lines
    BY <1>1, <2>1, ClearStep
  <2>3. ClearAt(id)'
    BY <1>1, <1>2, <2>2, ReadyStays DEF Onward, ClearAt, Called
  <2> QED BY <2>3
<1>3. CASE at[2] = 2 /\ perf = Counts
  <2>1. Here = RET
    BY <1>1, <1>3, LeafCode
  <2>2. at' = <<"main", First[id] + 1>> /\ Len(stack') = 0 /\ Same
    BY <1>1, <2>1, BackToMain
  <2>3. MainAt(id)'
    BY <1>1, <1>3, <2>2, ReadyStays DEF MainAt, Same
  <2> QED BY <2>3
<1> QED BY <1>2, <1>3 DEF ClearAt

\* The instructions of such a loop, and what its body keeps.
LoopCode(b, i, l, from, n) ==
  /\ at[2] = b - 2 => Here = SETR(i, from)
  /\ at[2] = b - 1 => Here = SETR(l, n)
  /\ at[2] = b     => /\ Onward /\ Counted1 /\ lines' = lines
                      /\ reg'[i] = reg[i] /\ reg'[l] = reg[l]
  /\ at[2] = b + 1 => Here = ADDV(i, 1)
  /\ at[2] = b + 2 => Here = IF from = 0 THEN JMPULT(i, l, b) ELSE JMPULE(i, l, b)

LEMMA LoopStep ==
  ASSUME ProbeNext, AllWords, NEW b \in 3 .. 4, NEW i \in Registers, NEW l \in Registers, i # l,
         NEW from \in 0 .. 1, NEW n \in Nat \ {0},
         Loop(b, i, l, from, n), at[2] # b + 3, LoopCode(b, i, l, from, n)
  PROVE  Loop(b, i, l, from, n)' /\ at'[1] = at[1] /\ stack' = stack /\ lines' = lines
<1>1. PICK w \in 0 .. n :
        /\ perf = Tally(w, 0) /\ at[2] \in b - 2 .. b + 3
        /\ at[2] \in {b - 2, b - 1} => w = 0
        /\ at[2] = b - 1 => reg[i].n = from
        /\ at[2] \in {b, b + 1, b + 2} => reg[l].n = n
        /\ at[2] = b => w < n
        /\ at[2] \in {b, b + 2} => reg[i].n = from + w
        /\ at[2] = b + 1 => reg[i].n + 1 = from + w
        /\ at[2] = b + 3 => w = n
  BY DEF Loop
<1> DEFINE Now(v, a, x, y) ==
      /\ a \in b - 2 .. b + 3
      /\ a \in {b - 2, b - 1} => v = 0
      /\ a = b - 1 => x = from
      /\ a \in {b, b + 1, b + 2} => y = n
      /\ a = b => v < n
      /\ a \in {b, b + 2} => x = from + v
      /\ a = b + 1 => x + 1 = from + v
      /\ a = b + 3 => v = n
<1>2. ASSUME NEW v \in 0 .. n, perf' = Tally(v, 0), Now(v, at'[2], reg'[i].n, reg'[l].n)
      PROVE  Loop(b, i, l, from, n)'
  BY <1>2 DEF Loop
<1>3. CASE at[2] = b - 2
  <2>1. Here = SETR(i, from)
    BY <1>3 DEF LoopCode
  <2>2. Onward /\ Same /\ reg'[i].n = from
    BY <2>1, SetStep
  <2>3. at'[1] = at[1] /\ at'[2] = b - 1 /\ stack' = stack /\ lines' = lines /\ perf' = Tally(w, 0)
    BY <1>1, <1>3, <2>2 DEF Onward, Same
  <2>4. Now(w, at'[2], reg'[i].n, reg'[l].n)
    BY <1>1, <1>3, <2>2, <2>3
  <2> QED BY <1>2, <2>3, <2>4
<1>4. CASE at[2] = b - 1
  <2>1. Here = SETR(l, n)
    BY <1>4 DEF LoopCode
  <2>2. Onward /\ Same /\ Keeps({l}) /\ reg'[l].n = n
    BY <2>1, SetStep
  <2>3. at'[1] = at[1] /\ at'[2] = b /\ stack' = stack /\ lines' = lines /\ perf' = Tally(w, 0)
    BY <1>1, <1>4, <2>2 DEF Onward, Same
  <2>4. reg'[i].n = from + 0
    BY <1>1, <1>4, <2>2 DEF Keeps
  <2>5. Now(w, at'[2], reg'[i].n, reg'[l].n)
    BY <1>1, <1>4, <2>2, <2>3, <2>4
  <2> QED BY <1>2, <2>3, <2>5
<1>5. CASE at[2] = b
  <2>1. Onward /\ Counted1 /\ lines' = lines /\ reg'[i] = reg[i] /\ reg'[l] = reg[l]
    BY <1>5 DEF LoopCode
  <2>2. at'[1] = at[1] /\ at'[2] = b + 1 /\ stack' = stack
    BY <1>5, <2>1 DEF Onward
  <2>3. perf' = Tally(w + 1, 0)
    BY <1>1, <2>1, TallyMore DEF Counted1
  <2>4. w + 1 \in 0 .. n /\ Now(w + 1, at'[2], reg'[i].n, reg'[l].n)
    BY <1>1, <1>5, <2>1, <2>2
  <2> QED BY <1>2, <2>1, <2>2, <2>3, <2>4
<1>6. CASE at[2] = b + 1
  <2>1. Here = ADDV(i, 1)
    BY <1>6 DEF LoopCode
  <2>2. Onward /\ Same /\ Keeps({i}) /\ reg'[i].n = reg[i].n + 1
    BY <2>1, AddStep
  <2>3. at'[1] = at[1] /\ at'[2] = b + 2 /\ stack' = stack /\ lines' = lines /\ perf' = Tally(w, 0)
    BY <1>1, <1>6, <2>2 DEF Onward, Same
  <2>4. reg'[l] = reg[l]
    BY <2>2 DEF Keeps
  <2>5. Now(w, at'[2], reg'[i].n, reg'[l].n)
    BY <1>1, <1>6, <2>2, <2>3, <2>4
  <2> QED BY <1>2, <2>3, <2>5
<1>7. CASE at[2] = b + 2
  <2>1. Here = IF from = 0 THEN JMPULT(i, l, b) ELSE JMPULE(i, l, b)
    BY <1>7 DEF LoopCode
  <2>2. Still /\ at' = <<at[1], IF w < n THEN b ELSE b + 3>>
    <3>1. reg[i].n = from + w /\ reg[l].n = n /\ at[2] + 1 = b + 3
      BY <1>1, <1>7
    <3>2. CASE from = 0
      <4>1. Goes(IF reg[i].n < reg[l].n THEN b ELSE at[2] + 1)
        BY <2>1, <3>2, JumpStep
      <4>2. reg[i].n < reg[l].n <=> w < n
        BY <3>1, <3>2
      <4> QED BY <3>1, <4>1, <4>2 DEF Goes
    <3>3. CASE from = 1
      <4>1. Goes(IF reg[i].n <= reg[l].n THEN b ELSE at[2] + 1)
        BY <2>1, <3>3, JumpStep
      <4>2. reg[i].n <= reg[l].n <=> w < n
        BY <3>1, <3>3
      <4> QED BY <3>1, <4>1, <4>2 DEF Goes
    <3> QED BY <3>2, <3>3
  <2>3. at'[1] = at[1] /\ at'[2] = (IF w < n THEN b ELSE b + 3) /\ stack' = stack /\ lines' = lines
        /\ perf' = Tally(w, 0) /\ reg' = reg
    BY <1>1, <2>2 DEF Still, Same
  <2>4. Now(w, at'[2], reg'[i].n, reg'[l].n)
    BY <1>1, <1>7, <2>3
  <2> QED BY <1>2, <2>3, <2>4
<1> QED BY <1>1, <1>3, <1>4, <1>5, <1>6, <1>7

\* The kernels that are one.
LEMMA KernelReturns ==
  ASSUME ControlInv, StoreInv, ProbeNext, NEW id \in 1 .. 6, KernelAt(id), Here = RET,
         perf = Tally(Steps[id], 0)
  PROVE  MainAt(id)'
<1>1. at' = <<"main", First[id] + 2>> /\ Len(stack') = 0 /\ Same /\ Ready(id)
  BY BackToMain DEF KernelAt
<1> QED BY <1>1, ReadyStays DEF MainAt, Same

LEMMA LoopKernel ==
  ASSUME NEW id \in 1 .. 6, KernelAt(id), at'[1] = at[1], stack' = stack, lines' = lines
  PROVE  /\ (Len(stack) = 1)' /\ Called(id, 2)' /\ Ready(id)' /\ (at[1] = Kernels[id])'
BY ReadyStays DEF KernelAt, Called

LEMMA AluStep ==
  ASSUME ControlInv, StoreInv, ProbeNext, KernelAt(1)
  PROVE  KernelAt(1)' \/ MainAt(1)'
<1>1. /\ at = <<"k_alu", at[2]>> /\ Here = k_alu[at[2]] /\ AllWords /\ Loop(3, "C", "D", 0, ALU)
      /\ at[2] \in 1 .. 6
  BY Standing, CodeOf, FirstIs DEF KernelAt, Loop
<1>2. CASE at[2] = 6
  <2>1. Here = RET /\ perf = Tally(ALU, 0)
    BY <1>1, <1>2, KernelCode DEF Loop
  <2> QED BY <2>1, KernelReturns, FirstIs
<1>3. CASE at[2] # 6
  <2>1. LoopCode(3, "C", "D", 0, ALU)
    <3>1. ASSUME at[2] = 3
          PROVE  /\ Onward /\ Counted1 /\ lines' = lines
                 /\ reg'["C"] = reg["C"] /\ reg'["D"] = reg["D"]
      <4>1. Here = Run("work", {"A", "B", "E"}) /\ {"A", "B", "E"} \in SUBSET Registers
        BY <1>1, <3>1, KernelCode DEF Registers
      <4>2. Onward /\ Counted1 /\ lines' = lines /\ Keeps({"A", "B", "E"})
        BY <1>1, <4>1, WorkStep
      <4> QED BY <4>2 DEF Keeps, Registers
    <3> QED BY <1>1, <3>1, KernelCode DEF LoopCode
  <2>2. Loop(3, "C", "D", 0, ALU)' /\ at'[1] = at[1] /\ stack' = stack /\ lines' = lines
    <3>1. "C" \in Registers /\ "D" \in Registers /\ "C" # "D"
      BY DEF Registers
    <3> QED BY <1>1, <1>3, <2>1, <3>1, LoopStep, Sizes
  <2>3. KernelAt(1)'
    BY <2>2, LoopKernel DEF KernelAt
  <2> QED BY <2>3
<1> QED BY <1>2, <1>3

LEMMA BranchStep ==
  ASSUME ControlInv, StoreInv, ProbeNext, KernelAt(4)
  PROVE  KernelAt(4)' \/ MainAt(4)'
<1>1. /\ at = <<"k_branch", at[2]>> /\ Here = k_branch[at[2]] /\ AllWords /\ Loop(3, "D", "E", 0, BR)
      /\ at[2] \in 1 .. 6
  BY Standing, CodeOf, FirstIs DEF KernelAt, Loop
<1>2. CASE at[2] = 6
  <2>1. Here = RET /\ perf = Tally(BR, 0)
    BY <1>1, <1>2, KernelCode DEF Loop
  <2> QED BY <2>1, KernelReturns, FirstIs
<1>3. CASE at[2] # 6
  <2>1. LoopCode(3, "D", "E", 0, BR)
    <3>1. ASSUME at[2] = 3
          PROVE  /\ Onward /\ Counted1 /\ lines' = lines
                 /\ reg'["D"] = reg["D"] /\ reg'["E"] = reg["E"]
      <4>1. Here = Run("work", {"A", "F", "H"}) /\ {"A", "F", "H"} \in SUBSET Registers
        BY <1>1, <3>1, KernelCode DEF Registers
      <4>2. Onward /\ Counted1 /\ lines' = lines /\ Keeps({"A", "F", "H"})
        BY <1>1, <4>1, WorkStep
      <4> QED BY <4>2 DEF Keeps, Registers
    <3> QED BY <1>1, <3>1, KernelCode DEF LoopCode
  <2>2. Loop(3, "D", "E", 0, BR)' /\ at'[1] = at[1] /\ stack' = stack /\ lines' = lines
    <3>1. "D" \in Registers /\ "E" \in Registers /\ "D" # "E"
      BY DEF Registers
    <3> QED BY <1>1, <1>3, <2>1, <3>1, LoopStep, Sizes
  <2>3. KernelAt(4)'
    BY <2>2, LoopKernel DEF KernelAt
  <2> QED BY <2>3
<1> QED BY <1>2, <1>3

LEMMA MuldivStep ==
  ASSUME ControlInv, StoreInv, ProbeNext, KernelAt(6)
  PROVE  KernelAt(6)' \/ MainAt(6)'
<1>1. /\ at = <<"k_muldiv", at[2]>> /\ Here = k_muldiv[at[2]] /\ AllWords /\ Loop(3, "C", "D", 1, MD)
      /\ at[2] \in 1 .. 6
  BY Standing, CodeOf, FirstIs DEF KernelAt, Loop
<1>2. CASE at[2] = 6
  <2>1. Here = RET /\ perf = Tally(MD, 0)
    BY <1>1, <1>2, KernelCode DEF Loop
  <2> QED BY <2>1, KernelReturns, FirstIs
<1>3. CASE at[2] # 6
  <2>1. LoopCode(3, "C", "D", 1, MD)
    <3>1. ASSUME at[2] = 3
          PROVE  /\ Onward /\ Counted1 /\ lines' = lines
                 /\ reg'["C"] = reg["C"] /\ reg'["D"] = reg["D"]
      <4>1. Here = Run("work", {"A", "E", "F", "H"}) /\ {"A", "E", "F", "H"} \in SUBSET Registers
        BY <1>1, <3>1, KernelCode DEF Registers
      <4>2. Onward /\ Counted1 /\ lines' = lines /\ Keeps({"A", "E", "F", "H"})
        BY <1>1, <4>1, WorkStep
      <4> QED BY <4>2 DEF Keeps, Registers
    <3> QED BY <1>1, <3>1, KernelCode DEF LoopCode
  <2>2. Loop(3, "C", "D", 1, MD)' /\ at'[1] = at[1] /\ stack' = stack /\ lines' = lines
    <3>1. "C" \in Registers /\ "D" \in Registers /\ "C" # "D"
      BY DEF Registers
    <3> QED BY <1>1, <1>3, <2>1, <3>1, LoopStep, Sizes
  <2>3. KernelAt(6)'
    BY <2>2, LoopKernel DEF KernelAt
  <2> QED BY <2>3
<1> QED BY <1>2, <1>3

LEMMA ChasesStep ==
  ASSUME ControlInv, StoreInv, ProbeNext, KernelAt(3)
  PROVE  KernelAt(3)' \/ MainAt(3)'
<1>1. /\ at = <<"k_chase", at[2]>> /\ Here = k_chase[at[2]] /\ AllWords
      /\ (at[2] = 1 /\ perf = Counts) \/ Loop(4, "D", "E", 0, CHASE)
  BY Standing, CodeOf, FirstIs DEF KernelAt
<1>2. "C" \in Registers /\ "D" \in Registers /\ "E" \in Registers
  BY DEF Registers
<1>3. CASE at[2] = 1 /\ perf = Counts
  <2>1. Here = SETR("C", 0)
    BY <1>1, <1>3, LeafCode
  <2>2. Onward /\ Same
    BY <1>1, <1>2, <2>1, SetStep
  <2>3. at'[1] = at[1] /\ at'[2] = 2 /\ stack' = stack /\ lines' = lines /\ perf' = Tally(0, 0)
    BY <1>3, <2>2, TallyMore DEF Onward, Same
  <2>4. Loop(4, "D", "E", 0, CHASE)'
    <3>1. 0 \in 0 .. CHASE
      BY Sizes
    <3> QED BY <2>3, <3>1 DEF Loop
  <2>5. KernelAt(3)'
    BY <2>3, <2>4, LoopKernel DEF KernelAt
  <2> QED BY <2>5
<1>4. CASE Loop(4, "D", "E", 0, CHASE) /\ at[2] = 7
  <2>1. Here = RET /\ perf = Tally(CHASE, 0)
    BY <1>1, <1>4, LeafCode DEF Loop
  <2> QED BY <2>1, KernelReturns, FirstIs
<1>5. CASE Loop(4, "D", "E", 0, CHASE) /\ at[2] # 7
  <2>1. LoopCode(4, "D", "E", 0, CHASE)
    <3>1. ASSUME at[2] = 4
          PROVE  /\ Onward /\ Counted1 /\ lines' = lines
                 /\ reg'["D"] = reg["D"] /\ reg'["E"] = reg["E"]
      <4>1. Here = Run("follow", {"F", "H"}) /\ {"F", "H"} \in SUBSET Registers
        BY <1>1, <3>1, LeafCode DEF Registers
      <4>2. Onward /\ Counted1 /\ lines' = lines /\ Keeps({"F", "H"} \cup {"C"})
        BY <1>1, <4>1, FollowsStep
      <4> QED BY <4>2 DEF Keeps, Registers
    <3> QED BY <1>1, <3>1, LeafCode DEF LoopCode
  <2>2. Loop(4, "D", "E", 0, CHASE)' /\ at'[1] = at[1] /\ stack' = stack /\ lines' = lines
    BY <1>1, <1>2, <1>5, <2>1, LoopStep, Sizes
  <2>3. KernelAt(3)'
    BY <2>2, LoopKernel DEF KernelAt
  <2> QED BY <2>3
<1> QED BY <1>1, <1>3, <1>4, <1>5

LEMMA SweepIs ==
  /\ Sweep(0) = 0 /\ Sweep(MEM_REPS) = Steps[2]
  /\ \A c \in Nat : Sweep(c) \in Nat /\ Sweep(c + 1) = Sweep(c) + MEM_WORDS + MEM_WORDS
<1> DEFINE m == MEM_WORDS
<1>1. m \in Nat
  BY Sizes
<1> HIDE DEF m
<1>2. 2 * m * 0 = 0 /\ \A c \in Nat : 2 * m * c \in Nat /\ 2 * m * (c + 1) = 2 * m * c + m + m
  BY <1>1
<1> QED BY <1>2, FirstIs DEF Sweep, m

\* One pass over the words.
LEMMA PassStep ==
  ASSUME ProbeNext, AllWords, NEW b \in 3 .. 9, NEW w \in Nat, Pass(b, w), reg["B"].n = MEM_WORDS,
         at[2] = b => Here \in {Run("update", {"E", "F"}), Run("work", {"E", "F", "H"})},
         at[2] = b + 1 => Here = ADDV("D", 1),
         at[2] = b + 2 => Here = JMPULT("D", "B", b)
  PROVE  /\ Pass(b, w)' \/ (at'[2] = b + 3 /\ perf' = Tally(w + MEM_WORDS, 0))
         /\ at'[1] = at[1] /\ stack' = stack /\ lines' = lines
         /\ reg'["B"] = reg["B"] /\ reg'["C"] = reg["C"]
<1>1. PICK d \in 0 .. MEM_WORDS :
        /\ at[2] \in b .. b + 2 /\ (at[2] # b + 2 => d < MEM_WORDS)
        /\ reg["D"].n = d /\ perf = Tally(w + d + (IF at[2] = b + 1 THEN 1 ELSE 0), 0)
  BY DEF Pass
<1>2. MEM_WORDS \in Nat \ {0} /\ {"B", "C", "D", "E", "F", "H"} \subseteq Registers
  BY Sizes DEF Registers
<1>3. CASE at[2] = b
  <2>1. \E set \in SUBSET Registers : /\ "B" \notin set /\ "C" \notin set /\ "D" \notin set
                                      /\ Here \in {Run("work", set), Run("update", set)}
    <3>1. {"E", "F"} \in SUBSET Registers /\ {"E", "F", "H"} \in SUBSET Registers
      BY <1>2
    <3> QED BY <1>3, <3>1
  <2>2. /\ Onward /\ Counted1 /\ lines' = lines
        /\ reg'["B"] = reg["B"] /\ reg'["C"] = reg["C"] /\ reg'["D"] = reg["D"]
    BY <1>2, <2>1, WorkStep DEF Keeps
  <2>3. at'[1] = at[1] /\ at'[2] = b + 1 /\ stack' = stack
    BY <1>3, <2>2 DEF Onward
  <2>4. perf = Tally(w + d, 0)
    <3>1. w + d + 0 = w + d /\ ~(b = b + 1)
      BY <1>2
    <3> QED BY <1>1, <1>3, <3>1
  <2>5. perf' = Tally(w + d + 1, 0)
    BY <2>2, <2>4, TallyMore DEF Counted1
  <2>6. Pass(b, w)'
    BY <1>1, <1>3, <2>2, <2>3, <2>5 DEF Pass
  <2> QED BY <2>2, <2>3, <2>6
<1>4. CASE at[2] = b + 1
  <2>1. Here = ADDV("D", 1)
    BY <1>4
  <2>2. Onward /\ Same /\ Keeps({"D"}) /\ reg'["D"].n = d + 1
    BY <1>1, <1>2, <2>1, AddStep
  <2>3. /\ at'[1] = at[1] /\ at'[2] = b + 2 /\ stack' = stack /\ lines' = lines /\ perf' = perf
        /\ reg'["B"] = reg["B"] /\ reg'["C"] = reg["C"]
    BY <1>2, <1>4, <2>2 DEF Onward, Same, Keeps
  <2>4. /\ d + 1 \in 0 .. MEM_WORDS /\ w + d + 1 = w + (d + 1) + 0 /\ ~(b + 2 = b + 1)
    BY <1>1, <1>2, <1>4
  <2>5. perf = Tally(w + (d + 1) + 0, 0)
    BY <1>1, <1>4, <2>4
  <2>6. Pass(b, w)'
    BY <2>2, <2>3, <2>4, <2>5 DEF Pass
  <2> QED BY <2>3, <2>6
<1>5. CASE at[2] = b + 2
  <2>1. Here = JMPULT("D", "B", b)
    BY <1>5
  <2>2. Goes(IF reg["D"].n < reg["B"].n THEN b ELSE at[2] + 1)
    BY <2>1, JumpStep
  <2>3. /\ at'[1] = at[1] /\ at'[2] = (IF d < MEM_WORDS THEN b ELSE b + 3) /\ stack' = stack
        /\ lines' = lines /\ perf' = perf /\ reg' = reg
    BY <1>1, <1>5, <2>2 DEF Goes, Still, Same
  <2>4. w + d + 0 = w + d /\ ~(b + 2 = b + 1) /\ ~(b = b + 1) /\ ~(b = b + 2) /\ b \in b .. b + 2
    BY <1>1, <1>2
  <2>5. perf = Tally(w + d, 0)
    BY <1>1, <1>5, <2>4
  <2>6. CASE d < MEM_WORDS
    <3>1. Pass(b, w)'
      BY <1>1, <2>3, <2>4, <2>5, <2>6 DEF Pass
    <3> QED BY <2>3, <3>1
  <2>7. CASE ~(d < MEM_WORDS)
    <3>1. d = MEM_WORDS
      BY <1>1, <1>2, <2>7
    <3> QED BY <2>3, <2>5, <2>7, <3>1
  <2> QED BY <2>6, <2>7
<1> QED BY <1>1, <1>3, <1>4, <1>5

LEMMA MemStep ==
  ASSUME ControlInv, StoreInv, ProbeNext, KernelAt(2)
  PROVE  KernelAt(2)' \/ MainAt(2)'
<1>1. at = <<"k_mem", at[2]>> /\ Here = k_mem[at[2]] /\ AllWords /\ MemLoop
  BY Standing, CodeOf, FirstIs DEF KernelAt
<1>2. /\ MEM_WORDS \in Nat \ {0} /\ MEM_REPS \in Nat \ {0}
      /\ "B" \in Registers /\ "C" \in Registers /\ "D" \in Registers
  BY Sizes DEF Registers
<1>3. ASSUME at'[1] = at[1], stack' = stack, lines' = lines, MemLoop' PROVE KernelAt(2)'
  BY <1>3, LoopKernel DEF KernelAt
<1>4. at[2] \in 2 .. 12 => reg["B"].n = MEM_WORDS
  BY <1>1 DEF MemLoop
<1>5. CASE at[2] = 1 /\ perf = Tally(0, 0)
  <2>1. Here = SETR("B", MEM_WORDS)
    BY <1>1, <1>5, MemCode
  <2>2. Onward /\ Same /\ reg'["B"].n = MEM_WORDS
    BY <1>1, <1>2, <2>1, SetStep
  <2>3. at'[1] = at[1] /\ at'[2] = 2 /\ stack' = stack /\ lines' = lines /\ perf' = Tally(0, 0)
    BY <1>5, <2>2 DEF Onward, Same
  <2>4. MemLoop'
    BY <2>2, <2>3 DEF MemLoop
  <2> QED BY <1>3, <2>3, <2>4
<1>6. CASE at[2] = 2 /\ perf = Tally(0, 0)
  <2>1. Here = SETR("C", 0)
    BY <1>1, <1>6, MemCode
  <2>2. Onward /\ Same /\ Keeps({"C"}) /\ reg'["C"].n = 0
    BY <1>1, <1>2, <2>1, SetStep
  <2>3. /\ at'[1] = at[1] /\ at'[2] = 3 /\ stack' = stack /\ lines' = lines /\ perf' = Tally(Sweep(0), 0)
        /\ reg'["B"] = reg["B"]
    BY <1>2, <1>6, <2>2, SweepIs DEF Onward, Same, Keeps
  <2>4. 0 \in 0 .. MEM_REPS - 1
    BY <1>2
  <2>5. MemLoop'
    BY <1>4, <1>6, <2>2, <2>3, <2>4 DEF MemLoop
  <2> QED BY <1>3, <2>3, <2>5
<1>7. ASSUME NEW c \in 0 .. MEM_REPS - 1, reg["C"].n = c, at[2] = 3, perf = Tally(Sweep(c), 0)
      PROVE  KernelAt(2)'
  <2>1. Here = SETR("D", 0)
    BY <1>1, <1>7, MemCode
  <2>2. Onward /\ Same /\ Keeps({"D"}) /\ reg'["D"].n = 0
    BY <1>1, <1>2, <2>1, SetStep
  <2>3. /\ at'[1] = at[1] /\ at'[2] = 4 /\ stack' = stack /\ lines' = lines /\ perf' = perf
        /\ reg'["B"] = reg["B"] /\ reg'["C"] = reg["C"]
    BY <1>2, <1>7, <2>2 DEF Onward, Same, Keeps
  <2>4. Sweep(c) + 0 + 0 = Sweep(c)
    BY SweepIs
  <2>5. Pass(4, Sweep(c))'
    <3>1. perf' = Tally(Sweep(c) + 0 + 0, 0)
      BY <1>7, <2>3, <2>4
    <3> QED BY <1>2, <2>2, <2>3, <3>1 DEF Pass
  <2>6. MemLoop'
    BY <1>4, <1>7, <2>3, <2>5 DEF MemLoop
  <2> QED BY <1>3, <2>3, <2>6
<1>8. ASSUME NEW c \in 0 .. MEM_REPS - 1, reg["C"].n = c, Pass(4, Sweep(c))
      PROVE  KernelAt(2)'
  <2>1. at[2] \in 4 .. 6
    BY <1>8 DEF Pass
  <2>2. /\ Pass(4, Sweep(c))' \/ (at'[2] = 7 /\ perf' = Tally(Sweep(c) + MEM_WORDS, 0))
        /\ at'[1] = at[1] /\ stack' = stack /\ lines' = lines
        /\ reg'["B"] = reg["B"] /\ reg'["C"] = reg["C"]
    <3>1. Sweep(c) \in Nat
      BY SweepIs
    <3> QED BY <1>1, <1>4, <1>8, <2>1, <3>1, PassStep, MemCode
  <2>3. MemLoop'
    BY <1>4, <1>8, <2>1, <2>2 DEF MemLoop
  <2> QED BY <1>3, <2>2, <2>3
<1>9. ASSUME NEW c \in 0 .. MEM_REPS - 1, reg["C"].n = c, at[2] = 7,
             perf = Tally(Sweep(c) + MEM_WORDS, 0)
      PROVE  KernelAt(2)'
  <2>1. Here = SETR("D", 0)
    BY <1>1, <1>9, MemCode
  <2>2. Onward /\ Same /\ Keeps({"D"}) /\ reg'["D"].n = 0
    BY <1>1, <1>2, <2>1, SetStep
  <2>3. /\ at'[1] = at[1] /\ at'[2] = 8 /\ stack' = stack /\ lines' = lines /\ perf' = perf
        /\ reg'["B"] = reg["B"] /\ reg'["C"] = reg["C"]
    BY <1>2, <1>9, <2>2 DEF Onward, Same, Keeps
  <2>4. (Sweep(c) + MEM_WORDS) + 0 + 0 = Sweep(c) + MEM_WORDS
    <3>1. Sweep(c) \in Nat
      BY SweepIs
    <3> QED BY <1>2, <3>1
  <2>5. Pass(8, Sweep(c) + MEM_WORDS)'
    <3>1. perf' = Tally((Sweep(c) + MEM_WORDS) + 0 + 0, 0)
      BY <1>9, <2>3, <2>4
    <3> QED BY <1>2, <2>2, <2>3, <3>1 DEF Pass
  <2>6. MemLoop'
    BY <1>4, <1>9, <2>3, <2>5 DEF MemLoop
  <2> QED BY <1>3, <2>3, <2>6
<1>10. ASSUME NEW c \in 0 .. MEM_REPS - 1, reg["C"].n = c, Pass(8, Sweep(c) + MEM_WORDS)
       PROVE  KernelAt(2)'
  <2>1. at[2] \in 8 .. 10
    BY <1>10 DEF Pass
  <2>2. /\ Pass(8, Sweep(c) + MEM_WORDS)'
           \/ (at'[2] = 11 /\ perf' = Tally(Sweep(c) + MEM_WORDS + MEM_WORDS, 0))
        /\ at'[1] = at[1] /\ stack' = stack /\ lines' = lines
        /\ reg'["B"] = reg["B"] /\ reg'["C"] = reg["C"]
    <3>1. Sweep(c) + MEM_WORDS \in Nat
      BY <1>2, SweepIs
    <3> QED BY <1>1, <1>4, <1>10, <2>1, <3>1, PassStep, MemCode
  <2>3. Sweep(c + 1) = Sweep(c) + MEM_WORDS + MEM_WORDS
    BY SweepIs
  <2>4. MemLoop'
    BY <1>4, <1>10, <2>1, <2>2, <2>3 DEF MemLoop
  <2> QED BY <1>3, <2>2, <2>4
<1>11. ASSUME NEW c \in 0 .. MEM_REPS - 1, reg["C"].n = c, at[2] = 11, perf = Tally(Sweep(c + 1), 0)
       PROVE  KernelAt(2)'
  <2>1. Here = ADDV("C", 1)
    BY <1>1, <1>11, MemCode
  <2>2. Onward /\ Same /\ Keeps({"C"}) /\ reg'["C"].n = c + 1
    BY <1>1, <1>2, <1>11, <2>1, AddStep
  <2>3. /\ at'[1] = at[1] /\ at'[2] = 12 /\ stack' = stack /\ lines' = lines /\ perf' = perf
        /\ reg'["B"] = reg["B"]
    BY <1>2, <1>11, <2>2 DEF Onward, Same, Keeps
  <2>4. c + 1 \in 1 .. MEM_REPS
    BY <1>2
  <2>5. MemLoop'
    BY <1>4, <1>11, <2>2, <2>3, <2>4 DEF MemLoop
  <2> QED BY <1>3, <2>3, <2>5
<1>12. ASSUME NEW c \in 1 .. MEM_REPS, reg["C"].n = c, at[2] = 12, perf = Tally(Sweep(c), 0)
       PROVE  KernelAt(2)'
  <2>1. Here = JMPULTV("C", MEM_REPS, 3)
    BY <1>1, <1>12, MemCode
  <2>2. Goes(IF reg["C"].n < MEM_REPS THEN 3 ELSE at[2] + 1)
    BY <2>1, JumpStep
  <2>3. /\ at'[1] = at[1] /\ at'[2] = (IF c < MEM_REPS THEN 3 ELSE 13) /\ stack' = stack
        /\ lines' = lines /\ perf' = perf /\ reg' = reg
    BY <1>12, <2>2 DEF Goes, Still, Same
  <2>4. CASE c < MEM_REPS
    <3>1. c \in 0 .. MEM_REPS - 1
      BY <1>2, <2>4
    <3>2. MemLoop'
      BY <1>4, <1>12, <2>3, <2>4, <3>1 DEF MemLoop
    <3> QED BY <1>3, <2>3, <3>2
  <2>5. CASE ~(c < MEM_REPS)
    <3>1. c = MEM_REPS
      BY <1>2, <2>5
    <3>2. MemLoop'
      BY <1>12, <2>3, <2>5, <3>1 DEF MemLoop
    <3> QED BY <1>3, <2>3, <3>2
  <2> QED BY <2>4, <2>5
<1>13. CASE at[2] = 13 /\ perf = Tally(Sweep(MEM_REPS), 0)
  <2>1. Here = RET /\ perf = Tally(Steps[2], 0)
    BY <1>1, <1>13, MemCode, SweepIs
  <2> QED BY <2>1, KernelReturns
<1> QED BY <1>1, <1>5, <1>6, <1>7, <1>8, <1>9, <1>10, <1>11, <1>12, <1>13 DEF MemLoop

\* The stack under fib, with what its returns leave to be added.
FibStack(u) ==
  /\ Len(stack) >= 2 /\ Called(5, 2) /\ stack[2].to = <<"k_fib_top", 3>>
  /\ \A k \in 3 .. Len(stack) : FibEntry(k)
  /\ Owed(u)

LEMMA FibIs ==
  ASSUME FibAt(5)
  PROVE  /\ at[1] = "fib" /\ Ready(5) /\ FibPlace
         /\ \E w \in Nat : \E u : perf = Tally(w, 0) /\ FibStack(u)
                                /\ w + Left + u[Len(stack)] = FibAdds[FIB]
BY DEF FibAt, FibStack

LEMMA FibAgain ==
  ASSUME (at[1] = "fib")', Ready(5)', FibPlace', NEW w \in Nat, NEW u, perf' = Tally(w, 0), FibStack(u)',
         (w + Left + u[Len(stack)] = FibAdds[FIB])'
  PROVE  FibAt(5)'
BY DEF FibAt, FibStack

LEMMA FibStays ==
  ASSUME NEW u, FibStack(u), stack' = stack
  PROVE  FibStack(u)'
BY DEF FibStack, Owed, FibEntry, Owes, Called

LEMMA FibHigher ==
  ASSUME NEW u, FibStack(u), NEW n \in Nat, Len(stack) = n, NEW e, Higher(e), FibEntry(n + 1)',
         NEW o \in Nat, Owes(n + 1)' = o
  PROVE  \E v : FibStack(v)' /\ v[n + 1] = u[n] + o
<1> DEFINE v == [k \in 2 .. n + 1 |-> IF k = n + 1 THEN u[n] + o ELSE u[k]]
<1>1. /\ n \in Nat /\ n >= 2 /\ Len(stack') = n + 1 /\ stack'[n + 1] = e
      /\ \A k \in 1 .. n : stack'[k] = stack[k]
  BY DEF FibStack, Higher
<1>2. /\ u[2] = 0 /\ \A k \in 3 .. n : u[k] \in Nat /\ u[k] = u[k - 1] + Owes(k)
  BY DEF FibStack, Owed
<1>3. u[n] \in Nat
  BY <1>1, <1>2
<1>4. ASSUME NEW k \in 3 .. n PROVE Owes(k)' = Owes(k) /\ (FibEntry(k) => FibEntry(k)')
  <2>1. stack'[k] = stack[k] /\ stack'[k - 1] = stack[k - 1]
    BY <1>1
  <2> QED BY <2>1 DEF Owes, FibEntry
<1>5. \A k \in 3 .. n + 1 : k \in 3 .. n \/ k = n + 1
  BY <1>1
<1>6. \A k \in 3 .. n + 1 : FibEntry(k)'
  BY <1>4, <1>5 DEF FibStack
<1>7. /\ Called(5, 2)' /\ stack'[2].to = <<"k_fib_top", 3>>
  BY <1>1 DEF FibStack, Called
<1>8. v[n + 1] = u[n] + o /\ \A k \in 2 .. n : v[k] = u[k]
  BY <1>1
<1>9. v = [k \in 2 .. n + 1 |-> v[k]]
  OBVIOUS
<1> HIDE DEF v
<1>10. \A k \in 3 .. n + 1 : v[k] \in Nat /\ v[k] = v[k - 1] + Owes(k)'
  <2>1. ASSUME NEW k \in 3 .. n PROVE v[k] \in Nat /\ v[k] = v[k - 1] + Owes(k)'
    <3>1. k - 1 \in 2 .. n /\ k \in 2 .. n
      BY <1>1
    <3> QED BY <1>2, <1>4, <1>8, <3>1
  <2>2. v[n + 1] \in Nat /\ v[n + 1] = v[(n + 1) - 1] + Owes(n + 1)'
    <3>1. (n + 1) - 1 = n /\ n \in 2 .. n
      BY <1>1
    <3>2. v[(n + 1) - 1] = u[n]
      BY <1>8, <3>1
    <3> QED BY <1>3, <1>8, <3>2
  <2> QED BY <1>5, <2>1, <2>2
<1>11. v[2] = 0
  BY <1>1, <1>2, <1>8
<1>12. FibStack(v)'
  <2>1. Len(stack') >= 2
    BY <1>1
  <2>2. Owed(v)'
    BY <1>1, <1>9, <1>10, <1>11 DEF Owed
  <2>3. \A k \in 3 .. Len(stack') : FibEntry(k)'
    BY <1>1, <1>6
  <2> QED BY <1>7, <2>1, <2>2, <2>3 DEF FibStack
<1> QED BY <1>1, <1>8, <1>12

LEMMA FibLower ==
  ASSUME NEW u, FibStack(u), NEW n \in Nat, Len(stack) = n, n >= 3, Lower
  PROVE  \E v : FibStack(v)' /\ u[n] = v[n - 1] + Owes(n) /\ v[n - 1] \in Nat
<1> DEFINE v == [k \in 2 .. n - 1 |-> u[k]]
<1>1. /\ n \in Nat /\ n >= 3 /\ Len(stack') = n - 1
      /\ \A k \in 1 .. n - 1 : stack'[k] = stack[k]
  BY DEF FibStack, Lower
<1>2. /\ u[2] = 0 /\ \A k \in 3 .. n : u[k] \in Nat /\ u[k] = u[k - 1] + Owes(k)
  BY DEF FibStack, Owed
<1>3. ASSUME NEW k \in 3 .. n - 1 PROVE Owes(k)' = Owes(k) /\ FibEntry(k)'
  <2>1. stack'[k] = stack[k] /\ stack'[k - 1] = stack[k - 1] /\ k \in 3 .. n
    BY <1>1
  <2>2. FibEntry(k)
    BY <2>1 DEF FibStack
  <2> QED BY <2>1, <2>2 DEF Owes, FibEntry
<1>4. Called(5, 2)' /\ stack'[2].to = <<"k_fib_top", 3>>
  BY <1>1 DEF FibStack, Called
<1>5. v = [k \in 2 .. n - 1 |-> v[k]] /\ \A k \in 2 .. n - 1 : v[k] = u[k]
  OBVIOUS
<1> HIDE DEF v
<1>6. ASSUME NEW k \in 3 .. n - 1 PROVE v[k] \in Nat /\ v[k] = v[k - 1] + Owes(k)'
  <2>1. k - 1 \in 2 .. n - 1 /\ k \in 2 .. n - 1 /\ k \in 3 .. n
    BY <1>1
  <2> QED BY <1>2, <1>3, <1>5, <2>1
<1>7. v[2] = 0
  BY <1>1, <1>2, <1>5
<1>8. FibStack(v)'
  <2>1. Len(stack') >= 2
    BY <1>1
  <2>2. Owed(v)'
    BY <1>1, <1>5, <1>6, <1>7 DEF Owed
  <2>3. \A k \in 3 .. Len(stack') : FibEntry(k)'
    BY <1>1, <1>3
  <2> QED BY <1>4, <2>1, <2>2, <2>3 DEF FibStack
<1>9. u[n] = v[n - 1] + Owes(n) /\ v[n - 1] \in Nat
  <2>1. n - 1 \in 2 .. n - 1 /\ n \in 3 .. n /\ (n - 1 = 2 \/ n - 1 \in 3 .. n - 1)
    BY <1>1
  <2> QED BY <1>2, <1>5, <1>6, <1>7, <2>1
<1> QED BY <1>1, <1>8, <1>9

\* What u leaves at the top is a number.
LEMMA FibOwed ==
  ASSUME NEW u, FibStack(u), NEW n \in Nat, Len(stack) = n
  PROVE  u[n] \in Nat /\ (n = 2 => u[n] = 0)
<1>1. n = 2 \/ n \in 3 .. n
  BY DEF FibStack
<1>2. CASE n = 2
  BY <1>2 DEF FibStack, Owed
<1>3. CASE n \in 3 .. n
  <2>1. n # 2
    BY <1>3
  <2> QED BY <1>3, <2>1 DEF FibStack, Owed
<1> QED BY <1>1, <1>2, <1>3

\* fib is called for the kernel.
LEMMA FibTopStep ==
  ASSUME ControlInv, StoreInv, ProbeNext, KernelAt(5)
  PROVE  KernelAt(5)' \/ FibAt(5)' \/ MainAt(5)'
<1>1. /\ at = <<"k_fib_top", at[2]>> /\ Here = k_fib_top[at[2]] /\ AllWords /\ Ready(5)
      /\ Len(stack) = 1 /\ Called(5, 2) /\ at[2] \in 1 .. 3 /\ Sequence(stack)
      /\ at[2] # 3 => perf = Counts
      /\ at[2] = 2 => reg["A"].n = FIB
      /\ at[2] = 3 => perf = Tally(FibAdds[FIB], 0)
  BY Standing, CodeOf, FirstIs DEF KernelAt
<1>2. CASE at[2] = 1
  <2>1. Here = SETR("A", FIB) /\ "A" \in Registers
    BY <1>1, <1>2, SmallCode DEF Registers
  <2>2. Onward /\ Same /\ reg'["A"].n = FIB
    BY <1>1, <2>1, SetStep
  <2>3. at'[1] = at[1] /\ at'[2] = 2 /\ stack' = stack /\ lines' = lines /\ perf' = Counts
    BY <1>1, <1>2, <2>2 DEF Onward, Same
  <2>4. KernelAt(5)'
    BY <2>2, <2>3, LoopKernel DEF KernelAt
  <2> QED BY <2>4
<1>3. CASE at[2] = 2
  <2>1. Here = CALL("fib")
    BY <1>1, <1>3, SmallCode
  <2>2. /\ at' = <<"fib", 1>> /\ reg' = reg /\ Same
        /\ Higher([to |-> <<at[1], at[2] + 1>>, val |-> Lost])
    BY <1>1, <2>1, CallStep
  <2>3. /\ Len(stack') = 2 /\ stack'[2].to = <<"k_fib_top", 3>> /\ stack'[1] = stack[1]
    BY <1>1, <1>3, <2>2 DEF Higher
  <2>4. at'[1] = "fib" /\ at'[2] = 1 /\ perf' = Tally(0, 0) /\ reg'["A"].n = FIB /\ Ready(5)'
    BY <1>1, <1>3, <2>2, TallyMore, ReadyStays DEF Same
  <2> DEFINE u == [k \in 2 .. 2 |-> 0]
  <2>5. FibStack(u)'
    <3>1. Called(5, 2)'
      BY <1>1, <2>3 DEF Called
    <3>2. Owed(u)'
      BY <2>3 DEF Owed
    <3> QED BY <2>3, <3>1, <3>2 DEF FibStack
  <2>6. FibPlace'
    BY <2>4, Sizes DEF FibPlace, AfterPush
  <2>7. (0 + Left + u[Len(stack)] = FibAdds[FIB])'
    <3>1. FibAdds[FIB] \in Nat
      BY Sizes, FibAddsIs
    <3>2. Left' = FibAdds[FIB]
      BY <2>4 DEF Left
    <3>3. u[2] = 0
      OBVIOUS
    <3> QED BY <2>3, <3>1, <3>2, <3>3
  <2> HIDE DEF u
  <2>8. FibAt(5)'
    BY <2>4, <2>5, <2>6, <2>7, FibAgain
  <2> QED BY <2>8
<1>4. CASE at[2] = 3
  <2>1. Here = RET /\ perf = Tally(Steps[5], 0)
    BY <1>1, <1>4, SmallCode, FirstIs
  <2> QED BY <2>1, KernelReturns
<1> QED BY <1>1, <1>2, <1>3, <1>4

\* What a step of fib that leaves the stack alone has to show; one that pushes
\* or calls; one that pops or returns.
LEMMA FibFlat ==
  ASSUME FibAt(5), stack' = stack, lines' = lines, at'[1] = "fib", FibPlace', Len(stack) \in Nat,
         NEW c \in Nat, NEW l \in Nat, Left' = l, Left = l + c,
         \A w \in Nat : perf = Tally(w, 0) => perf' = Tally(w + c, 0)
  PROVE  FibAt(5)'
<1>1. PICK w, u : /\ w \in Nat /\ perf = Tally(w, 0) /\ FibStack(u)
                 /\ w + Left + u[Len(stack)] = FibAdds[FIB]
  BY FibIs
<1>2. Ready(5)' /\ FibStack(u)' /\ perf' = Tally(w + c, 0) /\ w + c \in Nat
  BY <1>1, FibIs, FibStays, ReadyStays
<1>3. u[Len(stack)] \in Nat
  BY <1>1, FibOwed
<1>4. PICK x \in Nat : u[Len(stack)] = x
  BY <1>3
<1>5. w + (l + c) + x = FibAdds[FIB]
  BY <1>1, <1>4
<1>6. ((w + c) + Left + u[Len(stack)] = FibAdds[FIB])'
  <2>1. (w + c) + l + x = FibAdds[FIB]
    BY <1>1, <1>5
  <2> QED BY <1>4, <2>1
<1> QED BY <1>2, <1>6, FibAgain

LEMMA FibDeeper ==
  ASSUME FibAt(5), lines' = lines, perf' = perf, at'[1] = "fib", FibPlace',
         NEW n \in Nat, Len(stack) = n, NEW e, Higher(e), FibEntry(n + 1)',
         NEW o \in Nat, Owes(n + 1)' = o, NEW l \in Nat, Left' = l, Left = l + o
  PROVE  FibAt(5)'
<1>1. PICK w, u : /\ w \in Nat /\ perf = Tally(w, 0) /\ FibStack(u)
                 /\ w + Left + u[n] = FibAdds[FIB]
  BY FibIs
<1>2. PICK v : FibStack(v)' /\ v[n + 1] = u[n] + o
  BY <1>1, FibHigher
<1>3. u[n] \in Nat
  BY <1>1, FibOwed
<1>4. Len(stack') = n + 1
  BY DEF Higher
<1>5. Ready(5)'
  BY FibIs, ReadyStays
<1>6. w + l + (u[n] + o) = FibAdds[FIB]
  BY <1>1, <1>3
<1>7. (w + Left + v[Len(stack)] = FibAdds[FIB])'
  BY <1>2, <1>4, <1>6
<1> QED BY <1>1, <1>2, <1>5, <1>7, FibAgain

LEMMA FibShallower ==
  ASSUME FibAt(5), lines' = lines, perf' = perf, at'[1] = "fib", FibPlace',
         NEW n \in Nat, Len(stack) = n, n >= 3, Lower,
         NEW l \in Nat, Left = l, NEW o \in Nat, Owes(n) = o, Left' = l + o
  PROVE  FibAt(5)'
<1>1. PICK w, u : /\ w \in Nat /\ perf = Tally(w, 0) /\ FibStack(u)
                 /\ w + Left + u[n] = FibAdds[FIB]
  BY FibIs
<1>2. PICK v : FibStack(v)' /\ u[n] = v[n - 1] + o /\ v[n - 1] \in Nat
  BY <1>1, FibLower
<1>4. Len(stack') = n - 1
  BY DEF Lower
<1>5. Ready(5)'
  BY FibIs, ReadyStays
<1>6. w + (l + o) + v[n - 1] = FibAdds[FIB]
  BY <1>1, <1>2
<1>7. (w + Left + v[Len(stack)] = FibAdds[FIB])'
  BY <1>2, <1>4, <1>6
<1> QED BY <1>1, <1>2, <1>5, <1>7, FibAgain

FibWell == ControlInv /\ StoreInv /\ ProbeNext /\ FibAt(5)

LEMMA FibStanding ==
  ASSUME FibWell
  PROVE  /\ at = <<"fib", at[2]>> /\ Here = fib[at[2]] /\ Sequence(stack) /\ AllWords
         /\ Len(stack) \in Nat /\ Len(stack) >= 2 /\ FibPlace
         /\ "A" \in Registers /\ "M" \in Registers /\ "A" # "M"
         /\ \A k \in 3 .. Len(stack) : FibEntry(k)
BY Standing, CodeOf DEF FibWell, FibAt, Registers

\* Before the first call: the test, a return at once, the push and the number
\* below.
LEMMA FibTests ==
  ASSUME FibWell, at[2] = 1
  PROVE  FibAt(5)'
<1>1. PICK a \in Nat : reg["A"].n = a
  BY FibStanding DEF FibPlace
<1>2. Goes(IF a >= 2 THEN 4 ELSE 2)
  <2>1. Here = JMPUGEV("A", 2, 4)
    BY FibStanding, FibCode
  <2> QED BY <1>1, <2>1, JumpStep DEF FibWell
<1>3. /\ at'[1] = "fib" /\ at'[2] = (IF a >= 2 THEN 4 ELSE 2) /\ stack' = stack /\ lines' = lines
      /\ perf' = perf /\ reg' = reg
  BY <1>2, FibStanding DEF Goes, Still, Same
<1>4. FibPlace'
  BY <1>1, <1>3 DEF FibPlace, AfterPush
<1>5. Left = FibAdds[a] /\ Left' = FibAdds[a] /\ FibAdds[a] \in Nat
  <2>1. Left = FibAdds[a] /\ FibAdds[a] \in Nat
    BY <1>1, FibAddsIs DEF Left
  <2>2. CASE a >= 2
    BY <1>1, <1>3, <2>1, <2>2 DEF Left
  <2>3. CASE ~(a >= 2)
    <3>1. a = 0 \/ a = 1
      BY <2>3
    <3>2. FibAdds[a] = 0
      BY <3>1, FibAddsIs
    <3> QED BY <1>3, <2>1, <2>3, <3>2 DEF Left
  <2> QED BY <2>2, <2>3
<1>6. \A w \in Nat : perf = Tally(w, 0) => perf' = Tally(w + 0, 0)
  BY <1>3
<1>7. PICK l \in Nat : Left = l + 0 /\ Left' = l
  BY <1>5
<1> QED BY <1>3, <1>4, <1>6, <1>7, FibFlat, FibStanding DEF FibWell

LEMMA FibCopies ==
  ASSUME FibWell, at[2] = 2
  PROVE  FibAt(5)'
<1>1. Onward /\ Same
  <2>1. Here = COPY("M", "A")
    BY FibStanding, FibCode
  <2> QED BY <2>1, CopyStep, FibStanding DEF FibWell
<1>2. /\ at'[1] = "fib" /\ at'[2] = 3 /\ stack' = stack /\ lines' = lines /\ perf' = perf
  BY <1>1, FibStanding DEF Onward, Same
<1>3. FibPlace'
  BY <1>2 DEF FibPlace, AfterPush
<1>4. Left = 0 /\ Left' = 0
  BY <1>2 DEF Left
<1>5. \A w \in Nat : perf = Tally(w, 0) => perf' = Tally(w + 0, 0)
  BY <1>2
<1> QED BY <1>2, <1>3, <1>4, <1>5, FibFlat, FibStanding DEF FibWell

LEMMA FibSums ==
  ASSUME FibWell, at[2] = 12
  PROVE  FibAt(5)'
<1>1. Onward /\ Counted1 /\ lines' = lines
  <2>1. Here = ADDR("M", "A", "M")
    BY FibStanding, FibCode
  <2> QED BY <2>1, SumStep, FibStanding DEF FibWell
<1>2. /\ at'[1] = "fib" /\ at'[2] = 13 /\ stack' = stack
  BY <1>1, FibStanding DEF Onward
<1>3. FibPlace'
  BY <1>2 DEF FibPlace, AfterPush
<1>4. Left = 1 /\ Left' = 0
  BY <1>2 DEF Left
<1>5. \A w \in Nat : perf = Tally(w, 0) => perf' = Tally(w + 1, 0)
  BY <1>1, TallyMore DEF Counted1
<1> QED BY <1>1, <1>2, <1>3, <1>4, <1>5, FibFlat, FibStanding DEF FibWell

LEMMA FibLess ==
  ASSUME FibWell, at[2] \in {5, 9}
  PROVE  FibAt(5)'
<1> DEFINE m == IF at[2] = 5 THEN 1 ELSE 2
<1>1. Onward /\ Same /\ reg'["A"].n = reg["A"].n + (-m)
  <2>1. Here = ADDV("A", -m)
    BY FibStanding, FibCode
  <2>2. \A d : Here = ADDV("A", d) => Onward /\ Same /\ reg'["A"].n = reg["A"].n + d
    BY AddStep, FibStanding DEF FibWell
  <2> QED BY <2>1, <2>2
<1>2. /\ at'[1] = "fib" /\ at'[2] = at[2] + 1 /\ stack' = stack /\ lines' = lines /\ perf' = perf
  BY <1>1, FibStanding DEF Onward, Same
<1>3. /\ Len(stack) >= 3 /\ stack[Len(stack)].to = Pushed /\ reg["A"].n \in Nat
      /\ at[2] = 5 => FibTop \in Nat /\ FibTop >= 2 /\ reg["A"].n = FibTop
      /\ at[2] = 9 => reg["A"].n >= 2
  BY FibStanding DEF FibPlace, AfterPush
<1>4. FibTop' = FibTop
  BY <1>2 DEF FibTop
<1>5. at[2] = 5 => at'[2] = 6 /\ reg'["A"].n = FibTop - 1
  BY <1>1, <1>2, <1>3
<1>6. at[2] = 9 => at'[2] = 10 /\ reg'["A"].n = reg["A"].n - 2 /\ reg["A"].n - 2 \in Nat
  BY <1>1, <1>2, <1>3
<1>7. FibPlace'
  <2>1. CASE at[2] = 5
    BY <1>2, <1>3, <1>4, <1>5, <2>1 DEF FibPlace, AfterPush
  <2>2. CASE at[2] = 9
    BY <1>2, <1>3, <1>6, <2>2 DEF FibPlace, AfterPush
  <2> QED BY <2>1, <2>2
<1>8. \E l \in Nat : Left = l /\ Left' = l
  <2>1. CASE at[2] = 5
    <3>1. FibAdds[FibTop] \in Nat
      BY <1>3, <2>1, FibAddsIs
    <3>2. Left = FibAdds[FibTop] /\ Left' = FibAdds[FibTop']
      BY <1>5, <2>1 DEF Left
    <3> QED BY <1>4, <3>1, <3>2
  <2>2. CASE at[2] = 9
    <3>1. FibAdds[reg["A"].n - 2] + 1 \in Nat
      <4>1. FibAdds[reg["A"].n - 2] \in Nat
        BY <1>6, <2>2, FibAddsIs
      <4> QED BY <4>1
    <3>2. Left = FibAdds[reg["A"].n - 2] + 1 /\ Left' = FibAdds[reg["A"].n - 2] + 1
      BY <1>6, <2>2 DEF Left
    <3> QED BY <3>1, <3>2
  <2> QED BY <2>1, <2>2
<1>9. \A w \in Nat : perf = Tally(w, 0) => perf' = Tally(w + 0, 0)
  BY <1>2
<1>10. PICK l \in Nat : Left = l + 0 /\ Left' = l
  BY <1>8
<1> QED BY <1>2, <1>7, <1>9, <1>10, FibFlat, FibStanding DEF FibWell

LEMMA PushedIsNoReturn == Pushed # <<"fib", 7>> /\ Pushed # <<"fib", 11>>
<1>1. Pushed[2] = 0
  BY DEF Pushed
<1>2. <<"fib", 7>>[2] = 7 /\ <<"fib", 11>>[2] = 11
  OBVIOUS
<1> QED BY <1>1, <1>2

LEMMA FibPushes ==
  ASSUME FibWell, at[2] \in {4, 8}
  PROVE  FibAt(5)'
<1>1. PICK n \in Nat : Len(stack) = n /\ n >= 2
  BY FibStanding
<1>2. PICK a \in Nat : reg["A"].n = a /\ a >= 2
  BY FibStanding DEF FibPlace
<1>3. PICK r \in {"A", "M"} : Here = PUSH(r) /\ (at[2] = 4 => r = "A")
  BY FibStanding, FibCode
<1> DEFINE e == [to |-> Pushed, val |-> reg[r]]
<1>4. at' = <<at[1], at[2] + 1>> /\ reg' = reg /\ Same /\ Higher(e)
  BY <1>3, PushStep, FibStanding DEF FibWell
<1>5. at'[1] = "fib" /\ at'[2] = at[2] + 1 /\ lines' = lines /\ perf' = perf
  BY <1>4, FibStanding DEF Same
<1>6. /\ Len(stack') = n + 1 /\ stack'[n + 1].to = Pushed /\ stack'[n + 1].val = reg[r]
  BY <1>1, <1>4 DEF Higher
<1>7. FibTop' = reg[r].n
  BY <1>6 DEF FibTop
<1>8. FibPlace'
  <2>1. Len(stack') >= 3 /\ stack'[Len(stack')].to = Pushed
    BY <1>1, <1>6
  <2>2. CASE at[2] = 4
    BY <1>2, <1>3, <1>4, <1>5, <1>7, <2>1, <2>2 DEF FibPlace, AfterPush
  <2>3. CASE at[2] = 8
    BY <1>2, <1>4, <1>5, <2>1, <2>3 DEF FibPlace, AfterPush
  <2> QED BY <2>2, <2>3
<1>9. FibEntry(n + 1)' /\ Owes(n + 1)' = 0
  BY <1>6, PushedIsNoReturn DEF FibEntry, Owes
<1>10. \E l \in Nat : Left = l + 0 /\ Left' = l
  <2>1. CASE at[2] = 4
    <3>1. FibAdds[a] \in Nat
      BY FibAddsIs
    <3>2. Left = FibAdds[a]
      BY <1>2, <2>1 DEF Left
    <3>3. Left' = FibAdds[a]
      <4>1. FibTop' = a
        BY <1>2, <1>3, <1>7, <2>1
      <4> QED BY <1>5, <2>1, <4>1 DEF Left
    <3> QED BY <3>1, <3>2, <3>3
  <2>2. CASE at[2] = 8
    <3>1. FibAdds[a - 2] + 1 \in Nat
      <4>1. FibAdds[a - 2] \in Nat
        BY <1>2, FibAddsIs
      <4> QED BY <4>1
    <3>2. Left = FibAdds[a - 2] + 1 /\ Left' = FibAdds[a - 2] + 1
      BY <1>2, <1>4, <1>5, <2>2 DEF Left
    <3> QED BY <3>1, <3>2
  <2> QED BY <2>1, <2>2
<1>11. PICK l \in Nat : Left = l + 0 /\ Left' = l
  BY <1>10
<1> HIDE DEF e
<1> QED BY <1>1, <1>4, <1>5, <1>8, <1>9, <1>11, FibDeeper DEF FibWell

LEMMA FibCalls ==
  ASSUME FibWell, at[2] \in {6, 10}
  PROVE  FibAt(5)'
<1>1. PICK n \in Nat : Len(stack) = n /\ n >= 3 /\ stack[n].to = Pushed
  BY FibStanding DEF FibPlace, AfterPush
<1>2. PICK a \in Nat : reg["A"].n = a
  <2>1. reg["A"].n \in Nat
    BY FibStanding DEF FibPlace
  <2> QED BY <2>1
<1> DEFINE e == [to |-> <<at[1], at[2] + 1>>, val |-> Lost]
<1>3. at' = <<"fib", 1>> /\ reg' = reg /\ Same /\ Higher(e)
  <2>1. Here = CALL("fib")
    BY FibStanding, FibCode
  <2> QED BY <2>1, CallStep, FibStanding DEF FibWell
<1>4. at'[1] = "fib" /\ at'[2] = 1 /\ lines' = lines /\ perf' = perf
  BY <1>3 DEF Same
<1>5. /\ Len(stack') = n + 1 /\ stack'[n] = stack[n]
      /\ stack'[n + 1].to = <<"fib", at[2] + 1>>
  BY <1>1, <1>3, FibStanding DEF Higher
<1>6. FibPlace'
  BY <1>2, <1>3, <1>4 DEF FibPlace, AfterPush
<1>7. Left' = FibAdds[a] /\ FibAdds[a] \in Nat
  BY <1>2, <1>3, <1>4, FibAddsIs DEF Left
<1>8. \E o \in Nat : FibEntry(n + 1)' /\ Owes(n + 1)' = o /\ Left = FibAdds[a] + o
  <2>0. (n + 1) - 1 = n /\ n + 1 >= 4
    BY <1>1
  <2>1. CASE at[2] = 6
    <3>1. PICK t \in Nat : stack[n].val.n = t /\ t >= 2 /\ a = t - 1
      BY <1>1, <1>2, <2>1, FibStanding DEF FibPlace, FibTop
    <3>2. stack'[n + 1].to = <<"fib", 7>> /\ stack'[n].val.n = t
      BY <1>5, <2>1, <3>1
    <3>3. FibEntry(n + 1)'
      BY <1>1, <1>5, <2>0, <3>1, <3>2 DEF FibEntry
    <3>4. Owes(n + 1)' = FibAdds[t - 2] + 1
      BY <2>0, <3>2 DEF Owes
    <3>5. FibAdds[t - 2] \in Nat /\ FibAdds[t] = 1 + FibAdds[a] + FibAdds[t - 2]
      BY <3>1, FibAddsIs
    <3>6. Left = FibAdds[t]
      BY <1>1, <2>1, <3>1 DEF Left, FibTop
    <3>7. FibAdds[t - 2] + 1 \in Nat /\ Left = FibAdds[a] + (FibAdds[t - 2] + 1)
      BY <1>7, <3>5, <3>6
    <3> QED BY <3>3, <3>4, <3>7
  <2>2. CASE at[2] = 10
    <3>1. stack'[n + 1].to = <<"fib", 11>>
      BY <1>5, <2>2
    <3>2. FibEntry(n + 1)' /\ Owes(n + 1)' = 1
      BY <1>1, <1>5, <2>0, <3>1 DEF FibEntry, Owes
    <3>3. Left = FibAdds[a] + 1
      BY <1>2, <2>2 DEF Left
    <3> QED BY <3>2, <3>3
  <2> QED BY <2>1, <2>2
<1>9. PICK o \in Nat : FibEntry(n + 1)' /\ Owes(n + 1)' = o /\ Left = FibAdds[a] + o
  BY <1>8
<1> HIDE DEF e
<1> QED BY <1>1, <1>3, <1>4, <1>6, <1>7, <1>9, FibDeeper DEF FibWell

LEMMA FibPops ==
  ASSUME FibWell, at[2] \in {7, 11}
  PROVE  FibAt(5)'
<1>1. PICK n \in Nat : Len(stack) = n /\ n >= 3 /\ stack[n].to = Pushed
  BY FibStanding DEF FibPlace, AfterPush
<1>2. /\ at' = <<at[1], at[2] + 1>> /\ Same /\ Lower /\ reg'["A"] = stack[n].val
  <2>1. Here = POP("A")
    BY FibStanding, FibCode
  <2> QED BY <1>1, <2>1, PopStep, FibStanding DEF FibWell
<1>3. at'[1] = "fib" /\ at'[2] = at[2] + 1 /\ lines' = lines /\ perf' = perf
  BY <1>2, FibStanding DEF Same
<1>4. at[2] = 7 => FibTop \in Nat /\ FibTop >= 2 /\ reg'["A"].n = FibTop
  BY <1>1, <1>2, FibStanding DEF FibPlace, FibTop
<1>5. FibPlace'
  BY <1>3, <1>4 DEF FibPlace, AfterPush
<1>6. Owes(n) = 0
  BY <1>1, PushedIsNoReturn DEF Owes
<1>7. \E l \in Nat : Left = l /\ Left' = l + 0
  <2>1. CASE at[2] = 7
    <3>1. FibAdds[FibTop - 2] + 1 \in Nat
      <4>1. FibAdds[FibTop - 2] \in Nat
        BY <1>4, <2>1, FibAddsIs
      <4> QED BY <4>1
    <3>2. Left = FibAdds[FibTop - 2] + 1 /\ Left' = FibAdds[FibTop - 2] + 1
      BY <1>3, <1>4, <2>1 DEF Left
    <3> QED BY <3>1, <3>2
  <2>2. CASE at[2] = 11
    BY <1>3, <2>2 DEF Left
  <2> QED BY <2>1, <2>2
<1>8. PICK l \in Nat : Left = l /\ Left' = l + 0
  BY <1>7
<1> QED BY <1>1, <1>2, <1>3, <1>5, <1>6, <1>8, FibShallower DEF FibWell

LEMMA FibReturns ==
  ASSUME FibWell, at[2] \in {3, 13}
  PROVE  FibAt(5)' \/ KernelAt(5)'
<1>1. PICK n \in Nat : Len(stack) = n /\ n >= 2
  BY FibStanding
<1>2. /\ at' = stack[n].to /\ reg' = reg /\ Same /\ Lower /\ stack[n].to # Pushed
  <2>1. Here = RET
    BY FibStanding, FibCode
  <2> QED BY <1>1, <2>1, RetStep, FibStanding DEF FibWell
<1>3. lines' = lines /\ perf' = perf /\ Left = 0
  BY <1>2 DEF Same, Left
<1>4. Len(stack') = n - 1 /\ \A k \in 1 .. n - 1 : stack'[k] = stack[k]
  BY <1>1, <1>2 DEF Lower
<1>5. CASE n = 2
  <2>1. PICK w, u : /\ w \in Nat /\ perf = Tally(w, 0) /\ FibStack(u)
                 /\ w + Left + u[n] = FibAdds[FIB]
    BY <1>1, FibIs DEF FibWell
  <2>2. w = FibAdds[FIB]
    <3>1. u[n] = 0
      BY <1>1, <1>5, <2>1, FibOwed
    <3> QED BY <1>3, <2>1, <3>1
  <2>3. at' = <<"k_fib_top", 3>> /\ Called(5, 2)
    BY <1>2, <1>5, <2>1 DEF FibStack
  <2>4. /\ at'[1] = Kernels[5] /\ at'[2] = 3 /\ Len(stack') = 1 /\ Called(5, 2)'
        /\ perf' = Tally(FibAdds[FIB], 0)
    BY <1>3, <1>4, <1>5, <2>1, <2>2, <2>3, FirstIs DEF Called
  <2>5. Ready(5)'
    BY <1>3, FibIs, ReadyStays DEF FibWell
  <2>6. KernelAt(5)'
    BY <2>4, <2>5 DEF KernelAt
  <2> QED BY <2>6
<1>6. CASE n >= 3
  <2>1. FibEntry(n)
    BY <1>1, <1>6, FibStanding
  <2>2. /\ n >= 4 /\ stack[n - 1].to = Pushed /\ n - 1 \in 1 .. n - 1 /\ n - 1 >= 3
        /\ \/ /\ stack[n].to = <<"fib", 7>> /\ stack[n - 1].val.n \in Nat /\ stack[n - 1].val.n >= 2
           \/ stack[n].to = <<"fib", 11>>
    BY <1>2, <2>1 DEF FibEntry
  <2>3. stack'[n - 1] = stack[n - 1] /\ at'[1] = "fib"
    BY <1>2, <1>4, <2>2
  <2>4. FibTop' = stack[n - 1].val.n
    BY <1>4, <2>3 DEF FibTop
  <2>5. CASE stack[n].to = <<"fib", 7>> /\ stack[n - 1].val.n \in Nat /\ stack[n - 1].val.n >= 2
    <3>1. PICK t \in Nat : stack[n - 1].val.n = t /\ t >= 2
      BY <2>5
    <3>2. at'[2] = 7 /\ FibTop' = t
      BY <1>2, <2>4, <2>5, <3>1
    <3>3. FibPlace'
      BY <1>4, <2>2, <2>3, <3>1, <3>2 DEF FibPlace, AfterPush
    <3>4. Owes(n) = FibAdds[t - 2] + 1
      BY <2>5, <3>1 DEF Owes
    <3>5. FibAdds[t - 2] + 1 \in Nat
      <4>1. FibAdds[t - 2] \in Nat
        BY <3>1, FibAddsIs
      <4> QED BY <4>1
    <3>6. Left' = 0 + (FibAdds[t - 2] + 1)
      <4>1. Left' = FibAdds[t - 2] + 1
        BY <3>2 DEF Left
      <4> QED BY <3>5, <4>1
    <3>7. FibAt(5)'
      BY <1>1, <1>2, <1>3, <1>6, <2>3, <3>3, <3>4, <3>5, <3>6, FibShallower DEF FibWell
    <3> QED BY <3>7
  <2>6. CASE stack[n].to = <<"fib", 11>>
    <3>1. at'[2] = 11
      BY <1>2, <2>6
    <3>2. FibPlace'
      BY <1>4, <2>2, <2>3, <3>1 DEF FibPlace, AfterPush
    <3>3. Owes(n) = 1 /\ Left' = 0 + 1
      BY <2>6, <3>1 DEF Owes, Left
    <3>4. FibAt(5)'
      BY <1>1, <1>2, <1>3, <1>6, <2>3, <3>2, <3>3, FibShallower DEF FibWell
    <3> QED BY <3>4
  <2> QED BY <2>2, <2>5, <2>6
<1> QED BY <1>1, <1>5, <1>6

LEMMA FibStep ==
  ASSUME ControlInv, StoreInv, ProbeNext, FibAt(5)
  PROVE  FibAt(5)' \/ KernelAt(5)'
<1>1. FibWell
  BY DEF FibWell
<1>2. at[2] \in 1 .. 13
  BY <1>1, FibStanding DEF FibPlace
<1>3. \/ at[2] = 1 \/ at[2] = 2 \/ at[2] \in {3, 13} \/ at[2] \in {4, 8} \/ at[2] \in {5, 9}
      \/ at[2] \in {6, 10} \/ at[2] \in {7, 11} \/ at[2] = 12
  BY <1>2
<1> QED BY <1>1, <1>3, FibTests, FibCopies, FibReturns, FibPushes, FibLess, FibCalls, FibPops, FibSums

LEMMA FullIs == Full \in Nat /\ Full = 2 * COUNTERS + 2 /\ COUNTERS \in Nat \ {0} /\ DIGITS \in Nat \ {0}
BY Sizes DEF Full

LEMMA DumpRegisters ==
  /\ "A" \in Registers /\ "B" \in Registers /\ "C" \in Registers /\ "D" \in Registers
  /\ "E" \in Registers /\ "F" \in Registers /\ "G" \in Registers /\ "H" \in Registers
  /\ "I" \in Registers /\ "J" \in Registers
BY DEF Registers

LEMMA PartlyStays ==
  ASSUME NEW id, NEW len, Partly(id, len), lines' = lines, reg'["E"].n = reg["E"].n
  PROVE  Partly(id, len)'
<1>1. LinesDone(id)'
  BY DEF Partly, LinesDone
<1>2. Printed(id, lines[id], len, reg["E"].n)'
  BY DEF Partly
<1> QED BY <1>1, <1>2 DEF Partly

LEMMA SavedStays == ASSUME NEW id, NEW m, Saved(id, m), scratch' = scratch PROVE Saved(id, m)'
BY DEF Saved

\* Of an empty line nothing is printed.
LEMMA PartlyNone ==
  ASSUME NEW id \in 1 .. 6, Ready(id), lines' = lines
  PROVE  Partly(id, 0)'
<1>1. Ready(id)'
  BY ReadyStays
<1>2. \A n : Printed(id, <<>>, 0, n)
  <2>1. Sequence(<<>>) /\ Len(<<>>) = 0
    BY EmptySeq DEF Sequence
  <2>2. ASSUME NEW f \in 1 .. COUNTERS + 1, NEW i \in 1 .. DIGITS
        PROVE  ~((f - 1) * DIGITS + i <= 0)
    <3>1. (f - 1) * DIGITS \in Nat
      BY PlaceIn, FullIs
    <3> QED BY <3>1
  <2> QED BY <2>1, <2>2 DEF Printed
<1> QED BY <1>1, <1>2 DEF Partly, Ready

\* The counters are read and saved one after the other, each read counted in
\* the next (gen_probe.py:144-155).
LEMMA DumpReads ==
  ASSUME ControlInv, StoreInv, ProbeNext, NEW id \in 1 .. 6,
         at[1] = "dump", Len(stack) = 1, Called(id, 4), Ready(id), reg["D"].n = id - 1,
         \/ at[2] = 1 /\ perf = Tally(Steps[id], 0)
         \/ \E k \in 1 .. COUNTERS :
              /\ at[2] = 2 * k /\ reg["I"].n = k /\ perf = Tally(Steps[id], k - 1)
              /\ Saved(id, k - 1)
         \/ \E k \in 1 .. COUNTERS :
              /\ at[2] = 2 * k + 1 /\ reg["I"].n = k /\ perf = Tally(Steps[id], k)
              /\ Saved(id, k)
         \/ at[2] = Full /\ Saved(id, COUNTERS)
  PROVE  DumpAt(id)'
<1>1. at = <<"dump", at[2]>> /\ Here = dump[at[2]] /\ AllWords
  BY Standing, CodeOf
<1>2. COUNTERS \in Nat \ {0} /\ Full = 2 * COUNTERS + 2
  BY FullIs
<1>3. ASSUME Onward, lines' = lines
      PROVE  /\ at'[1] = "dump" /\ at'[2] = at[2] + 1 /\ Len(stack') = 1 /\ Called(id, 4)'
             /\ Ready(id)'
  BY <1>1, <1>3, ReadyStays DEF Onward, Called
<1>4. CASE at[2] = 1 /\ perf = Tally(Steps[id], 0)
  <2>1. Here = SETR("I", 1)
    BY <1>1, <1>4, DumpCode
  <2>2. Onward /\ Same /\ Keeps({"I"}) /\ reg'["I"].n = 1
    BY <1>1, <2>1, DumpRegisters, SetStep
  <2>3. /\ at'[2] = 2 * 1 /\ perf' = Tally(Steps[id], 1 - 1) /\ reg'["D"].n = id - 1
        /\ at'[1] = "dump" /\ Len(stack') = 1 /\ Called(id, 4)' /\ Ready(id)'
    BY <1>3, <1>4, <2>2, DumpRegisters DEF Same, Keeps
  <2>4. Saved(id, 1 - 1)' /\ 1 \in 1 .. COUNTERS
    BY <1>2 DEF Saved
  <2> QED BY <2>2, <2>3, <2>4 DEF DumpAt
<1>5. ASSUME NEW k \in 1 .. COUNTERS, at[2] = 2 * k, reg["I"].n = k, perf = Tally(Steps[id], k - 1),
             Saved(id, k - 1)
      PROVE  DumpAt(id)'
  <2>1. Here = Run("read", {"G"}) /\ {"G"} \in SUBSET Registers
    BY <1>1, <1>5, DumpCode, DumpRegisters
  <2>2. /\ Onward /\ perf' = [perf EXCEPT !["dump"] = @ + 1] /\ lines' = lines
        /\ scratch' = [scratch EXCEPT ![k] = perf] /\ Keeps({"G"} \cup {"E"})
    BY <1>1, <1>5, <2>1, ReadStep
  <2>3. perf' = Tally(Steps[id], k)
    <3>1. (k - 1) + 1 = k
      BY <1>2
    <3> QED BY <1>5, <2>2, <3>1, TallyMore
  <2>4. Saved(id, k)'
    <3>1. \A j \in 1 .. COUNTERS : scratch'[j] = IF j = k THEN perf ELSE scratch[j]
      BY <2>2 DEF StoreInv
    <3>2. ASSUME NEW j \in 1 .. k PROVE scratch'[j] = Entry(id, j + 1)
      <4>1. j \in 1 .. COUNTERS /\ (j = k \/ j \in 1 .. k - 1)
        BY <1>2
      <4>2. CASE j = k
        <5>1. Entry(id, k + 1) = Tally(Steps[id], k - 1)
          <6>1. k + 1 # 1 /\ (k + 1) - 2 = k - 1
            BY <1>2
          <6> QED BY <6>1 DEF Entry
        <5> QED BY <1>5, <3>1, <4>1, <4>2, <5>1
      <4>3. CASE j # k
        BY <1>5, <3>1, <4>1, <4>3 DEF Saved
      <4> QED BY <4>2, <4>3
    <3> QED BY <3>2 DEF Saved
  <2>5. /\ reg'["I"].n = k /\ reg'["D"].n = id - 1
    BY <1>5, <2>2, DumpRegisters DEF Keeps
  <2>6. at'[2] = 2 * k + 1
    BY <1>3, <1>5, <2>2
  <2> QED BY <1>3, <2>2, <2>3, <2>4, <2>5, <2>6 DEF DumpAt
<1>6. ASSUME NEW k \in 1 .. COUNTERS, at[2] = 2 * k + 1, reg["I"].n = k, perf = Tally(Steps[id], k),
             Saved(id, k)
      PROVE  DumpAt(id)'
  <2>1. Here = ADDV("I", 1)
    BY <1>1, <1>6, DumpCode
  <2>2. Onward /\ Same /\ Keeps({"I"}) /\ reg'["I"].n = k + 1
    BY <1>1, <1>6, <2>1, DumpRegisters, AddStep
  <2>3. /\ at'[2] = 2 * k + 1 + 1 /\ perf' = perf /\ reg'["D"].n = id - 1
        /\ at'[1] = "dump" /\ Len(stack') = 1 /\ Called(id, 4)' /\ Ready(id)'
    BY <1>3, <1>6, <2>2, DumpRegisters DEF Same, Keeps
  <2>4. Saved(id, k)'
    BY <1>6, <2>2, SavedStays DEF Same
  <2>5. CASE k = COUNTERS
    <3>1. at'[2] = Full
      BY <1>2, <2>3, <2>5
    <3> QED BY <2>3, <2>4, <2>5, <3>1 DEF DumpAt
  <2>6. CASE k # COUNTERS
    <3>1. k + 1 \in 1 .. COUNTERS /\ at'[2] = 2 * (k + 1) /\ (k + 1) - 1 = k
      BY <1>2, <2>3, <2>6
    <3>2. PICK l \in 1 .. COUNTERS : l = k + 1 /\ l - 1 = k
      BY <3>1
    <3> QED BY <1>6, <2>2, <2>3, <2>4, <3>1, <3>2 DEF DumpAt
  <2> QED BY <2>5, <2>6
<1>7. CASE at[2] = Full /\ Saved(id, COUNTERS)
  <2>1. Here = Run("id", {})
    BY <1>1, <1>7, DumpCode
  <2>2. Onward /\ Same /\ reg'["E"].of = Num(id - 1)
    BY <1>1, <2>1, IdStep
  <2>3. /\ at'[2] = Full + 1 /\ at'[1] = "dump" /\ Len(stack') = 1 /\ Called(id, 4)'
    BY <1>3, <1>7, <2>2 DEF Same
  <2>4. Saved(id, COUNTERS)' /\ Partly(id, 0)'
    BY <1>7, <2>2, SavedStays, PartlyNone DEF Same
  <2>5. reg'["E"].of = Entry(id, 1)
    BY <2>2 DEF Entry
  <2> QED BY <2>3, <2>4, <2>5 DEF DumpAt
<1> QED BY <1>4, <1>5, <1>6, <1>7

\* The number and the saved counters are printed, then the line ends
\* (gen_probe.py:156-169).
LEMMA DumpPrints ==
  ASSUME ControlInv, StoreInv, ProbeNext, NEW id \in 1 .. 6,
         at[1] = "dump", Len(stack) = 1, Called(id, 4), Saved(id, COUNTERS),
         \/ at[2] = Full + 1 /\ Partly(id, 0) /\ reg["E"].of = Entry(id, 1)
         \/ at[2] = Full + 2 /\ Partly(id, DIGITS)
         \/ at[2] = Full + 3 /\ Partly(id, DIGITS) /\ reg["I"].n = 1
         \/ \E k \in 1 .. COUNTERS :
              \/ /\ at[2] \in {Full + 4, Full + 5} /\ Partly(id, k * DIGITS)
                 /\ reg["I"].n = k /\ reg["J"].n = (COUNTERS + 1) - k
                 /\ at[2] = Full + 5 => reg["E"].of = Entry(id, k + 1)
              \/ /\ at[2] \in {Full + 6, Full + 7, Full + 8} /\ Partly(id, (k + 1) * DIGITS)
                 /\ reg["I"].n = k + (IF at[2] = Full + 6 THEN 0 ELSE 1)
                 /\ reg["J"].n = (COUNTERS - k) + (IF at[2] = Full + 8 THEN 0 ELSE 1)
         \/ at[2] = Full + 9 /\ Partly(id, LineLen)
  PROVE  DumpAt(id)' \/ HexAt(id)' \/ CrlfAt(id)'
<1>1. /\ at = <<"dump", at[2]>> /\ Here = dump[at[2]] /\ AllWords /\ Sequence(stack)
  BY Standing, CodeOf
<1>2. COUNTERS \in Nat \ {0} /\ DIGITS \in Nat \ {0} /\ Full \in Nat
  BY FullIs
\* What a step that goes on, and one that calls, leaves.
<1>3. ASSUME Onward, Same, Keeps({"I", "J"}) \/ (reg'["E"].n = reg["E"].n)
      PROVE  /\ at'[1] = "dump" /\ at'[2] = at[2] + 1 /\ Len(stack') = 1 /\ Called(id, 4)'
             /\ Saved(id, COUNTERS)'
             /\ \A len : Partly(id, len) => Partly(id, len)'
  <2>1. reg'["E"].n = reg["E"].n
    BY <1>3, DumpRegisters DEF Keeps
  <2> QED BY <1>1, <1>3, <2>1, SavedStays, PartlyStays DEF Onward, Called, Same
<1>4. ASSUME NEW r, Here = CALL(r)
      PROVE  /\ at'[1] = r /\ at'[2] = 1 /\ Len(stack') = 2 /\ stack'[2].to = <<"dump", at[2] + 1>>
             /\ Called(id, 4)' /\ Saved(id, COUNTERS)' /\ reg' = reg
             /\ \A len : Partly(id, len) => Partly(id, len)'
  <2>1. /\ at' = <<r, 1>> /\ reg' = reg /\ Same
        /\ Higher([to |-> <<at[1], at[2] + 1>>, val |-> Lost])
    BY <1>1, <1>4, CallStep
  <2>2. Len(stack') = 2 /\ stack'[2].to = <<"dump", at[2] + 1>> /\ stack'[1] = stack[1]
    BY <1>1, <2>1 DEF Higher
  <2> QED BY <2>1, <2>2, SavedStays, PartlyStays DEF Same, Called
<1>5. CASE at[2] = Full + 1 /\ Partly(id, 0) /\ reg["E"].of = Entry(id, 1)
  <2>1. Here = CALL("puthex16")
    BY <1>1, <1>5, DumpCode
  <2>2. /\ at'[1] = "puthex16" /\ at'[2] = 1 /\ Len(stack') = 2
        /\ stack'[2].to = <<"dump", (Full + 1) + 1>>
        /\ Called(id, 4)' /\ Saved(id, COUNTERS)' /\ reg' = reg /\ Partly(id, 0)'
    BY <1>4, <1>5, <2>1
  <2>3. (Full + 1) + 1 = Full + 2 /\ (1 - 1) * DIGITS + 0 = 0 /\ 1 \in 1 .. COUNTERS + 1 /\ 0 \in 0 .. DIGITS
    BY <1>2
  <2>4. Printing(id, 1, 0)'
    BY <1>5, <2>2, <2>3 DEF Printing
  <2>5. HexAt(id)'
    BY <2>2, <2>3, <2>4 DEF HexAt
  <2> QED BY <2>5
<1>6. CASE at[2] = Full + 2 /\ Partly(id, DIGITS)
  <2>1. Here = SETR("I", 1)
    BY <1>1, <1>6, DumpCode
  <2>2. Onward /\ Same /\ Keeps({"I"}) /\ reg'["I"].n = 1
    BY <1>1, <2>1, DumpRegisters, SetStep
  <2>3. Keeps({"I", "J"})
    BY <2>2 DEF Keeps
  <2>4. at'[2] = Full + 3 /\ Partly(id, DIGITS)'
    BY <1>2, <1>3, <1>6, <2>2, <2>3
  <2> QED BY <1>3, <2>2, <2>3, <2>4 DEF DumpAt
<1>7. CASE at[2] = Full + 3 /\ Partly(id, DIGITS) /\ reg["I"].n = 1
  <2>1. Here = SETR("J", COUNTERS)
    BY <1>1, <1>7, DumpCode
  <2>2. Onward /\ Same /\ Keeps({"J"}) /\ reg'["J"].n = COUNTERS
    BY <1>1, <2>1, DumpRegisters, SetStep
  <2>3. Keeps({"I", "J"}) /\ reg'["I"].n = 1
    BY <1>7, <2>2, DumpRegisters DEF Keeps
  <2>4. at'[2] = Full + 4 /\ Partly(id, 1 * DIGITS)'
    <3>1. 1 * DIGITS = DIGITS
      BY <1>2
    <3> QED BY <1>2, <1>3, <1>7, <2>2, <2>3, <3>1
  <2>5. 1 \in 1 .. COUNTERS /\ (COUNTERS + 1) - 1 = COUNTERS /\ Full + 4 # Full + 5
    BY <1>2
  <2> QED BY <1>3, <2>2, <2>3, <2>4, <2>5 DEF DumpAt
<1>8. ASSUME NEW k \in 1 .. COUNTERS, at[2] = Full + 4, Partly(id, k * DIGITS), reg["I"].n = k,
             reg["J"].n = (COUNTERS + 1) - k
      PROVE  DumpAt(id)'
  <2>1. Here = Run("reload", {})
    BY <1>1, <1>8, DumpCode
  <2>2. Onward /\ Same /\ Keeps({"E"}) /\ reg'["E"].of = scratch[k] /\ reg'["E"].n = reg["E"].n
    BY <1>1, <1>8, <2>1, ReloadStep
  <2>3. reg'["I"].n = k /\ reg'["J"].n = (COUNTERS + 1) - k /\ reg'["E"].of = Entry(id, k + 1)
    BY <1>8, <2>2, DumpRegisters DEF Keeps, Saved
  <2>4. at'[2] = Full + 5 /\ Partly(id, k * DIGITS)'
    BY <1>2, <1>3, <1>8, <2>2
  <2> QED BY <1>3, <2>2, <2>3, <2>4 DEF DumpAt
<1>9. ASSUME NEW k \in 1 .. COUNTERS, at[2] = Full + 5, Partly(id, k * DIGITS), reg["I"].n = k,
             reg["J"].n = (COUNTERS + 1) - k, reg["E"].of = Entry(id, k + 1)
      PROVE  HexAt(id)'
  <2>1. Here = CALL("puthex16")
    BY <1>1, <1>9, DumpCode
  <2>2. /\ at'[1] = "puthex16" /\ at'[2] = 1 /\ Len(stack') = 2
        /\ stack'[2].to = <<"dump", (Full + 5) + 1>>
        /\ Called(id, 4)' /\ Saved(id, COUNTERS)' /\ reg' = reg /\ Partly(id, k * DIGITS)'
    BY <1>4, <1>9, <2>1
  <2>3. PICK f \in 1 .. COUNTERS + 1 : f = k + 1
    BY <1>2
  <2>4. /\ (Full + 5) + 1 = Full + 6 /\ f - 1 = k /\ f > 1 /\ f # 1 /\ 0 \in 0 .. DIGITS
        /\ (COUNTERS + 2) - f = (COUNTERS + 1) - k
    BY <1>2, <2>3
  <2>5. (f - 1) * DIGITS + 0 = k * DIGITS
    <3>1. k * DIGITS \in Nat
      BY <1>2
    <3> QED BY <2>4, <3>1
  <2>6. Printing(id, f, 0)'
    BY <1>9, <2>2, <2>3, <2>4, <2>5 DEF Printing
  <2>7. HexAt(id)'
    BY <2>2, <2>4, <2>6 DEF HexAt
  <2> QED BY <2>7
<1>10. ASSUME NEW k \in 1 .. COUNTERS, at[2] = Full + 6, Partly(id, (k + 1) * DIGITS), reg["I"].n = k,
              reg["J"].n = (COUNTERS - k) + 1
       PROVE  DumpAt(id)'
  <2>1. Here = ADDV("I", 1)
    BY <1>1, <1>10, DumpCode
  <2>2. Onward /\ Same /\ Keeps({"I"}) /\ reg'["I"].n = k + 1
    BY <1>1, <1>10, <2>1, DumpRegisters, AddStep
  <2>3. Keeps({"I", "J"}) /\ reg'["J"].n = (COUNTERS - k) + 1
    BY <1>10, <2>2, DumpRegisters DEF Keeps
  <2>4. at'[2] = Full + 7 /\ Partly(id, (k + 1) * DIGITS)' /\ Full + 7 # Full + 6 /\ Full + 7 # Full + 8
    BY <1>2, <1>3, <1>10, <2>2, <2>3
  <2> QED BY <1>3, <2>2, <2>3, <2>4 DEF DumpAt
<1>11. ASSUME NEW k \in 1 .. COUNTERS, at[2] = Full + 7, Partly(id, (k + 1) * DIGITS), reg["I"].n = k + 1,
              reg["J"].n = (COUNTERS - k) + 1
       PROVE  DumpAt(id)'
  <2>1. Here = ADDV("J", -1)
    BY <1>1, <1>11, DumpCode
  <2>2. Onward /\ Same /\ Keeps({"J"}) /\ reg'["J"].n = ((COUNTERS - k) + 1) + (-1)
    BY <1>1, <1>11, <2>1, DumpRegisters, AddStep
  <2>3. Keeps({"I", "J"}) /\ reg'["I"].n = k + 1
    BY <1>11, <2>2, DumpRegisters DEF Keeps
  <2>4. at'[2] = Full + 8 /\ Partly(id, (k + 1) * DIGITS)' /\ Full + 8 # Full + 6
        /\ reg'["J"].n = (COUNTERS - k) + 0
    BY <1>2, <1>3, <1>11, <2>2, <2>3
  <2> QED BY <1>3, <2>2, <2>3, <2>4 DEF DumpAt
<1>12. ASSUME NEW k \in 1 .. COUNTERS, at[2] = Full + 8, Partly(id, (k + 1) * DIGITS), reg["I"].n = k + 1,
              reg["J"].n = (COUNTERS - k) + 0
       PROVE  DumpAt(id)'
  <2>1. Here = JMPNZ("J", Full + 4)
    BY <1>1, <1>12, DumpCode
  <2>2. Goes(IF reg["J"].n # 0 THEN Full + 4 ELSE at[2] + 1)
    BY <2>1, JumpStep
  <2>3. /\ at'[1] = "dump" /\ at'[2] = (IF k # COUNTERS THEN Full + 4 ELSE Full + 9)
        /\ Len(stack') = 1 /\ reg' = reg /\ stack' = stack /\ Same
    <3>1. reg["J"].n # 0 <=> k # COUNTERS
      BY <1>2, <1>12
    <3>2. at[2] + 1 = Full + 9
      BY <1>2, <1>12
    <3> QED BY <1>1, <2>2, <3>1, <3>2 DEF Goes, Still
  <2>4. Called(id, 4)' /\ Saved(id, COUNTERS)' /\ Partly(id, (k + 1) * DIGITS)'
    BY <1>12, <2>3, SavedStays, PartlyStays DEF Called, Same
  <2>5. CASE k # COUNTERS
    <3>1. PICK l \in 1 .. COUNTERS : l = k + 1
      BY <1>2, <2>5
    <3>2. (COUNTERS + 1) - l = (COUNTERS - k) + 0 /\ Full + 4 # Full + 5
      BY <1>2, <3>1
    <3> QED BY <1>12, <2>3, <2>4, <2>5, <3>1, <3>2 DEF DumpAt
  <2>6. CASE k = COUNTERS
    <3>1. Partly(id, LineLen)'
      BY <2>4, <2>6 DEF LineLen
    <3> QED BY <2>3, <2>4, <2>6, <3>1 DEF DumpAt
  <2> QED BY <2>5, <2>6
<1>13. CASE at[2] = Full + 9 /\ Partly(id, LineLen)
  <2>1. Here = CALL("crlf")
    BY <1>1, <1>13, DumpCode
  <2>2. /\ at'[1] = "crlf" /\ at'[2] = 1 /\ Len(stack') = 2
        /\ stack'[2].to = <<"dump", (Full + 9) + 1>> /\ Called(id, 4)' /\ Partly(id, LineLen)'
    BY <1>4, <1>13, <2>1
  <2>3. (Full + 9) + 1 = Full + 10
    BY <1>2
  <2>4. CrlfAt(id)'
    BY <2>2, <2>3 DEF CrlfAt
  <2> QED BY <2>4
<1>14. ASSUME NEW k \in 1 .. COUNTERS,
              \/ /\ at[2] \in {Full + 4, Full + 5} /\ Partly(id, k * DIGITS)
                 /\ reg["I"].n = k /\ reg["J"].n = (COUNTERS + 1) - k
                 /\ at[2] = Full + 5 => reg["E"].of = Entry(id, k + 1)
              \/ /\ at[2] \in {Full + 6, Full + 7, Full + 8} /\ Partly(id, (k + 1) * DIGITS)
                 /\ reg["I"].n = k + (IF at[2] = Full + 6 THEN 0 ELSE 1)
                 /\ reg["J"].n = (COUNTERS - k) + (IF at[2] = Full + 8 THEN 0 ELSE 1)
       PROVE  DumpAt(id)' \/ HexAt(id)'
  <2>1. CASE at[2] \in {Full + 4, Full + 5} /\ Partly(id, k * DIGITS)
             /\ reg["I"].n = k /\ reg["J"].n = (COUNTERS + 1) - k
             /\ (at[2] = Full + 5 => reg["E"].of = Entry(id, k + 1))
    BY <1>8, <1>9, <2>1
  <2>2. CASE /\ at[2] \in {Full + 6, Full + 7, Full + 8} /\ Partly(id, (k + 1) * DIGITS)
             /\ reg["I"].n = k + (IF at[2] = Full + 6 THEN 0 ELSE 1)
             /\ reg["J"].n = (COUNTERS - k) + (IF at[2] = Full + 8 THEN 0 ELSE 1)
    <3>1. Full + 6 # Full + 8 /\ Full + 7 # Full + 6 /\ Full + 7 # Full + 8 /\ k + 0 = k
      BY <1>2
    <3>2. CASE at[2] = Full + 6
      BY <1>10, <2>2, <3>1, <3>2
    <3>3. CASE at[2] = Full + 7
      BY <1>11, <2>2, <3>1, <3>3
    <3>4. CASE at[2] = Full + 8
      BY <1>12, <2>2, <3>1, <3>4
    <3> QED BY <2>2, <3>2, <3>3, <3>4
  <2> QED BY <1>14, <2>1, <2>2
<1> QED BY <1>5, <1>6, <1>7, <1>13, <1>14

LEMMA DumpStep ==
  ASSUME ControlInv, StoreInv, ProbeNext, NEW id \in 1 .. 6, DumpAt(id)
  PROVE  DumpAt(id)' \/ HexAt(id)' \/ CrlfAt(id)' \/ AllDone' \/ \E j \in 1 .. 6 : MainAt(j)'
<1>1. CASE at[2] = Full + 10 /\ Ready(id + 1)
  <2>1. /\ Here = dump[at[2]] /\ Len(stack) = 1 /\ Called(id, 4)
    BY Standing, CodeOf DEF DumpAt
  <2>2. Here = RET
    BY <1>1, <2>1, DumpCode
  <2>3. at' = <<"main", First[id] + 4>> /\ Len(stack') = 0 /\ Same
    BY <2>1, <2>2, BackToMain
  <2>4. Ready(id + 1)'
    BY <1>1, <2>3, ReadyStays DEF Same
  <2>5. CASE id = 6
    <3>1. Ready(7)' /\ at' = <<"main", 26>>
      BY <2>3, <2>4, <2>5, FirstIs
    <3>2. AllDone'
      BY <2>3, <3>1 DEF AllDone
    <3> QED BY <3>2
  <2>6. CASE id # 6
    <3>1. PICK j \in 1 .. 6 : j = id + 1
      BY <2>6
    <3>2. at'[2] = First[j] \/ (j = 3 /\ at'[2] = 9)
      <4>1. id \in {1, 2, 3, 4, 5}
        BY <2>6
      <4>2. at'[2] = First[id] + 4
        BY <2>3
      <4> QED BY <3>1, <4>1, <4>2, FirstIs
    <3>3. MainAt(j)'
      BY <2>3, <2>4, <3>1, <3>2 DEF MainAt
    <3> QED BY <3>3
  <2> QED BY <2>5, <2>6
<1>2. CASE ~(at[2] = Full + 10 /\ Ready(id + 1))
  BY <1>2, DumpReads, DumpPrints DEF DumpAt
<1> QED BY <1>1, <1>2

\* One character more of the line.
LEMMA PrintedMore ==
  ASSUME NEW id \in 1 .. 6, NEW line, NEW n, NEW f \in 1 .. COUNTERS + 1, NEW q \in Nat, q < DIGITS,
         Printed(id, line, (f - 1) * DIGITS + q, n),
         NEW c, c = [n |-> n, of |-> Entry(id, f), shift |-> DIGITS - (q + 1)]
  PROVE  Printed(id, Append(line, c), (f - 1) * DIGITS + (q + 1), n)
<1> DEFINE o == (f - 1) * DIGITS
           t == Append(line, c)
<1>1. COUNTERS \in Nat \ {0} /\ DIGITS \in Nat \ {0} /\ q + 1 \in 1 .. DIGITS
  BY FullIs
<1>2. o \in Nat
  BY <1>1, PlaceIn
<1>3. /\ Sequence(t) /\ Len(t) = Len(line) + 1 /\ Len(line) = o + q
      /\ (\A k \in 1 .. Len(line) : t[k] = line[k]) /\ t[Len(line) + 1] = c
  BY Pushing DEF Printed
<1> HIDE DEF t
<1>4. ASSUME NEW g \in 1 .. COUNTERS + 1, NEW i \in 1 .. DIGITS, (g - 1) * DIGITS + i <= o + (q + 1)
      PROVE  t[(g - 1) * DIGITS + i] = [n |-> n, of |-> Entry(id, g), shift |-> DIGITS - i]
  <2>1. PICK p \in Nat : p = (g - 1) * DIGITS
    BY <1>1, PlaceIn
  <2>2. CASE p + i <= o + q
    <3>1. p + i \in 1 .. Len(line)
      BY <1>1, <1>2, <1>3, <2>1, <2>2
    <3>2. line[p + i] = [n |-> n, of |-> Entry(id, g), shift |-> DIGITS - i]
      BY <2>1, <2>2 DEF Printed
    <3> QED BY <1>3, <2>1, <3>1, <3>2
  <2>3. CASE ~(p + i <= o + q)
    <3>1. p + i = o + (q + 1)
      BY <1>1, <1>2, <1>4, <2>1, <2>3
    <3>2. g - 1 \in Nat /\ f - 1 \in Nat
      OBVIOUS
    <3>3. g - 1 = f - 1 /\ i = q + 1
      BY <1>1, <2>1, <3>1, <3>2, PlaceUnique
    <3>4. g = f
      BY <3>3
    <3>5. p + i = Len(line) + 1
      BY <1>1, <1>2, <1>3, <3>1
    <3> QED BY <1>3, <2>1, <3>3, <3>4, <3>5
  <2> QED BY <2>2, <2>3
<1>5. Len(t) = o + (q + 1)
  BY <1>1, <1>2, <1>3
<1> QED BY <1>3, <1>4, <1>5 DEF Printed, t

LEMMA PrintingStays ==
  ASSUME NEW id, NEW f, NEW q, Printing(id, f, q), stack'[1] = stack[1], stack'[2] = stack[2],
         scratch' = scratch, lines' = lines, reg'["E"] = reg["E"], reg'["I"] = reg["I"],
         reg'["J"] = reg["J"]
  PROVE  Printing(id, f, q)'
BY SavedStays, PartlyStays DEF Printing, Called

\* The digits of a value, from the highest (gen_probe.py:111-127).
LEMMA HexStep ==
  ASSUME ControlInv, StoreInv, ProbeNext, NEW id \in 1 .. 6, HexAt(id)
  PROVE  HexAt(id)' \/ PutAt(id)' \/ DumpAt(id)'
<1>1. /\ at = <<"puthex16", at[2]>> /\ Here = puthex16[at[2]] /\ AllWords /\ Sequence(stack)
      /\ Len(stack) = 2
  BY Standing, CodeOf DEF HexAt
<1>2. COUNTERS \in Nat \ {0} /\ DIGITS \in Nat \ {0}
  BY FullIs
<1>3. PICK f \in 1 .. COUNTERS + 1, q \in 0 .. DIGITS :
       /\ Printing(id, f, q)
       /\ \/ at[2] = 1 /\ q = 0
          \/ at[2] = 2 /\ q < DIGITS /\ reg["F"].n = DIGITS - q
          \/ at[2] = 3 /\ q < DIGITS /\ reg["F"].n = DIGITS - (q + 1)
          \/ at[2] = 4 /\ q < DIGITS /\ reg["F"].n = DIGITS - (q + 1) /\ InA(id, f, q)
          \/ at[2] = 5 /\ reg["F"].n = DIGITS - q
          \/ at[2] = 6 /\ q = DIGITS
  BY DEF HexAt
\* What a step that goes on, or back, within the routine leaves.
<1>4. ASSUME stack' = stack, at'[1] = "puthex16", Same, Keeps({"A", "F", "H"})
      PROVE  Printing(id, f, q)' /\ Len(stack') = 2
  BY <1>1, <1>3, <1>4, PrintingStays, DumpRegisters DEF Same, Keeps
<1>5. CASE at[2] = 1 /\ q = 0
  <2>1. Here = SETR("F", DIGITS)
    BY <1>1, <1>5, SmallCode
  <2>2. Onward /\ Same /\ Keeps({"F"}) /\ reg'["F"].n = DIGITS
    BY <1>1, <2>1, DumpRegisters, SetStep
  <2>3. Keeps({"A", "F", "H"})
    BY <2>2 DEF Keeps
  <2>4. at'[1] = "puthex16" /\ at'[2] = 2 /\ stack' = stack
    BY <1>1, <1>5, <2>2 DEF Onward
  <2>5. q < DIGITS /\ reg'["F"].n = DIGITS - q
    BY <1>2, <1>5, <2>2
  <2> QED BY <1>4, <2>2, <2>3, <2>4, <2>5 DEF HexAt
<1>6. CASE at[2] = 2 /\ q < DIGITS /\ reg["F"].n = DIGITS - q
  <2>1. Here = ADDV("F", -1)
    BY <1>1, <1>6, SmallCode
  <2>2. Onward /\ Same /\ Keeps({"F"}) /\ reg'["F"].n = (DIGITS - q) + (-1)
    BY <1>1, <1>6, <2>1, DumpRegisters, AddStep
  <2>3. Keeps({"A", "F", "H"})
    BY <2>2 DEF Keeps
  <2>4. at'[1] = "puthex16" /\ at'[2] = 3 /\ stack' = stack
    BY <1>1, <1>6, <2>2 DEF Onward
  <2>5. reg'["F"].n = DIGITS - (q + 1)
    BY <1>2, <2>2
  <2> QED BY <1>4, <1>6, <2>2, <2>3, <2>4, <2>5 DEF HexAt
<1>7. CASE at[2] = 3 /\ q < DIGITS /\ reg["F"].n = DIGITS - (q + 1)
  <2>1. Here = Run("digit", {"A", "H"}) /\ {"A", "H"} \in SUBSET Registers
    BY <1>1, <1>7, SmallCode, DumpRegisters
  <2>2. /\ Onward /\ Same /\ Keeps({"A", "H"} \cup {"A"})
        /\ reg'["A"] = [n |-> reg["E"].n, of |-> reg["E"].of, shift |-> DIGITS - (q + 1)]
    BY <1>1, <1>7, <2>1, DigitStep
  <2>3. Keeps({"A", "F", "H"}) /\ reg'["E"] = reg["E"] /\ reg'["F"] = reg["F"]
    BY <2>2, DumpRegisters DEF Keeps
  <2>4. at'[1] = "puthex16" /\ at'[2] = 4 /\ stack' = stack
    BY <1>1, <1>7, <2>2 DEF Onward
  <2>5. InA(id, f, q)'
    BY <1>3, <2>2, <2>3 DEF InA, Printing, Entry, Tally
  <2> QED BY <1>4, <1>7, <2>2, <2>3, <2>4, <2>5 DEF HexAt
<1>8. CASE at[2] = 4 /\ q < DIGITS /\ reg["F"].n = DIGITS - (q + 1) /\ InA(id, f, q)
  <2>1. Here = CALL("putc")
    BY <1>1, <1>8, SmallCode
  <2>2. /\ at' = <<"putc", 1>> /\ reg' = reg /\ Same
        /\ Higher([to |-> <<at[1], at[2] + 1>>, val |-> Lost])
    BY <1>1, <2>1, CallStep
  <2>3. /\ Len(stack') = 3 /\ stack'[3].to = <<"puthex16", 5>>
        /\ stack'[1] = stack[1] /\ stack'[2] = stack[2]
    BY <1>1, <1>8, <2>2 DEF Higher
  <2>4. Printing(id, f, q)' /\ InA(id, f, q)'
    BY <1>3, <1>8, <2>2, <2>3, PrintingStays DEF Same, InA, Entry, Tally
  <2> QED BY <1>8, <2>2, <2>3, <2>4 DEF PutAt
<1>9. CASE at[2] = 5 /\ reg["F"].n = DIGITS - q
  <2>1. Here = JMPNZ("F", 2)
    BY <1>1, <1>9, SmallCode
  <2>2. Goes(IF reg["F"].n # 0 THEN 2 ELSE at[2] + 1)
    BY <2>1, JumpStep
  <2>3. /\ at'[1] = "puthex16" /\ at'[2] = (IF q # DIGITS THEN 2 ELSE 6)
        /\ reg' = reg /\ stack' = stack /\ Same
    <3>1. reg["F"].n # 0 <=> q # DIGITS
      BY <1>2, <1>9
    <3>2. at[2] + 1 = 6
      BY <1>9
    <3> QED BY <1>1, <2>2, <3>1, <3>2 DEF Goes, Still
  <2>4. Printing(id, f, q)' /\ Len(stack') = 2
    BY <1>4, <2>3 DEF Keeps
  <2>5. q # DIGITS => q < DIGITS
    BY <1>2
  <2> QED BY <1>9, <2>3, <2>4, <2>5 DEF HexAt
<1>10. CASE at[2] = 6 /\ q = DIGITS
  <2>1. Here = RET
    BY <1>1, <1>10, SmallCode
  <2>2. at' = stack[2].to /\ reg' = reg /\ Same /\ Lower
    BY <1>1, <2>1, RetStep
  <2>3. Len(stack') = 1 /\ stack'[1] = stack[1]
    BY <1>1, <2>2 DEF Lower
  <2>4. PICK g \in Nat : g = f - 1
    BY <1>2
  <2>5. (f - 1) * DIGITS + q = (g + 1) * DIGITS
    BY <1>2, <1>10, <2>4
  <2>6. Called(id, 4)' /\ Saved(id, COUNTERS)' /\ Partly(id, (g + 1) * DIGITS)'
    BY <1>3, <2>2, <2>3, <2>5, SavedStays, PartlyStays DEF Printing, Called, Same
  <2>7. CASE f = 1
    <3>1. at' = <<"dump", Full + 2>>
      BY <1>3, <2>2, <2>7 DEF Printing
    <3>2. (g + 1) * DIGITS = DIGITS
      BY <1>2, <2>4, <2>7
    <3> QED BY <2>3, <2>6, <3>1, <3>2 DEF DumpAt
  <2>8. CASE f # 1
    <3>1. g \in 1 .. COUNTERS /\ f > 1 /\ (COUNTERS + 2) - f = (COUNTERS - g) + 1
      BY <1>2, <2>4, <2>8
    <3>2. at' = <<"dump", Full + 6>> /\ reg'["I"].n = g + 0 /\ reg'["J"].n = (COUNTERS - g) + 1
      BY <1>3, <2>2, <2>4, <3>1 DEF Printing
    <3>3. Full + 6 # Full + 8
      BY FullIs
    <3> QED BY <2>3, <2>6, <3>1, <3>2, <3>3 DEF DumpAt
  <2> QED BY <2>7, <2>8
<1> QED BY <1>3, <1>5, <1>6, <1>7, <1>8, <1>9, <1>10

\* A character goes to the end of the line and nowhere else (gen_probe.py:99-109).
LEMMA CharStep ==
  ASSUME ControlInv, StoreInv, ProbeNext, NEW id \in 1 .. 6, PutAt(id)
  PROVE  PutAt(id)' \/ HexAt(id)'
<1>1. /\ at = <<"putc", at[2]>> /\ Here = putc[at[2]] /\ AllWords /\ Sequence(stack)
      /\ Len(stack) = 3 /\ stack[3].to = <<"puthex16", 5>>
  BY Standing, CodeOf DEF PutAt
<1>2. COUNTERS \in Nat \ {0} /\ DIGITS \in Nat \ {0}
  BY FullIs
<1>3. PICK f \in 1 .. COUNTERS + 1, q \in 0 .. DIGITS :
       /\ Printing(id, f, q)
       /\ \/ at[2] = 1 /\ q < DIGITS /\ reg["F"].n = DIGITS - (q + 1) /\ InA(id, f, q)
          \/ at[2] = 2 /\ reg["F"].n = DIGITS - q
  BY DEF PutAt
<1>4. CASE at[2] = 1 /\ q < DIGITS /\ reg["F"].n = DIGITS - (q + 1) /\ InA(id, f, q)
  <2>1. Here = Run("putc", {"B", "C"}) /\ {"B", "C"} \in SUBSET Registers
    BY <1>1, <1>4, SmallCode, DumpRegisters
  <2>2. /\ Onward /\ scratch' = scratch /\ Keeps({"B", "C"})
        /\ lines' = [lines EXCEPT ![Len(lines)] = Append(@, reg["A"])]
    BY <1>1, <2>1, PutStep
  <2>3. /\ reg'["E"] = reg["E"] /\ reg'["F"] = reg["F"] /\ reg'["I"] = reg["I"] /\ reg'["J"] = reg["J"]
    BY <2>2, DumpRegisters DEF Keeps
  <2>4. at'[1] = "putc" /\ at'[2] = 2 /\ stack' = stack
    BY <1>1, <1>4, <2>2 DEF Onward
  <2> DEFINE m == (f - 1) * DIGITS + q
             e == reg["E"].n
  <2>5. LinesDone(id) /\ Printed(id, lines[id], m, e) /\ reg["E"].of = Entry(id, f)
    BY <1>3 DEF Printing, Partly
  <2>6. reg["A"] = [n |-> e, of |-> Entry(id, f), shift |-> DIGITS - (q + 1)]
    BY <1>4 DEF InA
  <2> HIDE DEF e
  <2>7. Printed(id, Append(lines[id], reg["A"]), (f - 1) * DIGITS + (q + 1), e)
    BY <1>4, <2>5, <2>6, PrintedMore
  <2>8. Sequence(lines) /\ Len(lines) = id /\ DOMAIN lines = 1 .. id
    BY <2>5, SequenceParts DEF LinesDone
  <2>9. /\ lines'[id] = Append(lines[id], reg["A"]) /\ \A j \in 1 .. id - 1 : lines'[j] = lines[j]
    BY <2>2, <2>8
  <2>10. Sequence(lines') /\ Len(lines') = id
    <3> DEFINE S == {lines'[i] : i \in 1 .. id}
    <3>1. lines' = [i \in 1 .. id |-> lines'[i]] /\ DOMAIN lines' = 1 .. id
      BY <2>2, <2>8
    <3>2. lines' \in [1 .. id -> S]
      BY <3>1
    <3> HIDE DEF S
    <3>3. lines' \in Seq(S) /\ Len(lines') = id
      BY <3>1, <3>2
    <3> QED BY <3>3, IsSequence
  <2>11. LinesDone(id)'
    <3>1. \A j \in 1 .. id - 1 : \E n : Printed(j, lines[j], LineLen, n)
      BY <2>5 DEF LinesDone
    <3>2. \A j \in 1 .. id - 1 : \E n : Printed(j, lines'[j], LineLen, n)
      BY Zenon, <2>9, <3>1
    <3> QED BY <2>10, <3>2 DEF LinesDone, Printed, Entry, Tally, LineLen
  <2>12. Partly(id, (f - 1) * DIGITS + (q + 1))'
    BY <2>3, <2>7, <2>9, <2>11 DEF Partly, e
  <2>13. PICK p \in 0 .. DIGITS : p = q + 1
    BY <1>2, <1>4
  <2>14. Printing(id, f, p)'
    BY <1>3, <2>2, <2>3, <2>4, <2>12, <2>13, SavedStays DEF Printing, Called
  <2>15. reg'["F"].n = DIGITS - p
    BY <1>4, <2>3, <2>13
  <2> QED BY <1>1, <2>4, <2>14, <2>15 DEF PutAt
<1>5. CASE at[2] = 2 /\ reg["F"].n = DIGITS - q
  <2>1. Here = RET
    BY <1>1, <1>5, SmallCode
  <2>2. at' = <<"puthex16", 5>> /\ reg' = reg /\ Same /\ Lower
    BY <1>1, <2>1, RetStep
  <2>3. Len(stack') = 2 /\ stack'[1] = stack[1] /\ stack'[2] = stack[2]
    BY <1>1, <2>2 DEF Lower
  <2>4. Printing(id, f, q)'
    BY <1>3, <2>2, <2>3, PrintingStays DEF Same
  <2> QED BY <1>5, <2>2, <2>3, <2>4 DEF HexAt
<1> QED BY <1>3, <1>4, <1>5

\* The line ends, and the next is empty (gen_probe.py:129-135).
LEMMA LineEndStep ==
  ASSUME ControlInv, StoreInv, ProbeNext, NEW id \in 1 .. 6, CrlfAt(id)
  PROVE  CrlfAt(id)' \/ DumpAt(id)'
<1>1. /\ at = <<"crlf", at[2]>> /\ Here = crlf[at[2]] /\ AllWords /\ Sequence(stack)
      /\ Len(stack) = 2 /\ stack[2].to = <<"dump", Full + 10>> /\ Called(id, 4)
  BY Standing, CodeOf DEF CrlfAt
<1>2. CASE at[2] = 1 /\ Partly(id, LineLen)
  <2>1. Here = Run("newline", {"A", "B", "C"})
    BY <1>1, <1>2, SmallCode
  <2>2. Onward /\ lines' = Append(lines, <<>>)
    BY <1>1, <2>1, NewLineStep
  <2>3. at'[1] = "crlf" /\ at'[2] = 2 /\ stack' = stack
    BY <1>1, <1>2, <2>2 DEF Onward
  <2>4. LinesDone(id) /\ Printed(id, lines[id], LineLen, reg["E"].n)
    BY <1>2 DEF Partly
  <2>5. /\ Sequence(lines') /\ Len(lines') = id + 1 /\ lines'[id + 1] = <<>>
        /\ \A j \in 1 .. id : lines'[j] = lines[j]
    BY <2>2, <2>4, Pushing DEF LinesDone
  <2>6. ASSUME NEW j \in 1 .. id PROVE \E n : Printed(j, lines'[j], LineLen, n)
    <3>1. CASE j = id
      BY <2>4, <2>5, <3>1
    <3>2. CASE j # id
      <4>1. j \in 1 .. id - 1
        BY <3>2
      <4> QED BY <2>4, <2>5, <4>1 DEF LinesDone
    <3> QED BY <3>1, <3>2
  <2>7. (id + 1) - 1 = id
    OBVIOUS
  <2>8. Ready(id + 1)'
    BY <2>5, <2>6, <2>7 DEF Ready, LinesDone, Printed, Entry, Tally, LineLen
  <2> QED BY <1>1, <2>3, <2>8 DEF CrlfAt, Called
<1>3. CASE at[2] = 2 /\ Ready(id + 1)
  <2>1. Here = RET
    BY <1>1, <1>3, SmallCode
  <2>2. at' = <<"dump", Full + 10>> /\ Same /\ Lower
    BY <1>1, <2>1, RetStep
  <2>3. Len(stack') = 1 /\ stack'[1] = stack[1]
    BY <1>1, <2>2 DEF Lower
  <2>4. Ready(id + 1)' /\ Called(id, 4)'
    BY <1>1, <1>3, <2>2, <2>3, ReadyStays DEF Same, Called
  <2> QED BY <2>2, <2>3, <2>4 DEF DumpAt
<1> QED BY <1>2, <1>3 DEF CrlfAt

\* What is copied and pushed is a register, and only main's end halts.
LEMMA HereFits ==
  ASSUME ControlInv
  PROVE  /\ Here.do = "copy" => Here.from \in Registers
         /\ Here.do = "push" => Here.reg \in Registers
         /\ Here.do = "halt" => at = <<"main", 26>>
<1>1. at = <<at[1], at[2]>> /\ Here = Code[at[1]][at[2]] /\ (InMain \/ InNested \/ InLeaf)
  BY DEF ControlInv, Here
<1>2. CASE InMain
  <2>1. Here = Main[at[2]] /\ at[2] \in 1 .. 26 /\ at[1] = "main"
    BY <1>1, <1>2, CodeOf DEF InMain
  <2>2. CASE at[2] = 26
    BY <1>1, <2>1, <2>2, MainCalls DEF HALT
  <2>3. CASE at[2] # 26
    <3>1. Here.do \in {"call", "set"}
      <4>1. at[2] \in 1 .. 25
        BY <2>1, <2>3
      <4> QED BY <2>1, <4>1, MainCalls DEF Plain, CALL
    <3> QED BY <3>1
  <2> QED BY <2>2, <2>3
<1>3. CASE InNested
  <2>1. at[1] \in Nested /\ at[2] \in 1 .. Len(Code[at[1]])
    BY <1>3 DEF InNested, Placed
  <2>2. Fits(at[1], at[2])
    BY <2>1, CodeFits
  <2> QED BY <1>1, <2>2 DEF Fits
<1>4. CASE InLeaf
  <2>1. at[1] \in Leaves /\ at[2] \in 1 .. Len(Code[at[1]])
    BY <1>4 DEF InLeaf
  <2> QED BY <1>1, <2>1, LeafFits
<1> QED BY <1>1, <1>2, <1>3, <1>4

LEMMA StoreNext == ASSUME ChaseInv, StoreInv, ProbeNext PROVE StoreInv'
<1>1. /\ ControlInv /\ Sequence(stack) /\ reg = [r \in Registers |-> reg[r]]
      /\ buf = [w \in Words |-> buf[w]]
  BY DEF ChaseInv, ControlInv, DataInv, Framed
<1>2. reg' = [r \in Registers |-> reg'[r]]
  BY <1>1, StepShape
<1> QED BY <1>1, <1>2, HereFits, StoreStep

LEMMA MeasureStep ==
  ASSUME ControlInv, StoreInv, ProbeNext, NEW id \in 1 .. 6, Measuring(id)
  PROVE  AllDone' \/ \E j \in 1 .. 6 : Measuring(j)'
<1>1. CASE MainAt(id)
  BY <1>1, MainStep DEF Measuring
<1>2. CASE PermAt(id)
  BY <1>2, PermStep DEF Measuring
<1>3. CASE ClearAt(id)
  BY <1>3, ClearsStep DEF Measuring
<1>4. CASE KernelAt(id)
  <2>1. id = 1 \/ id = 2 \/ id = 3 \/ id = 4 \/ id = 5 \/ id = 6
    OBVIOUS
  <2>2. KernelAt(id)' \/ FibAt(id)' \/ MainAt(id)'
    <3>1. CASE id = 1
      BY <1>4, <3>1, AluStep
    <3>2. CASE id = 2
      BY <1>4, <3>2, MemStep
    <3>3. CASE id = 3
      BY <1>4, <3>3, ChasesStep
    <3>4. CASE id = 4
      BY <1>4, <3>4, BranchStep
    <3>5. CASE id = 5
      BY <1>4, <3>5, FibTopStep
    <3>6. CASE id = 6
      BY <1>4, <3>6, MuldivStep
    <3> QED BY <2>1, <3>1, <3>2, <3>3, <3>4, <3>5, <3>6
  <2> QED BY <2>2 DEF Measuring
<1>5. CASE FibAt(id)
  <2>1. id = 5
    BY <1>5 DEF FibAt
  <2>2. FibAt(id)' \/ KernelAt(id)'
    BY <1>5, <2>1, FibStep
  <2> QED BY <2>2 DEF Measuring
<1>6. CASE DumpAt(id)
  BY <1>6, DumpStep DEF Measuring
<1>7. CASE HexAt(id)
  BY <1>7, HexStep DEF Measuring
<1>8. CASE PutAt(id)
  BY <1>8, CharStep DEF Measuring
<1>9. CASE CrlfAt(id)
  BY <1>9, LineEndStep DEF Measuring
<1> QED BY <1>1, <1>2, <1>3, <1>4, <1>5, <1>6, <1>7, <1>8, <1>9 DEF Measuring

\* The probe has halted: there is no step.
LEMMA DoneStays == ASSUME AllDone PROVE ~ProbeNext
<1>1. Here = HALT
  BY MainCalls, CodeOf DEF AllDone, Here
<1>2. Here.do = "halt"
  BY <1>1 DEF HALT
<1> QED BY <1>2, StepControl DEF Jumps

LEMMA RowStart == ProbeInit => RowInv
<1> SUFFICES ASSUME ProbeInit PROVE RowInv
  OBVIOUS
<1>1. IsWord(Lost)
  BY DEF Lost, Word, IsWord
<1>2. /\ at = <<"main", 1>> /\ reg = [r \in Registers |-> Lost] /\ stack = <<>>
      /\ scratch = [k \in 1 .. COUNTERS |-> Counts] /\ lines = <<<<>>>>
  BY DEF ProbeInit
<1>3. StoreInv
  <2>1. AllWords
    BY <1>1, <1>2 DEF AllWords
  <2>2. scratch = [k \in 1 .. COUNTERS |-> scratch[k]]
    BY <1>2
  <2>3. \A k \in 1 .. Len(stack) : IsWord(stack[k].val)
    BY <1>2, EmptySeq
  <2> QED BY <2>1, <2>2, <2>3 DEF StoreInv
<1>4. Sequence(lines) /\ Len(lines) = 1 /\ lines[1] = <<>>
  <2>1. lines \in Seq({<<>>}) /\ Len(lines) = 1 /\ lines[1] = <<>>
    BY <1>2
  <2> QED BY <2>1, IsSequence
<1>5. Ready(1)
  BY <1>4 DEF Ready, LinesDone
<1>6. MainAt(1)
  BY <1>2, <1>5, FirstIs, EmptySeq DEF MainAt
<1> QED BY <1>3, <1>6 DEF RowInv, Measuring

LEMMA RowNext ==
  ASSUME ChaseInv, RowInv, [ProbeNext]_probeVars
  PROVE  RowInv'
<1>1. CASE ProbeNext
  <2>1. StoreInv /\ ControlInv /\ StoreInv'
    BY <1>1, StoreNext DEF RowInv, ChaseInv
  <2>2. AllDone' \/ \E j \in 1 .. 6 : Measuring(j)'
    BY <1>1, <2>1, DoneStays, MeasureStep DEF RowInv
  <2> QED BY <2>1, <2>2 DEF RowInv
<1>2. CASE UNCHANGED probeVars
  <2>1. UNCHANGED <<at, reg, stack, buf, scratch, perf, lines, visited>>
    BY <1>2 DEF probeVars
  <2>2. StoreInv' /\ (AllDone => AllDone')
    BY <2>1 DEF RowInv, StoreInv, AllWords, AllDone, Ready, LinesDone, Printed
  <2>3. ASSUME NEW id \in 1 .. 6, Measuring(id) PROVE Measuring(id)'
    <3>1. (Ready(id) => Ready(id)') /\ (Ready(id + 1) => Ready(id + 1)')
      BY <2>1, ReadyStays
    <3>2. \A len : Partly(id, len) => Partly(id, len)'
      BY <2>1, PartlyStays
    <3>3. \A m : Saved(id, m) => Saved(id, m)'
      BY <2>1, SavedStays
    <3>4. \A f, q : Printing(id, f, q) => Printing(id, f, q)'
      BY <2>1, PrintingStays
    <3>5. \A n : Called(id, n) => Called(id, n)'
      BY <2>1 DEF Called
    <3>6. (MainAt(id) => MainAt(id)') /\ (PermAt(id) => PermAt(id)') /\ (ClearAt(id) => ClearAt(id)')
      BY <2>1, <3>1, <3>5 DEF MainAt, PermAt, ClearAt
    <3>7. KernelAt(id) => KernelAt(id)'
      <4>1. \A b, i, l, from, n : Loop(b, i, l, from, n) => Loop(b, i, l, from, n)'
        BY <2>1 DEF Loop
      <4>2. MemLoop => MemLoop'
        BY <2>1 DEF MemLoop, Pass
      <4> QED BY <2>1, <3>1, <3>5, <4>1, <4>2 DEF KernelAt
    <3>8. FibAt(id) => FibAt(id)'
      <4>1. FibPlace => FibPlace'
        BY <2>1 DEF FibPlace, FibTop, AfterPush
      <4>2. Left' = Left /\ perf' = perf /\ stack' = stack
        BY <2>1 DEF Left, FibTop
      <4>3. \A u : Owed(u) => Owed(u)'
        BY <2>1 DEF Owed, Owes
      <4>4. \A k : FibEntry(k) => FibEntry(k)'
        BY <2>1 DEF FibEntry
      <4> HIDE DEF Left
      <4>5. ASSUME FibAt(id)
            PROVE  \E w \in Nat : \E u : /\ perf' = Tally(w, 0) /\ Owed(u)'
                                         /\ w + Left' + u[Len(stack')] = FibAdds[FIB]
        BY <4>2, <4>3, <4>5 DEF FibAt
      <4> QED BY <2>1, <3>1, <3>5, <4>1, <4>4, <4>5 DEF FibAt
    <3>9. DumpAt(id) => DumpAt(id)'
      BY <2>1, <3>1, <3>2, <3>3, <3>5 DEF DumpAt
    <3>10. (HexAt(id) => HexAt(id)') /\ (PutAt(id) => PutAt(id)')
      BY <2>1, <3>4 DEF HexAt, PutAt, InA
    <3>11. CrlfAt(id) => CrlfAt(id)'
      BY <2>1, <3>1, <3>2, <3>5 DEF CrlfAt
    <3> QED BY <2>3, <3>6, <3>7, <3>8, <3>9, <3>10, <3>11 DEF Measuring
  <2> QED BY <2>2, <2>3 DEF RowInv
<1> QED BY <1>1, <1>2

\* At the halt the six lines are whole, and a seventh is empty.
LEMMA RowHolds == ASSUME ChaseInv, RowInv PROVE RowsMeasureKernels
<1> SUFFICES ASSUME Ended PROVE Parse(lines) = [id \in 1 .. 6 |-> Row(id)]
  BY DEF RowsMeasureKernels
<1>1. at[1] = "main" /\ at[2] = 26
  BY HereFits DEF Ended, ChaseInv
<1>2. AllDone
  <2>1. ASSUME NEW id \in 1 .. 6 PROVE ~Measuring(id)
    <3>1. ~MainAt(id)
      <4>1. First[id] \in {1, 5, 10, 14, 18, 22}
        BY FirstIs
      <4> QED BY <1>1, <4>1 DEF MainAt
    <3>2. ~KernelAt(id)
      BY <1>1, FirstIs DEF KernelAt
    <3>3. ~PermAt(id) /\ ~ClearAt(id) /\ ~FibAt(id) /\ ~DumpAt(id)
      BY <1>1 DEF PermAt, ClearAt, FibAt, DumpAt
    <3>4. ~HexAt(id) /\ ~PutAt(id) /\ ~CrlfAt(id)
      BY <1>1 DEF HexAt, PutAt, CrlfAt
    <3> QED BY <3>1, <3>2, <3>3, <3>4 DEF Measuring
  <2> QED BY <2>1 DEF RowInv
<1>3. /\ Len(lines) = 7 /\ lines[7] = <<>>
      /\ \A id \in 1 .. 6 : \E n : Printed(id, lines[id], LineLen, n)
  <2>1. 7 - 1 = 6
    OBVIOUS
  <2> QED BY <1>2, <2>1 DEF AllDone, Ready, LinesDone
<1>4. \A id \in 1 .. 6 : FieldsOf(lines[id]) = Row(id) /\ Len(lines[id]) = LineLen
  BY <1>3, LineParsed DEF Printed
<1>5. Len(lines[7]) # LineLen
  <2>1. LineLen > 0
    <3>1. COUNTERS + 1 \in Nat \ {0} /\ DIGITS \in Nat \ {0}
      BY FullIs
    <3> QED BY <3>1 DEF LineLen
  <2> QED BY <1>3, <2>1, EmptySeq
<1>6. Parse(lines) = [id \in 1 .. 6 |-> FieldsOf(lines[id])]
  BY <1>3, <1>4, <1>5, RowsParsed
<1> QED BY <1>4, <1>6

\* What parse_haz.py reads is a row for each kernel, and each counter of it is
\* that kernel's whole run and nothing else but the reads of the counters before
\* it, for every profile, every number of counters and of digits, and every
\* sequence of random numbers (gen_probe.py:65-392, parse_haz.py:20-27).
THEOREM RowsMeasured == ProbeSpec => []RowsMeasureKernels
<1>1. ProbeInit => ChaseInv /\ RowInv
  BY ChaseInit, RowStart
<1>2. ChaseInv /\ RowInv /\ [ProbeNext]_probeVars => (ChaseInv /\ RowInv)'
  BY ChaseNext, RowNext
<1>3. ChaseInv /\ RowInv => RowsMeasureKernels
  BY RowHolds
<1> QED BY <1>1, <1>2, <1>3, PTL DEF ProbeSpec
=============================================================================
