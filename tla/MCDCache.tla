------------------------------ MODULE MCDCache ------------------------------
(***************************************************************************)
(* Instances of DCache for TLC: small geometries and what the CPU does.    *)
(***************************************************************************)
EXTENDS DCache, TLC

CONSTANTS t1, t2, t3

Loads(A)     == [dv : {"read"}, addr : A, data : {Val0}]
Stores(A, V) == [dv : {"write"}, addr : A, data : V]

\* The CPU stores both values to one word; every other word keeps Val0.  What
\* the cache does with a word does not depend on its value, so one word stands
\* for each.
Watched == [tag : {t1}, set : {0}, off : {LastOff}]
Others  == [tag : Tags \ {t1}, set : Set, off : {LastOff}]

\* The watched line is loaded and stored to, every other line is dirtied.
OneWord ==
  UNION {Loads([tag : {t1}, set : {0}, off : Off]), Stores(Watched, Val),
         Stores(Others, {Val0})}

\* As OneWord, for a cache of two sets and one tag.
TwoSets ==
  UNION {Loads(Watched), Stores(Watched, Val), Stores(Addr \ Watched, {Val0})}

\* Every load and every store, without data.
AllKinds == Loads(Addr) \cup Stores(Addr, {Val0})

\* What a CACHE_CTRL store may ask for.
OnlyInvalidate == {{"INVALIDATE"}}
AnyRequest     == {{"FLUSH"}, {"INVALIDATE"}}

\* The lines nothing is watched in are interchangeable.
Symmetry == Permutations({t2, t3})
=============================================================================
