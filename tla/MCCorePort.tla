----------------------------- MODULE MCCorePort -----------------------------
(* Instances of CorePort and CacheControl for TLC. *)
EXTENDS CacheControl

Line2 == [d \in Dw |-> IF d = 0 THEN 1 ELSE None]

I(k, d, be, v) == [k |-> k, dw |-> d, be |-> be, v |-> v]
Other  == I("other", Dev, {}, Val0)
Branch == I("branch", Dev, {}, Val0)

Runs(ops, code, frame) == [ops |-> ops, code |-> code, frame |-> frame]

\* Loads of one dword and of its upper lane, stores that cover them, that
\* overlap them and that write another dword.
Data2 ==
  Runs({I("load", 0, be, Val0) : be \in {{1}, Lane}}
         \cup {I("store", 0, {1}, 1), I("store", 0, Lane, 0), I("store", 1, {0}, 1)},
       {}, {})
\* What waits in MEM for its data, and what may squash it.
Reading ==
  Runs({I("return", 0, Lane, Val0), I("read", 1, {0}, Val0), I("pair", 0, Lane, Val0)}
         \cup {I("store", 0, Lane, 1), I("store", 1, {0}, 1)}, {0}, {})
\* DRAM and a device in turn, beside branches and an interrupt.
Device ==
  Runs({Branch, I("load", 0, Lane, Val0), I("store", 0, Lane, 1), I("read", Dev, Lane, Val0),
        I("store", Dev, Lane, 1)}, {1}, {1})
\* Stores to CACHE_CTRL and polls.
Maintenance == Runs({I("store", Dev, Lane, v) : v \in Val} \cup {I("read", Dev, Lane, Val0)}, {}, {})

MaintenanceOnly == {Maintenance}
AllPrograms == {Data2, Reading, Device, Maintenance}

\* Stores to two dwords, one of which holds code.
Patches == {Runs({Other, I("store", 0, Lane, 1), I("store", 1, {0}, 1)}, {0}, {})}

=============================================================================
