----------------------------- MODULE MCCore2Bus -----------------------------
(* Instances of Core2Bus: what core 2 asks of its bus, and which registers *)
(* core 1 writes, by the part of the subsystem they exercise.              *)
EXTENDS Core2Bus

CONSTANTS r1, r2, t1, t2, d1

Load(at, off)       == [wr |-> FALSE, at |-> at, off |-> off, val |-> 0]
Store(at, off, val) == [wr |-> TRUE, at |-> at, off |-> off, val |-> val]
Reg(reg, at, val)   == [reg |-> reg, at |-> at, val |-> val]

RunStop == {Reg("ctrl", Nowhere, v) : v \in 0 .. 1}

\* Text and data in DDR, with a store into text.
DdrUse == [asks   |-> {Load(t1, 0), Load(t2, 1), Load(d1, 1),
                       Store(t1, 0, 1), Store(d1, 1, 1), Store(d1, 1, 0)},
           orders |-> RunStop]

\* Local RAM beside DDR.
RamUse == [asks   |-> {Load(r1, 0), Load(r1, 1), Store(r1, 0, 0), Store(r1, 1, 1),
                       Store(r1, 0, 1), Load(r2, 0), Load(d1, 0)},
           orders |-> RunStop]

\* The window moved from row to row, written and read back, and what core 2
\* finds there.
WindowUse == [asks   |-> {Load(r2, 1)},
              orders |-> RunStop \cup {Reg("wadr", r1, 0), Reg("wadr", r2, 1),
                                      Reg("wdat", Nowhere, 1)}]

\* The console, LiteEth and an address nothing answers to.
DeviceUse == [asks   |-> {Load(Status, 0), Store(Con, 0, 0), Load(Eth, 0),
                          [NoAsk EXCEPT !.off = 1]},
              orders |-> RunStop \cup {Reg("pop", Nowhere, 0)}
                                 \cup {Reg("own", Nowhere, v) : v \in 0 .. 1}]

AllUses == {DdrUse, RamUse, WindowUse, DeviceUse}
OneUse  == {DdrUse}
=============================================================================
