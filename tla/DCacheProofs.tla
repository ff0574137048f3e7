---------------------------- MODULE DCacheProofs ----------------------------
(***************************************************************************)
(* The cache is coherent, for every geometry and whatever the CPU, the     *)
(* walks and the other masters do: a load gets what was stored last, over  *)
(* the port and from the hit pipe, and none of the copies of a line - in   *)
(* an array, in the victim registers, in DDR - is ever seen when it is not *)
(* the last one.                                                           *)
(*                                                                         *)
(* A request for maintenance is kept, and its walk reaches memory.  The    *)
(* maintenance half of DCache implements MaintCapture, so that what is     *)
(* proved of MaintCapture holds of the cache; and when no request is left, *)
(* every line that a request found out of date in DDR has been written     *)
(* back.  The lines still owed are followed from the latched store to the  *)
(* frame, to the victim registers and to the write command.                *)
(***************************************************************************)
EXTENDS DCache, TLAPS

Serving  == state \in {"CHECK", "WRITE_FETCH", "READ_WAIT"}
Fetching == state \in {"WRITE_FETCH", "READ_WAIT"}
Shadow   == state \in {"EVICT_SHADOW_GAP", "EVICT_SHADOW_WAIT"}
Commands == [dv : {"none", "read", "write"}, line : Line, data : Data]
Victims  == [line : Line, data : Data]

Types ==
  /\ port \in Request \cup {None} /\ resp \in Response \cup {Ack, None}
  /\ state \in States /\ sub \in Subs /\ index \in Set /\ evictWay \in Way
  /\ missServed \in BOOLEAN
  /\ array \in [Set -> [Way -> Frame]] /\ lru \in [Set -> Way]
  /\ victim \in Victims \cup {NoVictim} /\ cmd \in Commands
  /\ mem \in [Line -> Data] /\ arch \in [Addr -> Val]

-----------------------------------------------------------------------------
(* The CPU and the FSM: a load waits on the port, a store does not.        *)

Protocol ==
  /\ Serving => req \in Request /\ index = req.addr.set
  /\ state = "WRITE_FETCH" => req.dv = "write"
  /\ state = "READ_WAIT" => req.dv = "read"
  /\ Serving /\ req.dv = "write" => missServed
  /\ state = "CHECK" /\ req.dv = "read" => ~missServed
  /\ Serving /\ ~missServed => port = req /\ resp = None /\ served # port.addr
  /\ resp # None => port # None /\ served = port.addr /\ (resp = Ack <=> port.dv = "write")
  /\ state \in {"EVICT_SHADOW_WAIT", "MAINT"} => resp = None
  /\ active <=> state = "MAINT"

-----------------------------------------------------------------------------
(* The FSM and the controller.                                             *)

WritesWay(w) ==
  /\ array[index][w].tag # NoTag
  /\ cmd.line = <<array[index][w].tag, index>> /\ cmd.data = array[index][w].data

Driving ==
  /\ cmd.dv = "read" <=> Fetching
  /\ cmd.dv = "write" <=> \/ state = "EVICT_SHADOW_WAIT"
                          \/ state = "MAINT" /\ sub \in {"W0_WAIT", "W1_WAIT"}
  /\ Fetching => cmd.line = LineOf(req.addr)
  /\ state = "EVICT_SHADOW_WAIT" => cmd.line = victim.line /\ cmd.data = victim.data
  /\ state = "MAINT" /\ sub = "W0_WAIT" => WritesWay(0)
  /\ state = "MAINT" /\ sub = "W1_WAIT" => WritesWay(1)

Control ==
  /\ ctl \in {"IDLE", "WAIT", "WRITE", "READ", "TAIL"}
  /\ ready \in BOOLEAN /\ dwReady \in BOOLEAN
  /\ grant = "cache" =>
       /\ ready <=> ctl = "IDLE" /\ cmd.dv # "none"
       /\ ctl = "WRITE" => cmd.dv = "write"
       /\ ctl \in {"READ", "TAIL"} => cmd.dv = "read"
       /\ ready /\ cmd.dv = "write" => mem[cmd.line] = cmd.data
  /\ grant # "cache" => ~Shadow

-----------------------------------------------------------------------------
(* The frames: where a line is, and that a clean one is as in DDR.         *)

Saved(s, w) == array[s][w].tag # NoTag => mem[<<array[s][w].tag, s>>] = array[s][w].data

Frames ==
  /\ LineInOneWay
  /\ \A s \in Set, w \in Way :
       /\ array[s][w].dirty => array[s][w].tag # NoTag
       /\ ~array[s][w].dirty => Saved(s, w)
  /\ Fetching =>
       /\ \A w \in Way : array[index][w].tag # req.addr.tag
       /\ victim = IF array[index][evictWay].dirty
                   THEN [line |-> <<array[index][evictWay].tag, index>>,
                         data |-> array[index][evictWay].data]
                   ELSE NoVictim
  /\ Shadow => /\ victim # NoVictim
               /\ \A w \in Way : array[victim.line[2]][w].tag # victim.line[1]
  /\ state = "MAINT" =>
       /\ sub \in {"W0_GAP", "W1", "W1_WAIT", "W1_GAP", "CLR"} => Saved(index, 0)
       /\ sub \in {"W1_GAP", "CLR"} => Saved(index, 1)

Swept ==
  state = "MAINT" =>
    \A s \in Set, w \in Way : s < index \/ sub = "DONE" =>
      /\ ~array[s][w].dirty
      /\ walkMode = "INVALIDATE" => array[s][w].tag = NoTag

-----------------------------------------------------------------------------
(* The last value stored to an address is in the store, as long as it is   *)
(* on the port or latched; then in the frame that holds the line, else in  *)
(* the victim registers, else in DDR.                                      *)

OnPort(a)  == port # None /\ port.dv = "write" /\ port.addr = a /\ served # a
Latched(a) == state \in {"CHECK", "WRITE_FETCH"} /\ req.dv = "write" /\ req.addr = a
Stored(a)  == ~OnPort(a) /\ ~Latched(a)

InFrame(a)  == \E w \in Way : array[a.set][w].tag = a.tag
InVictim(a) == Shadow /\ victim.line = LineOf(a)

Held(a) ==
  /\ \A w \in Way : array[a.set][w].tag = a.tag => array[a.set][w].data[a.off] = arch[a]
  /\ InVictim(a) => victim.data[a.off] = arch[a]
  /\ ~InFrame(a) /\ ~InVictim(a) => mem[LineOf(a)][a.off] = arch[a]

Values ==
  /\ port # None /\ port.dv = "write" => arch[port.addr] = port.data
  /\ \A a \in Addr :
       /\ Latched(a) /\ ~OnPort(a) => arch[a] = req.data
       /\ Stored(a) => Held(a)

CoherenceInv ==
  Types /\ Protocol /\ Driving /\ Control /\ Frames /\ Swept /\ Values /\ ReadsLastStore
-----------------------------------------------------------------------------
\* The invariant holds at power-up: nothing is cached, nothing on its way.
LEMMA Initially == ASSUME Init PROVE CoherenceInv
<1> USE SizeAssumption, ValAssumption, TagAssumption
<1>1. PICK l \in Line : cmd = [dv |-> "none", line |-> l, data |-> [o \in Off |-> Val0]]
  BY DEF Init
<1>2. [o \in Off |-> Val0] \in Data
  BY DEF Data
<1>3. Types
  <2>1. array \in [Set -> [Way -> Frame]] /\ lru \in [Set -> Way]
    <3> DEFINE f == [tag |-> NoTag, dirty |-> FALSE, data |-> [o \in Off |-> Val0]]
    <3>1. f \in Frame
      BY <1>2 DEF Frame
    <3>2. array = [s \in Set |-> [w \in Way |-> f]] /\ lru = [s \in Set |-> 0]
      BY DEF Init
    <3> HIDE DEF f
    <3>3. [w \in Way |-> f] \in [Way -> Frame] /\ 0 \in Way
      BY <3>1 DEF Way
    <3> QED BY <3>2, <3>3
  <2>2. cmd \in Commands
    BY <1>1, <1>2 DEF Commands
  <2>3. mem \in [Line -> Data] /\ arch \in [Addr -> Val]
    <3> DEFINE z == [o \in Off |-> Val0]
    <3>1. z \in Data /\ mem = [k \in Line |-> z] /\ arch = [a \in Addr |-> Val0]
      BY <1>2 DEF Init
    <3> HIDE DEF z
    <3> QED BY <3>1, ValAssumption
  <2>4. /\ port = None /\ resp = None /\ state = "WAIT" /\ sub = "READ" /\ index = 0
        /\ evictWay = 0 /\ missServed = FALSE /\ victim = NoVictim
    BY DEF Init
  <2>5. 0 \in Set /\ 0 \in Way
    BY DEF Set, Way
  <2> QED BY <2>1, <2>2, <2>3, <2>4, <2>5 DEF Types, States, Subs
<1>4. Protocol
  BY DEF Init, Protocol, Serving
<1>5. Driving /\ Control
  BY <1>1 DEF Init, Driving, Control, Fetching, Shadow
<1>6. Frames
  BY DEF Init, Frames, LineInOneWay, Fetching, Shadow, Saved, Set, Way
<1>7. Swept /\ ReadsLastStore
  BY NothingAssumption DEF Init, Swept, ReadsLastStore
<1>8. Values
  <2> SUFFICES ASSUME NEW a \in Addr
               PROVE  /\ arch[a] = Val0 /\ mem[LineOf(a)][a.off] = Val0
                      /\ \A w \in Way : array[a.set][w].tag # a.tag
    BY DEF Init, Values, Held, Latched, InVictim, Shadow
  <2>1. LineOf(a) \in Line /\ a.off \in Off /\ a.set \in Set /\ a.tag \in Tags
    BY DEF Addr, LineOf, Line
  <2> QED BY <2>1 DEF Init, Way
<1> QED BY <1>3, <1>4, <1>5, <1>6, <1>7, <1>8 DEF CoherenceInv

-----------------------------------------------------------------------------
(* What the CPU, the controller and the FSM may do in one clock.           *)

Keeps  == port' = port /\ arch' = arch
Drops  == port' = None /\ arch' = arch
Issues == \E r \in Asked : Issue(r) /\ (port = None \/ (resp # None /\ r.addr # port.addr))

\* The CPU holds a request that has no answer, and never repeats an address
\* at once.
LEMMA CpuStep ==
  ASSUME Cpu
  PROVE  /\ Keeps \/ Drops \/ Issues
         /\ port # None /\ resp = None => Keeps
BY DEF Cpu, CpuIdle, CpuStart, CpuHold, CpuRelease, CpuChain, Keeps, Drops, Issues

\* What the CPU puts on the port is a request.
LEMMA CpuTypes == ASSUME Types, Cpu PROVE port' \in Request \cup {None} /\ arch' \in [Addr -> Val]
<1>1. CASE Keeps \/ Drops
  BY <1>1 DEF Keeps, Drops, Types
<1>2. CASE Issues
  <2>1. PICK r \in Asked : Issue(r)
    BY <1>2 DEF Issues
  <2>2. r \in Request
    BY AskedAssumption
  <2>3. r.addr \in Addr /\ r.data \in Val
    BY <2>2 DEF Request
  <2> QED BY <2>1, <2>2, <2>3 DEF Issue, Types
<1> QED BY <1>1, <1>2, CpuStep

\* The controller changes DDR only by ending a write of the cache's.
LEMMA MemStep ==
  ASSUME Types, Control, Ddr
  PROVE  /\ \/ mem' = mem
            \/ /\ grant = "cache" /\ ctl = "WRITE" /\ cmd.dv = "write"
               /\ mem' = [mem EXCEPT ![cmd.line] = cmd.data]
         /\ mem' \in [Line -> Data]
<1>1. cmd.line \in Line /\ cmd.data \in Data
  BY DEF Types, Commands
<1> QED BY <1>1 DEF Types, Control, Ddr, CacheOwns, Tenure, EndTenure, CtlIdle, CtlAccept, CtlBusy,
                    CtlFinish, CtlWritten, CtlFirstWord, CtlRead
-----------------------------------------------------------------------------
(* Words and lines.                                                        *)

\* An answer is a word of the line and, when there is one, the next.
LEMMA PresentWord ==
  ASSUME NEW d \in Data, NEW o \in Off
  PROVE  \A p \in {Present(d, o), PresentEarly(d, o)} :
           /\ p \in Response /\ p.word = d[o]
           /\ p.next # None => o + 1 \in Off /\ p.next = d[o + 1]
<1>1. d[o] \in Val /\ (o < LastOff => o + 1 \in Off /\ d[o + 1] \in Val)
  BY SizeAssumption DEF Data, Off
<1> QED BY <1>1 DEF Present, PresentEarly, Response

\* A store changes its word of the line and no other.
LEMMA MergeWord ==
  ASSUME NEW d \in Data, NEW r \in Request
  PROVE  /\ Merge(d, r) \in Data
         /\ \A o \in Off : Merge(d, r)[o] = IF o = r.addr.off THEN r.data ELSE d[o]
<1>1. r.addr.off \in Off /\ r.data \in Val
  BY DEF Request, Addr
<1> QED BY <1>1 DEF Merge, Data

-----------------------------------------------------------------------------
(* What an action does to the arrays, frame by frame.                      *)

\* A store that hits changes the one frame its line is in.
LEMMA WriteHitArray ==
  ASSUME Types, Protocol, LineInOneWay, WriteHit
  PROVE  /\ array' \in [Set -> [Way -> Frame]]
         /\ \A s \in Set, w \in Way :
              array'[s][w] = IF s = index /\ array[s][w].tag = req.addr.tag
                             THEN [tag |-> req.addr.tag, dirty |-> TRUE,
                                   data |-> Merge(array[s][w].data, req)]
                             ELSE array[s][w]
<1>1. req \in Request /\ req.addr.tag \in Tags /\ index \in Set
  BY DEF WriteHit, Protocol, Serving, Types, Request, Addr
<1>2. \A w \in Way : array[index][w].tag = req.addr.tag => w = HitWay(index, req.addr.tag)
  BY <1>1, TagAssumption DEF HitWay, Way, LineInOneWay
<1>3. \A w \in Way : array[index][w] \in Frame
  BY <1>1 DEF Types
<1>4. \A w \in Way : Written(array[index][w]) =
                         IF array[index][w].tag = req.addr.tag
                         THEN [tag |-> req.addr.tag, dirty |-> TRUE,
                               data |-> Merge(array[index][w].data, req)]
                         ELSE array[index][w]
  BY <1>2 DEF Written
<1>5. \A w \in Way : Written(array[index][w]) \in Frame
  <2> TAKE w \in Way
  <2>1. array[index][w].data \in Data
    BY <1>3 DEF Frame
  <2>2. Merge(array[index][w].data, req) \in Data
    BY <1>1, <2>1, MergeWord
  <2>3. [tag |-> req.addr.tag, dirty |-> TRUE, data |-> Merge(array[index][w].data, req)]
          \in Frame
    BY <1>1, <2>2 DEF Frame
  <2> QED BY <1>3, <1>4, <2>3
<1>6. array' = [array EXCEPT ![index] = [w \in Way |-> Written(array[index][w])]]
  BY DEF WriteHit
<1>7. index \in Set /\ array \in [Set -> [Way -> Frame]]
  BY DEF Types
<1>8. \A s \in Set, w \in Way :
        array'[s][w] = IF s = index THEN Written(array[index][w]) ELSE array[s][w]
  BY <1>6, <1>7
<1>9. array' \in [Set -> [Way -> Frame]]
  BY <1>5, <1>6, <1>7
<1> QED BY <1>4, <1>8, <1>9

\* A refill changes the frame of the victim.
LEMMA RefilledArray ==
  ASSUME Types, Protocol, Driving, Refilled
  PROVE  /\ array' \in [Set -> [Way -> Frame]]
         /\ req \in Request /\ index = req.addr.set /\ LineOf(req.addr) \in Line
         /\ mem[LineOf(req.addr)] \in Data
         /\ \A s \in Set, w \in Way :
              array'[s][w] = IF s = index /\ w = evictWay
                             THEN [tag |-> req.addr.tag, dirty |-> state = "WRITE_FETCH",
                                   data |-> IF state = "WRITE_FETCH"
                                            THEN Merge(mem[LineOf(req.addr)], req)
                                            ELSE mem[LineOf(req.addr)]]
                             ELSE array[s][w]
<1>1. req \in Request /\ index = req.addr.set /\ cmd.line = LineOf(req.addr)
  BY DEF Refilled, Protocol, Serving, Driving, Fetching
<1>2. req.addr.tag \in Tags /\ LineOf(req.addr) \in Line
  BY <1>1 DEF Request, Addr, LineOf, Line
<1>3. mem[LineOf(req.addr)] \in Data
  BY <1>2 DEF Types
<1> DEFINE f == [tag |-> req.addr.tag, dirty |-> state = "WRITE_FETCH",
                 data |-> IF state = "WRITE_FETCH" THEN Merge(mem[LineOf(req.addr)], req)
                                                   ELSE mem[LineOf(req.addr)]]
<1>4. f \in Frame
  BY <1>1, <1>2, <1>3, MergeWord DEF Frame
<1>5. array' = [array EXCEPT ![index][evictWay] = f]
  <2>1. CASE state = "WRITE_FETCH"
    BY <1>1, <2>1 DEF Refilled, Install
  <2>2. CASE state # "WRITE_FETCH"
    BY <1>1, <2>2 DEF Refilled, Install
  <2> QED BY <2>1, <2>2
<1> HIDE DEF f
<1>6. index \in Set /\ evictWay \in Way /\ array \in [Set -> [Way -> Frame]]
  BY DEF Types
<1>7. array' \in [Set -> [Way -> Frame]]
      /\ \A s \in Set, w \in Way :
           array'[s][w] = IF s = index /\ w = evictWay THEN f ELSE array[s][w]
  BY <1>4, <1>5, <1>6
<1> QED BY <1>1, <1>2, <1>3, <1>7 DEF f

\* The walk cleans both frames of its set, and takes them away if it is to.
LEMMA WalkClearArray ==
  ASSUME Types, WalkClear
  PROVE  /\ array' \in [Set -> [Way -> Frame]]
         /\ \A s \in Set, w \in Way :
              array'[s][w] = IF s = index
                             THEN [tag |-> IF walkMode = "INVALIDATE" THEN NoTag
                                           ELSE array[s][w].tag,
                                   dirty |-> FALSE, data |-> array[s][w].data]
                             ELSE array[s][w]
<1>1. index \in Set /\ array \in [Set -> [Way -> Frame]]
  BY DEF Types
<1>2. \A w \in Way : array[index][w] \in Frame
  BY <1>1
<1>3. \A w \in Way : Cleared(array[index][w]) \in Frame
  BY <1>2 DEF Frame, Cleared
<1>4. array' = [array EXCEPT ![index] = [w \in Way |-> Cleared(array[index][w])]]
  BY DEF WalkClear
<1>5. \A s \in Set, w \in Way :
        array'[s][w] = IF s = index THEN Cleared(array[index][w]) ELSE array[s][w]
  BY <1>1, <1>4
<1>6. array' \in [Set -> [Way -> Frame]]
  BY <1>1, <1>3, <1>4
<1> QED BY <1>5, <1>6 DEF Cleared

\* Nothing else touches the arrays.
LEMMA ArrayStep ==
  ASSUME Types, Protocol, Driving, LineInOneWay, Fsm
  PROVE  /\ array' = array \/ WriteHit \/ Refilled \/ WalkClear
         /\ array' \in [Set -> [Way -> Frame]]
<1>1. array' = array \/ WriteHit \/ Refilled \/ WalkClear
  BY DEF Fsm, StartWalk, Quiet, Latch, ReadHit, Miss, Refilling, ShadowGap, ShadowIssue,
         ShadowWait, ShadowDone, Walk, WalkRead, WalkWay, WalkWait, WalkGap, WalkDone
<1> QED BY <1>1, WriteHitArray, RefilledArray, WalkClearArray DEF Types

-----------------------------------------------------------------------------
(* The types.                                                              *)

\* The command is one of the controller's.
LEMMA CommandTypes == ASSUME Types, Protocol, Driving, Frames, Fsm PROVE cmd' \in Commands
<1> USE DEF Types
<1>1. CASE cmd' = cmd \/ cmd' = [cmd EXCEPT !.dv = "none"]
  BY <1>1 DEF Commands
<1>2. CASE Miss
  <2>1. LineOf(req.addr) \in Line /\ cmd.data \in Data
    BY <1>2 DEF Miss, Protocol, Serving, Request, Addr, LineOf, Line, Commands
  <2> QED BY <1>2, <2>1 DEF Miss, Commands
<1>3. CASE ShadowIssue
  <2>1. victim \in Victims
    BY <1>3 DEF ShadowIssue, Frames, Shadow
  <2> QED BY <1>3, <2>1 DEF ShadowIssue, Victims, Commands
<1>4. ASSUME NEW w \in Way, NEW at, NEW wait, NEW next, WalkWay(w, at, wait, next)
      PROVE  cmd' \in Commands
  <2>1. array[index][w] \in Frame /\ index \in Set
    OBVIOUS
  <2>2. CASE cmd' = cmd
    BY <2>2
  <2>3. CASE cmd' # cmd
    <3>0. /\ array[index][w].tag # NoTag
          /\ cmd' = [dv |-> "write", line |-> <<array[index][w].tag, index>>, data |-> array[index][w].data]
      BY <1>4, <2>3 DEF WalkWay
    <3>1. array[index][w].tag \in Tags /\ array[index][w].data \in Data
      BY <2>1, <3>0 DEF Frame
    <3>2. <<array[index][w].tag, index>> \in Line
      BY <2>1, <3>1 DEF Line
    <3> QED BY <3>0, <3>1, <3>2 DEF Commands
  <2> QED BY <2>2, <2>3
<1>5. CASE Walk
  <2>1. 0 \in Way /\ 1 \in Way
    BY DEF Way
  <2>2. CASE WalkWay(0, "W0", "W0_WAIT", "W1") \/ WalkWay(1, "W1", "W1_WAIT", "CLR")
    BY <1>4, <2>1, <2>2
  <2>3. CASE ~(WalkWay(0, "W0", "W0_WAIT", "W1") \/ WalkWay(1, "W1", "W1_WAIT", "CLR"))
    BY <1>1, <1>5, <2>3 DEF Walk, WalkRead, WalkWait, WalkGap, WalkClear, WalkDone
  <2> QED BY <2>2, <2>3
<1>6. CASE ~(Miss \/ ShadowIssue \/ Walk)
  BY <1>1, <1>6 DEF Fsm, StartWalk, Quiet, Latch, WriteHit, ReadHit, Refilling, Refilled,
     AfterRefill, ShadowGap, ShadowWait, ShadowDone
<1> QED BY <1>2, <1>3, <1>5, <1>6

\* A load is answered with words of a line.
LEMMA AnswerTypes == ASSUME Types, Protocol, Driving, Fsm PROVE resp' \in Response \cup {Ack, None}
<1> USE DEF Types
<1>1. CASE ReadHit
  <2>1. req \in Request /\ array[index][HitWay(index, req.addr.tag)] \in Frame
    BY <1>1 DEF ReadHit, Protocol, Serving, HitWay, Way
  <2>2. req.addr.off \in Off /\ array[index][HitWay(index, req.addr.tag)].data \in Data
    BY <2>1 DEF Request, Addr, Frame
  <2> QED BY <1>1, <2>2, PresentWord DEF ReadHit
<1>2. CASE Refilling \/ Refilled
  <2>1. req \in Request /\ cmd.line \in Line
    BY <1>2 DEF Refilling, Refilled, Protocol, Serving, Commands
  <2>2. req.addr.off \in Off /\ mem[cmd.line] \in Data
    BY <2>1 DEF Request, Addr
  <2> QED BY <1>2, <2>2, PresentWord DEF Refilling, Refilled, EarlyRestart
<1>3. CASE ~(ReadHit \/ Refilling \/ Refilled)
  BY <1>3 DEF Fsm, StartWalk, Quiet, Latch, WriteHit, Miss, ShadowGap, ShadowIssue, ShadowWait,
     ShadowDone, Walk, WalkRead, WalkWay, WalkWait, WalkGap, WalkClear, WalkDone, WalkStep
<1> QED BY <1>1, <1>2, <1>3

\* A dirty victim is a line with its data.
LEMMA VictimTypes == ASSUME Types, Protocol, Frames, Fsm PROVE victim' \in Victims \cup {NoVictim}
<1> USE DEF Types
<1>1. CASE Miss /\ Evicted.dirty
  <2>1. Evicted \in Frame /\ lru[index] \in Way /\ index \in Set
    BY DEF Evicted
  <2>2. Evicted.tag \in Tags /\ Evicted.data \in Data
    BY <1>1, <2>1 DEF Frames, Frame, Evicted
  <2>3. <<Evicted.tag, index>> \in Line
    BY <2>1, <2>2 DEF Line
  <2> QED BY <1>1, <2>2, <2>3 DEF Miss, Victims
<1>2. CASE ~(Miss /\ Evicted.dirty)
  BY <1>2 DEF Fsm, StartWalk, Quiet, Latch, WriteHit, ReadHit, Miss, Refilling, Refilled,
     ShadowGap, ShadowIssue, ShadowWait, ShadowDone,
     Walk, WalkRead, WalkWay, WalkWait, WalkGap, WalkClear, WalkDone, WalkStep
<1> QED BY <1>1, <1>2

\* The FSM's own registers keep their ranges.
LEMMA StateTypes ==
  ASSUME Types, Protocol, Fsm
  PROVE  /\ state' \in States /\ sub' \in Subs /\ index' \in Set /\ evictWay' \in Way
         /\ missServed' \in BOOLEAN /\ lru' \in [Set -> Way]
<1>1. state' \in States /\ sub' \in Subs /\ missServed' \in BOOLEAN
  <2>1. CASE Walk
    <3>1. sub' \in Subs
      BY <2>1 DEF Types, Subs, Walk, WalkRead, WalkWay, WalkWait, WalkGap, WalkClear, NextSet, WalkDone,
         WalkStep
    <3>2. state' \in States /\ missServed' \in BOOLEAN
      BY <2>1 DEF Types, States, Walk, WalkRead, WalkWay, WalkWait, WalkGap, WalkClear, WalkDone,
         WalkStep, InMaint
    <3> QED BY <3>1, <3>2
  <2>2. CASE StartWalk \/ Quiet \/ Latch \/ WriteHit \/ ReadHit \/ Miss
    BY <2>2 DEF Types, States, Subs, StartWalk, Quiet, Latch, WriteHit, ReadHit, Miss, ToWait
  <2>3. CASE Refilling \/ Refilled \/ ShadowGap \/ ShadowIssue \/ ShadowWait \/ ShadowDone
    BY <2>3 DEF Types, States, Refilling, EarlyRestart, Refilled, AfterRefill, ToWait, ShadowGap,
       ShadowIssue, ShadowWait, ShadowDone
  <2> QED BY <2>1, <2>2, <2>3 DEF Fsm
<1>2. index' \in Set
  <2>1. CASE index' = index
    BY <2>1 DEF Types
  <2>2. CASE StartWalk
    BY <2>2, SizeAssumption DEF StartWalk, Set
  <2>3. CASE Latch
    BY <2>3 DEF Latch, DvNew, Types, Request, Addr
  <2>4. CASE WalkClear
    BY <2>4, SizeAssumption DEF WalkClear, NextSet, Types, Set
  <2>5. CASE ~(StartWalk \/ Latch \/ WalkClear)
    BY <2>1, <2>5 DEF Fsm, Quiet, WriteHit, ReadHit, Miss, Refilling, Refilled, ShadowGap,
       ShadowIssue, ShadowWait, ShadowDone, Walk, WalkRead, WalkWay, WalkWait, WalkGap, WalkDone
  <2> QED BY <2>2, <2>3, <2>4, <2>5
<1>3. evictWay' \in Way
  BY DEF Types, Fsm, StartWalk, Quiet, Latch, WriteHit, ReadHit, Miss, Refilling, Refilled,
     ShadowGap, ShadowIssue, ShadowWait, ShadowDone,
     Walk, WalkRead, WalkWay, WalkWait, WalkGap, WalkClear, WalkDone, WalkStep
<1>4. lru' \in [Set -> Way]
  <2>1. \A w \in Way : 1 - w \in Way
    BY DEF Way
  <2>2. HitWay(index, req.addr.tag) \in Way /\ evictWay \in Way
    BY DEF HitWay, Way, Types
  <2>3. \A w \in Way : Touch(w) => lru' \in [Set -> Way]
    BY <2>1 DEF Touch, Types
  <2>4. lru' = lru \/ Touch(HitWay(index, req.addr.tag)) \/ Touch(evictWay)
    BY DEF Fsm, StartWalk, Quiet, Latch, WriteHit, ReadHit, Miss, Refilling, Refilled, Install,
       ShadowGap, ShadowIssue, ShadowWait, ShadowDone,
       Walk, WalkRead, WalkWay, WalkWait, WalkGap, WalkClear, WalkDone, WalkStep
  <2> QED BY <2>2, <2>3, <2>4 DEF Types
<1> QED BY <1>1, <1>2, <1>3, <1>4

\* Types are kept.
LEMMA TypesStep == ASSUME CoherenceInv, Next PROVE Types'
<1>1. Types /\ Protocol /\ Driving /\ Control /\ Frames /\ LineInOneWay /\ Cpu /\ Fsm /\ Ddr
  BY DEF CoherenceInv, Frames, Next
<1>2. port' \in Request \cup {None} /\ arch' \in [Addr -> Val] /\ mem' \in [Line -> Data]
  BY <1>1, CpuTypes, MemStep
<1>3. cmd' \in Commands /\ resp' \in Response \cup {Ack, None}
      /\ victim' \in Victims \cup {NoVictim} /\ array' \in [Set -> [Way -> Frame]]
  BY <1>1, CommandTypes, AnswerTypes, VictimTypes, ArrayStep
<1> QED BY <1>1, <1>2, <1>3, StateTypes DEF Types

-----------------------------------------------------------------------------
(* The CPU and the FSM.                                                    *)

\* What the FSM answers is the request on the port, and it remembers that.
LEMMA ServedStep ==
  ASSUME Types, Protocol, Driving, Fsm
  PROVE  /\ port = None => served' = None
         /\ resp # None => served' = port.addr /\ resp' = None
         /\ port # None => served' \in {served, port.addr}
         /\ resp' # None => /\ port # None /\ resp = None /\ served' = port.addr
                            /\ resp' = Ack <=> port.dv = "write"
<1> USE NothingAssumption
<1>1. CASE ReadHit
  <2>1. port = req /\ resp = None /\ req \in Request /\ req.dv = "read"
    BY <1>1 DEF ReadHit, Protocol, Serving
  <2>2. array[index][HitWay(index, req.addr.tag)] \in Frame
    BY DEF Types, HitWay, Way
  <2>3. resp' \in Response
    BY <1>1, <2>1, <2>2, PresentWord DEF ReadHit, Request, Addr, Frame
  <2> QED BY <1>1, <2>1, <2>3 DEF ReadHit
<1>2. CASE (Refilling \/ Refilled) /\ ~missServed
  <2>1. port = req /\ resp = None /\ req \in Request /\ req.dv = "read" /\ state = "READ_WAIT"
    BY <1>2 DEF Refilling, Refilled, Protocol, Serving
  <2>2. mem[cmd.line] \in Data
    BY DEF Types, Commands
  <2> DEFINE o == req.addr.off
  <2>5. Present(mem[cmd.line], o) \in Response /\ PresentEarly(mem[cmd.line], o) \in Response
    BY <2>1, <2>2, PresentWord DEF Request, Addr
  <2>3. resp' = None \/ (resp' \in Response /\ served' = port.addr)
    BY <1>2, <2>1, <2>5 DEF Refilling, Refilled, EarlyRestart
  <2>4. served' \in {served, port.addr}
    BY <1>2, <2>1 DEF Refilling, Refilled, EarlyRestart, ServedClear
  <2> QED BY <2>1, <2>3, <2>4
<1>3. CASE Latch
  BY <1>3 DEF Latch, DvNew, Types, Request, Protocol, ServedClear
<1>4. CASE (Refilling \/ Refilled) /\ missServed
  BY <1>4 DEF Refilling, Refilled, EarlyRestart, ServedClear, Protocol
<1>5. CASE StartWalk \/ Quiet \/ WriteHit \/ Miss \/ ShadowGap \/ ShadowIssue
  BY <1>5 DEF StartWalk, Quiet, WriteHit, Miss, ShadowGap, ShadowIssue, ServedClear, Protocol
<1>6. CASE ShadowWait \/ ShadowDone
  BY <1>6 DEF ShadowWait, ShadowDone, ServedClear, Protocol
<1>7. CASE Walk
  <2>1. WalkStep
    BY <1>7 DEF Walk, WalkRead, WalkWay, WalkWait, WalkGap, WalkClear, WalkDone
  <2> QED BY <2>1 DEF WalkStep, ServedClear, Protocol
<1> QED BY <1>1, <1>2, <1>3, <1>4, <1>5, <1>6, <1>7 DEF Fsm

\* A request put on the port is new to the FSM, and one that is waiting or
\* being answered stays there.
LEMMA PortStep ==
  ASSUME Types, Protocol, Driving, Cpu, Fsm
  PROVE  /\ Issues => port' # None /\ served' # port'.addr
         /\ resp' # None => Keeps /\ port' # None /\ served' = port'.addr
                            /\ (resp' = Ack <=> port'.dv = "write")
         /\ Serving /\ ~missServed => Keeps
         /\ Latch => Keeps
<1>1. ASSUME Issues PROVE port' # None /\ served' # port'.addr
  <2>1. PICK r \in Asked : Issue(r) /\ (port = None \/ (resp # None /\ r.addr # port.addr))
    BY <1>1 DEF Issues
  <2>2. r \in Request /\ r.addr \in Addr /\ port' = r
    BY <2>1, AskedAssumption DEF Issue, Request
  <2>3. r # None /\ r.addr # None
    BY <2>2, NothingAssumption
  <2> QED BY <2>1, <2>2, <2>3, ServedStep
<1>2. ASSUME resp' # None
      PROVE  Keeps /\ port' # None /\ served' = port'.addr /\ (resp' = Ack <=> port'.dv = "write")
  BY <1>2, ServedStep, CpuStep DEF Keeps
<1>3. Serving /\ ~missServed => Keeps
  BY CpuStep, NothingAssumption DEF Protocol
<1>4. Latch => Keeps
  BY CpuStep DEF Latch, DvNew, Protocol
<1> QED BY <1>1, <1>2, <1>3, <1>4

\* The protocol is kept.
LEMMA ProtocolStep == ASSUME CoherenceInv, Next PROVE Protocol'
<1>1. Types /\ Protocol /\ Driving /\ Cpu /\ Fsm
  BY DEF CoherenceInv, Next
<1> USE <1>1
<1>2. resp' # None => port' # None /\ served' = port'.addr /\ (resp' = Ack <=> port'.dv = "write")
  BY PortStep
<1>3. state' \in {"EVICT_SHADOW_WAIT", "MAINT"} => resp' = None
  <2>1. CASE Walk
    BY <2>1 DEF Protocol, Walk, WalkRead, WalkWay, WalkWait, WalkGap, WalkClear, WalkDone, WalkStep
  <2>2. CASE StartWalk \/ ShadowIssue \/ ShadowWait
    BY <2>2 DEF Protocol, StartWalk, ShadowIssue, ShadowWait
  <2>3. CASE ~(Walk \/ StartWalk \/ ShadowIssue \/ ShadowWait)
    BY <2>3 DEF Fsm, Quiet, Latch, WriteHit, ReadHit, Miss, Refilling, Refilled,
       AfterRefill, ToWait, ShadowGap, ShadowDone
  <2> QED BY <2>1, <2>2, <2>3
<1>4. active' <=> state' = "MAINT"
  <2>1. CASE Walk
    BY <2>1 DEF Protocol, Walk, WalkRead, WalkWay, WalkWait, WalkGap, WalkClear, WalkDone,
                WalkStep, InMaint
  <2>2. CASE StartWalk
    BY <2>2 DEF StartWalk
  <2>3. CASE ~(Walk \/ StartWalk)
    <3>1. active' = active /\ state # "MAINT" /\ state' # "MAINT"
      BY <2>3 DEF Fsm, Quiet, Latch, WriteHit, ReadHit, Miss, Refilling, Refilled,
         AfterRefill, ToWait, ShadowGap, ShadowIssue, ShadowWait, ShadowDone, NoMntStart
    <3> QED BY <3>1 DEF Protocol
  <2> QED BY <2>1, <2>2, <2>3
<1> DEFINE Served == /\ Serving' => req' \in Request /\ index' = req'.addr.set
                     /\ state' = "WRITE_FETCH" => req'.dv = "write"
                     /\ state' = "READ_WAIT" => req'.dv = "read"
                     /\ Serving' /\ req'.dv = "write" => missServed'
                     /\ state' = "CHECK" /\ req'.dv = "read" => ~missServed'
                     /\ Serving' /\ ~missServed' =>
                          port' = req' /\ resp' = None /\ served' # port'.addr
<1>5. Served
  <2>1. CASE Latch
    <3>1. port \in Request /\ served # port.addr
      BY <2>1 DEF Latch, DvNew, Types
    <3> QED BY <2>1, <3>1, PortStep DEF Latch, Serving, Keeps, Request
  <2>2. CASE Miss
    <3>1. req \in Request /\ req.dv \in {"read", "write"}
      BY <2>2 DEF Miss, Protocol, Serving, Request
    <3>2. ~missServed => port' = port /\ port # None
      BY <2>2, <3>1, PortStep, NothingAssumption DEF Miss, Keeps, Protocol, Serving
    <3> QED BY <2>2, <3>1, <3>2 DEF Miss, Protocol, Serving, ServedClear
  <2>3. CASE Refilling
    <3>1. req \in Request /\ req.dv \in {"read", "write"}
      BY <2>3 DEF Refilling, Protocol, Serving, Request
    <3>2. ~missServed => port' = port /\ port # None
      BY <2>3, <3>1, PortStep, NothingAssumption DEF Refilling, Keeps, Protocol, Serving
    <3> QED BY <2>3, <3>1, <3>2 DEF Refilling, EarlyRestart, Protocol, Serving, ServedClear
  <2>4. CASE ~(Latch \/ Miss \/ Refilling)
    <3>1. ~Serving'
      BY <2>4 DEF Serving, Fsm, StartWalk, Quiet, WriteHit, ReadHit, Refilled, AfterRefill,
         ToWait, ShadowGap, ShadowIssue, ShadowWait, ShadowDone,
         Walk, WalkRead, WalkWay, WalkWait, WalkGap, WalkClear, WalkDone, WalkStep, InMaint
    <3> QED BY <3>1 DEF Serving
  <2> QED BY <2>1, <2>2, <2>3, <2>4
<1> QED BY <1>2, <1>3, <1>4, <1>5 DEF Protocol

-----------------------------------------------------------------------------
(* The FSM and the controller.                                             *)

\* A command stays up until the cache sees its completion, and then falls.
LEMMA CommandStep ==
  ASSUME Types, Driving, Control, Fsm
  PROVE  /\ CacheReady => cmd'.dv = "none"
         /\ cmd.dv # "none" /\ ~CacheReady => cmd' = cmd
<1> USE DEF CacheReady
<1>1. cmd.dv \in {"none", "read", "write"} /\ [cmd EXCEPT !.dv = "none"].dv = "none"
  BY DEF Types, Commands
<1>2. CASE Fetching
  BY <1>1, <1>2 DEF Fetching, Fsm, StartWalk, Quiet, Latch, WriteHit, ReadHit, Miss, Refilling,
     Refilled, AfterRefill, ShadowGap, ShadowIssue, ShadowWait, ShadowDone,
     Walk, WalkRead, WalkWay, WalkWait, WalkGap, WalkClear, WalkDone, WalkStep, Protocol
<1>3. CASE Shadow
  BY <1>1, <1>3 DEF Driving, Control, Shadow, Fetching, Fsm, StartWalk, Quiet, Latch, WriteHit,
     ReadHit, Miss, Refilling, Refilled, ShadowGap, ShadowIssue, ShadowWait, ShadowDone,
     Walk, WalkRead, WalkWay, WalkWait, WalkGap, WalkClear, WalkDone, WalkStep
<1>4. CASE state \in {"WAIT", "CHECK"}
  <2>1. cmd.dv = "none" /\ ~CacheReady
    BY <1>1, <1>4 DEF Driving, Fetching, Control
  <2> QED BY <2>1
<1>5. CASE state = "MAINT"
  <2>1. CASE sub \in {"W0_WAIT", "W1_WAIT"}
    BY <1>1, <1>5, <2>1 DEF Fsm, StartWalk, Quiet, Latch, WriteHit, ReadHit, Miss, Refilling,
       Refilled, ShadowGap, ShadowIssue, ShadowWait, ShadowDone,
       Walk, WalkRead, WalkWay, WalkWait, WalkGap, WalkClear, WalkDone, WalkStep, Protocol
  <2>2. CASE sub \notin {"W0_WAIT", "W1_WAIT"}
    <3>1. cmd.dv = "none" /\ ~CacheReady
      BY <1>1, <1>5, <2>2 DEF Driving, Fetching, Control
    <3> QED BY <3>1
  <2> QED BY <2>1, <2>2
<1> QED BY <1>2, <1>3, <1>4, <1>5 DEF Types, States, Fetching, Shadow

\* No other master is let in while the cache has a victim to write back.
LEMMA ShadowOwned ==
  ASSUME Control, Fsm, Ddr
  PROVE  grant' # "cache" => ~Shadow'
<1>1. CASE grant # "cache"
  BY <1>1 DEF Control, Shadow, Fsm, StartWalk, Quiet, Latch, WriteHit, ReadHit, Miss, Refilling,
     Refilled, CacheReady, ToWait, ShadowGap, ShadowIssue, ShadowWait, ShadowDone,
     Walk, WalkRead, WalkWay, WalkWait, WalkGap, WalkClear, WalkDone, WalkStep, InMaint
<1>2. CASE grant = "cache" /\ grant' # "cache"
  <2>1. ~MissPath
    BY <1>2 DEF Ddr, CacheOwns, Tenure, EndTenure, GrantVga, GrantDma
  <2> QED BY <2>1 DEF MissPath, Shadow, Fsm, StartWalk, Quiet, Latch, WriteHit, ReadHit, Miss,
     Refilling, Refilled, ToWait, ShadowGap, ShadowIssue, ShadowWait, ShadowDone,
     Walk, WalkRead, WalkWay, WalkWait, WalkGap, WalkClear, WalkDone, WalkStep, InMaint
<1> QED BY <1>1, <1>2

\* The controller is kept in step with the command.
LEMMA ControlStep == ASSUME CoherenceInv, Next PROVE Control'
<1>1. Types /\ Driving /\ Control /\ Fsm /\ Ddr
  BY DEF CoherenceInv, Next
<1>2. /\ CacheReady => cmd'.dv = "none"
      /\ cmd.dv # "none" /\ ~CacheReady => cmd' = cmd
      /\ grant' # "cache" => ~Shadow'
  BY <1>1, CommandStep, ShadowOwned
<1>3. cmd.line \in Line /\ cmd.dv \in {"none", "read", "write"} /\ mem \in [Line -> Data]
  BY <1>1 DEF Types, Commands
<1>4. CASE grant # "cache"
  BY <1>1, <1>2, <1>4 DEF Control, Ddr, CacheOwns, Tenure, EndTenure
<1>5. CASE grant = "cache"
  <2>1. CASE CtlIdle
    BY <1>1, <1>2, <1>5, <2>1 DEF Control, CtlIdle, CacheReady
  <2>2. CASE CtlAccept
    <3>1. cmd.dv # "none" => cmd' = cmd
      BY <1>1, <1>2, <1>5, <2>2 DEF Control, CtlAccept, CacheReady
    <3>2. /\ ctl' = "WRITE" => cmd.dv = "write"
          /\ ctl' = "READ" => cmd.dv = "read"
          /\ ctl' \in {"WAIT", "WRITE", "READ"} /\ ready' = FALSE /\ dwReady' = FALSE
      BY <2>2 DEF CtlAccept
    <3> QED BY <1>2, <3>1, <3>2 DEF Control
  <2>3. CASE CtlBusy
    <3>1. cmd' = cmd /\ ~ready /\ cmd.dv # "none"
      BY <1>1, <1>2, <1>5, <2>3 DEF Control, CtlBusy, CacheReady
    <3>2. ctl' = ctl /\ ready' = FALSE /\ dwReady' = FALSE
      BY <1>1, <2>3, <3>1 DEF Control, CtlBusy
    <3> QED BY <1>1, <1>2, <2>3, <1>5, <3>1, <3>2 DEF Control, CtlBusy
  <2>4. CASE CtlWritten
    <3>1. cmd.dv = "write" /\ cmd' = cmd /\ mem'[cmd.line] = cmd.data
      BY <1>1, <1>2, <1>3, <1>5, <2>4 DEF Control, CtlWritten, CacheReady
    <3> QED BY <1>1, <1>2, <1>5, <2>4, <3>1 DEF Control, CtlWritten
  <2>5. CASE CtlFirstWord \/ CtlRead
    <3>1. cmd.dv = "read" /\ cmd' = cmd
      BY <1>1, <1>2, <1>5, <2>5 DEF Control, CtlFirstWord, CtlRead, CacheReady
    <3>2. CASE CtlFirstWord
      <4>1. ctl' = "TAIL" /\ ready' = FALSE /\ dwReady' = TRUE
        BY <1>1, <1>5, <3>2 DEF Control, CtlFirstWord
      <4> QED BY <1>2, <3>1, <4>1 DEF Control
    <3>3. CASE CtlRead
      <4>1. ctl' = "IDLE" /\ ready' = TRUE /\ dwReady' = FALSE
        BY <3>3 DEF CtlRead
      <4> QED BY <1>2, <3>1, <4>1 DEF Control
    <3> QED BY <2>5, <3>2, <3>3
  <2> QED BY <1>1, <1>5, <2>1, <2>2, <2>3, <2>4, <2>5
          DEF Ddr, CacheOwns, CtlFinish, Tenure, EndTenure
<1> QED BY <1>4, <1>5

\* The command is what the state says it is.
LEMMA DrivingStep == ASSUME CoherenceInv, Next PROVE Driving'
<1>1. Types /\ Protocol /\ Driving /\ Fsm
  BY DEF CoherenceInv, Next
<1> USE <1>1
<1>2. cmd.dv \in {"none", "read", "write"} /\ [cmd EXCEPT !.dv = "none"].dv = "none"
  BY DEF Types, Commands
<1>3. CASE StartWalk
  BY <1>2, <1>3 DEF StartWalk, Driving, Fetching
<1>4. CASE Quiet \/ Latch
  BY <1>2, <1>4 DEF Quiet, Latch, Driving, Fetching
<1>5. CASE WriteHit \/ ReadHit
  BY <1>2, <1>5 DEF WriteHit, ReadHit, ToWait, Driving, Fetching
<1>6. CASE Miss
  <2>1. state' \in {"WRITE_FETCH", "READ_WAIT"}
    BY <1>6 DEF Miss
  <2> QED BY <1>6, <2>1 DEF Miss, Driving, Fetching
<1>7. CASE Refilling
  BY <1>7 DEF Refilling, Driving, Fetching
<1>8. CASE Refilled
  <2>1. cmd'.dv = "none" /\ state' \in {"WAIT", "EVICT_SHADOW_GAP"}
    BY <1>2, <1>8 DEF Refilled, AfterRefill, ToWait
  <2> QED BY <2>1 DEF Driving, Fetching
<1>9. CASE ShadowGap
  BY <1>9 DEF ShadowGap, Driving, Fetching
<1>10. CASE ShadowIssue
  BY <1>10 DEF ShadowIssue, Driving, Fetching
<1>11. CASE ShadowWait
  BY <1>11 DEF ShadowWait, Driving, Fetching
<1>12. CASE ShadowDone
  BY <1>2, <1>12 DEF ShadowDone, ToWait, Driving, Fetching
<1>13. ASSUME NEW w \in Way, NEW at, NEW wait, NEW next, WalkWay(w, at, wait, next),
              at \notin {"W0_WAIT", "W1_WAIT"}, next \notin {"W0_WAIT", "W1_WAIT"},
              wait = IF w = 0 THEN "W0_WAIT" ELSE "W1_WAIT"
       PROVE  Driving'
  <2>1. state = "MAINT" /\ state' = "MAINT" /\ array' = array /\ index' = index /\ sub = at
        /\ cmd.dv = "none"
    BY <1>2, <1>13 DEF WalkWay, WalkStep, InMaint, Driving, Fetching
  <2>2. CASE array[index][w].tag # NoTag /\ array[index][w].dirty
    <3>1. /\ cmd' = [dv |-> "write", line |-> <<array[index][w].tag, index>>,
                     data |-> array[index][w].data]
          /\ sub' = wait
      BY <1>13, <2>2 DEF WalkWay
    <3> QED BY <1>13, <2>1, <2>2, <3>1 DEF Driving, Fetching, WritesWay, Way
  <2>3. CASE ~(array[index][w].tag # NoTag /\ array[index][w].dirty)
    <3>1. cmd' = cmd /\ sub' = next
      BY <1>13, <2>3 DEF WalkWay
    <3> QED BY <1>13, <2>1, <3>1 DEF Driving, Fetching
  <2> QED BY <2>2, <2>3
<1>14. ASSUME NEW at, NEW next, WalkWait(at, next), at \in {"W0_WAIT", "W1_WAIT"},
              next \notin {"W0_WAIT", "W1_WAIT"}
       PROVE  Driving'
  <2>1. state = "MAINT" /\ state' = "MAINT" /\ array' = array /\ index' = index /\ sub = at
    BY <1>14 DEF WalkWait, WalkStep, InMaint
  <2>2. (cmd'.dv = "none" /\ sub' = next) \/ (cmd' = cmd /\ sub' = sub)
    BY <1>2, <1>14 DEF WalkWait
  <2> QED BY <1>14, <2>1, <2>2 DEF Driving, Fetching, WritesWay
<1>15. CASE Walk
  <2>1. CASE WalkWay(0, "W0", "W0_WAIT", "W1") \/ WalkWay(1, "W1", "W1_WAIT", "CLR")
    BY <1>13, <2>1 DEF Way
  <2>2. CASE WalkWait("W0_WAIT", "W0_GAP") \/ WalkWait("W1_WAIT", "W1_GAP")
    BY <1>14, <2>2
  <2>3. CASE WalkRead \/ WalkGap("W0_GAP", "W1") \/ WalkGap("W1_GAP", "CLR")
    <3>1. /\ state = "MAINT" /\ state' = "MAINT" /\ cmd' = cmd
          /\ sub \notin {"W0_WAIT", "W1_WAIT"} /\ sub' \notin {"W0_WAIT", "W1_WAIT"}
      BY <2>3 DEF WalkRead, WalkGap, WalkStep, InMaint
    <3> QED BY <1>2, <3>1 DEF Driving, Fetching
  <2>4. CASE WalkClear \/ WalkDone
    <3>1. /\ state = "MAINT" /\ state' \in {"MAINT", "WAIT"} /\ cmd' = cmd
          /\ sub \notin {"W0_WAIT", "W1_WAIT"} /\ sub' \notin {"W0_WAIT", "W1_WAIT"}
      BY <2>4 DEF WalkClear, WalkDone, NextSet, WalkStep, InMaint
    <3> QED BY <1>2, <3>1 DEF Driving, Fetching
  <2> QED BY <1>15, <2>1, <2>2, <2>3, <2>4 DEF Walk
<1> QED BY <1>3, <1>4, <1>5, <1>6, <1>7, <1>8, <1>9, <1>10, <1>11, <1>12, <1>15 DEF Fsm

-----------------------------------------------------------------------------
(* The frames.                                                             *)

\* While DDR is written nothing else moves: it is the victim or a frame of
\* the walk's set.
LEMMA MemWritten ==
  ASSUME CoherenceInv, Next, mem' # mem
  PROVE  /\ mem' = [mem EXCEPT ![cmd.line] = cmd.data] /\ cmd.line \in Line
         /\ UNCHANGED <<array, index, evictWay, victim, state, sub, req>>
         /\ \/ state = "EVICT_SHADOW_WAIT" /\ cmd.line = victim.line /\ cmd.data = victim.data
            \/ state = "MAINT" /\ sub = "W0_WAIT" /\ WritesWay(0)
            \/ state = "MAINT" /\ sub = "W1_WAIT" /\ WritesWay(1)
<1>1. Types /\ Driving /\ Control /\ Fsm /\ Ddr
  BY DEF CoherenceInv, Next
<1>2. /\ grant = "cache" /\ ctl = "WRITE" /\ cmd.dv = "write" /\ ~CacheReady
      /\ mem' = [mem EXCEPT ![cmd.line] = cmd.data]
  BY <1>1, MemStep DEF Control, CacheReady
<1>3. \/ state = "EVICT_SHADOW_WAIT" /\ cmd.line = victim.line /\ cmd.data = victim.data
      \/ state = "MAINT" /\ sub = "W0_WAIT" /\ WritesWay(0)
      \/ state = "MAINT" /\ sub = "W1_WAIT" /\ WritesWay(1)
  BY <1>1, <1>2 DEF Driving
<1>4. UNCHANGED <<array, index, evictWay, victim, state, sub, req>>
  BY <1>1, <1>2, <1>3 DEF Fsm, StartWalk, Quiet, Latch, WriteHit, ReadHit, Miss, Refilling,
     Refilled, ShadowGap, ShadowIssue, ShadowWait, ShadowDone,
     Walk, WalkRead, WalkWay, WalkWait, WalkGap, WalkClear, WalkDone, WalkStep, InMaint
<1>5. cmd.line \in Line
  BY <1>1 DEF Types, Commands
<1> QED BY <1>2, <1>3, <1>4, <1>5

\* The line of a frame, and that two frames of one line are the same frame.
LEMMA FrameLines ==
  ASSUME Types, LineInOneWay, NEW s \in Set, NEW w \in Way, array[s][w].tag # NoTag
  PROVE  /\ <<array[s][w].tag, s>> \in Line /\ array[s][w].tag \in Tags
         /\ array[s][w] \in Frame /\ array[s][w].data \in Data
         /\ \A v \in Way : array[s][v].tag = array[s][w].tag => v = w
<1>1. array[s][w] \in Frame
  BY DEF Types
<1> QED BY <1>1 DEF Frame, Line, LineInOneWay, Way

\* Writing a line to DDR leaves clean frames clean.
LEMMA FramesWritten == ASSUME CoherenceInv, Next, mem' # mem PROVE Frames'
<1>1. Types /\ Frames /\ LineInOneWay /\ Driving
  BY DEF CoherenceInv, Frames
<1> USE <1>1, MemWritten
<1>2. LineInOneWay'
  BY DEF LineInOneWay
<1>3. ASSUME NEW s \in Set, NEW w \in Way, Saved(s, w), array[s][w].tag # NoTag,
             \/ <<array[s][w].tag, s>> # cmd.line
             \/ cmd.data = array[s][w].data
      PROVE  mem'[<<array[s][w].tag, s>>] = array[s][w].data
  <2>1. <<array[s][w].tag, s>> \in Line
    BY <1>3, FrameLines
  <2> QED BY <1>3, <2>1 DEF Saved, Types
<1>4. ASSUME NEW s \in Set, NEW w \in Way, array[s][w].tag # NoTag,
             <<array[s][w].tag, s>> = cmd.line
      PROVE  /\ state = "MAINT" /\ s = index /\ cmd.data = array[s][w].data
             /\ w = IF sub = "W0_WAIT" THEN 0 ELSE 1
  <2>1. CASE state = "EVICT_SHADOW_WAIT"
    <3>1. victim.line[2] = s /\ victim.line[1] = array[s][w].tag
      BY <1>4, <2>1
    <3> QED BY <2>1, <3>1 DEF Frames, Shadow
  <2>2. CASE state = "MAINT" /\ sub = "W0_WAIT" /\ WritesWay(0)
    <3>1. s = index /\ array[s][w].tag = array[s][0].tag
      BY <1>4, <2>2 DEF WritesWay
    <3>2. w = 0
      BY <1>4, <3>1, FrameLines DEF Way
    <3> QED BY <2>2, <3>1, <3>2 DEF WritesWay
  <2>3. CASE state = "MAINT" /\ sub = "W1_WAIT" /\ WritesWay(1)
    <3>1. s = index /\ array[s][w].tag = array[s][1].tag
      BY <1>4, <2>3 DEF WritesWay
    <3>2. w = 1
      BY <1>4, <3>1, FrameLines DEF Way
    <3> QED BY <2>3, <3>1, <3>2 DEF WritesWay
  <2> QED BY <2>1, <2>2, <2>3
<1>5. \A s \in Set, w \in Way : Saved(s, w) => Saved(s, w)'
  BY <1>3, <1>4 DEF Saved
<1>6. index \in Set /\ 0 \in Way /\ 1 \in Way
  BY DEF Types, Way
<1> QED BY <1>2, <1>5, <1>6 DEF Frames, Fetching, Shadow

\* A refill puts the line where the victim was, and the victim aside.
LEMMA FramesRefilled == ASSUME CoherenceInv, Next, Refilled, mem' = mem PROVE Frames'
<1>1. Types /\ Protocol /\ Driving /\ Frames /\ LineInOneWay /\ Fetching
  BY DEF CoherenceInv, Frames, Refilled, Fetching
<1> USE <1>1
<1>2. /\ req \in Request /\ index = req.addr.set /\ LineOf(req.addr) = <<req.addr.tag, index>>
      /\ index \in Set /\ evictWay \in Way /\ req.addr.tag \in Tags
  BY RefilledArray DEF LineOf, Types, Request, Addr
<1>3. \A s \in Set, w \in Way : s # index \/ w # evictWay => array'[s][w] = array[s][w]
  BY RefilledArray
<1>4. /\ array'[index][evictWay].tag = req.addr.tag
      /\ array'[index][evictWay].dirty <=> state = "WRITE_FETCH"
      /\ state # "WRITE_FETCH" => array'[index][evictWay].data = mem[<<req.addr.tag, index>>]
  <2> DEFINE d == IF state = "WRITE_FETCH" THEN Merge(mem[LineOf(req.addr)], req)
                                           ELSE mem[LineOf(req.addr)]
  <2>1. array'[index][evictWay] =
          [tag |-> req.addr.tag, dirty |-> state = "WRITE_FETCH", data |-> d]
    BY <1>2, RefilledArray
  <2>2. d = mem[<<req.addr.tag, index>>] \/ state = "WRITE_FETCH"
    BY <1>2
  <2> HIDE DEF d
  <2>3. CASE state = "WRITE_FETCH"
    <3>1. array'[index][evictWay] = [tag |-> req.addr.tag, dirty |-> TRUE, data |-> d]
      BY <2>1, <2>3
    <3> QED BY <2>3, <3>1
  <2>4. CASE state # "WRITE_FETCH"
    <3>1. array'[index][evictWay] = [tag |-> req.addr.tag, dirty |-> FALSE, data |-> d]
      BY <2>1, <2>4
    <3> QED BY <2>2, <2>4, <3>1
  <2> QED BY <2>3, <2>4
<1>5. \A w \in Way : array[index][w].tag # req.addr.tag
  BY DEF Frames
<1>6. LineInOneWay'
  <2> SUFFICES ASSUME NEW s \in Set, array'[s][0].tag = array'[s][1].tag
               PROVE  array'[s][0].tag = NoTag
    BY DEF LineInOneWay
  <2>1. CASE s # index
    BY <1>3, <2>1 DEF LineInOneWay, Way
  <2>2. CASE s = index
    BY <1>2, <1>3, <1>4, <1>5, <2>2 DEF Way
  <2> QED BY <2>1, <2>2
<1>7. ASSUME NEW s \in Set, NEW w \in Way
      PROVE  /\ array'[s][w].dirty => array'[s][w].tag # NoTag
             /\ ~array'[s][w].dirty => Saved(s, w)'
  <2>1. CASE s # index \/ w # evictWay
    BY <1>3, <2>1 DEF Frames, Saved
  <2>2. CASE s = index /\ w = evictWay
    BY <1>2, <1>4, <2>2, TagAssumption DEF Saved, Fetching
  <2> QED BY <2>1, <2>2
<1>8. state' \in {"WAIT", "EVICT_SHADOW_GAP"} /\ victim' = victim /\ (Shadow' => victim # NoVictim)
  BY DEF Refilled, AfterRefill, ToWait, Shadow
<1>9. ASSUME Shadow'
      PROVE  /\ victim # NoVictim
             /\ \A w \in Way : array'[victim.line[2]][w].tag # victim.line[1]
  <2>1. /\ victim = [line |-> <<array[index][evictWay].tag, index>>,
                     data |-> array[index][evictWay].data]
        /\ array[index][evictWay].dirty
    BY <1>8, <1>9 DEF Frames
  <2>2. array[index][evictWay].tag # NoTag
    BY <1>2, <2>1 DEF Frames
  <2>3. \A w \in Way : w # evictWay => array[index][w].tag # array[index][evictWay].tag
    BY <1>2, <2>2, FrameLines
  <2>4. \A w \in Way : array'[index][w].tag # array[index][evictWay].tag
    BY <1>2, <1>3, <1>4, <1>5, <2>3
  <2> QED BY <1>8, <1>9, <2>1, <2>4
<1> QED BY <1>6, <1>7, <1>8, <1>9 DEF Frames, Fetching

\* The walk drops or keeps a set whose frames are in DDR.
LEMMA FramesCleared == ASSUME CoherenceInv, Next, WalkClear, mem' = mem PROVE Frames'
<1>1. Types /\ Frames /\ LineInOneWay /\ index \in Set /\ state = "MAINT" /\ sub = "CLR"
  BY DEF CoherenceInv, Frames, WalkClear, WalkStep, Types
<1> USE <1>1
<1>2. \A s \in Set, w \in Way : s # index => array'[s][w] = array[s][w]
  BY WalkClearArray
<1>3. \A w \in Way : /\ array'[index][w].tag \in {NoTag, array[index][w].tag}
                     /\ walkMode = "INVALIDATE" => array'[index][w].tag = NoTag
                     /\ walkMode # "INVALIDATE" => array'[index][w].tag = array[index][w].tag
                     /\ ~array'[index][w].dirty /\ array'[index][w].data = array[index][w].data
  <2> TAKE w \in Way
  <2>1. array'[index][w] = [tag |-> IF walkMode = "INVALIDATE" THEN NoTag
                                    ELSE array[index][w].tag,
                            dirty |-> FALSE, data |-> array[index][w].data]
    BY WalkClearArray
  <2> QED BY <2>1
<1>4. LineInOneWay'
  <2> SUFFICES ASSUME NEW s \in Set, array'[s][0].tag = array'[s][1].tag
               PROVE  array'[s][0].tag = NoTag
    BY DEF LineInOneWay
  <2>1. CASE s # index
    BY <1>2, <2>1 DEF LineInOneWay, Way
  <2>2. CASE s = index
    BY <1>3, <2>2 DEF Way, LineInOneWay
  <2> QED BY <2>1, <2>2
<1>5. \A w \in Way : Saved(index, w)
  BY DEF Frames, Way
<1>6. \A s \in Set, w \in Way : /\ array'[s][w].dirty => array'[s][w].tag # NoTag
                                /\ ~array'[s][w].dirty => Saved(s, w)'
  <2> TAKE s \in Set, w \in Way
  <2>1. CASE s # index
    BY <1>2, <2>1 DEF Frames, Saved
  <2>2. CASE s = index
    BY <1>3, <1>5, <2>2 DEF Saved
  <2> QED BY <2>1, <2>2
<1>7. state' = "MAINT" /\ sub' \in {"READ", "DONE"}
  BY DEF WalkClear, InMaint, NextSet
<1> QED BY <1>4, <1>6, <1>7 DEF Frames, Fetching, Shadow

\* A store that hits makes its frame dirty.
LEMMA FramesHit == ASSUME CoherenceInv, Next, WriteHit, mem' = mem PROVE Frames'
<1>1. Types /\ Protocol /\ Frames /\ LineInOneWay /\ state' = "WAIT" /\ req.addr.tag \in Tags
  BY DEF CoherenceInv, Frames, WriteHit, ToWait, Protocol, Serving, Request, Addr
<1> USE <1>1
<1>2. \A s \in Set, w \in Way :
        /\ array'[s][w].tag = array[s][w].tag
        /\ array'[s][w] = array[s][w] \/ (array'[s][w].dirty /\ array'[s][w].tag # NoTag)
  <2> TAKE s \in Set, w \in Way
  <2> DEFINE d == Merge(array[s][w].data, req)
  <2>1. \/ array'[s][w] = array[s][w]
        \/ /\ array'[s][w] = [tag |-> req.addr.tag, dirty |-> TRUE, data |-> d]
           /\ array[s][w].tag = req.addr.tag
    BY WriteHitArray
  <2> HIDE DEF d
  <2> QED BY <2>1, TagAssumption
<1>3. LineInOneWay'
  BY <1>2 DEF LineInOneWay, Way
<1>4. \A s \in Set, w \in Way : /\ array'[s][w].dirty => array'[s][w].tag # NoTag
                                /\ ~array'[s][w].dirty => Saved(s, w)'
  BY <1>2 DEF Frames, Saved
<1> QED BY <1>3, <1>4 DEF Frames, Fetching, Shadow

\* With the arrays and DDR as they are, only the state says more.
LEMMA FramesKept == ASSUME CoherenceInv, Next, array' = array, mem' = mem PROVE Frames'
<1>1. Types /\ Protocol /\ Driving /\ Control /\ Frames /\ LineInOneWay /\ Fsm
  BY DEF CoherenceInv, Frames, Next
<1>2. LineInOneWay' /\ \A s \in Set, w \in Way : Saved(s, w)' <=> Saved(s, w)
  BY <1>1 DEF LineInOneWay, Saved
<1> DEFINE Walked == state' = "MAINT" =>
                       /\ sub' \in {"W0_GAP", "W1", "W1_WAIT", "W1_GAP", "CLR"} => Saved(index', 0)
                       /\ sub' \in {"W1_GAP", "CLR"} => Saved(index', 1)
           Fetched == Fetching' =>
                        /\ \A w \in Way : array[index'][w].tag # req'.addr.tag
                        /\ victim' = IF array[index'][evictWay'].dirty
                                     THEN [line |-> <<array[index'][evictWay'].tag, index'>>,
                                           data |-> array[index'][evictWay'].data]
                                     ELSE NoVictim
           Aside == Shadow' => /\ victim' # NoVictim
                               /\ \A w \in Way : array[victim'.line[2]][w].tag # victim'.line[1]
<1>3. Walked
  <2>1. CASE StartWalk
    BY <2>1 DEF StartWalk
  <2>2. index \in Set /\ 0 \in Way /\ 1 \in Way
    BY <1>1 DEF Types, Way
  <2>3. ASSUME NEW w \in Way, WritesWay(w), cmd.dv = "write", CacheReady PROVE Saved(index, w)
    BY <1>1, <2>3 DEF Control, CacheReady, WritesWay, Saved
  <2>4. ASSUME NEW w \in Way, NEW at, NEW wait, NEW next, WalkWay(w, at, wait, next), sub' = next,
               next # wait
        PROVE  Saved(index, w)
    BY <1>1, <2>2, <2>4 DEF WalkWay, Frames, Saved
  <2>5. CASE WalkWay(0, "W0", "W0_WAIT", "W1") \/ WalkWay(1, "W1", "W1_WAIT", "CLR")
    <3>1. state = "MAINT" /\ index' = index
      BY <2>5 DEF WalkWay, WalkStep
    <3> QED BY <1>1, <2>2, <2>4, <2>5, <3>1 DEF WalkWay, Frames
  <2>6. CASE WalkWait("W0_WAIT", "W0_GAP") \/ WalkWait("W1_WAIT", "W1_GAP")
    <3>1. state = "MAINT" /\ index' = index
      BY <2>6 DEF WalkWait, WalkStep
    <3> QED BY <1>1, <2>2, <2>3, <2>6, <3>1 DEF WalkWait, Frames, Driving
  <2>7. CASE WalkRead \/ WalkGap("W0_GAP", "W1") \/ WalkGap("W1_GAP", "CLR")
    BY <1>1, <2>7 DEF WalkRead, WalkGap, WalkStep, Frames
  <2>8. CASE WalkClear \/ WalkDone
    BY <2>8 DEF WalkClear, WalkDone, NextSet
  <2>9. CASE ~(StartWalk \/ Walk)
    BY <2>9, <1>1 DEF Fsm, Quiet, Latch, WriteHit, ReadHit, Miss, Refilling, Refilled,
       AfterRefill, ToWait, ShadowGap, ShadowIssue, ShadowWait, ShadowDone
  <2> QED BY <2>1, <2>5, <2>6, <2>7, <2>8, <2>9 DEF Walk
<1>4. Fetched
  <2>1. CASE Miss
    BY <1>1, <2>1 DEF Miss, Hit, HitWays, Evicted, Protocol, Serving
  <2>2. CASE Refilling
    BY <1>1, <2>2 DEF Refilling, Frames, Fetching
  <2>3. CASE ~(Miss \/ Refilling)
    <3>1. ~Fetching'
      BY <1>1, <2>3 DEF Fetching, Fsm, StartWalk, Quiet, Latch, WriteHit, ReadHit, Refilled,
         AfterRefill, ToWait, ShadowGap, ShadowIssue, ShadowWait, ShadowDone,
         Walk, WalkRead, WalkWay, WalkWait, WalkGap, WalkClear, WalkDone, WalkStep, InMaint
    <3> QED BY <3>1
  <2> QED BY <2>1, <2>2, <2>3
<1>5. Aside
  <2>1. CASE Refilled
    BY <2>1, FramesRefilled DEF Frames
  <2>2. CASE ShadowGap \/ ShadowIssue \/ ShadowWait
    BY <1>1, <2>2 DEF ShadowGap, ShadowIssue, ShadowWait, Frames, Shadow
  <2>3. CASE ~(Refilled \/ ShadowGap \/ ShadowIssue \/ ShadowWait)
    <3>1. ~Shadow'
      BY <1>1, <2>3 DEF Shadow, Fsm, StartWalk, Quiet, Latch, WriteHit, ReadHit, Miss, Refilling,
         ToWait, ShadowDone,
         Walk, WalkRead, WalkWay, WalkWait, WalkGap, WalkClear, WalkDone, WalkStep, InMaint
    <3> QED BY <3>1
  <2> QED BY <2>1, <2>2, <2>3
<1> QED BY <1>1, <1>2, <1>3, <1>4, <1>5 DEF Frames, Saved

\* The frames are kept.
LEMMA FramesStep == ASSUME CoherenceInv, Next PROVE Frames'
<1>1. mem' # mem \/ array' = array \/ WriteHit \/ Refilled \/ WalkClear
  BY ArrayStep DEF CoherenceInv, Frames, Next
<1> QED BY <1>1, FramesWritten, FramesKept, FramesHit, FramesRefilled, FramesCleared

-----------------------------------------------------------------------------
(* The walk.                                                               *)

\* The sets a walk has behind it are clean, and empty if it invalidates.
LEMMA SweptStep == ASSUME CoherenceInv, Next PROVE Swept'
<1>1. Types /\ Swept /\ Fsm
  BY DEF CoherenceInv, Next
<1> USE <1>1
<1>2. CASE StartWalk
  BY <1>2 DEF StartWalk, Swept, Set
<1>3. CASE WalkClear
  <2>1. state = "MAINT" /\ walkMode' = walkMode /\ index \in 0 .. LastSet /\ sub # "DONE"
    BY <1>3 DEF WalkClear, WalkStep, InMaint, Types, Set
  <2>2. \A s \in Set, w \in Way : /\ s # index => array'[s][w] = array[s][w]
                                  /\ s = index =>
                                       /\ ~array'[s][w].dirty
                                       /\ walkMode = "INVALIDATE" => array'[s][w].tag = NoTag
    <3> TAKE s \in Set, w \in Way
    <3>1. CASE s # index
      BY <1>3, <3>1, WalkClearArray
    <3>2. CASE s = index
      <4>1. array'[s][w] = [tag |-> IF walkMode = "INVALIDATE" THEN NoTag ELSE array[s][w].tag,
                            dirty |-> FALSE, data |-> array[s][w].data]
        BY <1>3, <3>2, WalkClearArray
      <4> QED BY <3>2, <4>1
    <3> QED BY <3>1, <3>2
  <2>3. ASSUME NEW s \in Set, s < index' \/ sub' = "DONE" PROVE s < index \/ s = index
    BY <1>3, <2>1, <2>3, SizeAssumption DEF WalkClear, NextSet, Set
  <2> QED BY <2>1, <2>2, <2>3 DEF Swept
<1>4. CASE Walk /\ ~WalkClear
  <2>1. /\ state = "MAINT" /\ array' = array /\ index' = index /\ walkMode' = walkMode
        /\ sub' = "DONE" => sub = "DONE"
    BY <1>4 DEF Walk, WalkRead, WalkWay, WalkWait, WalkGap, WalkDone, WalkStep
  <2> QED BY <2>1 DEF Swept
<1>5. CASE ~(StartWalk \/ Walk)
  <2>1. state' # "MAINT"
    BY <1>5 DEF Fsm, Quiet, Latch, WriteHit, ReadHit, Miss, Refilling, Refilled,
       AfterRefill, ToWait, ShadowGap, ShadowIssue, ShadowWait, ShadowDone
  <2> QED BY <2>1 DEF Swept
<1> QED BY <1>2, <1>3, <1>4, <1>5

-----------------------------------------------------------------------------
(* The last values stored.                                                 *)

\* A store leaves the port only by being latched, and a new value is on the
\* port when it becomes the last one stored.
LEMMA PortLeft ==
  ASSUME CoherenceInv, Next, NEW a \in Addr, ~OnPort(a)'
  PROVE  /\ arch'[a] = arch[a]
         /\ OnPort(a) => Latch /\ Keeps
<1>1. Types /\ Protocol /\ Driving /\ Cpu /\ Fsm
  BY DEF CoherenceInv, Next
<1> USE <1>1
<1>2. arch'[a] = arch[a]
  <2>1. CASE Keeps \/ Drops
    BY <2>1 DEF Keeps, Drops
  <2>2. CASE Issues
    <3>1. PICK r \in Asked : Issue(r)
      BY <2>2 DEF Issues
    <3>2. port' = r /\ port' # None /\ served' # port'.addr
      BY <2>2, <3>1, PortStep DEF Issue
    <3>3. r.dv # "write" \/ r.addr # a
      BY <3>2 DEF OnPort
    <3> QED BY <3>1, <3>3 DEF Issue, Types
  <2> QED BY <2>1, <2>2, CpuStep
<1>3. ASSUME OnPort(a) PROVE Latch /\ Keeps
  <2>1. port # None /\ resp = None /\ Keeps /\ served # port.addr /\ port.dv = "write"
    BY <1>3, CpuStep DEF OnPort, Protocol
  <2>2. served' # served
    BY <1>3, <2>1 DEF OnPort, Keeps
  <2>3. ~(Serving /\ ~missServed)
    BY <2>1 DEF Protocol, Serving
  <2>4. ~ReadHit
    BY <2>3 DEF ReadHit, Protocol, Serving
  <2>5. ~(Refilling \/ Refilled)
    BY <2>1, <2>2, <2>3 DEF Serving, ServedClear, Refilling, EarlyRestart, Refilled
  <2>6. ~Walk
    BY <2>1, <2>2 DEF ServedClear, Walk, WalkRead, WalkWay, WalkWait, WalkGap, WalkClear,
                      WalkDone, WalkStep
  <2>7. Latch
    BY <2>1, <2>2, <2>4, <2>5, <2>6 DEF ServedClear, Fsm, StartWalk, Quiet, WriteHit, Miss,
       ShadowGap, ShadowIssue, ShadowWait, ShadowDone
  <2> QED BY <2>1, <2>7
<1> QED BY <1>2, <1>3

\* A latched store is the last one of its address, until another is asked for.
LEMMA LatchedStep ==
  ASSUME CoherenceInv, Next, NEW a \in Addr, Latched(a)', ~OnPort(a)'
  PROVE  arch'[a] = req'.data
<1>1. Types /\ Protocol /\ Driving /\ Values /\ Cpu /\ Fsm
  BY DEF CoherenceInv, Next
<1> USE <1>1
<1>2. arch'[a] = arch[a] /\ (OnPort(a) => Latch)
  BY PortLeft
<1>3. CASE Latch
  <2>1. req' = port /\ port # None
    BY <1>3 DEF Latch, DvNew
  <2> QED BY <1>2, <2>1 DEF Latched, Values
<1>4. CASE ~Latch
  <2>1. Miss \/ (Refilling /\ state = "WRITE_FETCH")
    <3>1. state' \in {"CHECK", "WRITE_FETCH"}
      BY DEF Latched
    <3>2. ~Walk
      BY <3>1 DEF Walk, WalkRead, WalkWay, WalkWait, WalkGap, WalkClear, WalkDone, WalkStep, InMaint
    <3> QED BY <1>4, <3>1, <3>2 DEF Fsm, StartWalk, Quiet, WriteHit, ReadHit, Refilling, Refilled,
       AfterRefill, ToWait, ShadowGap, ShadowIssue, ShadowWait, ShadowDone
  <2>2. req' = req /\ state \in {"CHECK", "WRITE_FETCH"}
    BY <2>1 DEF Miss, Refilling
  <2>3. Latched(a)
    BY <2>2 DEF Latched
  <2> QED BY <1>2, <1>4, <2>2, <2>3 DEF Values
<1> QED BY <1>3, <1>4

\* What is stored when the clock ends was stored before, or is a latched store
\* that reaches its line now.
LEMMA StoredStep ==
  ASSUME CoherenceInv, Next, NEW a \in Addr, Stored(a)'
  PROVE  /\ arch'[a] = arch[a]
         /\ \/ Stored(a) /\ Held(a)
            \/ Latched(a) /\ arch[a] = req.data /\ (WriteHit \/ Refilled)
<1>1. Types /\ Protocol /\ Driving /\ Values /\ Cpu /\ Fsm
  BY DEF CoherenceInv, Next
<1> USE <1>1
<1>2. arch'[a] = arch[a] /\ (OnPort(a) => Latch)
  BY PortLeft DEF Stored
<1>3. ~OnPort(a)
  <2> SUFFICES ASSUME OnPort(a) PROVE FALSE
    OBVIOUS
  <2>1. req' = port /\ state' = "CHECK" /\ port.dv = "write" /\ port.addr = a
    BY <1>2 DEF Latch, OnPort
  <2> QED BY <2>1 DEF Stored, Latched
<1>4. ASSUME Latched(a) PROVE WriteHit \/ Refilled
  BY <1>4 DEF Stored, Latched, Fsm, StartWalk, Quiet, Latch, ReadHit, Miss, Refilling,
     ShadowGap, ShadowIssue, ShadowWait, ShadowDone,
     Walk, WalkRead, WalkWay, WalkWait, WalkGap, WalkClear, WalkDone, WalkStep
<1> QED BY <1>2, <1>3, <1>4 DEF Values, Stored

\* An address is given by its line and its offset.
LEMMA AddrLine ==
  ASSUME NEW a \in Addr
  PROVE  /\ a.tag \in Tags /\ a.set \in Set /\ a.off \in Off /\ LineOf(a) \in Line
         /\ LineOf(a) = <<a.tag, a.set>> /\ a.tag # NoTag
         /\ \A b \in Addr : b.tag = a.tag /\ b.set = a.set /\ b.off = a.off => b = a
BY TagAssumption DEF Addr, LineOf, Line

\* A writeback changes DDR only where the line is in the cache too.
LEMMA HeldWritten ==
  ASSUME CoherenceInv, Next, mem' # mem, NEW a \in Addr, Stored(a)'
  PROVE  Held(a)'
<1>1. /\ arch'[a] = arch[a] /\ Types
      /\ UNCHANGED <<array, victim, state>>
      /\ mem' = [mem EXCEPT ![cmd.line] = cmd.data] /\ cmd.line \in Line
  BY StoredStep, MemWritten DEF CoherenceInv
<1>2. state \in {"EVICT_SHADOW_WAIT", "MAINT"}
  BY MemWritten
<1>3. Held(a)
  BY <1>2, StoredStep DEF Latched
<1>4. LineOf(a) = cmd.line => InFrame(a) \/ InVictim(a)
  BY MemWritten, AddrLine DEF InFrame, InVictim, Shadow, WritesWay, Way
<1>5. LineOf(a) # cmd.line => mem'[LineOf(a)] = mem[LineOf(a)]
  BY <1>1, AddrLine DEF Types
<1> QED BY <1>1, <1>3, <1>4, <1>5 DEF Held, InFrame, InVictim, Shadow

\* A store that hits is in its frame, and the rest of the set is as it was.
LEMMA HeldHit ==
  ASSUME CoherenceInv, Next, WriteHit, mem' = mem, NEW a \in Addr, Stored(a)'
  PROVE  Held(a)'
<1>1. /\ Types /\ Protocol /\ LineInOneWay
      /\ req \in Request /\ index = req.addr.set /\ req.dv = "write"
  BY DEF CoherenceInv, Frames, WriteHit, Protocol, Serving
<1>2. state = "CHECK" /\ state' = "WAIT" /\ Hit
  BY DEF WriteHit, ToWait
<1>3. ~InVictim(a) /\ ~InVictim(a)'
  BY <1>2 DEF InVictim, Shadow
<1>4. req.addr \in Addr /\ (req.addr = a <=> Latched(a))
  BY <1>1, <1>2 DEF Request, Latched
<1>5. ASSUME NEW w \in Way PROVE array'[a.set][w].tag = array[a.set][w].tag
  <2> DEFINE d == Merge(array[a.set][w].data, req)
  <2>1. \/ array'[a.set][w] = array[a.set][w]
        \/ /\ array'[a.set][w] = [tag |-> req.addr.tag, dirty |-> TRUE, data |-> d]
           /\ array[a.set][w].tag = req.addr.tag
    BY <1>1, WriteHitArray, AddrLine
  <2> HIDE DEF d
  <2> QED BY <2>1
<1>6. ASSUME NEW w \in Way, array[a.set][w].tag = a.tag
      PROVE  array'[a.set][w].data[a.off] = arch[a]
  <2>1. array[a.set][w] \in Frame /\ array[a.set][w].data \in Data
    BY <1>1, <1>6, FrameLines, AddrLine
  <2>2. CASE a.set = index /\ a.tag = req.addr.tag
    <3>1. array'[a.set][w] = [tag |-> req.addr.tag, dirty |-> TRUE,
                              data |-> Merge(array[a.set][w].data, req)]
      BY <1>1, <1>6, <2>2, WriteHitArray, AddrLine
    <3>2. array'[a.set][w].data = Merge(array[a.set][w].data, req)
      BY <3>1
    <3>3. array'[a.set][w].data[a.off] = IF a.off = req.addr.off THEN req.data
                                         ELSE array[a.set][w].data[a.off]
      BY <1>1, <2>1, <3>2, MergeWord, AddrLine
    <3>4. CASE a.off = req.addr.off
      <4>1. a = req.addr
        BY <1>1, <1>4, <2>2, <3>4, AddrLine
      <4> QED BY <1>4, <3>3, <3>4, <4>1, StoredStep DEF Stored
    <3>5. CASE a.off # req.addr.off
      <4>1. Held(a)
        BY <1>4, <3>5, StoredStep
      <4> QED BY <1>6, <3>3, <3>5, <4>1 DEF Held
    <3> QED BY <3>4, <3>5
  <2>3. CASE ~(a.set = index /\ a.tag = req.addr.tag)
    <3>1. array'[a.set][w] = array[a.set][w]
      BY <1>1, <1>6, <2>3, WriteHitArray, AddrLine
    <3>2. Held(a)
      BY <1>1, <1>4, <2>3, StoredStep
    <3> QED BY <1>6, <3>1, <3>2 DEF Held
  <2> QED BY <2>2, <2>3
<1>7. ASSUME ~InFrame(a) PROVE mem[LineOf(a)][a.off] = arch[a]
  <2>1. ~Latched(a)
    BY <1>1, <1>2, <1>4, <1>7 DEF InFrame, Hit, HitWays
  <2> QED BY <1>3, <1>7, <2>1, StoredStep DEF Held
<1> QED BY <1>3, <1>5, <1>6, <1>7, StoredStep DEF Held, InFrame

\* The line a refill brings is as it was stored, and the victim is put aside
\* if DDR has not got it.
LEMMA HeldRefilled ==
  ASSUME CoherenceInv, Next, Refilled, mem' = mem, NEW a \in Addr, Stored(a)'
  PROVE  Held(a)'
<1>1. /\ Types /\ Protocol /\ Driving /\ Frames /\ LineInOneWay
      /\ Fetching /\ ~Shadow /\ req \in Request /\ index = req.addr.set
  BY DEF CoherenceInv, Frames, Refilled, Fetching, Shadow, Protocol, Serving
<1> USE <1>1
<1>2. /\ req.addr \in Addr /\ index \in Set /\ evictWay \in Way /\ mem[LineOf(req.addr)] \in Data
      /\ Latched(a) => req.addr = a /\ state = "WRITE_FETCH"
      /\ req.addr = a /\ state = "WRITE_FETCH" => Latched(a)
      /\ \A w \in Way : array[index][w].tag # req.addr.tag
  BY RefilledArray DEF Types, Request, Latched, Refilled, Frames, Protocol
<1>3. \A w \in Way : a.set # index \/ w # evictWay => array'[a.set][w] = array[a.set][w]
  BY RefilledArray, AddrLine
<1>4. ~Latched(a) => Held(a)
  BY StoredStep
<1>5. array'[index][evictWay].tag = req.addr.tag
  <2> DEFINE d == IF state = "WRITE_FETCH" THEN Merge(mem[LineOf(req.addr)], req)
                                           ELSE mem[LineOf(req.addr)]
  <2>1. array'[index][evictWay] =
          [tag |-> req.addr.tag, dirty |-> state = "WRITE_FETCH", data |-> d]
    BY <1>2, RefilledArray
  <2> HIDE DEF d
  <2> QED BY <2>1
<1>6. ASSUME LineOf(a) = LineOf(req.addr)
      PROVE  array'[index][evictWay].data[a.off] = arch[a]
  <2>1. a.set = index /\ a.tag = req.addr.tag /\ ~InFrame(a) /\ ~InVictim(a)
    BY <1>2, <1>6, AddrLine DEF InFrame, InVictim
  <2>2. ~Latched(a) => mem[LineOf(req.addr)][a.off] = arch[a]
    BY <1>4, <1>6, <2>1 DEF Held
  <2> DEFINE d == IF state = "WRITE_FETCH" THEN Merge(mem[LineOf(req.addr)], req)
                                           ELSE mem[LineOf(req.addr)]
  <2>3. array'[index][evictWay] =
          [tag |-> req.addr.tag, dirty |-> state = "WRITE_FETCH", data |-> d]
    BY <1>2, RefilledArray
  <2>4. d[a.off] = IF state = "WRITE_FETCH" /\ a.off = req.addr.off THEN req.data
                   ELSE mem[LineOf(req.addr)][a.off]
    BY <1>2, MergeWord, AddrLine
  <2>5. d[a.off] = arch[a]
    <3>1. CASE Latched(a)
      BY <1>2, <2>4, <3>1, StoredStep DEF Stored
    <3>2. CASE ~Latched(a)
      BY <1>2, <2>1, <2>2, <2>4, <3>2, AddrLine
    <3> QED BY <3>1, <3>2
  <2> HIDE DEF d
  <2> QED BY <2>3, <2>5
<1>7. ASSUME NEW w \in Way, array'[a.set][w].tag = a.tag
      PROVE  array'[a.set][w].data[a.off] = arch[a]
  <2>1. CASE a.set = index /\ w = evictWay
    <3>1. LineOf(a) = LineOf(req.addr)
      BY <1>2, <1>5, <1>7, <2>1, AddrLine
    <3> QED BY <1>6, <2>1, <3>1
  <2>2. CASE ~(a.set = index /\ w = evictWay)
    <3>1. array'[a.set][w] = array[a.set][w]
      BY <1>3, <2>2
    <3>2. ~Latched(a)
      BY <1>2, <1>7, <3>1
    <3> QED BY <1>4, <1>7, <3>1, <3>2 DEF Held
  <2> QED BY <2>1, <2>2
<1> DEFINE v == array[index][evictWay]
<1>8. /\ victim' = victim
      /\ Shadow' <=> victim # NoVictim
      /\ victim = IF v.dirty THEN [line |-> <<v.tag, index>>, data |-> v.data] ELSE NoVictim
  BY DEF Refilled, AfterRefill, ToWait, Frames, Shadow
<1>9. v.dirty => victim # NoVictim /\ victim.line = <<v.tag, index>> /\ victim.data = v.data
  <2>1. v.dirty => v \in Frame /\ v.tag # NoTag
    BY <1>2 DEF Frames, Types
  <2>2. v.dirty => <<v.tag, index>> \in Line /\ v.data \in Data
    BY <1>2, <2>1 DEF Frame, Line
  <2> QED BY <1>8, <2>2, NothingAssumption
<1>10. ASSUME a.set = index, a.tag = v.tag PROVE v.data[a.off] = arch[a] /\ ~Latched(a)
  BY <1>2, <1>4, <1>10 DEF Held
<1>11. ASSUME InVictim(a)' PROVE victim'.data[a.off] = arch[a]
  <2>1. v.dirty /\ LineOf(a) = <<v.tag, index>>
    BY <1>8, <1>9, <1>11 DEF InVictim, LineOf
  <2> QED BY <1>8, <1>9, <1>10, <2>1, AddrLine
<1>12. ASSUME ~InFrame(a)', ~InVictim(a)' PROVE mem[LineOf(a)][a.off] = arch[a]
  <2>1. ~Latched(a)
    BY <1>2, <1>5, <1>12 DEF InFrame
  <2>2. CASE a.set = index /\ a.tag = v.tag
    <3>1. ~v.dirty
      BY <1>8, <1>9, <1>12, <2>2, AddrLine DEF InVictim, LineOf
    <3>2. mem[<<v.tag, index>>] = v.data
      BY <1>2, <2>2, <3>1, AddrLine DEF Frames, Saved
    <3> QED BY <1>10, <2>2, <3>2, AddrLine
  <2>3. CASE ~(a.set = index /\ a.tag = v.tag)
    <3>1. ~InFrame(a)
      BY <1>3, <1>12, <2>3 DEF InFrame
    <3> QED BY <1>4, <2>1, <3>1 DEF Held, InVictim
  <2> QED BY <2>2, <2>3
<1> QED BY <1>7, <1>11, <1>12, StoredStep DEF Held

\* The victim is dropped when DDR has it.
LEMMA HeldDropped ==
  ASSUME CoherenceInv, Next, ShadowDone, mem' = mem, NEW a \in Addr, Stored(a)'
  PROVE  Held(a)'
<1>1. Types /\ Driving /\ Control /\ state = "EVICT_SHADOW_WAIT" /\ CacheReady /\ array' = array
      /\ state' = "WAIT"
  BY DEF CoherenceInv, ShadowDone, ToWait
<1>2. arch'[a] = arch[a] /\ Held(a)
  BY <1>1, StoredStep DEF Latched
<1>3. mem[victim.line] = victim.data
  BY <1>1 DEF Driving, Control, CacheReady
<1>4. ~InVictim(a)'
  BY <1>1 DEF InVictim, Shadow
<1>5. InVictim(a) => mem[LineOf(a)][a.off] = arch[a]
  BY <1>2, <1>3 DEF Held, InVictim
<1> QED BY <1>1, <1>2, <1>4, <1>5 DEF Held, InFrame

\* The walk takes nothing away that DDR has not got.
LEMMA HeldCleared ==
  ASSUME CoherenceInv, Next, WalkClear, mem' = mem, NEW a \in Addr, Stored(a)'
  PROVE  Held(a)'
<1>1. Types /\ Frames /\ state = "MAINT" /\ state' = "MAINT" /\ sub = "CLR"
  BY DEF CoherenceInv, WalkClear, WalkStep, InMaint
<1>2. arch'[a] = arch[a] /\ Held(a)
  BY <1>1, StoredStep DEF Latched
<1>3. ~InVictim(a) /\ ~InVictim(a)'
  BY <1>1 DEF InVictim, Shadow
<1>4. ASSUME NEW w \in Way
      PROVE  /\ array'[a.set][w].tag = a.tag => array[a.set][w].tag = a.tag
             /\ array'[a.set][w].data = array[a.set][w].data
             /\ a.set # index => array'[a.set][w] = array[a.set][w]
  <2>1. CASE a.set # index
    BY <1>1, <2>1, WalkClearArray, AddrLine
  <2>2. CASE a.set = index
    <3>1. array'[a.set][w] = [tag |-> IF walkMode = "INVALIDATE" THEN NoTag
                                      ELSE array[a.set][w].tag,
                              dirty |-> FALSE, data |-> array[a.set][w].data]
      BY <1>1, <2>2, WalkClearArray, AddrLine
    <3> QED BY <2>2, <3>1, AddrLine
  <2> QED BY <2>1, <2>2
<1>5. ASSUME ~InFrame(a)' PROVE mem[LineOf(a)][a.off] = arch[a]
  <2>1. CASE InFrame(a)
    <3>1. PICK w \in Way : array[a.set][w].tag = a.tag
      BY <2>1 DEF InFrame
    <3>2. a.set = index
      BY <1>4, <1>5, <3>1 DEF InFrame
    <3>3. Saved(index, w)
      BY <1>1 DEF Frames, Way
    <3> QED BY <1>2, <3>1, <3>2, <3>3, AddrLine DEF Saved, Held
  <2>2. CASE ~InFrame(a)
    BY <1>2, <1>3, <2>2 DEF Held
  <2> QED BY <2>1, <2>2
<1> QED BY <1>2, <1>3, <1>4, <1>5 DEF Held

\* The other actions move no data.
LEMMA HeldKept ==
  ASSUME CoherenceInv, Next, ~(WriteHit \/ Refilled \/ ShadowDone), array' = array, mem' = mem,
         NEW a \in Addr, Stored(a)'
  PROVE  Held(a)'
<1>1. arch'[a] = arch[a] /\ Held(a)
  BY StoredStep
<1>2. Fsm
  BY DEF Next
<1>3. (Shadow' <=> Shadow) /\ (Shadow => victim' = victim)
  <2>1. CASE Walk
    BY <2>1 DEF Shadow, Walk, WalkRead, WalkWay, WalkWait, WalkGap, WalkClear, WalkDone,
       WalkStep, InMaint
  <2>2. CASE ShadowGap \/ ShadowIssue \/ ShadowWait
    BY <2>2 DEF Shadow, ShadowGap, ShadowIssue, ShadowWait
  <2>3. CASE ~(Walk \/ ShadowGap \/ ShadowIssue \/ ShadowWait)
    BY <1>2, <2>3 DEF Shadow, Fsm, StartWalk, Quiet, Latch, ReadHit, Miss, Refilling, ToWait
  <2> QED BY <2>1, <2>2, <2>3
<1> QED BY <1>1, <1>3 DEF Held, InFrame, InVictim

\* The last value stored is kept where it belongs.
LEMMA ValuesStep == ASSUME CoherenceInv, Next PROVE Values'
<1>1. Types /\ Protocol /\ Driving /\ LineInOneWay /\ Values /\ Cpu /\ Fsm
  BY DEF CoherenceInv, Frames, Next
<1>2. port' # None /\ port'.dv = "write" => arch'[port'.addr] = port'.data
  <2>1. CASE Keeps \/ Drops
    BY <1>1, <2>1 DEF Keeps, Drops, Values
  <2>2. CASE Issues
    <3>1. PICK r \in Asked : Issue(r)
      BY <2>2 DEF Issues
    <3>2. r.addr \in Addr
      BY AskedAssumption DEF Request
    <3> QED BY <1>1, <3>1, <3>2 DEF Issue, Types
  <2> QED BY <1>1, <2>1, <2>2, CpuStep
<1>3. ASSUME NEW a \in Addr, Stored(a)' PROVE Held(a)'
  <2>1. \/ mem' # mem
        \/ mem' = mem /\ (array' = array \/ WriteHit \/ Refilled \/ WalkClear)
    BY <1>1, ArrayStep
  <2> QED BY <1>3, <2>1, HeldWritten, HeldHit, HeldRefilled, HeldDropped, HeldCleared, HeldKept
<1>4. ASSUME NEW a \in Addr, Latched(a)', ~OnPort(a)' PROVE arch'[a] = req'.data
  BY <1>4, LatchedStep
<1> QED BY <1>2, <1>3, <1>4 DEF Values

-----------------------------------------------------------------------------
(* What a load gets.                                                       *)

\* While a load waits, nothing is on its way to the line.
LEMMA LoadWaits ==
  ASSUME CoherenceInv, Serving, ~missServed
  PROVE  /\ port = req /\ req \in Request /\ req.dv = "read"
         /\ \A a \in Addr : Held(a)
<1>1. Types /\ Protocol /\ Values
  BY DEF CoherenceInv
<1>2. port = req /\ req \in Request /\ req.dv # "write"
  BY <1>1 DEF Protocol
<1> QED BY <1>1, <1>2 DEF Values, Stored, OnPort, Latched, Request

\* A word of the line that is held is the last value stored, and the next one
\* is its successor's.
LEMMA LineWords ==
  ASSUME NEW a \in Addr, NEW d \in Data, NEW p \in {Present(d, a.off), PresentEarly(d, a.off)},
         \A b \in Addr : LineOf(b) = LineOf(a) => d[b.off] = arch[b]
  PROVE  p.word = arch[a] /\ (p.next # None => p.next = arch[Successor(a)])
<1>1. a.off \in Off
  BY AddrLine
<1>2. p.word = d[a.off] /\ (p.next # None => a.off + 1 \in Off /\ p.next = d[a.off + 1])
  BY <1>1, PresentWord
<1>3. ASSUME a.off + 1 \in Off
      PROVE  /\ Successor(a) \in Addr /\ LineOf(Successor(a)) = LineOf(a)
             /\ Successor(a).off = a.off + 1
  BY <1>3 DEF Successor, Addr, LineOf
<1> QED BY <1>2, <1>3

\* The answer of a load is the last value stored.
LEMMA ReadsStep == ASSUME CoherenceInv, Next PROVE ReadsLastStore'
<1>1. Types /\ Protocol /\ Driving /\ Frames /\ LineInOneWay /\ Cpu /\ Fsm
  BY DEF CoherenceInv, Frames, Next
<1> SUFFICES ASSUME resp' \in Response
             PROVE  /\ resp'.word = arch'[port'.addr]
                    /\ resp'.next # None => resp'.next = arch'[Successor(port'.addr)]
  BY DEF ReadsLastStore
<1>2. Keeps
  BY <1>1, PortStep, NothingAssumption
<1>3. ReadHit \/ ((Refilling \/ Refilled) /\ ~missServed)
  <2>1. resp' # None /\ resp' # Ack /\ resp = None
    BY <1>1, ServedStep, NothingAssumption
  <2>2. ~Walk
    BY <2>1 DEF Walk, WalkRead, WalkWay, WalkWait, WalkGap, WalkClear, WalkDone, WalkStep
  <2> QED BY <1>1, <2>1, <2>2 DEF Fsm, StartWalk, Quiet, Latch, WriteHit, Miss, Refilling,
     EarlyRestart, Refilled, ShadowGap, ShadowIssue, ShadowWait, ShadowDone
<1>4. Serving /\ ~missServed
  BY <1>1, <1>3 DEF ReadHit, Refilling, Refilled, Serving, Protocol
<1>5. port = req /\ req.addr \in Addr /\ req.dv = "read" /\ index = req.addr.set
  BY <1>1, <1>4, LoadWaits DEF Request, Protocol
<1>6. \A a \in Addr : Held(a)
  BY <1>4, LoadWaits
<1>7. CASE ReadHit
  <2> DEFINE w == HitWay(index, req.addr.tag)
             d == array[index][w].data
  <2>1. w \in Way /\ array[index][w].tag = req.addr.tag
    BY <1>7 DEF ReadHit, Hit, HitWays, HitWay, Way
  <2>2. d \in Data
    BY <1>1, <1>5, <2>1, AddrLine, FrameLines
  <2>3. resp' = Present(d, req.addr.off)
    BY <1>7 DEF ReadHit
  <2> HIDE DEF w
  <2>4. \A b \in Addr : LineOf(b) = LineOf(req.addr) => d[b.off] = arch[b]
    BY <1>5, <1>6, <2>1, AddrLine DEF Held
  <2> HIDE DEF d
  <2> QED BY <1>2, <1>5, <2>2, <2>3, <2>4, LineWords DEF Keeps
<1>8. CASE (Refilling \/ Refilled) /\ ~missServed
  <2> DEFINE d == mem[cmd.line]
  <2>1. Fetching /\ state = "READ_WAIT" /\ ~Shadow
    BY <1>1, <1>5, <1>8 DEF Refilling, Refilled, Fetching, Shadow, Protocol
  <2>2. cmd.line = LineOf(req.addr) /\ d \in Data
    BY <1>1, <2>1 DEF Driving, Types, Commands
  <2>3. resp' \in {Present(d, req.addr.off), PresentEarly(d, req.addr.off)}
    BY <1>5, <1>8, <2>1, NothingAssumption DEF Refilling, EarlyRestart, Refilled
  <2>4. \A b \in Addr : LineOf(b) = LineOf(req.addr) => d[b.off] = arch[b]
    BY <1>1, <1>5, <1>6, <2>1, <2>2, AddrLine DEF Held, InFrame, InVictim, Frames
  <2> HIDE DEF d
  <2> QED BY <1>2, <1>5, <2>2, <2>3, <2>4, LineWords DEF Keeps
<1> QED BY <1>3, <1>7, <1>8

-----------------------------------------------------------------------------
(* The theorems.                                                           *)

\* A clock, or no clock at all, keeps the invariant.
LEMMA CoherenceStep == ASSUME CoherenceInv, [Next]_vars PROVE CoherenceInv'
<1>1. CASE Next
  BY <1>1, TypesStep, ProtocolStep, DrivingStep, ControlStep, FramesStep, SweptStep, ValuesStep,
     ReadsStep DEF CoherenceInv
<1>2. CASE UNCHANGED vars
  <2>1. UNCHANGED <<port, resp, served, state, sub, req, index, evictWay, missServed, victim,
                    array, lru, cmd, active, walkMode, ctl, ready, dwReady, mem, grant, arch>>
    BY <1>2 DEF vars, portVars, cacheVars, mntVars, ddrVars
  <2>2. Types' /\ Protocol' /\ Driving' /\ Control' /\ Swept' /\ ReadsLastStore'
    BY <2>1 DEF CoherenceInv, Types, Protocol, Driving, Control, Swept, ReadsLastStore, Serving,
                Fetching, Shadow, WritesWay
  <2>3. Frames'
    BY <2>1 DEF CoherenceInv, Frames, LineInOneWay, Saved, Fetching, Shadow
  <2>4. Values'
    BY <2>1 DEF CoherenceInv, Values, Held, Latched, OnPort, Stored, InFrame, InVictim, Shadow
  <2> QED BY <2>2, <2>3, <2>4 DEF CoherenceInv
<1> QED BY <1>1, <1>2

\* The invariant holds in every reachable state, in every geometry.
THEOREM Coherent == Spec => []CoherenceInv
<1>1. Init => CoherenceInv
  BY Initially
<1>2. CoherenceInv /\ [Next]_vars => CoherenceInv'
  BY CoherenceStep
<1> QED BY <1>1, <1>2, PTL DEF Spec

\* A load answered over the port, by a hit, by the early restart of a miss or
\* by its end, returns the last value stored and the right companion word.
THEOREM LoadsReadLastStore == Spec => []ReadsLastStore
<1>1. CoherenceInv => ReadsLastStore
  BY DEF CoherenceInv
<1> QED BY <1>1, Coherent, PTL

\* A load the hit pipe answers while the FSM works on another set returns the
\* last value stored.
THEOREM PipeReadsLast == Spec => []PipeReadsLastStore
<1>1. ASSUME CoherenceInv, NEW a \in Addr, HOk(a),
             ~(port # None /\ port.dv = "write" /\ port.addr = a)
      PROVE  HWord(a) = arch[a]
  <2>1. ~Latched(a)
    BY <1>1 DEF CoherenceInv, Latched, Protocol, Serving, HOk
  <2>2. Held(a)
    BY <1>1, <2>1 DEF CoherenceInv, Values, Stored, OnPort
  <2>3. HitWay(a.set, a.tag) \in Way /\ array[a.set][HitWay(a.set, a.tag)].tag = a.tag
    BY <1>1 DEF HOk, HitWays, HitWay, Way
  <2> QED BY <2>2, <2>3 DEF HWord, Held
<1>2. CoherenceInv => PipeReadsLastStore
  BY <1>1 DEF PipeReadsLastStore
<1> QED BY <1>2, Coherent, PTL

\* The served-DV guard: no request is answered twice, however long its DV
\* stays up after the answer.
THEOREM ServedOnce == Spec => []AnsweredOnce
<1>1. CoherenceInv => AnsweredOnce
  BY DEF CoherenceInv, Protocol, AnsweredOnce, DvNew
<1> QED BY <1>1, Coherent, PTL

\* A refill never puts a line into a second way of its set.
THEOREM OneWay == Spec => []LineInOneWay
<1>1. CoherenceInv => LineInOneWay
  BY DEF CoherenceInv, Frames
<1> QED BY <1>1, Coherent, PTL

\* Another master never reads a line of which the cache holds the only good
\* copy outside its arrays.
THEOREM VictimNotExposed == Spec => []VictimHidden
<1>1. ASSUME CoherenceInv, grant # "cache", NEW a \in Addr,
             HitWays(a.set, a.tag) = {},
             ~(port # None /\ port.dv = "write" /\ port.addr = a),
             ~(req # NoReq /\ req.dv = "write" /\ req.addr = a)
      PROVE  mem[LineOf(a)][a.off] = arch[a]
  <2>1. ~Latched(a)
    BY <1>1, NothingAssumption DEF CoherenceInv, Latched, Protocol, Serving
  <2>2. Held(a)
    BY <1>1, <2>1 DEF CoherenceInv, Values, Stored, OnPort
  <2>3. ~InVictim(a)
    BY <1>1 DEF CoherenceInv, Control, InVictim
  <2>4. ~InFrame(a)
    BY <1>1 DEF InFrame, HitWays
  <2> QED BY <2>2, <2>3, <2>4 DEF Held
<1>2. CoherenceInv => VictimHidden
  BY <1>1 DEF VictimHidden
<1> QED BY <1>2, Coherent, PTL

\* The arbiter takes no transaction from the cache, and the cache changes no
\* command, while the controller works on it.
THEOREM Undisturbed == Spec => TransactionUndisturbed
<1>1. ASSUME CoherenceInv, Next, grant = "cache", ctl \in {"WRITE", "READ", "TAIL"}
      PROVE  grant' = "cache" /\ cmd' = cmd
  <2>1. Types /\ Protocol /\ Driving /\ Control /\ Fsm /\ Ddr
    BY <1>1 DEF CoherenceInv, Next
  <2>2. cmd.dv \in {"read", "write"} /\ ~CacheReady
    BY <1>1, <2>1 DEF Control, CacheReady
  <2>3. cmd' = cmd
    BY <2>1, <2>2, CommandStep
  <2>4. MissPath \/ (state = "MAINT" /\ sub # "READ" /\ MntBusy)
    BY <2>1, <2>2 DEF Driving, Fetching, MissPath, MntBusy, Protocol
  <2>5. grant' = "cache"
    BY <1>1, <2>1, <2>4 DEF Ddr, CacheOwns, Tenure, EndTenure, GrantVga, GrantDma
  <2> QED BY <2>3, <2>5
<1>2. CoherenceInv /\ [Next]_vars =>
        [grant = "cache" /\ ctl \in {"WRITE", "READ", "TAIL"}
           => grant' = "cache" /\ cmd' = cmd]_vars
  BY <1>1
<1> QED BY <1>2, Coherent, PTL DEF Spec, TransactionUndisturbed

\* A walk that ends has been through every set.
THEOREM WalkSweeps == Spec => WalkComplete
<1>1. ASSUME CoherenceInv, Next, active, ~active', NEW s \in Set, NEW w \in Way
      PROVE  ~array'[s][w].dirty /\ (walkMode = "INVALIDATE" => array'[s][w].tag = NoTag)
  <2>1. state = "MAINT" /\ Fsm
    BY <1>1 DEF CoherenceInv, Protocol, Next
  <2>2. WalkDone
    BY <1>1, <2>1 DEF Fsm, StartWalk, Quiet, Latch, WriteHit, ReadHit, Miss, Refilling, Refilled,
       ShadowGap, ShadowIssue, ShadowWait, ShadowDone,
       Walk, WalkRead, WalkWay, WalkWait, WalkGap, WalkClear, InMaint
  <2> QED BY <1>1, <2>1, <2>2 DEF WalkDone, CoherenceInv, Swept
<1>2. CoherenceInv /\ [Next]_vars =>
        [active /\ ~active' => \A s \in Set, w \in Way :
           /\ ~array'[s][w].dirty
           /\ walkMode = "INVALIDATE" => array'[s][w].tag = NoTag]_vars
  BY <1>1
<1> QED BY <1>2, Coherent, PTL DEF Spec, WalkComplete

\* Every register keeps its range: no index, gap count or address leaves it.
THEOREM TypesHold == Spec => []TypeOK
<1> DEFINE Kinds == {"FLUSH", "INVALIDATE"}
<1>1. Init => TypeOK
  <2> SUFFICES ASSUME Init PROVE TypeOK
    OBVIOUS
  <2>1. Types /\ Control
    BY Initially DEF CoherenceInv
  <2>2. /\ served = None /\ req = NoReq /\ gap = 0 /\ go = {} /\ goAge = 0 /\ pending = FALSE
        /\ mode = "FLUSH" /\ active = FALSE /\ activeD = FALSE /\ walkMode = "FLUSH"
        /\ owed = {} /\ grant = "cache" /\ must = {}
    BY DEF Init
  <2>3. 0 \in 0 .. GapLen /\ 0 \in 0 .. GoHold
    BY SizeAssumption
  <2>4. Commands = [dv : {"none", "read", "write"}, line : Line, data : Data]
    BY DEF Commands
  <2> QED BY <2>1, <2>2, <2>3, <2>4 DEF TypeOK, Types, Control, Victims
<1>2. ASSUME CoherenceInv, TypeOK, Next PROVE TypeOK'
  <2>1. /\ Types /\ Protocol /\ Driving /\ Types' /\ Control'
        /\ Fsm /\ Ddr /\ Maintenance /\ History
    BY <1>2, TypesStep, ControlStep DEF CoherenceInv, Next
  <2>2. served' \in Addr \cup {None}
    BY <1>2, <2>1, ServedStep DEF TypeOK, Request
  <2>3. req' \in Request \cup {NoReq}
    BY <1>2, <2>1 DEF TypeOK, DvNew, Fsm, StartWalk, Quiet, Latch, WriteHit, ReadHit, Miss,
       Refilling, Refilled, AfterRefill, ToWait, ShadowGap, ShadowIssue, ShadowWait, ShadowDone,
       Walk, WalkRead, WalkWay, WalkWait, WalkGap, WalkClear, WalkDone, WalkStep
  <2>4. gap' \in 0 .. GapLen
    <3>1. gap \in Nat /\ gap <= GapLen
      BY <1>2, SizeAssumption DEF TypeOK
    <3>2. gap' = gap \/ gap' = GapLen \/ (gap' = gap - 1 /\ gap # 0)
      <4>1. CASE Walk
        BY <4>1 DEF Walk, WalkRead, WalkWay, WalkWait, WalkGap, WalkClear, WalkDone
      <4>2. CASE ShadowGap
        BY <3>1, <4>2 DEF ShadowGap
      <4>3. CASE Refilled
        BY <4>3 DEF Refilled, AfterRefill
      <4>4. CASE ~(Walk \/ ShadowGap \/ Refilled)
        BY <2>1, <4>4 DEF Fsm, StartWalk, Quiet, Latch, WriteHit, ReadHit, Miss, Refilling,
           ShadowIssue, ShadowWait, ShadowDone
      <4> QED BY <4>1, <4>2, <4>3, <4>4
    <3> QED BY <3>1, <3>2, SizeAssumption
  <2>5. go' \in SUBSET Kinds /\ goAge' \in 0 .. GoHold
    <3>1. go \in SUBSET Kinds /\ goAge \in Nat
      BY <1>2, SizeAssumption DEF TypeOK
    <3>2. Mnt!RaiseGo \/ Mnt!HoldGo \/ Mnt!DropGo \/ Mnt!QuietGo
      BY <2>1 DEF Maintenance, Mnt!Strobe
    <3>3. go' \in SUBSET Kinds
      BY <3>1, <3>2 DEF Mnt!RaiseGo, Mnt!HoldGo, Mnt!DropGo, Mnt!QuietGo, Mnt!Kinds
    <3>4. goAge' \in {0, 1} \/ (goAge' = goAge + 1 /\ goAge < GoHold)
      BY <3>2 DEF Mnt!RaiseGo, Mnt!HoldGo, Mnt!DropGo, Mnt!QuietGo
    <3> QED BY <3>1, <3>3, <3>4, SizeAssumption
  <2>6. pending' \in BOOLEAN /\ mode' \in Kinds /\ activeD' \in BOOLEAN
    BY <1>2, <2>1 DEF TypeOK, Maintenance, Mnt!Register, Mnt!Capture, Mnt!Consume, Mnt!KeepRequest
  <2>7. walkMode' \in Kinds /\ active' \in BOOLEAN
    BY <1>2, <2>1 DEF TypeOK, Fsm, StartWalk, Quiet, Latch, WriteHit, ReadHit, Miss, Refilling,
       Refilled, ShadowGap, ShadowIssue, ShadowWait, ShadowDone, NoMntStart,
       Walk, WalkRead, WalkWay, WalkWait, WalkGap, WalkClear, WalkDone, WalkStep, InMaint
  <2>8. owed' \in SUBSET Kinds
    <3>1. Mnt!Requested \in SUBSET Kinds
      BY <1>2 DEF TypeOK, Mnt!Requested
    <3>2. owed' \subseteq owed \cup Mnt!Requested
      BY <2>1 DEF Fsm, StartWalk, Quiet, Latch, WriteHit, ReadHit, Miss, Refilling,
         Refilled, ShadowGap, ShadowIssue, ShadowWait, ShadowDone, NoMntStart,
         Walk, WalkRead, WalkWay, WalkWait, WalkGap, WalkClear, WalkDone, WalkStep
    <3> QED BY <1>2, <3>1, <3>2 DEF TypeOK
  <2>9. grant' \in {"cache", "vga", "dma"}
    BY <1>2, <2>1 DEF TypeOK, Ddr, CacheOwns, Tenure, EndTenure, GrantVga, GrantDma
  <2>10. must' \in SUBSET Line
    BY <1>2, <2>1 DEF TypeOK, History, Outdated
  <2> QED BY <2>1, <2>2, <2>3, <2>4, <2>5, <2>6, <2>7, <2>8, <2>9, <2>10
          DEF TypeOK, Types, Control, Commands, Victims
<1>3. TypeOK /\ UNCHANGED vars => TypeOK'
  BY DEF TypeOK, vars, portVars, cacheVars, mntVars, ddrVars
<1> QED BY <1>1, <1>2, <1>3, Coherent, PTL DEF Spec

-----------------------------------------------------------------------------
\* The cache FSM starts, serves and walks as MaintCapture's FSM does
\* (mem_read_write.sv:639-1086).
LEMMA FsmStep ==
  ASSUME Fsm
  PROVE  Mnt!Fsm
<1>1. CASE StartWalk
  BY <1>1 DEF StartWalk, Mnt!Fsm, Mnt!StartWalk
<1>2. CASE Quiet
  BY <1>2 DEF Quiet, NoMntStart, Mnt!Fsm, Mnt!Idle
<1>3. CASE Latch
  BY <1>3 DEF Latch, NoMntStart, Mnt!Fsm, Mnt!Access
<1>4. CASE WriteHit \/ ReadHit
  BY <1>4 DEF WriteHit, ReadHit, ToWait, NoMntStart, Mnt!Fsm, Mnt!Serve
<1>5. CASE Miss
  BY <1>5 DEF Miss, NoMntStart, Mnt!Fsm, Mnt!Serve
<1>6. CASE Refilling
  BY <1>6 DEF Refilling, NoMntStart, Mnt!Fsm, Mnt!Serve
<1>7. CASE Refilled
  BY <1>7 DEF Refilled, AfterRefill, ToWait, NoMntStart, Mnt!Fsm, Mnt!Serve
<1>8. CASE ShadowGap \/ ShadowIssue
  BY <1>8 DEF ShadowGap, ShadowIssue, NoMntStart, Mnt!Fsm, Mnt!Serve
<1>9. CASE ShadowWait \/ ShadowDone
  BY <1>9 DEF ShadowWait, ShadowDone, ToWait, NoMntStart, Mnt!Fsm, Mnt!Serve
<1>10. CASE WalkDone
  BY <1>10 DEF WalkDone, WalkStep, Mnt!Fsm, Mnt!EndWalk
<1>11. CASE Walk /\ ~WalkDone
  <2>1. WalkStep /\ InMaint
    BY <1>11 DEF Walk, WalkRead, WalkWay, WalkWait, WalkGap, WalkClear
  <2> QED BY <2>1 DEF WalkStep, InMaint, Mnt!Fsm, Mnt!Walk
<1> QED BY <1>1, <1>2, <1>3, <1>4, <1>5, <1>6, <1>7, <1>8, <1>9, <1>10, <1>11
        DEF Fsm

\* The cache implements MaintCapture: its walks start for captured requests
\* only, in their mode, and keep it (mem_read_write.sv:245-278, 642-650).
THEOREM Refinement == Spec => ImplementsMaintCapture
<1>1. Init => Mnt!Init
  BY DEF Init, Mnt!Init
<1>2. [Next]_vars => [Mnt!Next]_(Mnt!vars)
  <2>1. CASE Next
    BY <2>1, FsmStep DEF Next, Maintenance, Mnt!Next
  <2>2. CASE UNCHANGED vars
    BY <2>2 DEF vars, cacheVars, mntVars, Mnt!vars
  <2> QED BY <2>1, <2>2
<1> QED BY <1>1, <1>2, PTL DEF Spec, ImplementsMaintCapture, Mnt!Safety

-----------------------------------------------------------------------------
Capture == INSTANCE MaintCaptureProofs WITH
  state <- IF state \in {"WAIT", "MAINT"} THEN state ELSE "BUSY"

\* So no request is lost in the cache either, whatever the FSM, the DDR
\* controller and the other masters do when it rises.
THEOREM RequestsKept ==
  ASSUME GoHold >= 2
  PROVE  Spec => []Mnt!NoRequestLost
<1>1. Spec => Capture!Safety
  <2>1. Mnt!Init => Capture!Init
    BY DEF Mnt!Init, Capture!Init
  <2>2. Mnt!Strobe => Capture!Strobe
    BY DEF Mnt!Strobe, Mnt!RaiseGo, Mnt!HoldGo, Mnt!DropGo, Mnt!QuietGo, Mnt!Kinds,
           Capture!Strobe, Capture!RaiseGo, Capture!HoldGo, Capture!DropGo,
           Capture!QuietGo, Capture!Kinds
  <2>3. Mnt!Register => Capture!Register
    BY DEF Mnt!Register, Mnt!Capture, Mnt!Consume, Mnt!KeepRequest,
           Capture!Register, Capture!Capture, Capture!Consume, Capture!KeepRequest
  <2>4. Mnt!Fsm => Capture!Fsm
    BY Zenon
    DEF Mnt!Fsm, Mnt!StartWalk, Mnt!Idle, Mnt!Access, Mnt!Serve, Mnt!Walk,
        Mnt!EndWalk, Mnt!Requested, Mnt!Covered, Mnt!Kinds,
        Capture!Fsm, Capture!StartWalk, Capture!Idle, Capture!Access,
        Capture!Serve, Capture!Walk, Capture!EndWalk, Capture!Requested,
        Capture!Covered, Capture!Kinds
  <2>5. [Mnt!Next]_(Mnt!vars) => [Capture!Next]_(Capture!vars)
    BY <2>2, <2>3, <2>4 DEF Mnt!Next, Capture!Next, Mnt!vars, Capture!vars
  <2> QED BY <2>1, <2>5, Refinement, PTL
          DEF ImplementsMaintCapture, Mnt!Safety, Capture!Safety
<1>2. Capture!Safety => []Capture!NoRequestLost
  BY Capture!RequestsKept, SizeAssumption
<1> QED BY <1>1, <1>2, PTL DEF Mnt!NoRequestLost, Capture!NoRequestLost

-----------------------------------------------------------------------------
\* Where a line that is owed to DDR can be.
Carried(l) ==
  \/ \E a \in Addr : Latched(a) /\ LineOf(a) = l
  \/ \E w \in Way : array[l[2]][w].tag = l[1] /\ array[l[2]][w].dirty
  \/ Shadow /\ victim.line = l

\* The walk has dealt with way w of its set.
Passed(w) ==
  /\ state = "MAINT"
  /\ sub \in (IF w = 0 THEN {"W0_GAP", "W1", "W1_WAIT", "W1_GAP", "CLR"}
                       ELSE {"W1_GAP", "CLR"})

\* Of the lines of S none is lost, none is behind the walk in its set, and
\* none is the one DDR has just taken.
Owes(S) ==
  /\ \A l \in S : Carried(l)
  /\ \A w \in Way : Passed(w) /\ array[index][w].dirty
                      => <<array[index][w].tag, index>> \notin S
  /\ CacheReady /\ cmd.dv = "write" => cmd.line \notin S

FlushInv ==
  /\ must \in SUBSET Line /\ Owes(must)
  /\ must # {} => MntBusy
  /\ go # {} => port = None
  /\ goAge = 1 => go # {}

\* What is owed once the requests of this clock are counted.
Owing == must \cup (IF goAge = 1 THEN Outdated ELSE {})

-----------------------------------------------------------------------------
\* A line whose words are the last ones stored is not out of date.
LEMMA UpToDate ==
  ASSUME NEW l \in Line, \A a \in Addr : LineOf(a) = l => mem[l][a.off] = arch[a]
  PROVE  l \notin Outdated
<1> SUFFICES ASSUME NEW o \in Off,
                    mem[l][o] # arch[[tag |-> l[1], set |-> l[2], off |-> o]]
             PROVE  FALSE
  BY DEF Outdated
<1> DEFINE a == [tag |-> l[1], set |-> l[2], off |-> o]
<1>1. a \in Addr /\ LineOf(a) = l /\ a.off = o
  BY DEF Addr, Line, LineOf
<1> QED BY <1>1

\* A request finds no line out of date that is not carried: the port is idle.
LEMMA OutdatedOwed == ASSUME CoherenceInv, FlushInv, goAge = 1 PROVE Owes(Outdated)
<1>1. /\ Types /\ Protocol /\ Driving /\ Control /\ Frames /\ LineInOneWay
      /\ \A a \in Addr : ~Latched(a) => Held(a)
  BY DEF CoherenceInv, Frames, Values, FlushInv, Stored, OnPort
<1> USE <1>1
<1>2. ASSUME NEW l \in Outdated PROVE Carried(l)
  <2>1. PICK o \in Off : mem[l][o] # arch[[tag |-> l[1], set |-> l[2], off |-> o]]
    BY DEF Outdated
  <2> DEFINE a == [tag |-> l[1], set |-> l[2], off |-> o]
  <2>2. a \in Addr /\ LineOf(a) = l /\ a.off = o /\ a.tag = l[1] /\ a.set = l[2]
    BY DEF Addr, Line, LineOf, Outdated
  <2>3. mem[LineOf(a)][a.off] # arch[a]
    BY <2>1, <2>2
  <2> HIDE DEF a
  <2>4. CASE Latched(a) \/ InVictim(a)
    BY <2>2, <2>4 DEF Carried, InVictim
  <2>5. CASE ~(Latched(a) \/ InVictim(a))
    <3>1. PICK w \in Way : array[a.set][w].tag = a.tag
      BY <2>2, <2>3, <2>5 DEF Held, InFrame
    <3>2. array[a.set][w].data[a.off] = arch[a]
      BY <2>2, <2>5, <3>1 DEF Held
    <3>3. ~Saved(a.set, w)
      BY <2>2, <2>3, <3>1, <3>2, AddrLine DEF Saved
    <3>4. array[a.set][w].dirty
      BY <2>2, <3>3, AddrLine DEF Frames
    <3> QED BY <2>2, <3>1, <3>4 DEF Carried
  <2> QED BY <2>4, <2>5
<1>3. ASSUME NEW w \in Way, state = "MAINT", array[index][w].tag # NoTag,
             mem[<<array[index][w].tag, index>>] = array[index][w].data
      PROVE  <<array[index][w].tag, index>> \notin Outdated
  <2> DEFINE l == <<array[index][w].tag, index>>
  <2>1. l \in Line
    BY <1>3, FrameLines DEF Types
  <2>2. ASSUME NEW a \in Addr, LineOf(a) = l PROVE mem[l][a.off] = arch[a]
    <3>1. Held(a) /\ a.set = index /\ a.tag = array[index][w].tag
      BY <1>3, <2>2 DEF Latched, LineOf
    <3> QED BY <1>3, <3>1 DEF Held
  <2> HIDE DEF l
  <2>3. l \notin Outdated
    BY <2>1, <2>2, UpToDate
  <2> QED BY <2>3 DEF l
<1>4. ASSUME NEW w \in Way, Passed(w), array[index][w].dirty
      PROVE  <<array[index][w].tag, index>> \notin Outdated
  <2>1. state = "MAINT" /\ Saved(index, w) /\ array[index][w].tag # NoTag
    BY <1>4 DEF Passed, Frames, Way, Types
  <2> QED BY <1>3, <2>1 DEF Saved
<1>5. ASSUME CacheReady, cmd.dv = "write" PROVE cmd.line \notin Outdated
  <2>1. mem[cmd.line] = cmd.data /\ cmd.line \in Line
    BY <1>5 DEF Control, CacheReady, Types, Commands
  <2>2. CASE state = "EVICT_SHADOW_WAIT"
    <3>1. cmd.line = victim.line /\ cmd.data = victim.data
      BY <2>2 DEF Driving
    <3>2. ASSUME NEW a \in Addr, LineOf(a) = cmd.line PROVE mem[cmd.line][a.off] = arch[a]
      BY <2>1, <2>2, <3>1, <3>2 DEF Held, InVictim, Shadow, Latched
    <3> QED BY <2>1, <3>2, UpToDate
  <2>3. CASE state # "EVICT_SHADOW_WAIT"
    <3>1. PICK w \in Way : state = "MAINT" /\ WritesWay(w)
      BY <1>5, <2>3 DEF Driving, Way
    <3> QED BY <1>3, <2>1, <3>1 DEF WritesWay
  <2> QED BY <2>2, <2>3
<1> QED BY <1>2, <1>4, <1>5 DEF Owes

\* So the requests of this clock owe no more than is carried.
LEMMA OwingOwed == ASSUME CoherenceInv, FlushInv PROVE Owing \in SUBSET Line /\ Owes(Owing)
<1>1. Owes(must) /\ must \in SUBSET Line /\ Outdated \in SUBSET Line
  BY DEF FlushInv, Outdated
<1>2. goAge = 1 => Owes(Outdated)
  BY OutdatedOwed
<1> QED BY <1>1, <1>2 DEF Owing, Owes

-----------------------------------------------------------------------------
(* One clock.                                                              *)

\* A line that is owed goes from the latched store to its frame, from the
\* frame to the victim registers, and from there nowhere but to DDR.
LEMMA CarriedStep ==
  ASSUME CoherenceInv, Next, NEW S \in SUBSET Line, Owes(S), NEW l \in S
  PROVE  Carried(l)'
<1>1. /\ Types /\ Protocol /\ Driving /\ Frames /\ LineInOneWay /\ Fsm
      /\ l \in Line /\ Carried(l)
  BY DEF CoherenceInv, Frames, Next, Owes
<1> USE <1>1
<1>2. ASSUME NEW a \in Addr, Latched(a), LineOf(a) = l PROVE Carried(l)'
  <2>1. /\ req.addr = a /\ req.dv = "write" /\ state \in {"CHECK", "WRITE_FETCH"}
        /\ index = l[2] /\ req.addr.tag = l[1] /\ index \in Set
    BY <1>2, AddrLine DEF Latched, Protocol, Serving, Types
  <2>2. CASE WriteHit
    <3>1. PICK w \in Way : array[index][w].tag = req.addr.tag
      BY <2>2 DEF WriteHit, Hit, HitWays
    <3> DEFINE d == Merge(array[index][w].data, req)
    <3>2. array'[index][w] = [tag |-> req.addr.tag, dirty |-> TRUE, data |-> d]
      BY <2>1, <2>2, <3>1, WriteHitArray
    <3> HIDE DEF d
    <3>3. array'[index][w].tag = l[1] /\ array'[index][w].dirty
      BY <2>1, <3>2
    <3> QED BY <2>1, <3>3 DEF Carried
  <2>3. CASE Refilled
    <3>1. state = "WRITE_FETCH" /\ evictWay \in Way
      BY <2>1, <2>3 DEF Refilled, Types
    <3> DEFINE d == Merge(mem[LineOf(req.addr)], req)
    <3>2. array'[index][evictWay] = [tag |-> req.addr.tag, dirty |-> TRUE, data |-> d]
      BY <2>1, <2>3, <3>1, RefilledArray
    <3> HIDE DEF d
    <3>3. array'[index][evictWay].tag = l[1] /\ array'[index][evictWay].dirty
      BY <2>1, <3>2
    <3> QED BY <2>1, <3>1, <3>3 DEF Carried
  <2>4. CASE ~(WriteHit \/ Refilled)
    <3>1. ~Walk
      BY <2>1 DEF Walk, WalkRead, WalkWay, WalkWait, WalkGap, WalkClear, WalkDone, WalkStep
    <3>2. Miss \/ Refilling
      BY <2>1, <2>4, <3>1 DEF Fsm, StartWalk, Quiet, Latch, ReadHit, ShadowGap, ShadowIssue,
         ShadowWait, ShadowDone
    <3>3. req' = req /\ state' = "WRITE_FETCH"
      BY <2>1, <3>2 DEF Miss, Refilling, Protocol, Serving
    <3>4. Latched(a)'
      BY <2>1, <3>3 DEF Latched
    <3> QED BY <1>2, <3>4 DEF Carried
  <2> QED BY <2>2, <2>3, <2>4
<1>3. ASSUME NEW w \in Way, array[l[2]][w].tag = l[1], array[l[2]][w].dirty PROVE Carried(l)'
  <2>1. l[2] \in Set /\ l[1] \in Tags /\ l = <<l[1], l[2]>>
    BY DEF Line
  <2>2. CASE array'[l[2]][w] = array[l[2]][w]
    BY <1>3, <2>2 DEF Carried
  <2>3. CASE WriteHit /\ array'[l[2]][w] # array[l[2]][w]
    <3> DEFINE d == Merge(array[l[2]][w].data, req)
    <3>1. /\ array'[l[2]][w] = [tag |-> req.addr.tag, dirty |-> TRUE, data |-> d]
          /\ array[l[2]][w].tag = req.addr.tag
      BY <2>1, <2>3, WriteHitArray
    <3> HIDE DEF d
    <3>2. array'[l[2]][w].tag = l[1] /\ array'[l[2]][w].dirty
      BY <1>3, <3>1
    <3> QED BY <3>2 DEF Carried
  <2>4. CASE Refilled /\ array'[l[2]][w] # array[l[2]][w]
    <3>1. l[2] = index /\ w = evictWay
      BY <2>1, <2>4, RefilledArray
    <3>2. /\ victim = [line |-> <<array[index][evictWay].tag, index>>,
                       data |-> array[index][evictWay].data]
          /\ Fetching
      BY <1>3, <2>4, <3>1 DEF Frames, Fetching, Refilled
    <3>3. array[index][evictWay].data \in Data
      BY <1>3, <2>1, <3>1, FrameLines, TagAssumption
    <3>4. victim \in Victims /\ victim.line = l
      BY <1>3, <2>1, <3>1, <3>2, <3>3 DEF Victims
    <3>5. Shadow' /\ victim' = victim
      BY <2>4, <3>4, NothingAssumption DEF Refilled, AfterRefill, Shadow, Victims
    <3> QED BY <3>4, <3>5 DEF Carried
  <2>5. CASE WalkClear /\ array'[l[2]][w] # array[l[2]][w]
    <3>1. l[2] = index
      BY <2>1, <2>5, WalkClearArray
    <3>2. Passed(w)
      BY <2>5 DEF WalkClear, WalkStep, Passed
    <3> QED BY <1>3, <2>1, <3>1, <3>2 DEF Owes
  <2> QED BY <2>2, <2>3, <2>4, <2>5, ArrayStep
<1>4. ASSUME Shadow, victim.line = l PROVE Carried(l)'
  <2>1. CASE ShadowDone
    BY <1>4, <2>1 DEF ShadowDone, Driving, Owes
  <2>2. CASE ~ShadowDone
    <3>1. ~Walk
      BY <1>4 DEF Shadow, Walk, WalkRead, WalkWay, WalkWait, WalkGap, WalkClear, WalkDone, WalkStep
    <3>2. ShadowGap \/ ShadowIssue \/ ShadowWait
      BY <1>4, <2>2, <3>1 DEF Shadow, Fsm, StartWalk, Quiet, Latch, WriteHit, ReadHit, Miss,
         Refilling, Refilled
    <3>3. Shadow' /\ victim' = victim
      BY <1>4, <3>2 DEF Shadow, ShadowGap, ShadowIssue, ShadowWait
    <3> QED BY <1>4, <3>3 DEF Carried
  <2> QED BY <2>1, <2>2
<1> QED BY <1>2, <1>3, <1>4 DEF Carried

\* The walk passes a dirty way only when DDR has taken its line.
LEMMA PassedStep ==
  ASSUME CoherenceInv, Next, NEW S \in SUBSET Line, Owes(S),
         NEW w \in Way, Passed(w)', array'[index'][w].dirty
  PROVE  <<array'[index'][w].tag, index'>> \notin S
<1>1. Types /\ Driving /\ Frames /\ Fsm /\ state' = "MAINT"
  BY DEF CoherenceInv, Next, Passed
<1> USE <1>1
<1>2. Walk /\ ~WalkClear /\ ~WalkDone /\ ~WalkRead
  <2>1. ~StartWalk /\ ~WalkClear /\ ~WalkDone /\ ~WalkRead
    BY DEF Passed, StartWalk, WalkClear, NextSet, WalkDone, WalkRead
  <2> QED BY <2>1 DEF Fsm, Quiet, Latch, WriteHit, ReadHit, Miss, Refilling, Refilled,
       AfterRefill, ToWait, ShadowGap, ShadowIssue, ShadowWait, ShadowDone
<1>3. state = "MAINT" /\ array' = array /\ index' = index /\ index \in Set
  BY <1>2 DEF Walk, WalkWay, WalkWait, WalkGap, WalkStep, Types
<1>4. array[index][w].dirty /\ array[index][w].tag # NoTag
  BY <1>3 DEF Frames
<1>5. CASE Passed(w)
  BY <1>3, <1>4, <1>5 DEF Owes
<1>6. CASE ~Passed(w)
  <2>1. CacheReady /\ cmd.dv = "write" /\ WritesWay(w)
    <3>1. CASE w = 0
      BY <1>2, <1>3, <1>4, <1>6, <3>1 DEF Walk, WalkWay, WalkWait, WalkGap, Passed, Driving
    <3>2. CASE w = 1
      BY <1>2, <1>3, <1>4, <1>6, <3>2 DEF Walk, WalkWay, WalkWait, WalkGap, Passed, Driving
    <3> QED BY <3>1, <3>2 DEF Way
  <2> QED BY <1>3, <2>1 DEF WritesWay, Owes
<1> QED BY <1>5, <1>6

\* When DDR has taken a line, that line is no longer owed.
LEMMA ReadyStep ==
  ASSUME CoherenceInv, Next, CacheReady', cmd'.dv = "write"
  PROVE  cmd'.line \notin must'
<1>1. Types /\ Driving /\ Control /\ Control' /\ Fsm /\ Ddr
      /\ ready' /\ grant' = "cache" /\ ctl' = "IDLE"
  BY ControlStep DEF CoherenceInv, Next, CacheReady, Control
<1>2. grant = "cache"
  BY <1>1 DEF Ddr, CacheOwns, Tenure, EndTenure
<1>3. CtlWritten \/ CtlRead
  BY <1>1, <1>2 DEF Ddr, CacheOwns, Tenure, EndTenure, CtlIdle, CtlAccept, CtlBusy, CtlFinish,
                    CtlFirstWord
<1>4. ctl \in {"WRITE", "TAIL"} /\ ~CacheReady
  BY <1>1, <1>2, <1>3 DEF CtlWritten, CtlRead, Control, CacheReady
<1>5. cmd' = cmd
  BY <1>1, <1>2, <1>4, CommandStep DEF Control
<1>6. ctl = "WRITE"
  BY <1>1, <1>2, <1>4, <1>5 DEF Control
<1> QED BY <1>1, <1>5, <1>6 DEF Next, History

\* A walk ends with nothing owed, and until then MNT_BUSY is up.
LEMMA BusyStep == ASSUME CoherenceInv, FlushInv, Next, must' # {} PROVE MntBusy'
<1>1. /\ Types /\ Protocol /\ Swept /\ Fsm
      /\ Mnt!Capture \/ Mnt!Consume \/ Mnt!KeepRequest
  BY DEF CoherenceInv, Next, Maintenance, Mnt!Register
<1>2. CASE goAge = 1
  <2>1. go # {}
    BY <1>2 DEF FlushInv
  <2>2. pending' = TRUE
    BY <1>1, <2>1 DEF Mnt!Capture, Mnt!Consume, Mnt!KeepRequest
  <2> QED BY <2>2 DEF MntBusy
<1>3. CASE goAge # 1
  <2>1. PICK l \in must : l \in must'
    BY <1>3 DEF Next, History
  <2>2. Carried(l) /\ l \in Line /\ MntBusy
    BY <2>1 DEF FlushInv, Owes
  <2>3. CASE active
    <3>1. ~WalkDone
      <4> SUFFICES ASSUME WalkDone PROVE FALSE
        OBVIOUS
      <4>1. state = "MAINT" /\ sub = "DONE" /\ l[2] \in Set
        BY <2>2 DEF WalkDone, WalkStep, Line
      <4>2. \A w \in Way : ~array[l[2]][w].dirty
        BY <1>1, <4>1 DEF Swept
      <4> QED BY <2>2, <4>1, <4>2 DEF Carried, Latched, Shadow
    <3>2. active'
      BY <1>1, <2>3, <3>1 DEF Fsm, StartWalk, Quiet, Latch, WriteHit, ReadHit, Miss, Refilling,
         Refilled, ShadowGap, ShadowIssue, ShadowWait, ShadowDone, NoMntStart,
         Walk, WalkRead, WalkWay, WalkWait, WalkGap, WalkClear, InMaint
    <3> QED BY <3>2 DEF MntBusy
  <2>4. CASE ~active
    <3>1. pending
      BY <2>2, <2>4 DEF MntBusy
    <3>2. pending'
      BY <1>1, <2>4, <3>1 DEF Mnt!Capture, Mnt!Consume, Mnt!KeepRequest
    <3> QED BY <3>2 DEF MntBusy
  <2> QED BY <2>3, <2>4
<1> QED BY <1>2, <1>3

-----------------------------------------------------------------------------
\* What is owed stays carried, and MNT_BUSY up, in every reachable state.
THEOREM NothingOwedIsLost == Spec => []FlushInv
<1>1. Init => FlushInv
  BY DEF Init, FlushInv, Owes
<1>2. ASSUME CoherenceInv, FlushInv, Next PROVE FlushInv'
  <2>1. Owing \in SUBSET Line /\ Owes(Owing) /\ must' \subseteq Owing
    BY <1>2, OwingOwed DEF Next, History, Owing
  <2>2. Owes(must)'
    <3>1. \A l \in must' : Carried(l)'
      BY <1>2, <2>1, CarriedStep
    <3>2. ASSUME NEW w \in Way, Passed(w)', array'[index'][w].dirty
          PROVE  <<array'[index'][w].tag, index'>> \notin must'
      BY <1>2, <2>1, <3>2, PassedStep
    <3>3. CacheReady' /\ cmd'.dv = "write" => cmd'.line \notin must'
      BY <1>2, ReadyStep
    <3> QED BY <3>1, <3>2, <3>3 DEF Owes
  <2>3. go' # {} => port' = None
    BY <1>2 DEF Next, Maintenance
  <2>4. goAge' = 1 => go' # {}
    BY <1>2 DEF Next, Maintenance, Mnt!Strobe, Mnt!RaiseGo, Mnt!HoldGo, Mnt!DropGo, Mnt!QuietGo
  <2> QED BY <1>2, <2>1, <2>2, <2>3, <2>4, BusyStep DEF FlushInv
<1>3. FlushInv /\ UNCHANGED vars => FlushInv'
  BY DEF FlushInv, Owes, Carried, Passed, Latched, Shadow, CacheReady, MntBusy,
         vars, portVars, cacheVars, mntVars, ddrVars
<1> QED BY <1>1, <1>2, <1>3, Coherent, PTL DEF Spec

\* Polling MNT_BUSY to zero is enough before a DMA read: everything stored
\* before a request is in DDR when no request is left.
THEOREM FlushDone == Spec => []FlushReachesMemory
<1>1. FlushInv => FlushReachesMemory
  BY DEF FlushInv, FlushReachesMemory
<1> QED BY <1>1, NothingOwedIsLost, PTL
=============================================================================
