----------------------------- MODULE VncSession -----------------------------
(***************************************************************************)
(* A VNC session with the board: the two clients of the repository,        *)
(* tools/vnc_viewer.py (a reader thread and the Tk thread) and             *)
(* perf/amp_p1/vnc_probe.py (one thread), over one TCP connection.  The    *)
(* server runs on core 2, outside the repository: it is what the clients   *)
(* rely on.  The connection holds Cap messages each way; who sends into a  *)
(* full one waits.                                                         *)
(*                                                                         *)
(* The screen is Tiles tiles; a tile's content is the number of the update *)
(* that last changed it, a palette is a number too.  sent[n] is the screen *)
(* and palette the n-th update stands for.                                 *)
(***************************************************************************)
EXTENDS Integers, Sequences, FiniteSets

CONSTANTS
  Tiles,     \* bound: tiles of the screen, numbered from 1
  Cap,       \* bound: messages in flight each way
  Updates,   \* bound: updates the server sends
  Setups     \* bound: who meets whom, and the keys the user presses

ASSUME SessionAssumption ==
  /\ {Tiles, Cap, Updates} \subseteq Nat \ {0}
  /\ Setups \subseteq [client : {"viewer", "probe"}, fmt : {"auto", "8bit", "rgb565"},
                       hextile : BOOLEAN, full : BOOLEAN, core2 : BOOLEAN,
                       minor : {3, 8}, auth : BOOLEAN, keys : Nat]

VARIABLES
  setup,
  toS, toC,                        \* messages to the server, to the client
  srv,                             \* the server
  closed, sent,                    \* it has closed; the updates it has begun
  rd, fmt, rects, fb, pal, bg, fg, \* the reader and what it has decoded
  running, open, error,            \* RfbClient: running, its socket, error
  frame, seq,                      \* the latest complete frame, its number
  sendLock,                        \* who holds send_lock
  ui, taken, shown, pressed        \* the Tk thread: its snapshot, its window

netVars   == <<toS, toC>>
srvVars   == <<srv, closed, sent>>
decVars   == <<fmt, rects, fb, pal, bg, fg>>
connVars  == <<running, open, error>>
frameVars == <<frame, seq>>
uiVars    == <<ui, taken, shown, pressed>>
vncVars == <<setup, netVars, srvVars, rd, decVars, connVars, frameVars, sendLock, uiVars>>

Screen   == 1 .. Tiles
Garbage  == -1            \* what pixels read in the wrong format are
Black    == 0
Message(t, arg, val) == [t |-> t, arg |-> arg, val |-> val]
NoFrame  == [fb |-> [i \in Screen |-> Black], pal |-> 0]

SessionInit ==
  /\ setup \in Setups
  /\ toS = <<>> /\ toC = <<Message("version", setup.minor, 0)>>
  /\ srv = [ph |-> "hello", fmt |-> "rgb565", hextile |-> FALSE, want |-> "none",
            screen |-> [i \in Screen |-> Black], pal |-> 1, palSent |-> 0, todo |-> <<>>]
  /\ closed = FALSE /\ sent = <<>>
  /\ rd = "version" /\ fmt = setup.fmt /\ rects = 0
  /\ fb = [i \in Screen |-> Black] /\ pal = 0 /\ bg = Black /\ fg = Black
  /\ running = TRUE /\ open = TRUE /\ error = "none"
  /\ frame = NoFrame /\ seq = 0 /\ sendLock = "free"
  /\ ui = "none" /\ taken = [f |-> NoFrame, seq |-> 0] /\ shown = [f |-> NoFrame, seq |-> 0]
  /\ pressed = 0

-----------------------------------------------------------------------------
(* The server, as the clients use it: it answers one message at a time and *)
(* sends a changed palette ahead of the update it is for.                  *)

\* The legal ways to code tile i of a hextile rectangle: as it is, as a new
\* background, as the background the last coloured tile left, or as a
\* subrectangle in a new or in the last foreground.
Kept(kinds, val, i, kind) ==
  \E j \in 1 .. i - 1 :
    /\ kinds[j] = kind /\ val[j] = val[i]
    /\ \A k \in j + 1 .. i - 1 : kinds[k] \notin {kind, "raw"}

Codings(val) ==
  {k \in [1 .. Len(val) -> {"raw", "bg", "same", "sub", "subfg"}] :
     \A i \in 1 .. Len(val) : /\ k[i] = "same"  => Kept(k, val, i, "bg")
                              /\ k[i] = "subfg" => Kept(k, val, i, "sub")}

\* One rectangle with the tiles of list: as raw pixels at once, or tile by tile.
Pixels(list, val, kind) == Message("pixels", list, <<srv.fmt, val, kind>>)

Rectangle(list, val) ==
  {<<Message("raw", 1, 0), Pixels(list, val, "raw")>>}
    \cup (IF srv.hextile
          THEN {<<Message("hextile", Len(list), 0)>>
                  \o [i \in 1 .. Len(list) |-> Pixels(<<list[i]>>, <<val[i]>>, k[i])] :
                 k \in Codings(val)}
          ELSE {})

\* The tiles of which, from left to right.
Listed(which) ==
  {l \in UNION {[1 .. n -> which] : n \in Screen} :
     /\ \A t \in which : \E i \in DOMAIN l : l[i] = t
     /\ \A i, j \in DOMAIN l : i < j => l[i] < l[j]}

Update(screen, which) ==
  IF which = {} THEN {<<Message("update", 0, 0)>>}
  ELSE UNION {{<<Message("update", 1, 0)>> \o r :
                 r \in Rectangle(list, [i \in DOMAIN list |-> screen[list[i]]])} :
              list \in Listed(which)}

SendPart ==
  /\ ~closed /\ srv.todo # <<>> /\ Len(toC) < Cap
  /\ toC' = Append(toC, Head(srv.todo)) /\ srv' = [srv EXCEPT !.todo = Tail(@)]
  /\ UNCHANGED <<toS, closed, sent>>

StartUpdate ==
  /\ ~closed /\ srv.todo = <<>> /\ srv.want # "none" /\ Len(sent) < Updates
  /\ \E changed \in SUBSET Screen, p \in {srv.pal, srv.pal + 1} :
       LET screen  == [i \in Screen |-> IF i \in changed THEN Len(sent) + 1 ELSE srv.screen[i]]
           mapped  == srv.fmt = "8bit"
           palette == IF mapped /\ p # srv.palSent THEN <<Message("palette", p, 0)>> ELSE <<>>
           which   == IF srv.want = "full" THEN Screen ELSE changed
       IN /\ p # srv.pal => mapped
          /\ srv.want = "incr" => changed # {} \/ p # srv.pal
          /\ \E u \in Update(screen, which) :
               srv' = [srv EXCEPT !.screen = screen, !.pal = p, !.want = "none",
                                  !.palSent = IF mapped THEN p ELSE @, !.todo = palette \o u]
          /\ sent' = Append(sent, [fb |-> screen, pal |-> IF mapped THEN p ELSE 0])
  /\ UNCHANGED <<netVars, closed>>

\* What the server makes of a message: its next state, what it answers.
Answers(m) ==
  CASE m.t = "version" -> {<<srv, <<Message("types", IF setup.auth THEN 2 ELSE 1, 0)>>>>}
    [] m.t = "choose"  -> {<<srv, <<Message("result", 0, 0)>>>>}
    [] m.t = "shared"  -> {<<srv, <<Message("init", 0, 0)>>>>}
    [] m.t = "format"  -> {<<[srv EXCEPT !.fmt = m.arg], <<>>>>}
    [] m.t = "encs"    -> {<<[srv EXCEPT !.hextile = m.arg], <<>>>>}
    [] m.t = "request" -> {<<[srv EXCEPT !.want = m.arg], <<>>>>}
    [] OTHER           -> {<<srv, <<>>>>,                          \* a key; it may
                           <<srv, <<Message("bell", 0, 0)>>>>}     \* ring the bell

ServerReads ==
  /\ ~closed /\ srv.todo = <<>> /\ toS # <<>>
  /\ toS' = Tail(toS)
  /\ \E a \in Answers(Head(toS)) : srv' = [a[1] EXCEPT !.todo = a[2]]
  /\ UNCHANGED <<toC, closed, sent>>

ServerCloses == ~closed /\ closed' = TRUE /\ UNCHANGED <<srv, netVars, sent>>

OnlyServer  == UNCHANGED <<setup, rd, decVars, connVars, frameVars, sendLock, uiVars>>
ServerWorks == (SendPart \/ StartUpdate \/ ServerReads) /\ OnlyServer
Server      == ServerWorks \/ (ServerCloses /\ OnlyServer)

-----------------------------------------------------------------------------
(* The handshake, before there is a second thread.                         *)

Viewer == setup.client = "viewer"
Ready(t)   == open /\ toC # <<>> /\ Head(toC).t = t /\ toC' = Tail(toC)
Reply(ms)  == Len(toS) + Len(ms) <= Cap /\ toS' = toS \o ms

Version ==
  /\ rd = "version" /\ Ready("version") /\ Reply(<<Message("version", 0, 0)>>)
  /\ rd' = "types" /\ UNCHANGED <<decVars, connVars>>

\* Before version 3.7 the server picks: no list, no result.  The probe
\* always answers as 3.8 and asserts.
Types ==
  /\ rd = "types" /\ Ready("types")
  /\ IF Head(toC).arg # 1
     THEN rd' = "failed" /\ UNCHANGED <<toS, decVars, connVars>>
     ELSE /\ IF setup.minor >= 7 THEN Reply(<<Message("choose", 0, 0)>>) /\ rd' = "result"
             ELSE Reply(<<Message("shared", 0, 0)>>) /\ rd' = "init"
          /\ UNCHANGED <<decVars, connVars>>

SecurityResult ==
  /\ rd = "result" /\ Ready("result") /\ Reply(<<Message("shared", 0, 0)>>)
  /\ rd' = "init" /\ UNCHANGED <<decVars, connVars>>

FormatByName == IF setup.core2 THEN "8bit" ELSE "rgb565"
Format == IF fmt = "auto" THEN FormatByName ELSE fmt

\* The viewer sets the format, then the encodings; the probe the other way
\* round, and the format only if it is to be 8-bit.
ServerInit ==
  /\ rd = "init" /\ Ready("init")
  /\ LET format == Message("format", Format, 0)
         encs   == Message("encs", setup.hextile, 0)
     IN Reply(IF Viewer THEN <<format, encs>>
              ELSE IF Format = "8bit" THEN <<encs, format>> ELSE <<encs>>)
  /\ fmt' = Format /\ rd' = "first"
  /\ UNCHANGED <<rects, fb, pal, bg, fg, connVars>>

\* The connection ends too soon: the program exits, there is no session.
HandshakeBreaks ==
  /\ rd \in {"version", "types", "result", "init"} /\ closed /\ rd' = "failed"
  /\ UNCHANGED <<netVars, decVars, connVars>>

Handshake ==
  /\ Version \/ Types \/ SecurityResult \/ ServerInit \/ HandshakeBreaks
  /\ ui' = IF rd' = "first" /\ Viewer THEN "idle" ELSE ui
  /\ UNCHANGED <<setup, srvVars, frameVars, sendLock, taken, shown, pressed>>

-----------------------------------------------------------------------------
(* The reader: run() of the viewer, the main loop of the probe.  A request *)
(* is sent under send_lock.                                                *)

Reading == UNCHANGED <<setup, srvVars, uiVars>>

TakeLock ==
  /\ rd \in {"first", "again"} /\ open /\ sendLock = "free" /\ sendLock' = "reader"
  /\ UNCHANGED <<netVars, rd, decVars, connVars, frameVars>>

\* Only the first request of the viewer, and of the probe, is a full one.
Ask == IF rd = "first" \/ setup.full THEN "full" ELSE "incr"

SendRequest ==
  /\ rd \in {"first", "again"} /\ open /\ sendLock = "reader" /\ sendLock' = "free"
  /\ Reply(<<Message("request", Ask, 0)>>)
  /\ rd' = IF rd = "again" /\ Viewer THEN "publish" ELSE "message"
  /\ UNCHANGED <<toC, decVars, connVars, frameVars>>

\* Where a decoded update goes: the viewer asks for the next one first.
Decoded == IF Viewer THEN "again" ELSE "count"

\* while self.running
Looping == rd = "message" /\ (Viewer => running)

\* Mutant of NewPalette: asks for the screen again in the new colours.
NewPaletteAsks ==
  /\ Looping /\ Ready("palette") /\ pal' = Head(toC).arg /\ rd' = "first"
  /\ UNCHANGED <<toS, fmt, rects, fb, bg, fg, connVars, frameVars, sendLock>>

NewPalette ==
  /\ Looping /\ Ready("palette") /\ pal' = Head(toC).arg
  /\ UNCHANGED <<toS, rd, fmt, rects, fb, bg, fg, connVars, frameVars, sendLock>>

\* The viewer lets a bell pass; the probe asserts that it is an update.
Bell ==
  /\ Looping /\ Ready("bell") /\ rd' = IF Viewer THEN rd ELSE "failed"
  /\ UNCHANGED <<toS, decVars, connVars, frameVars, sendLock>>

UpdateBegins ==
  /\ Looping /\ Ready("update") /\ rects' = Head(toC).arg
  /\ rd' = IF rects' = 0 THEN Decoded ELSE "rect"
  /\ UNCHANGED <<toS, fmt, fb, pal, bg, fg, connVars, frameVars, sendLock>>

\* rects counts the reads the rectangle takes; the colours start black.
RectBegins ==
  /\ rd = "rect" /\ (Ready("raw") \/ Ready("hextile"))
  /\ rects' = Head(toC).arg /\ bg' = Black /\ fg' = Black /\ rd' = "pixels"
  /\ UNCHANGED <<toS, fmt, fb, pal, connVars, frameVars, sendLock>>

\* Pixels read in another format than they were sent in are garbage.
ReadAs(val) == IF val[1] = fmt THEN val[2] ELSE [i \in DOMAIN val[2] |-> Garbage]

Drawn(kind, data) == IF kind = "same" THEN [data EXCEPT ![1] = bg]
                     ELSE IF kind = "subfg" THEN [data EXCEPT ![1] = fg] ELSE data

RectPixels ==
  /\ rd = "pixels" /\ Ready("pixels")
  /\ LET list == Head(toC).arg
         kind == Head(toC).val[3]
         data == Drawn(kind, ReadAs(Head(toC).val))
     IN /\ fb' = [t \in Screen |-> IF \E i \in DOMAIN list : list[i] = t
                                   THEN data[CHOOSE i \in DOMAIN list : list[i] = t] ELSE fb[t]]
        /\ bg' = IF kind = "bg" THEN data[1] ELSE bg
        /\ fg' = IF kind = "sub" THEN data[1] ELSE fg
  /\ rects' = rects - 1 /\ rd' = IF rects' = 0 THEN Decoded ELSE "pixels"
  /\ UNCHANGED <<toS, fmt, pal, connVars, frameVars, sendLock>>

\* The request is on its way; the frame and its palette go to the window.
Publish ==
  /\ rd = "publish" /\ frame' = [fb |-> fb, pal |-> pal] /\ seq' = seq + 1 /\ rd' = "message"
  /\ UNCHANGED <<netVars, decVars, connVars, sendLock>>

\* The probe has no window; it counts, and stops when its time is up.
ProbeCounts ==
  /\ rd = "count" /\ seq' = seq + 1 /\ rd' \in {"again", "done"}
  /\ UNCHANGED <<netVars, decVars, connVars, frame, sendLock>>

\* A read at the end of a closed connection, a send to it, a closed socket.
Broken  == ~open \/ (closed /\ (toC = <<>> \/ rd \in {"first", "again"}))
Blocked == rd \in {"first", "again", "message", "rect", "pixels"}

\* Mutant of Fail: running is cleared before the error is there to be read.
FailLate ==
  \/ /\ Blocked /\ Broken /\ running' = FALSE /\ rd' = "failing"
     /\ UNCHANGED <<error, open, sendLock>>
  \/ /\ rd = "failing" /\ rd' = "failed" /\ error' = "lost" /\ UNCHANGED <<running, open, sendLock>>

\* An error is one only while running: after close() it is the user's doing.
Fail ==
  \/ /\ Blocked /\ Broken /\ rd' = "failing"
     /\ error' = IF running THEN "lost" ELSE error
     /\ sendLock' = IF sendLock = "reader" THEN "free" ELSE sendLock
     /\ UNCHANGED <<running, open>>
  \/ /\ rd = "failing" \/ (rd = "message" /\ Viewer /\ ~running)
     /\ rd' = "failed" /\ running' = FALSE /\ UNCHANGED <<error, open, sendLock>>

ReaderFails == Fail /\ UNCHANGED <<netVars, decVars, frameVars>>

\* The probe waits 30 s for a message, then gives up.
ProbeTimeout ==
  /\ ~Viewer /\ Blocked /\ toC = <<>> /\ rd' = "failed"
  /\ UNCHANGED <<netVars, decVars, connVars, frameVars, sendLock>>

Reader ==
  /\ \/ TakeLock \/ SendRequest \/ NewPalette \/ Bell \/ UpdateBegins \/ RectBegins
     \/ RectPixels \/ Publish \/ ProbeCounts \/ ReaderFails \/ ProbeTimeout
  /\ Reading

-----------------------------------------------------------------------------
(* The Tk thread: a tick every 5 ms, key events between ticks, close().    *)

\* Mutant of TickTakes: the palette is the one of now.
TickTakesPalette == /\ ui = "idle" /\ ui' = "taken"
                    /\ taken' = [f |-> [frame EXCEPT !.pal = pal], seq |-> seq]
                    /\ UNCHANGED <<toS, connVars, sendLock, shown, pressed>>

TickTakes ==
  /\ ui = "idle" /\ ui' = "taken" /\ taken' = [f |-> frame, seq |-> seq]
  /\ UNCHANGED <<toS, connVars, sendLock, shown, pressed>>

TickShows ==
  /\ ui = "taken" /\ ui' = "check" /\ shown' = IF taken.seq # shown.seq THEN taken ELSE shown
  /\ UNCHANGED <<toS, connVars, sendLock, taken, pressed>>

\* Not running: the title says why, and there are no more ticks.
TickChecks ==
  /\ ui = "check" /\ ui' = IF running THEN "idle" ELSE "ended"
  /\ UNCHANGED <<toS, connVars, sendLock, taken, shown, pressed>>

KeyPress ==
  /\ ui = "idle" /\ pressed < setup.keys /\ pressed' = pressed + 1 /\ ui' = "key"
  /\ UNCHANGED <<toS, connVars, sendLock, taken, shown>>

KeyLock ==
  /\ ui = "key" /\ sendLock = "free" /\ sendLock' = "ui"
  /\ UNCHANGED <<toS, connVars, ui, taken, shown, pressed>>

\* Mutant of KeyDone: the lock is kept.
KeyDoneLocked == ui' = "idle" /\ UNCHANGED sendLock
KeyDone == ui' = "idle" /\ sendLock' = "free"

\* An error in sending a key is passed over.
KeySend ==
  /\ ui = "key" /\ sendLock = "ui" /\ KeyDone
  /\ Reply(<<Message("key", "press", 0)>>) \/ (closed /\ UNCHANGED toS)
  /\ UNCHANGED <<connVars, taken, shown, pressed>>

UserCloses ==
  /\ \/ ui \in {"idle", "ended"} /\ ui' = "closing" /\ running' = FALSE /\ UNCHANGED open
     \/ ui = "closing" /\ ui' = "gone" /\ open' = FALSE /\ UNCHANGED running
  /\ UNCHANGED <<toS, error, sendLock, taken, shown, pressed>>

TkOnly == UNCHANGED <<setup, toC, srvVars, rd, decVars, frameVars>>
Tk     == (TickTakes \/ TickShows \/ TickChecks \/ KeyLock \/ KeySend) /\ TkOnly
User   == (KeyPress \/ UserCloses) /\ TkOnly

SessionNext == Server \/ Handshake \/ Reader \/ Tk \/ User

\* Threads run and the server answers; nobody has to press keys or to close.
SessionFairness ==
  WF_vncVars(ServerWorks) /\ WF_vncVars(Handshake) /\ WF_vncVars(Reader) /\ WF_vncVars(Tk)

SessionSpec == SessionInit /\ [][SessionNext]_vncVars /\ SessionFairness

-----------------------------------------------------------------------------
\* What the reader hands over, and what the window shows, is one whole update
\* as the server sent it, in the palette it was sent with: not a screen half
\* drawn, not the colours of the update after it, not pixels read in another
\* format than the one agreed on.
FrameIsUpdate ==
  Viewer => /\ seq > 0 => frame = sent[seq]
            /\ shown.seq > 0 => shown.f = sent[shown.seq]

Requests == Cardinality({i \in DOMAIN toS : toS[i].t = "request"})

\* The server is asked for an update only when the last is completely read:
\* palettes and bells in between ask for nothing.  (Between request() and the
\* hand-over the update just read counts as one more.)
OneRequest ==
  Requests + (IF srv.want = "none" THEN 0 ELSE 1) + (Len(sent) - seq)
    <= (IF rd = "publish" THEN 2 ELSE 1)

\* When the ticks end the title can say why: the reader leaves its reason
\* before it stops running.
DisconnectSaysWhy == ui = "ended" => error # "none"

\* While the connection lasts the window catches up with the server again and
\* again, so an update it has begun comes to be shown, or a later one: with one
\* request at a time, nobody waits for ever on a full connection or on the lock
\* the two threads send under.
UpdateShown == []<>(Viewer => shown.seq = Len(sent) \/ closed \/ ~running)
=============================================================================
