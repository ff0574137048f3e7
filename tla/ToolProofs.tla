----------------------------- MODULE ToolProofs -----------------------------
(***************************************************************************)
(* The proofs about the host's tools, first the viewer's, then the         *)
(* simulation runner's.                                                    *)
(*                                                                         *)
(* Those of VncSession's safety properties, for every screen,              *)
(* connection and user.  DisconnectSaysWhy needs little of the session,    *)
(* and has an invariant of its own.  OneRequest and FrameIsUpdate share    *)
(* one, FrameInv: its heart is what the messages on their way will make    *)
(* of the client's screen when they are read.                              *)
(***************************************************************************)
EXTENDS VncSession, Vsim, SequenceTheorems, FiniteSetTheorems, TLAPS

\* The reader and the Tk thread meet only through running and error.
Said == error # "none"

\* Nobody stops running without having said why, but for the user.
StoppedSaid == ~running => Said \/ ui \in {"closing", "gone"}

\* The reader is about to stop: it has said why, or was told to stop.
FailingSaid == rd = "failing" => Said \/ ~running

\* There is no window before the handshake is over, and nobody has stopped.
NoWindowYet == rd \in {"version", "types", "result", "init"} => ui = "none" /\ running

SaidInv == DisconnectSaysWhy /\ StoppedSaid /\ FailingSaid /\ NoWindowYet

-----------------------------------------------------------------------------
\* The invariant holds when the session begins.
LEMMA SaidInit == ASSUME SessionInit PROVE SaidInv
BY DEF SessionInit, SaidInv, DisconnectSaysWhy, StoppedSaid, FailingSaid, NoWindowYet

\* What a step leaves alone of the two threads leaves the invariant alone.
LEMMA SaidUntouched ==
  ASSUME SaidInv, UNCHANGED <<rd, running, error, ui>> PROVE SaidInv'
BY DEF SaidInv, DisconnectSaysWhy, StoppedSaid, FailingSaid, NoWindowYet, Said

\* The handshake opens the window only when it has succeeded.
LEMMA HandshakeSaid == ASSUME SaidInv, Handshake PROVE SaidInv'
<1>1. /\ rd \in {"version", "types", "result", "init"} /\ ui = "none" /\ running
      /\ ui' \in {"none", "idle"} /\ (ui' = "idle" => rd' = "first")
  BY DEF SaidInv, NoWindowYet, Handshake, Version, Types, SecurityResult, ServerInit,
         HandshakeBreaks
<1>2. running' = running /\ rd' \in {"types", "result", "init", "first", "failed"}
  BY DEF Handshake, Version, Types, SecurityResult, ServerInit, HandshakeBreaks, connVars
<1>3. rd' = "first" => ui' \in {"none", "idle"}
  BY <1>1
<1>4. rd' \in {"version", "types", "result", "init"} => ui' = "none"
  BY <1>1, <1>2
<1> QED BY <1>1, <1>2, <1>4
        DEF SaidInv, DisconnectSaysWhy, StoppedSaid, FailingSaid, NoWindowYet, Said

\* The reader leaves its reason before it stops running.
LEMMA ReaderSaid == ASSUME SaidInv, Reader PROVE SaidInv'
<1>1. UNCHANGED ui
  BY DEF Reader, Reading, uiVars
<1>2. CASE ReaderFails
  <2>1. CASE Blocked /\ rd' = "failing" /\ UNCHANGED running
             /\ error' = IF running THEN "lost" ELSE error
    BY <1>1, <2>1 DEF Blocked, SaidInv, DisconnectSaysWhy, StoppedSaid, FailingSaid, NoWindowYet, Said
  <2>2. CASE (rd = "failing" \/ (rd = "message" /\ Viewer /\ ~running)) /\ rd' = "failed"
             /\ running' = FALSE /\ UNCHANGED error
    BY <1>1, <2>2 DEF SaidInv, DisconnectSaysWhy, StoppedSaid, FailingSaid, NoWindowYet, Said
  <2> QED BY <1>2, <2>1, <2>2 DEF ReaderFails, Fail
<1>3. CASE ~ReaderFails
  <2>1. UNCHANGED <<running, error>>
    BY <1>3 DEF Reader, TakeLock, SendRequest, NewPalette, Bell, UpdateBegins, RectBegins,
                RectPixels, Publish, ProbeCounts, ProbeTimeout, connVars
  <2>2. rd' = rd \/ rd' \notin {"failing", "version", "types", "result", "init"}
    BY <1>3 DEF Reader, TakeLock, SendRequest, NewPalette, Bell, UpdateBegins, RectBegins,
                RectPixels, Publish, ProbeCounts, ProbeTimeout, Decoded
  <2> QED BY <1>1, <2>1, <2>2
          DEF SaidInv, DisconnectSaysWhy, StoppedSaid, FailingSaid, NoWindowYet, Said
<1> QED BY <1>2, <1>3

\* The ticks end only when the reader has stopped; the user stops it otherwise.
LEMMA WindowSaid == ASSUME SaidInv, Tk \/ User PROVE SaidInv'
<1>1. UNCHANGED rd
  BY DEF Tk, User, TkOnly
<1>2. CASE TickChecks
  BY <1>1, <1>2 DEF TickChecks, connVars, SaidInv, DisconnectSaysWhy, StoppedSaid, FailingSaid,
                    NoWindowYet, Said
<1>3. CASE UserCloses
  BY <1>1, <1>3 DEF UserCloses, SaidInv, DisconnectSaysWhy, StoppedSaid, FailingSaid,
                    NoWindowYet, Said
<1>4. CASE TickTakes \/ TickShows \/ KeyLock \/ KeySend \/ KeyPress
  <2>1. /\ UNCHANGED <<running, error>> /\ ui' \notin {"ended"}
        /\ ui \notin {"closing", "gone", "none"}
    BY <1>4 DEF TickTakes, TickShows, KeyLock, KeySend, KeyPress, KeyDone, connVars
  <2> QED BY <1>1, <2>1 DEF SaidInv, DisconnectSaysWhy, StoppedSaid, FailingSaid, NoWindowYet, Said
<1> QED BY <1>2, <1>3, <1>4 DEF Tk, User

\* Every step keeps the invariant.
LEMMA SaidNext == ASSUME SaidInv, [SessionNext]_vncVars PROVE SaidInv'
<1>1. CASE Server
  BY <1>1, SaidUntouched DEF Server, ServerWorks, OnlyServer, connVars, uiVars
<1>2. CASE UNCHANGED vncVars
  BY <1>2, SaidUntouched DEF vncVars, connVars, uiVars
<1> QED BY <1>1, <1>2, HandshakeSaid, ReaderSaid, WindowSaid DEF SessionNext

\* When the ticks have ended for want of a connection, the reason is there
\* for the title (vnc_viewer.py:220-224, 285-288).
THEOREM TitleSaysWhy == SessionSpec => []DisconnectSaysWhy
<1>1. SaidInv => DisconnectSaysWhy
  BY DEF SaidInv
<1> QED BY <1>1, SaidInit, SaidNext, PTL DEF SessionSpec

-----------------------------------------------------------------------------
(* One request at a time, and one whole update a frame.                    *)

\* What is on its way to the client, and how many updates the client has not read.
Coming == toC \o srv.todo
Out    == Len(sent) - (IF rd = "publish" THEN seq + 1 ELSE seq)

Sequence(s) == s \in Seq({s[i] : i \in DOMAIN s})
StateInv ==
  /\ Sequence(toS) /\ Sequence(toC) /\ Sequence(srv.todo) /\ Sequence(sent)
  /\ srv = [ph |-> srv.ph, fmt |-> srv.fmt, hextile |-> srv.hextile, want |-> srv.want,
            screen |-> srv.screen, pal |-> srv.pal, palSent |-> srv.palSent, todo |-> srv.todo]
  /\ srv.screen = [t \in Screen |-> srv.screen[t]] /\ fb = [t \in Screen |-> fb[t]]
  /\ seq \in Nat

\* A request is in one place: on its way, with the server, or an update not yet read.
Asks(i)  == toS[i].t = "request"
Asking   == \E i \in DOMAIN toS : Asks(i)
NoneOut  == ~Asking /\ srv.want = "none"
AskInv ==
  /\ \A i, j \in DOMAIN toS : Asks(i) /\ Asks(j) => i = j
  /\ Asking => srv.want = "none"
  /\ Out \in 0 .. 1 /\ (Out = 1 => NoneOut)
  /\ rd = "first" => NoneOut /\ Out = 0
  /\ rd \in {"rect", "pixels", "count"} \/ (rd = "again" /\ Viewer) => Out = 1
  /\ rd = "again" /\ ~Viewer => NoneOut /\ Out = 0
  /\ rd = "publish" => Viewer
  /\ rd = "count" => ~Viewer

\* The format is agreed on before the server is asked for anything.
Handshaking == {"version", "types", "result", "init"}
AgreeInv ==
  /\ rd \in Handshaking => /\ fmt \in {"auto", "8bit", "rgb565"} /\ srv.fmt = "rgb565"
                           /\ sent = <<>> /\ seq = 0 /\ NoneOut
                           /\ \A i \in DOMAIN toS : toS[i].t # "format"
  /\ \A i \in DOMAIN toS : toS[i].t = "format" => toS[i].arg = fmt
  /\ \A i \in DOMAIN toS : Asks(i) =>
       srv.fmt = fmt \/ \E j \in 1 .. i - 1 : toS[j].t = "format"
  /\ rd \notin Handshaking \cup {"failed"} =>
       srv.fmt = fmt \/ \E j \in DOMAIN toS : toS[j].t = "format"
  /\ srv.want # "none" \/ sent # <<>> => srv.fmt = fmt

\* From the n-th message on there is nothing of an update.
Draws(m)    == m.t \in {"palette", "update", "raw", "hextile", "pixels"}
Quiet(s, n) == \A k \in n + 1 .. Len(s) : ~Draws(s[k])

\* What an update is read into, and the screen it is to make.
Now == [fmt |-> fmt, screen |-> srv.screen, fb |-> fb, bg |-> bg, fg |-> fg]

\* Pixels are the server's screen, in the client's format.
Faithful(m, c) ==
  /\ m.t = "pixels" /\ m.val[1] = c.fmt /\ DOMAIN m.val[2] = DOMAIN m.arg
  /\ \A i \in DOMAIN m.arg : m.val[2][i] = c.screen[m.arg[i]]

\* A tile in a colour of before: the last message of that kind has it, or, of a
\* rectangle the reader is in, its own register.
KindOf(m)   == m.val[3]
ColourOf(m) == m.val[2][1]
Held(s, d, k, kind, register) ==
  \/ \E j \in d + 1 .. k - 1 : /\ KindOf(s[j]) = kind /\ ColourOf(s[j]) = ColourOf(s[k])
                               /\ \A i \in j + 1 .. k - 1 : KindOf(s[i]) # kind
  \/ d = 0 /\ register = ColourOf(s[k]) /\ \A i \in 1 .. k - 1 : KindOf(s[i]) # kind

\* Behind the d-th message come r of pixels, which complete the screen, and then
\* nothing of an update.
Covers(s, d, r, t) == \E k \in d + 1 .. d + r : \E i \in DOMAIN s[k].arg : s[k].arg[i] = t
Pixel(s, d, k, c) ==
  /\ Faithful(s[k], c)
  /\ KindOf(s[k]) = "same" => Held(s, d, k, "bg", c.bg)
  /\ KindOf(s[k]) = "subfg" => Held(s, d, k, "sub", c.fg)
Run(s, d, r, c) ==
  /\ r \in Nat /\ d + r <= Len(s) /\ Quiet(s, d + r)
  /\ \A k \in d + 1 .. d + r : Pixel(s, d, k, c)
  /\ \A t \in Screen : c.fb[t] = c.screen[t] \/ Covers(s, d, r, t)

\* A rectangle's header and its pixels, behind the d-th message.
Rect(s, d, c) ==
  /\ d + 1 <= Len(s) /\ s[d + 1].t \in {"raw", "hextile"} /\ s[d + 1].arg # 0
  /\ Run(s, d + 1, s[d + 1].arg, c)

\* An update that has not been begun to read, behind its palette if it has one.
Whole(s, u, c) ==
  /\ s[u].t = "update" /\ \A k \in 1 .. u - 1 : Draws(s[k]) => s[k].t = "palette"
  /\ \/ s[u].arg = 0 /\ Run(s, u, 0, c)
     \/ s[u].arg = 1 /\ Rect(s, u, c)
Pending(s, c) == \E u \in 1 .. Len(s) : Whole(s, u, c)

\* The palette of the last update is the client's, or on its way.
Coloured(s, mine, last) ==
  /\ \A k \in 1 .. Len(s) : s[k].t = "palette" => s[k].arg = last
  /\ mine = last \/ \E k \in 1 .. Len(s) : s[k].t = "palette"

UpToDate(s, c, mine, last) == Run(s, 0, 0, c) /\ mine = last

DrawInv ==
  /\ rd \notin {"failing", "failed", "done"} /\ Out = 0 => UpToDate(Coming, Now, pal, srv.palSent)
  /\ rd \in {"message", "publish"} /\ Out = 1 =>
       Pending(Coming, Now) /\ Coloured(Coming, pal, srv.palSent)
  /\ rd = "rect" => Rect(Coming, 0, Now) /\ pal = srv.palSent
  /\ rd = "pixels" => Run(Coming, 0, rects, Now) /\ rects # 0 /\ pal = srv.palSent
  /\ rd \in {"again", "count"} => UpToDate(Coming, Now, pal, srv.palSent)

\* What the updates stand for, what the window has of them, and what it will have.
Frame(f, n) == n \in 0 .. seq /\ (n > 0 => f = sent[n])
SentInv ==
  /\ sent # <<>> => sent[Len(sent)] = [fb |-> srv.screen, pal |-> srv.palSent]
  /\ sent = <<>> \/ srv.fmt # "8bit" => srv.palSent = 0
  /\ rd = "publish" => sent[seq + 1] = [fb |-> fb, pal |-> pal]
  /\ Viewer => Frame(frame, seq) /\ Frame(taken.f, taken.seq) /\ Frame(shown.f, shown.seq)

FrameInv == StateInv /\ AskInv /\ AgreeInv /\ DrawInv /\ SentInv

-----------------------------------------------------------------------------
(* Sequences.                                                              *)

\* A sequence has a length, and is its elements.
LEMMA SeqParts ==
  ASSUME NEW s, Sequence(s)
  PROVE  Len(s) \in Nat /\ DOMAIN s = 1 .. Len(s) /\ (s = <<>> <=> Len(s) = 0)
<1> DEFINE S == {s[i] : i \in DOMAIN s}
<1>1. s \in Seq(S)
  BY DEF Sequence
<1> HIDE DEF S
<1>2. Len(s) \in Nat /\ DOMAIN s = 1 .. Len(s)
  BY <1>1, LenProperties
<1>3. s = <<>> <=> Len(s) = 0
  BY <1>1, EmptySeq
<1> QED BY <1>2, <1>3

\* A sequence over any set is one.
LEMMA IsSequence ==
  ASSUME NEW S, NEW s \in Seq(S)
  PROVE  Sequence(s)
<1> DEFINE T == {s[i] : i \in DOMAIN s}
<1>1. Len(s) \in Nat /\ DOMAIN s = 1 .. Len(s) /\ s \in [1 .. Len(s) -> S]
  BY LenProperties
<1>2. s \in [1 .. Len(s) -> T]
  BY <1>1
<1> HIDE DEF T
<1>3. s \in Seq(T)
  BY <1>1, <1>2
<1> QED BY <1>3 DEF Sequence, T

\* What is left behind the first element.
LEMMA TailParts ==
  ASSUME NEW s, Sequence(s), s # <<>>
  PROVE  /\ Sequence(Tail(s)) /\ Len(s) \in Nat \ {0} /\ Len(Tail(s)) = Len(s) - 1
         /\ Head(s) = s[1] /\ DOMAIN s = 1 .. Len(s) /\ DOMAIN Tail(s) = 1 .. Len(s) - 1
         /\ \A k \in 1 .. Len(s) - 1 : Tail(s)[k] = s[k + 1]
<1> DEFINE S == {s[i] : i \in DOMAIN s}
<1>1. s \in Seq(S)
  BY DEF Sequence
<1> HIDE DEF S
<1>2. Tail(s) \in Seq(S) /\ Len(Tail(s)) = Len(s) - 1
      /\ \A k \in 1 .. Len(Tail(s)) : Tail(s)[k] = s[k + 1]
  BY <1>1, HeadTailProperties
<1>3. Head(s) = s[1] /\ Len(s) \in Nat \ {0} /\ DOMAIN s = 1 .. Len(s)
  BY <1>1, EmptySeq, LenProperties
<1>4. Sequence(Tail(s)) /\ DOMAIN Tail(s) = 1 .. Len(Tail(s))
  BY <1>2, IsSequence, LenProperties
<1> QED BY <1>2, <1>3, <1>4

\* One sequence behind another.
LEMMA ConcatParts ==
  ASSUME NEW s, NEW t, Sequence(s), Sequence(t)
  PROVE  /\ Sequence(s \o t) /\ Len(s \o t) = Len(s) + Len(t)
         /\ DOMAIN (s \o t) = 1 .. Len(s) + Len(t)
         /\ \A k \in 1 .. Len(s) : (s \o t)[k] = s[k]
         /\ \A k \in 1 .. Len(t) : (s \o t)[Len(s) + k] = t[k]
<1> DEFINE S == {s[i] : i \in DOMAIN s} \cup {t[i] : i \in DOMAIN t}
<1>1. s \in Seq(S) /\ t \in Seq(S)
  BY SeqMonotonic DEF Sequence
<1> HIDE DEF S
<1>2. /\ s \o t \in Seq(S) /\ Len(s \o t) = Len(s) + Len(t)
      /\ \A k \in 1 .. Len(s) + Len(t) :
           (s \o t)[k] = IF k <= Len(s) THEN s[k] ELSE t[k - Len(s)]
  BY <1>1, ConcatProperties
<1>3. Len(s) \in Nat /\ Len(t) \in Nat /\ Sequence(s \o t)
      /\ DOMAIN (s \o t) = 1 .. Len(s \o t)
  BY <1>1, <1>2, IsSequence, LenProperties
<1>4. \A k \in 1 .. Len(t) : (s \o t)[Len(s) + k] = t[k]
  <2> TAKE k \in 1 .. Len(t)
  <2>1. Len(s) + k \in 1 .. Len(s) + Len(t) /\ ~(Len(s) + k <= Len(s)) /\ Len(s) + k - Len(s) = k
    BY <1>3
  <2> QED BY <1>2, <2>1
<1> QED BY <1>2, <1>3, <1>4

\* One element behind a sequence.
LEMMA AppendParts ==
  ASSUME NEW s, Sequence(s), NEW e
  PROVE  /\ Sequence(Append(s, e)) /\ Len(Append(s, e)) = Len(s) + 1
         /\ Append(s, e) # <<>> /\ DOMAIN Append(s, e) = 1 .. Len(s) + 1
         /\ \A k \in 1 .. Len(s) : Append(s, e)[k] = s[k]
         /\ Append(s, e)[Len(s) + 1] = e
<1> DEFINE S == {s[i] : i \in DOMAIN s} \cup {e}
<1>1. s \in Seq(S) /\ e \in S
  BY SeqMonotonic DEF Sequence
<1> HIDE DEF S
<1>2. /\ Append(s, e) \in Seq(S) /\ Append(s, e) # <<>> /\ Len(Append(s, e)) = Len(s) + 1
      /\ \A k \in 1 .. Len(s) : Append(s, e)[k] = s[k]
      /\ Append(s, e)[Len(s) + 1] = e
  BY <1>1, AppendProperties
<1>3. Sequence(Append(s, e)) /\ DOMAIN Append(s, e) = 1 .. Len(Append(s, e))
  BY <1>2, IsSequence, LenProperties
<1> QED BY <1>2, <1>3

\* What is read is the first of what comes.
LEMMA TailOfConcat ==
  ASSUME NEW s, NEW t, Sequence(s), Sequence(t), s # <<>>
  PROVE  /\ Tail(s) \o t = Tail(s \o t) /\ s \o t # <<>> /\ (s \o t)[1] = Head(s)
         /\ Sequence(s \o t)
<1> DEFINE S == {s[i] : i \in DOMAIN s} \cup {t[i] : i \in DOMAIN t}
<1>1. s \in Seq(S) /\ t \in Seq(S)
  BY SeqMonotonic DEF Sequence
<1> HIDE DEF S
<1>2. Len(s) \in Nat \ {0} /\ Len(Tail(s)) = Len(s) - 1 /\ Head(s) = s[1]
      /\ \A k \in 1 .. Len(s) - 1 : Tail(s)[k] = s[k + 1]
  BY TailParts
<1>3. Tail(s) \in Seq(S) /\ Tail(s) \o t \in Seq(S)
  BY <1>1, HeadTailProperties, ConcatProperties
<1>4. /\ s \o t \in Seq(S) /\ Len(s \o t) = Len(s) + Len(t) /\ Sequence(s \o t)
      /\ \A k \in 1 .. Len(s) : (s \o t)[k] = s[k]
      /\ \A k \in 1 .. Len(t) : (s \o t)[Len(s) + k] = t[k]
  BY <1>1, ConcatProperties, ConcatParts
<1>5. Len(t) \in Nat
  BY SeqParts
<1>6. s \o t # <<>>
  BY <1>2, <1>4, <1>5, SeqParts
<1>7. /\ Tail(s \o t) \in Seq(S) /\ Len(Tail(s \o t)) = Len(s) + Len(t) - 1
      /\ \A k \in 1 .. Len(s) + Len(t) - 1 : Tail(s \o t)[k] = (s \o t)[k + 1]
  BY <1>4, <1>6, TailParts, HeadTailProperties
<1>8. /\ Len(Tail(s) \o t) = Len(s) - 1 + Len(t)
      /\ \A k \in 1 .. Len(s) - 1 + Len(t) :
           (Tail(s) \o t)[k] = IF k <= Len(s) - 1 THEN Tail(s)[k] ELSE t[k - (Len(s) - 1)]
  BY <1>1, <1>2, <1>3, ConcatProperties
<1>9. ASSUME NEW k \in 1 .. Len(s) - 1 + Len(t)
      PROVE  (Tail(s) \o t)[k] = Tail(s \o t)[k]
  <2>1. CASE k <= Len(s) - 1
    BY <1>2, <1>4, <1>5, <1>7, <1>8, <2>1
  <2>2. CASE ~(k <= Len(s) - 1)
    <3> DEFINE j == k - (Len(s) - 1)
    <3>1. j \in 1 .. Len(t) /\ k + 1 = Len(s) + j
      BY <1>2, <1>5, <2>2
    <3>2. (Tail(s) \o t)[k] = t[j] /\ Tail(s \o t)[k] = (s \o t)[k + 1]
      BY <1>2, <1>5, <1>7, <1>8, <2>2
    <3> HIDE DEF j
    <3> QED BY <1>4, <3>1, <3>2
  <2> QED BY <2>1, <2>2
<1>10. Tail(s) \o t = Tail(s \o t)
  <2>1. Len(Tail(s) \o t) = Len(Tail(s \o t)) /\ 1 .. Len(Tail(s) \o t) = 1 .. Len(s) - 1 + Len(t)
    BY <1>2, <1>5, <1>7, <1>8
  <2> QED BY <1>3, <1>7, <1>9, <2>1, SeqEqual
<1>11. 1 \in 1 .. Len(s)
  BY <1>2
<1> QED BY <1>2, <1>4, <1>6, <1>10, <1>11

\* What is sent is still on its way.
LEMMA MovedAlong ==
  ASSUME NEW s, NEW t, Sequence(s), Sequence(t), t # <<>>
  PROVE  Append(s, Head(t)) \o Tail(t) = s \o t
<1> DEFINE S == {s[i] : i \in DOMAIN s} \cup {t[i] : i \in DOMAIN t}
<1>1. s \in Seq(S) /\ t \in Seq(S)
  BY SeqMonotonic DEF Sequence
<1> HIDE DEF S
<1>2. Head(t) \in S /\ Tail(t) \in Seq(S)
  BY <1>1, HeadTailProperties
<1>3. Append(s, Head(t)) = s \o <<Head(t)>> /\ <<Head(t)>> \in Seq(S)
  BY <1>1, <1>2, AppendIsConcat
<1>4. (s \o <<Head(t)>>) \o Tail(t) = s \o (<<Head(t)>> \o Tail(t))
  BY <1>1, <1>2, <1>3, ConcatAssociative
<1>5. <<Head(t)>> \o Tail(t) = t
  <2>1. <<Head(t)>> \o Tail(t) \in Seq(S)
    BY <1>2, <1>3, ConcatProperties
  <2>2. Len(t) \in Nat \ {0} /\ Len(Tail(t)) = Len(t) - 1 /\ Head(t) = t[1]
        /\ \A k \in 1 .. Len(t) - 1 : Tail(t)[k] = t[k + 1]
    BY TailParts
  <2>3. /\ Len(<<Head(t)>> \o Tail(t)) = Len(t)
        /\ \A k \in 1 .. Len(t) : (<<Head(t)>> \o Tail(t))[k]
             = IF k <= 1 THEN <<Head(t)>>[k] ELSE Tail(t)[k - 1]
    BY <1>2, <1>3, <2>2, ConcatProperties
  <2>4. \A k \in 1 .. Len(t) : (<<Head(t)>> \o Tail(t))[k] = t[k]
    BY <2>2, <2>3
  <2> QED BY <1>1, <2>1, <2>3, <2>4, SeqEqual
<1> QED BY <1>3, <1>4, <1>5

-----------------------------------------------------------------------------
(* Requests.                                                               *)

\* With at most one request on its way, there is one or there is none.
LEMMA RequestsCount ==
  ASSUME Sequence(toS), \A i, j \in DOMAIN toS : Asks(i) /\ Asks(j) => i = j
  PROVE  Requests = IF Asking THEN 1 ELSE 0
<1> DEFINE R == {i \in DOMAIN toS : toS[i].t = "request"}
<1>1. CASE Asking
  <2>1. PICK i \in DOMAIN toS : Asks(i)
    BY <1>1 DEF Asking
  <2>2. R = {i}
    BY <2>1 DEF Asks
  <2>3. Cardinality(R) = 1
    BY <2>2, FS_Singleton
  <2> QED BY <1>1, <2>3 DEF Requests
<1>2. CASE ~Asking
  <2>1. R = {}
    BY <1>2 DEF Asking, Asks
  <2>2. Cardinality(R) = 0
    BY <2>1, FS_EmptySet
  <2> QED BY <1>2, <2>2 DEF Requests
<1> QED BY <1>1, <1>2

\* The invariant gives the property.
LEMMA OneOut == ASSUME StateInv, AskInv PROVE OneRequest
<1>1. Requests = IF Asking THEN 1 ELSE 0
  BY RequestsCount DEF StateInv, AskInv
<1>2. Len(sent) \in Nat /\ seq \in Nat
  BY SeqParts DEF StateInv
<1>3. Len(sent) - seq = Out + (IF rd = "publish" THEN 1 ELSE 0) /\ Out \in {0, 1}
  BY <1>2 DEF Out, AskInv
<1> HIDE DEF Out, Requests
<1>4. Asking => srv.want = "none"
  BY DEF AskInv
<1>5. Out = 1 => ~Asking /\ srv.want = "none"
  BY DEF AskInv, NoneOut
<1> QED BY <1>1, <1>3, <1>4, <1>5 DEF OneRequest

-----------------------------------------------------------------------------
(* An update on its way.                                                   *)

\* A run is the same run where the sequence is moved by n.
LEMMA RunMoved ==
  ASSUME NEW s, NEW t, Len(s) \in Nat, Len(t) \in Nat, NEW n \in Int,
         NEW d \in Nat \ {0}, d + n \in Nat, Len(t) = Len(s) + n,
         \A k \in d + 1 .. Len(s) : t[k + n] = s[k],
         NEW c, NEW b, NEW r, Run(s, d, r, c),
         b.fmt = c.fmt, b.screen = c.screen, b.fb = c.fb
  PROVE  Run(t, d + n, r, b)
<1>1. r \in Nat /\ d + r <= Len(s)
  BY DEF Run
<1>2. \A k \in d + n + 1 .. Len(t) : k - n \in d + 1 .. Len(s) /\ t[k] = s[k - n]
  BY <1>1
<1>3. Quiet(t, d + n + r)
  <2> SUFFICES ASSUME NEW k \in d + n + r + 1 .. Len(t) PROVE ~Draws(t[k])
    BY DEF Quiet
  <2>1. k - n \in d + r + 1 .. Len(s) /\ t[k] = s[k - n]
    BY <1>1, <1>2
  <2> QED BY <2>1 DEF Run, Quiet
<1>4. ASSUME NEW k \in d + 1 .. d + r, NEW kind, NEW x, NEW y, Held(s, d, k, kind, x)
      PROVE  Held(t, d + n, k + n, kind, y)
  <2>1. PICK j \in d + 1 .. k - 1 : /\ KindOf(s[j]) = kind /\ ColourOf(s[j]) = ColourOf(s[k])
                                   /\ \A i \in j + 1 .. k - 1 : KindOf(s[i]) # kind
    BY <1>4 DEF Held
  <2>2. t[j + n] = s[j] /\ t[k + n] = s[k] /\ j + n \in d + n + 1 .. k + n - 1
    <3>1. j \in d + 1 .. Len(s) /\ k \in d + 1 .. Len(s)
      BY <1>1
    <3>2. t[j + n] = s[j] /\ t[k + n] = s[k]
      BY <3>1
    <3>3. j \in Int /\ k \in Int /\ d + 1 <= j /\ j <= k - 1
      BY <3>1
    <3>4. j + n \in d + n + 1 .. k + n - 1
      BY <3>3
    <3> QED BY <3>2, <3>4
  <2>3. ASSUME NEW i \in j + n + 1 .. k + n - 1
        PROVE  KindOf(t[i]) # kind
    <3>4. j \in Int /\ k \in Int /\ d + 1 <= j /\ k <= d + r
      OBVIOUS
    <3>5. i \in Int /\ j + n + 1 <= i /\ i <= k + n - 1
      BY <3>4
    <3>6. i - n \in Int /\ j + 1 <= i - n /\ i - n <= k - 1
      BY <3>4, <3>5
    <3>7. d + 1 <= i - n /\ i - n <= Len(s) /\ d + n + 1 <= i /\ i <= Len(t)
      BY <1>1, <3>4, <3>6
    <3>1. i - n \in j + 1 .. k - 1 /\ i - n \in d + 1 .. Len(s) /\ i \in d + n + 1 .. Len(t)
      BY <1>1, <3>4, <3>5, <3>6, <3>7
    <3>2. t[i] = s[i - n]
      BY <1>2, <3>1
    <3> QED BY <2>1, <3>1, <3>2
  <2> QED BY <2>1, <2>2, <2>3 DEF Held
<1>5. ASSUME NEW k \in d + n + 1 .. d + n + r PROVE Pixel(t, d + n, k, b)
  <2>0. k \in d + n + 1 .. Len(t) /\ k - n \in d + 1 .. d + r /\ (k - n) + n = k
    BY <1>1
  <2>1. k - n \in d + 1 .. d + r /\ t[k] = s[k - n] /\ (k - n) + n = k
    BY <1>2, <2>0
  <2>2. Pixel(s, d, k - n, c)
    BY <2>1 DEF Run
  <2>3. Faithful(t[k], b)
    BY <2>1, <2>2 DEF Pixel, Faithful
  <2>4. KindOf(t[k]) = "same" => Held(t, d + n, k, "bg", b.bg)
    BY <1>4, <2>1, <2>2 DEF Pixel
  <2>5. KindOf(t[k]) = "subfg" => Held(t, d + n, k, "sub", b.fg)
    BY <1>4, <2>1, <2>2 DEF Pixel
  <2> QED BY <2>3, <2>4, <2>5 DEF Pixel
<1>6. ASSUME NEW x \in Screen PROVE b.fb[x] = b.screen[x] \/ Covers(t, d + n, r, x)
  <2>1. CASE Covers(s, d, r, x)
    <3>1. PICK k \in d + 1 .. d + r : \E i \in DOMAIN s[k].arg : s[k].arg[i] = x
      BY <2>1 DEF Covers
    <3>2. k \in d + 1 .. Len(s)
      BY <1>1
    <3>3. t[k + n] = s[k]
      BY <3>2
    <3>4. k \in Int /\ d + 1 <= k /\ k <= d + r
      BY <1>1
    <3>5. k + n \in d + n + 1 .. d + n + r
      BY <1>1, <3>4
    <3> QED BY <3>1, <3>3, <3>5 DEF Covers
  <2> QED BY <2>1 DEF Run
<1>7. d + n + r <= Len(t)
  BY <1>1
<1> QED BY <1>1, <1>3, <1>5, <1>6, <1>7 DEF Run

\* With nothing to come the screen is made.
LEMMA RunOver ==
  ASSUME NEW s, NEW d \in Nat, NEW c
  PROVE  Run(s, d, 0, c) <=> /\ d <= Len(s) /\ Quiet(s, d)
                             /\ \A t \in Screen : c.fb[t] = c.screen[t]
<1>1. d + 0 = d /\ d + 1 .. d + 0 = {} /\ 0 \in Nat
  OBVIOUS
<1>2. \A t : ~Covers(s, d, 0, t)
  BY <1>1 DEF Covers
<1> QED BY <1>1, <1>2 DEF Run

\* Messages behind an update that are nothing of one change nothing of it.
LEMMA RunBefore ==
  ASSUME NEW s, NEW t, Len(s) \in Nat, Len(t) \in Nat, Len(s) <= Len(t),
         \A k \in 1 .. Len(s) : t[k] = s[k],
         \A k \in Len(s) + 1 .. Len(t) : ~Draws(t[k]),
         NEW d \in Nat, NEW r, NEW c, Run(s, d, r, c)
  PROVE  Run(t, d, r, c)
<1>1. r \in Nat /\ d + r <= Len(s) /\ d + r <= Len(t)
  BY DEF Run
<1>2. Quiet(t, d + r)
  <2> SUFFICES ASSUME NEW k \in d + r + 1 .. Len(t) PROVE ~Draws(t[k])
    BY DEF Quiet
  <2>1. k \in d + r + 1 .. Len(s) => t[k] = s[k] /\ ~Draws(s[k])
    BY <1>1 DEF Run, Quiet
  <2>2. k \in d + r + 1 .. Len(s) \/ k \in Len(s) + 1 .. Len(t)
    BY <1>1
  <2> QED BY <2>1, <2>2
<1>3. \A k \in d + 1 .. d + r : t[k] = s[k] /\ \A j \in 1 .. k - 1 : t[j] = s[j]
  <2> TAKE k \in d + 1 .. d + r
  <2>1. k \in 1 .. Len(s) /\ \A j \in 1 .. k - 1 : j \in 1 .. Len(s)
    BY <1>1
  <2> QED BY <2>1
<1>4. ASSUME NEW k \in d + 1 .. d + r, NEW kind, NEW x, Held(s, d, k, kind, x)
      PROVE  Held(t, d, k, kind, x)
  <2>1. CASE \E j \in d + 1 .. k - 1 : /\ KindOf(s[j]) = kind /\ ColourOf(s[j]) = ColourOf(s[k])
                                   /\ \A i \in j + 1 .. k - 1 : KindOf(s[i]) # kind
    <3>1. PICK j \in d + 1 .. k - 1 : /\ KindOf(s[j]) = kind /\ ColourOf(s[j]) = ColourOf(s[k])
                                   /\ \A i \in j + 1 .. k - 1 : KindOf(s[i]) # kind
      BY <2>1
    <3>2. t[j] = s[j] /\ t[k] = s[k]
      BY <1>1, <1>3
    <3>3. \A i \in j + 1 .. k - 1 : i \in 1 .. k - 1 /\ t[i] = s[i]
      BY <1>1, <1>3
    <3> QED BY <3>1, <3>2, <3>3 DEF Held
  <2>2. CASE d = 0 /\ x = ColourOf(s[k]) /\ \A i \in 1 .. k - 1 : KindOf(s[i]) # kind
    BY <1>3, <2>2 DEF Held
  <2> QED BY <1>4, <2>1, <2>2 DEF Held
<1>5. \A k \in d + 1 .. d + r : Pixel(t, d, k, c)
  BY <1>3, <1>4 DEF Run, Pixel
<1>6. ASSUME NEW x \in Screen, Covers(s, d, r, x) PROVE Covers(t, d, r, x)
  BY <1>3, <1>6 DEF Covers
<1> QED BY <1>1, <1>2, <1>5, <1>6 DEF Run

\* The same of a rectangle and of an update.
LEMMA UpdateBefore ==
  ASSUME NEW s, NEW t, Len(s) \in Nat, Len(t) \in Nat, Len(s) <= Len(t),
         \A k \in 1 .. Len(s) : t[k] = s[k],
         \A k \in Len(s) + 1 .. Len(t) : ~Draws(t[k]), NEW c
  PROVE  /\ \A d \in Nat : Rect(s, d, c) => Rect(t, d, c)
         /\ Pending(s, c) => Pending(t, c)
<1>1. ASSUME NEW d \in Nat, Rect(s, d, c) PROVE Rect(t, d, c)
  <2>1. d + 1 <= Len(t) /\ t[d + 1] = s[d + 1]
    BY <1>1 DEF Rect
  <2>2. Run(t, d + 1, s[d + 1].arg, c)
    BY <1>1, RunBefore DEF Rect
  <2> QED BY <1>1, <2>1, <2>2 DEF Rect
<1>2. ASSUME Pending(s, c) PROVE Pending(t, c)
  <2>1. PICK u \in 1 .. Len(s) : Whole(s, u, c)
    BY <1>2 DEF Pending
  <2>2. t[u] = s[u] /\ \A k \in 1 .. u - 1 : t[k] = s[k]
    OBVIOUS
  <2>3. Run(s, u, 0, c) => Run(t, u, 0, c)
    BY RunBefore
  <2>4. Whole(t, u, c)
    BY <1>1, <2>1, <2>2, <2>3 DEF Whole
  <2> QED BY <2>4 DEF Pending
<1> QED BY <1>1, <1>2

\* A message that is not pixels is read: the update moves up.
LEMMA UpdateMoved ==
  ASSUME NEW s, Sequence(s), s # <<>>, NEW c, NEW b,
         b.fmt = c.fmt, b.screen = c.screen, b.fb = c.fb
  PROVE  /\ \A d \in Nat \ {0} : \A r : Run(s, d, r, c) => Run(Tail(s), d - 1, r, b)
         /\ \A d \in Nat \ {0} : Rect(s, d, c) => Rect(Tail(s), d - 1, b)
         /\ Pending(s, c) /\ s[1].t # "update" => Pending(Tail(s), b)
<1> DEFINE t == Tail(s)
<1>1. /\ Len(s) \in Nat \ {0} /\ Len(t) \in Nat /\ Len(t) = Len(s) + (-1)
      /\ \A k \in 1 .. Len(s) - 1 : t[k] = s[k + 1]
  BY TailParts
<1> HIDE DEF t
<1>2. ASSUME NEW d \in Nat \ {0}, NEW r, Run(s, d, r, c) PROVE Run(t, d - 1, r, b)
  <2>1. \A k \in d + 1 .. Len(s) : t[k + (-1)] = s[k]
    <3> TAKE k \in d + 1 .. Len(s)
    <3>1. k - 1 \in 1 .. Len(s) - 1 /\ (k - 1) + 1 = k /\ k + (-1) = k - 1
      BY <1>1
    <3> QED BY <1>1, <3>1
  <2>2. d + (-1) = d - 1 /\ d - 1 \in Nat /\ -1 \in Int
    OBVIOUS
  <2>3. Run(t, d + (-1), r, b)
    BY <1>1, <1>2, <2>1, <2>2, RunMoved
  <2> QED BY <2>2, <2>3
<1>3. ASSUME NEW d \in Nat \ {0}, Rect(s, d, c) PROVE Rect(t, d - 1, b)
  <2>1. d + 1 <= Len(s) /\ t[d] = s[d + 1]
    BY <1>1, <1>3 DEF Rect
  <2>2. Run(t, (d + 1) - 1, s[d + 1].arg, b)
    BY <1>2, <1>3 DEF Rect
  <2>3. (d + 1) - 1 = d /\ (d - 1) + 1 = d /\ d <= Len(t)
    BY <1>1, <2>1
  <2> QED BY <1>3, <2>1, <2>2, <2>3 DEF Rect
<1>4. ASSUME Pending(s, c), s[1].t # "update" PROVE Pending(t, b)
  <2>1. PICK u \in 1 .. Len(s) : Whole(s, u, c)
    BY <1>4 DEF Pending
  <2>2. u # 1 /\ u - 1 \in Nat \ {0} /\ u - 1 \in 1 .. Len(t)
    BY <1>1, <1>4, <2>1 DEF Whole
  <2>3. t[u - 1] = s[u]
    BY <1>1, <2>2
  <2>4. \A k \in 1 .. (u - 1) - 1 : Draws(t[k]) => t[k].t = "palette"
    <3> TAKE k \in 1 .. (u - 1) - 1
    <3>1. k + 1 \in 1 .. u - 1 /\ k \in 1 .. Len(s) - 1
      BY <1>1
    <3> QED BY <1>1, <2>1, <3>1 DEF Whole
  <2>5. Run(s, u, 0, c) => Run(t, u - 1, 0, b)
    BY <1>2
  <2>6. Rect(s, u, c) => Rect(t, u - 1, b)
    BY <1>3
  <2>7. Whole(t, u - 1, b)
    BY <2>1, <2>3, <2>4, <2>5, <2>6 DEF Whole
  <2> QED BY <2>2, <2>7 DEF Pending
<1> QED BY <1>2, <1>3, <1>4 DEF t

\* A message of pixels is read: its tiles are the server's, and a colour taken over
\* later is the register's from now on.
Painted(s, data, c, b) ==
  /\ b.fmt = c.fmt /\ b.screen = c.screen
  /\ \A i \in DOMAIN s[1].arg : data[i] = c.screen[s[1].arg[i]]
  /\ \A t \in Screen : b.fb[t] = IF \E i \in DOMAIN s[1].arg : s[1].arg[i] = t
                                 THEN data[CHOOSE i \in DOMAIN s[1].arg : s[1].arg[i] = t]
                                 ELSE c.fb[t]
  /\ b.bg = IF KindOf(s[1]) = "bg" THEN ColourOf(s[1]) ELSE c.bg
  /\ b.fg = IF KindOf(s[1]) = "sub" THEN ColourOf(s[1]) ELSE c.fg
LEMMA RunRead ==
  ASSUME NEW s, Sequence(s), NEW r, r # 0, NEW c, Run(s, 0, r, c),
         NEW data, NEW b, Painted(s, data, c, b)
  PROVE  Run(Tail(s), 0, r - 1, b)
<1> USE DEF Painted
<1> DEFINE t == Tail(s)
<1>1. r \in Nat \ {0} /\ r <= Len(s) /\ Len(s) \in Nat /\ s # <<>>
  BY SeqParts DEF Run
<1>2. Len(t) = Len(s) - 1 /\ \A k \in 1 .. Len(s) - 1 : t[k] = s[k + 1]
  BY <1>1, TailParts
<1> HIDE DEF t
<1>3. Quiet(t, 0 + (r - 1))
  <2> SUFFICES ASSUME NEW k \in (0 + (r - 1)) + 1 .. Len(t) PROVE ~Draws(t[k])
    BY DEF Quiet
  <2>1. k + 1 \in 0 + r + 1 .. Len(s) /\ k \in 1 .. Len(s) - 1
    BY <1>1, <1>2
  <2> QED BY <1>2, <2>1 DEF Run, Quiet
<1>4. ASSUME NEW k \in 1 .. r - 1, NEW kind, NEW x, Held(s, 0, k + 1, kind, x)
      PROVE  Held(t, 0, k, kind, IF KindOf(s[1]) = kind THEN ColourOf(s[1]) ELSE x)
  <2>1. t[k] = s[k + 1]
    BY <1>1, <1>2
  <2>2. \A i \in 1 .. k - 1 : i + 1 \in 2 .. k /\ t[i] = s[i + 1]
    <3> TAKE i \in 1 .. k - 1
    <3>1. i \in 1 .. Len(s) - 1
      BY <1>1
    <3> QED BY <1>2, <3>1
  <2>3. CASE \E j \in 1 .. k : /\ KindOf(s[j]) = kind /\ ColourOf(s[j]) = ColourOf(s[k + 1])
                               /\ \A i \in j + 1 .. k : KindOf(s[i]) # kind
    <3>1. PICK j \in 1 .. k : /\ KindOf(s[j]) = kind /\ ColourOf(s[j]) = ColourOf(s[k + 1])
                               /\ \A i \in j + 1 .. k : KindOf(s[i]) # kind
      BY <2>3
    <3>2. CASE j = 1
      <4>1. \A i \in 1 .. k - 1 : KindOf(t[i]) # kind
        BY <2>2, <3>1, <3>2
      <4> QED BY <2>1, <3>1, <3>2, <4>1 DEF Held
    <3>3. CASE j # 1
      <4>1. j - 1 \in 0 + 1 .. k - 1 /\ t[j - 1] = s[j]
        <5>1. j - 1 \in 0 + 1 .. k - 1 /\ (j - 1) + 1 = j /\ j - 1 \in 1 .. k - 1
          BY <3>3
        <5> QED BY <2>2, <5>1
      <4>2. \A i \in (j - 1) + 1 .. k - 1 : KindOf(t[i]) # kind
        <5> TAKE i \in (j - 1) + 1 .. k - 1
        <5>1. i \in 1 .. k - 1 /\ i + 1 \in j + 1 .. k
          BY <3>1
        <5> QED BY <2>2, <3>1, <5>1
      <4> QED BY <2>1, <3>1, <4>1, <4>2 DEF Held
    <3> QED BY <3>2, <3>3
  <2>4. CASE x = ColourOf(s[k + 1]) /\ \A i \in 1 .. k : KindOf(s[i]) # kind
    <3>1. KindOf(s[1]) # kind
      BY <2>4
    <3>2. \A i \in 1 .. k - 1 : KindOf(t[i]) # kind
      BY <2>2, <2>4
    <3> QED BY <2>1, <2>4, <3>1, <3>2 DEF Held
  <2>5. 0 + 1 = 1 /\ (k + 1) - 1 = k
    OBVIOUS
  <2> QED BY <1>4, <2>3, <2>4, <2>5 DEF Held
<1>5. ASSUME NEW k \in 1 .. r - 1 PROVE Pixel(t, 0, k, b)
  <2>1. t[k] = s[k + 1] /\ k + 1 \in 0 + 1 .. 0 + r
    BY <1>1, <1>2
  <2>2. Pixel(s, 0, k + 1, c)
    BY <2>1 DEF Run
  <2>3. Faithful(t[k], b)
    BY <2>1, <2>2 DEF Pixel, Faithful
  <2>4. KindOf(t[k]) = "same" => Held(t, 0, k, "bg", b.bg)
    BY <1>4, <2>1, <2>2 DEF Pixel
  <2>5. KindOf(t[k]) = "subfg" => Held(t, 0, k, "sub", b.fg)
    BY <1>4, <2>1, <2>2 DEF Pixel
  <2> QED BY <2>3, <2>4, <2>5 DEF Pixel
<1>6. ASSUME NEW x \in Screen, b.fb[x] # b.screen[x] PROVE Covers(t, 0, r - 1, x)
  <2> DEFINE arg == s[1].arg
             i   == CHOOSE i \in DOMAIN arg : arg[i] = x
  <2>1. ~\E j \in DOMAIN arg : arg[j] = x
    <3> SUFFICES ASSUME \E j \in DOMAIN arg : arg[j] = x PROVE FALSE
      OBVIOUS
    <3>1. i \in DOMAIN arg /\ arg[i] = x
      OBVIOUS
    <3>2. data[i] = c.screen[x] /\ b.fb[x] = data[i]
      BY <3>1
    <3> QED BY <1>6, <3>2
  <2>2. c.fb[x] # c.screen[x]
    BY <1>6, <2>1
  <2>3. Covers(s, 0, r, x)
    BY <2>2 DEF Run
  <2>4. PICK k \in 1 .. r : \E j \in DOMAIN s[k].arg : s[k].arg[j] = x
    BY <1>1, <2>3 DEF Covers
  <2>5. k - 1 \in 1 .. r - 1 /\ (k - 1) + 1 = k /\ k - 1 \in 1 .. Len(s) - 1
    BY <1>1, <2>1, <2>4
  <2>6. t[k - 1] = s[k]
    BY <1>2, <2>5
  <2> QED BY <1>1, <2>4, <2>5, <2>6 DEF Covers
<1>7. r - 1 \in Nat /\ 0 + (r - 1) <= Len(t) /\ 0 + 1 .. 0 + (r - 1) = 1 .. r - 1
  BY <1>1, <1>2
<1> QED BY <1>3, <1>5, <1>6, <1>7 DEF Run, t

\* What is decoded is what the message says, whichever way the tile is coded.
LEMMA DataRead ==
  ASSUME NEW s, NEW r, r # 0, Run(s, 0, r, Now)
  PROVE  LET data == Drawn(KindOf(s[1]), ReadAs(s[1].val))
         IN /\ s[1].t = "pixels"
            /\ \A i \in DOMAIN s[1].arg : data[i] = srv.screen[s[1].arg[i]]
            /\ KindOf(s[1]) \in {"bg", "sub"} => data[1] = ColourOf(s[1])
<1>1. r \in Nat \ {0} /\ Pixel(s, 0, 1, Now)
  BY DEF Run
<1>2. /\ s[1].t = "pixels" /\ ReadAs(s[1].val) = s[1].val[2] /\ DOMAIN s[1].val[2] = DOMAIN s[1].arg
      /\ \A i \in DOMAIN s[1].arg : s[1].val[2][i] = srv.screen[s[1].arg[i]]
  BY <1>1 DEF Pixel, Faithful, Now, ReadAs
<1>3. KindOf(s[1]) = "same" => bg = ColourOf(s[1])
  BY <1>1 DEF Pixel, Held, Now
<1>4. KindOf(s[1]) = "subfg" => fg = ColourOf(s[1])
  BY <1>1 DEF Pixel, Held, Now
<1>5. \A i \in DOMAIN s[1].arg : Drawn(KindOf(s[1]), s[1].val[2])[i] = s[1].val[2][i]
  BY <1>2, <1>3, <1>4 DEF Drawn, ColourOf
<1>6. KindOf(s[1]) \in {"bg", "sub"} => Drawn(KindOf(s[1]), s[1].val[2])[1] = ColourOf(s[1])
  BY DEF Drawn, ColourOf
<1> QED BY <1>2, <1>5, <1>6

\* An update behind messages that are none of its own.
LEMMA WholeBehind ==
  ASSUME NEW s, NEW t, Sequence(s), Sequence(t), NEW c, NEW u \in 1 .. Len(t), Whole(t, u, c),
         \A k \in 1 .. Len(s) : Draws(s[k]) => s[k].t = "palette"
  PROVE  Whole(s \o t, Len(s) + u, c) /\ Len(s) + u \in 1 .. Len(s \o t)
<1> DEFINE v == s \o t
           n == Len(s)
<1>1. /\ Len(v) = Len(t) + n /\ Len(v) \in Nat /\ n \in Nat /\ Len(t) \in Nat
      /\ \A k \in 1 .. n : v[k] = s[k]
      /\ \A k \in 1 .. Len(t) : v[n + k] = t[k]
  BY ConcatParts, SeqParts
<1> HIDE DEF v, n
<1>2. \A k \in 1 .. Len(t) : v[k + n] = t[k]
  <2> TAKE k \in 1 .. Len(t)
  <2>1. n + k = k + n
    BY <1>1
  <2> QED BY <1>1, <2>1
<1>3. ASSUME NEW d \in Nat \ {0}, NEW r, Run(t, d, r, c) PROVE Run(v, d + n, r, c)
  <2>1. \A k \in d + 1 .. Len(t) : v[k + n] = t[k]
    BY <1>1, <1>2
  <2>2. n \in Int /\ d + n \in Nat
    BY <1>1
  <2> QED BY <1>1, <1>3, <2>1, <2>2, RunMoved
<1>4. u \in Nat \ {0} /\ u + n \in 1 .. Len(v) /\ n + u = u + n
  BY <1>1
<1>5. \A k \in 1 .. (u + n) - 1 : Draws(v[k]) => v[k].t = "palette"
  <2> TAKE k \in 1 .. (u + n) - 1
  <2>1. CASE k <= n
    BY <1>1, <2>1 DEF n
  <2>2. CASE ~(k <= n)
    <3>1. k - n \in 1 .. u - 1 /\ k - n \in 1 .. Len(t) /\ (k - n) + n = k
      BY <1>1, <2>2
    <3>2. v[k] = t[k - n]
      BY <1>2, <3>1
    <3> QED BY <3>1, <3>2 DEF Whole
  <2> QED BY <2>1, <2>2
<1>6. v[u + n] = t[u]
  BY <1>2
<1>7. ASSUME Rect(t, u, c) PROVE Rect(v, u + n, c)
  <2>0. u + 1 <= Len(t)
    BY <1>7 DEF Rect
  <2>1. u + 1 \in 1 .. Len(t) /\ (u + n) + 1 = (u + 1) + n /\ u + 1 \in Nat \ {0}
        /\ (u + n) + 1 <= Len(v)
    BY <1>1, <1>4, <2>0
  <2>2. v[(u + n) + 1] = t[u + 1]
    BY <1>2, <2>1
  <2>3. Run(v, (u + 1) + n, t[u + 1].arg, c)
    BY <1>3, <1>7, <2>1 DEF Rect
  <2> QED BY <1>7, <2>1, <2>2, <2>3 DEF Rect
<1>8. Whole(v, u + n, c)
  BY <1>3, <1>4, <1>5, <1>6, <1>7 DEF Whole
<1> QED BY <1>4, <1>8 DEF v, n

-----------------------------------------------------------------------------
(* The update the server makes.                                            *)

\* One message before others.
Before(m, s) == <<m>> \o s
LEMMA HeadBefore ==
  ASSUME NEW m, NEW s, Sequence(s), NEW u, u = Before(m, s)
  PROVE  /\ Sequence(u) /\ Len(u) = Len(s) + 1 /\ u[1] = m
         /\ \A k \in 1 .. Len(s) : u[k + 1] = s[k]
<1> DEFINE h == <<m>>
<1>1. h \in Seq({m}) /\ Len(h) = 1 /\ h[1] = m
  OBVIOUS
<1> HIDE DEF h
<1>2. Sequence(h)
  BY <1>1, IsSequence
<1>3. /\ Sequence(h \o s) /\ Len(h \o s) = Len(h) + Len(s) /\ Len(s) \in Nat
      /\ \A k \in 1 .. Len(h) : (h \o s)[k] = h[k]
      /\ \A k \in 1 .. Len(s) : (h \o s)[Len(h) + k] = s[k]
  BY <1>2, ConcatParts, SeqParts
<1>4. ASSUME NEW k \in 1 .. Len(s) PROVE (h \o s)[k + 1] = s[k]
  <2>1. Len(h) + k = k + 1
    BY <1>1, <1>3
  <2> QED BY <1>3, <2>1
<1>5. (h \o s)[1] = m /\ Len(h \o s) = Len(s) + 1
  BY <1>1, <1>3
<1> DEFINE P(t) == /\ Sequence(t) /\ Len(t) = Len(s) + 1 /\ t[1] = m
                  /\ \A k \in 1 .. Len(s) : t[k + 1] = s[k]
<1>6. P(h \o s)
  BY <1>3, <1>4, <1>5
<1>7. u = h \o s
  BY DEF h, Before
<1> HIDE DEF P
<1>8. P(u)
  BY <1>6, <1>7, Zenon
<1> QED BY <1>8 DEF P

\* The colours of the tiles of a rectangle, the update that sends it as raw pixels, and
\* the one that sends it tile by tile.
Values(val, list, n, screen) == val = [i \in 1 .. n |-> screen[list[i]]]
Tiled(tiles, list, n, val, k) ==
  tiles = [i \in 1 .. n |-> Pixels(<<list[i]>>, <<val[i]>>, k[i])]
RawUpdate(u, list, val) ==
  u = <<Message("update", 1, 0)>> \o <<Message("raw", 1, 0), Pixels(list, val, "raw")>>
HextileUpdate(u, n, tiles) ==
  u = <<Message("update", 1, 0)>> \o (<<Message("hextile", n, 0)>> \o tiles)
Filled(list, n, which) == \A t \in which : \E i \in 1 .. n : list[i] = t
Left(which, c) == \A t \in Screen \ which : c.fb[t] = c.screen[t]

\* The three messages of an update that is one rectangle of raw pixels.
LEMMA RawMade ==
  ASSUME NEW which \in SUBSET Screen, NEW screen, NEW n \in Nat, NEW list \in [1 .. n -> which],
         Filled(list, n, which), NEW val, Values(val, list, n, screen),
         NEW u, RawUpdate(u, list, val),
         NEW c, c.fmt = srv.fmt, c.screen = screen, Left(which, c)
  PROVE  Sequence(u) /\ 1 \in 1 .. Len(u) /\ Whole(u, 1, c)
<1> DEFINE p == Pixels(list, val, "raw")
<1>2. p.t = "pixels" /\ p.arg = list /\ p.val[1] = srv.fmt /\ p.val[2] = val /\ p.val[3] = "raw"
  BY DEF Pixels, Message
<1> HIDE DEF p
<1>4. /\ Sequence(u) /\ Len(u) = 3 /\ u[1] = Message("update", 1, 0)
      /\ u[2] = Message("raw", 1, 0) /\ u[3] = p
  <2>h. PICK h : h = Message("update", 1, 0)
    OBVIOUS
  <2>b. PICK b : b = <<Message("raw", 1, 0), p>>
    OBVIOUS
  <2>1. /\ b \in Seq({Message("raw", 1, 0), p}) /\ Len(b) = 2 /\ b[1] = Message("raw", 1, 0)
        /\ b[2] = p
    BY <2>b
  <2>2. u = Before(h, b)
    BY <2>h, <2>b DEF p, Before, RawUpdate
  <2>3. Sequence(b)
    BY <2>1, IsSequence
  <2>4. /\ Sequence(u) /\ Len(u) = Len(b) + 1 /\ u[1] = h
        /\ \A k \in 1 .. Len(b) : u[k + 1] = b[k]
    BY <2>2, <2>3, HeadBefore
  <2>5. u[1] = h /\ u[1 + 1] = b[1] /\ u[2 + 1] = b[2] /\ Len(u) = 3 /\ Sequence(u)
    BY <2>1, <2>4
  <2> QED BY <2>1, <2>5, <2>h
<1>5. Faithful(p, c)
  BY <1>2 DEF Faithful, Values
<1>6. Pixel(u, 2, 3, c)
  BY <1>2, <1>4, <1>5 DEF Pixel, KindOf
<1>7. ASSUME NEW t \in Screen PROVE c.fb[t] = c.screen[t] \/ Covers(u, 2, 1, t)
  <2>1. CASE t \in which
    <3>1. PICK i \in 1 .. n : list[i] = t
      BY <2>1 DEF Filled
    <3>2. 3 \in 2 + 1 .. 2 + 1 /\ i \in DOMAIN u[3].arg /\ u[3].arg[i] = t
      BY <1>2, <1>4, <3>1
    <3> QED BY <3>2 DEF Covers
  <2> QED BY <2>1 DEF Left
<1>8. Run(u, 2, 1, c)
  <2>1. Quiet(u, 2 + 1) /\ 2 + 1 <= Len(u) /\ 1 \in Nat
    BY <1>4 DEF Quiet
  <2>2. \A k \in 2 + 1 .. 2 + 1 : k = 3
    OBVIOUS
  <2> QED BY <1>6, <1>7, <2>1, <2>2 DEF Run
<1>9. u[2].t = "raw" /\ u[2].arg = 1 /\ u[1].t = "update" /\ u[1].arg = 1
  BY <1>4 DEF Message
<1>10. Rect(u, 1, c)
  BY <1>4, <1>8, <1>9 DEF Rect
<1>11. \A k \in 1 .. 1 - 1 : FALSE
  OBVIOUS
<1> QED BY <1>4, <1>9, <1>10, <1>11 DEF Whole

\* An update that is one hextile rectangle: a tile's colour of before is there.
LEMMA HextileMade ==
  ASSUME NEW which \in SUBSET Screen, NEW screen, NEW n \in Nat \ {0}, NEW list \in [1 .. n -> which],
         Filled(list, n, which), NEW val, Values(val, list, n, screen),
         NEW k, k \in Codings(val), NEW tiles, Tiled(tiles, list, n, val, k),
         NEW u, HextileUpdate(u, n, tiles),
         NEW c, c.fmt = srv.fmt, c.screen = screen, Left(which, c)
  PROVE  Sequence(u) /\ 1 \in 1 .. Len(u) /\ Whole(u, 1, c)
<1>2. Sequence(tiles) /\ Len(tiles) = n
  <2>1. tiles \in Seq({tiles[i] : i \in 1 .. n}) /\ Len(tiles) = n
    <3> DEFINE T == {tiles[i] : i \in 1 .. n}
    <3>1. tiles \in [1 .. n -> T]
      BY DEF Tiled
    <3> HIDE DEF T
    <3>2. tiles \in Seq(T) /\ Len(tiles) = n
      BY <3>1
    <3> QED BY <3>2 DEF T
  <2> QED BY <2>1, IsSequence
<1>0. PICK h : h = Before(Message("hextile", n, 0), tiles)
  OBVIOUS
<1>3. /\ Sequence(h) /\ Len(h) = n + 1 /\ h[1] = Message("hextile", n, 0)
      /\ \A i \in 1 .. n : h[i + 1] = tiles[i]
  <2>m. PICK m : m = Message("hextile", n, 0)
    OBVIOUS
  <2>1. /\ Sequence(h) /\ Len(h) = Len(tiles) + 1 /\ h[1] = m
        /\ \A i \in 1 .. Len(tiles) : h[i + 1] = tiles[i]
    BY <1>0, <1>2, <2>m, HeadBefore
  <2> QED BY <1>2, <2>1, <2>m
<1>1. u = <<Message("update", 1, 0)>> \o h
  BY <1>0 DEF Before, HextileUpdate
<1>4. /\ Sequence(u) /\ Len(u) = n + 2 /\ u[1] = Message("update", 1, 0)
      /\ u[2] = Message("hextile", n, 0)
      /\ \A i \in 1 .. n : u[i + 2] = tiles[i]
  <2>m. PICK m : m = Message("update", 1, 0)
    OBVIOUS
  <2>0. Sequence(h)
    BY <1>3
  <2>2. u = Before(m, h)
    BY <1>1, <2>m DEF Before
  <2>1. /\ Sequence(u) /\ Len(u) = Len(h) + 1 /\ u[1] = m
        /\ \A i \in 1 .. Len(h) : u[i + 1] = h[i]
    BY <2>0, <2>2, HeadBefore
  <2>3. 1 \in 1 .. Len(h) /\ u[1 + 1] = h[1] /\ Len(u) = n + 2 /\ Sequence(u) /\ u[1] = m
    BY <1>3, <2>1
  <2>5. ASSUME NEW i \in 1 .. n PROVE u[i + 2] = tiles[i]
    <3>1. i + 1 \in 1 .. Len(h) /\ (i + 1) + 1 = i + 2
      BY <1>3
    <3>2. u[(i + 1) + 1] = h[i + 1]
      BY <2>1, <3>1
    <3> QED BY <1>3, <3>1, <3>2
  <2> QED BY <1>3, <2>3, <2>5, <2>m
<1>5. ASSUME NEW i \in 1 .. n
      PROVE  /\ tiles[i].t = "pixels" /\ tiles[i].arg = <<list[i]>> /\ tiles[i].val[1] = srv.fmt
             /\ tiles[i].val[2] = <<val[i]>> /\ tiles[i].val[3] = k[i]
  BY DEF Pixels, Message, Tiled
<1>6. ASSUME NEW i \in 1 .. n PROVE Faithful(u[i + 2], c)
  <2>1. /\ u[i + 2].t = "pixels" /\ u[i + 2].arg = <<list[i]>> /\ u[i + 2].val[1] = srv.fmt
        /\ u[i + 2].val[2] = <<val[i]>> /\ val[i] = screen[list[i]]
    BY <1>4, <1>5 DEF Values
  <2>2. DOMAIN <<val[i]>> = {1} /\ DOMAIN <<list[i]>> = {1} /\ <<val[i]>>[1] = val[i]
        /\ <<list[i]>>[1] = list[i]
    OBVIOUS
  <2>3. ASSUME NEW j \in DOMAIN u[i + 2].arg
        PROVE  u[i + 2].val[2][j] = c.screen[u[i + 2].arg[j]]
    <3>1. j = 1
      BY <2>1, <2>2
    <3> QED BY <2>1, <2>2, <3>1
  <2>4. DOMAIN u[i + 2].val[2] = DOMAIN u[i + 2].arg
    BY <2>1, <2>2
  <2> QED BY <2>1, <2>3, <2>4 DEF Faithful
<1>7. ASSUME NEW i \in 1 .. n PROVE KindOf(u[i + 2]) = k[i] /\ ColourOf(u[i + 2]) = val[i]
  <2>1. u[i + 2].val[3] = k[i] /\ u[i + 2].val[2] = <<val[i]>> /\ <<val[i]>>[1] = val[i]
    BY <1>4, <1>5
  <2> QED BY <2>1 DEF KindOf, ColourOf
<1>8. ASSUME NEW i \in 1 .. n, NEW kind, Kept(k, val, i, kind), NEW x
      PROVE  Held(u, 2, i + 2, kind, x)
  <2>1. PICK j \in 1 .. i - 1 : /\ k[j] = kind /\ val[j] = val[i]
                                /\ \A m \in j + 1 .. i - 1 : k[m] \notin {kind, "raw"}
    BY <1>8 DEF Kept
  <2>2. j \in 1 .. n /\ j + 2 \in 2 + 1 .. (i + 2) - 1
    OBVIOUS
  <2>3. KindOf(u[j + 2]) = kind /\ ColourOf(u[j + 2]) = ColourOf(u[i + 2])
    BY <1>7, <2>1, <2>2
  <2>4. ASSUME NEW m \in (j + 2) + 1 .. (i + 2) - 1 PROVE KindOf(u[m]) # kind
    <3>1. m - 2 \in j + 1 .. i - 1 /\ m - 2 \in 1 .. n /\ (m - 2) + 2 = m
      OBVIOUS
    <3> QED BY <1>7, <2>1, <3>1
  <2> QED BY <2>2, <2>3, <2>4 DEF Held
<1>9. Len(val) = n
  BY DEF Values
<1>10. ASSUME NEW m \in 2 + 1 .. 2 + n PROVE Pixel(u, 2, m, c)
  <2>1. m - 2 \in 1 .. n /\ (m - 2) + 2 = m
    OBVIOUS
  <2>2. Faithful(u[m], c) /\ KindOf(u[m]) = k[m - 2]
    BY <1>6, <1>7, <2>1
  <2>3. /\ k[m - 2] = "same" => Kept(k, val, m - 2, "bg")
        /\ k[m - 2] = "subfg" => Kept(k, val, m - 2, "sub")
    BY <1>9, <2>1 DEF Codings
  <2>4. k[m - 2] = "same" => Held(u, 2, m, "bg", c.bg)
    BY <1>8, <2>1, <2>3
  <2>5. k[m - 2] = "subfg" => Held(u, 2, m, "sub", c.fg)
    BY <1>8, <2>1, <2>3
  <2> QED BY <2>2, <2>4, <2>5 DEF Pixel
<1>11. ASSUME NEW t \in Screen PROVE c.fb[t] = c.screen[t] \/ Covers(u, 2, n, t)
  <2>1. CASE t \in which
    <3>1. PICK i \in 1 .. n : list[i] = t
      BY <2>1 DEF Filled
    <3>2. i + 2 \in 2 + 1 .. 2 + n /\ u[i + 2] = tiles[i]
      BY <1>4
    <3>4. tiles[i].arg = <<t>>
      BY <1>5, <3>1
    <3>5. 1 \in DOMAIN <<t>> /\ <<t>>[1] = t
      OBVIOUS
    <3>3. 1 \in DOMAIN u[i + 2].arg /\ u[i + 2].arg[1] = t
      BY <3>2, <3>4, <3>5, Zenon
    <3> QED BY <3>2, <3>3 DEF Covers
  <2> QED BY <2>1 DEF Left
<1>12. Run(u, 2, n, c)
  <2>1. Quiet(u, 2 + n) /\ 2 + n <= Len(u)
    BY <1>4 DEF Quiet
  <2> QED BY <1>10, <1>11, <2>1 DEF Run
<1>13. u[2].t = "hextile" /\ u[2].arg = n /\ u[1].t = "update" /\ u[1].arg = 1
  BY <1>4 DEF Message
<1>14. Rect(u, 1, c)
  BY <1>4, <1>12, <1>13 DEF Rect
<1>15. (\A m \in 1 .. 1 - 1 : FALSE) /\ 1 \in 1 .. Len(u)
  BY <1>4
<1> QED BY <1>4, <1>13, <1>14, <1>15 DEF Whole

\* Every update of the server makes its screen of the client's, if the client has the
\* tiles that are left out.
LEMMA UpdateMade ==
  ASSUME NEW which \in SUBSET Screen, NEW screen, NEW u \in Update(screen, which),
         NEW c, c.fmt = srv.fmt, c.screen = screen,
         Left(which, c)
  PROVE  Sequence(u) /\ 1 \in 1 .. Len(u) /\ Whole(u, 1, c)
<1>1. CASE which = {}
  <2>1. u = <<Message("update", 0, 0)>>
    BY <1>1 DEF Update
  <2>2. Sequence(u) /\ Len(u) = 1 /\ u[1].t = "update" /\ u[1].arg = 0
    <3>1. u \in Seq({Message("update", 0, 0)}) /\ Len(u) = 1 /\ u[1] = Message("update", 0, 0)
      BY <2>1
    <3> QED BY <3>1, IsSequence DEF Message
  <2>3. Run(u, 1, 0, c)
    <3>1. Quiet(u, 1) /\ 1 <= Len(u) /\ 1 \in Nat
      BY <2>2 DEF Quiet
    <3>2. \A t \in Screen : c.fb[t] = c.screen[t]
      BY <1>1 DEF Left
    <3> QED BY <3>1, <3>2, RunOver
  <2> QED BY <2>2, <2>3 DEF Whole
<1>2. CASE which # {}
  <2>1. PICK list \in Listed(which) :
          \E r \in Rectangle(list, [i \in DOMAIN list |-> screen[list[i]]]) :
            u = <<Message("update", 1, 0)>> \o r
    BY <1>2 DEF Update
  <2>2. PICK n \in Screen : list \in [1 .. n -> which]
    BY DEF Listed
  <2>3. n \in Nat \ {0} /\ DOMAIN list = 1 .. n /\ Len(list) = n
        /\ Filled(list, n, which)
    <3>1. n \in Nat \ {0}
      BY SessionAssumption DEF Screen
    <3>2. DOMAIN list = 1 .. n /\ Len(list) = n
      BY <2>2, <3>1
    <3> QED BY <3>1, <3>2 DEF Listed, Filled
  <2>7. PICK val : Values(val, list, n, screen)
    BY DEF Values
  <2>4. PICK r \in Rectangle(list, val) : u = <<Message("update", 1, 0)>> \o r
    BY <2>1, <2>3, <2>7 DEF Values
  <2>5. CASE r = <<Message("raw", 1, 0), Pixels(list, val, "raw")>>
    <3>1. RawUpdate(u, list, val)
      BY <2>4, <2>5 DEF RawUpdate
    <3> QED BY <2>2, <2>3, <2>7, <3>1, RawMade
  <2>6. CASE \E k \in Codings(val) :
               r = <<Message("hextile", Len(list), 0)>>
                     \o [i \in 1 .. Len(list) |-> Pixels(<<list[i]>>, <<val[i]>>, k[i])]
    <3>1. PICK k \in Codings(val) :
               r = <<Message("hextile", n, 0)>>
                     \o [i \in 1 .. n |-> Pixels(<<list[i]>>, <<val[i]>>, k[i])]
      BY <2>3, <2>6
    <3>3. PICK tiles : Tiled(tiles, list, n, val, k)
      BY DEF Tiled
    <3>2. HextileUpdate(u, n, tiles)
      BY <2>4, <3>1, <3>3 DEF Tiled, HextileUpdate
    <3> QED BY <2>2, <2>3, <2>7, <3>2, <3>3, HextileMade
  <2> QED BY <2>4, <2>5, <2>6 DEF Rectangle
<1> QED BY <1>1, <1>2

-----------------------------------------------------------------------------
(* What the client reads.                                                  *)

\* With nothing of an update on its way, any message may be read.
LEMMA QuietRead ==
  ASSUME NEW s, Sequence(s), s # <<>>, NEW c, NEW b, b.screen = c.screen, b.fb = c.fb,
         Run(s, 0, 0, c)
  PROVE  Run(Tail(s), 0, 0, b) /\ ~Draws(s[1])
<1> DEFINE t == Tail(s)
<1>1. /\ Len(s) \in Nat \ {0} /\ Len(t) = Len(s) - 1
      /\ \A k \in 1 .. Len(s) - 1 : t[k] = s[k + 1]
  BY TailParts
<1> HIDE DEF t
<1>2. Quiet(s, 0) /\ \A x \in Screen : b.fb[x] = b.screen[x]
  BY RunOver
<1>3. ~Draws(s[1])
  BY <1>1, <1>2 DEF Quiet
<1>4. Quiet(t, 0)
  <2> SUFFICES ASSUME NEW k \in 0 + 1 .. Len(t) PROVE ~Draws(t[k])
    BY DEF Quiet
  <2>1. k \in 1 .. Len(s) - 1 /\ k + 1 \in 0 + 1 .. Len(s)
    BY <1>1
  <2> QED BY <1>1, <1>2, <2>1 DEF Quiet
<1>5. 0 <= Len(t) /\ 0 \in Nat
  BY <1>1
<1>6. Run(t, 0, 0, b)
  BY <1>2, <1>4, <1>5, RunOver
<1> QED BY <1>3, <1>6 DEF t

\* There is no palette in what is drawn and behind it.
LEMMA NoPalette ==
  ASSUME NEW s, Len(s) \in Nat, NEW c
  PROVE  /\ \A d \in Nat : \A r : Run(s, d, r, c) => \A k \in d + 1 .. Len(s) : s[k].t # "palette"
         /\ \A d \in Nat : Rect(s, d, c) => \A k \in d + 1 .. Len(s) : s[k].t # "palette"
         /\ Whole(s, 1, c) => \A k \in 1 .. Len(s) : s[k].t # "palette"
<1>1. ASSUME NEW d \in Nat, NEW r, Run(s, d, r, c), NEW k \in d + 1 .. Len(s)
      PROVE  s[k].t # "palette"
  <2>1. CASE k <= d + r
    <3>1. Pixel(s, d, k, c)
      BY <1>1, <2>1 DEF Run
    <3> QED BY <3>1 DEF Pixel, Faithful
  <2>2. CASE ~(k <= d + r)
    <3>1. ~Draws(s[k])
      BY <1>1, <2>2 DEF Run, Quiet
    <3> QED BY <3>1 DEF Draws
  <2>3. r \in Nat
    BY <1>1 DEF Run
  <2> QED BY <2>1, <2>2, <2>3
<1>2. ASSUME NEW d \in Nat, Rect(s, d, c), NEW k \in d + 1 .. Len(s)
      PROVE  s[k].t # "palette"
  <2>1. CASE k = d + 1
    BY <1>2, <2>1 DEF Rect
  <2>2. CASE k # d + 1
    <3>1. k \in (d + 1) + 1 .. Len(s) /\ d + 1 \in Nat
      BY <2>2
    <3>2. Run(s, d + 1, s[d + 1].arg, c)
      BY <1>2 DEF Rect
    <3> QED BY <1>1, <3>1, <3>2
  <2> QED BY <2>1, <2>2
<1>3. ASSUME Whole(s, 1, c), NEW k \in 1 .. Len(s) PROVE s[k].t # "palette"
  <2>1. CASE k = 1
    BY <1>3, <2>1 DEF Whole
  <2>2. CASE k # 1
    <3>1. k \in 1 + 1 .. Len(s) /\ 1 \in Nat
      BY <2>2
    <3>2. Run(s, 1, 0, c) \/ Rect(s, 1, c)
      BY <1>3 DEF Whole
    <3> QED BY <1>1, <1>2, <3>1, <3>2
  <2> QED BY <2>1, <2>2
<1> QED BY <1>1, <1>2, <1>3

\* An update begins with its first message.
LEMMA WholeBegins ==
  ASSUME NEW s, NEW c, Pending(s, c), s[1].t = "update"
  PROVE  Whole(s, 1, c)
<1>1. PICK u \in 1 .. Len(s) : Whole(s, u, c)
  BY DEF Pending
<1>2. u = 1
  <2>1. CASE u # 1
    <3>1. 1 \in 1 .. u - 1
      BY <2>1
    <3> QED BY <1>1, <3>1 DEF Whole, Draws
  <2> QED BY <2>1
<1> QED BY <1>1, <1>2

-----------------------------------------------------------------------------
(* The state.                                                              *)

\* The messages are sequences from the beginning.
LEMMA StateInit == ASSUME SessionInit PROVE StateInv
<1>1. <<>> \in Seq({}) /\ <<Message("version", setup.minor, 0)>> \in Seq({Message("version", setup.minor, 0)})
  OBVIOUS
<1>2. Sequence(toS) /\ Sequence(sent) /\ toS = <<>> /\ sent = <<>>
  BY <1>1, IsSequence DEF SessionInit
<1>3. Sequence(toC)
  BY <1>1, IsSequence DEF SessionInit
<1>4. srv.todo = <<>> /\ Sequence(srv.todo)
  BY <1>1, IsSequence DEF SessionInit
<1> QED BY <1>2, <1>3, <1>4 DEF SessionInit, StateInv

\* What the client does leaves the messages sequences.
LEMMA ClientState ==
  ASSUME StateInv, UNCHANGED <<srv, sent>>, Sequence(toS'), Sequence(toC'),
         fb' = [t \in Screen |-> fb'[t]], seq' \in Nat
  PROVE  StateInv'
BY DEF StateInv

\* A message is read: it was the first of what comes.
LEMMA MessageRead ==
  ASSUME StateInv, NEW t, Ready(t), UNCHANGED <<srv, sent>>
  PROVE  /\ Sequence(toC') /\ Sequence(Coming) /\ Coming # <<>> /\ Coming' = Tail(Coming)
         /\ Head(toC) = Coming[1] /\ Coming[1].t = t
<1>1. Sequence(toC) /\ Sequence(srv.todo) /\ toC # <<>> /\ toC' = Tail(toC) /\ Head(toC).t = t
  BY DEF StateInv, Ready
<1>2. Sequence(toC')
  BY <1>1, TailParts
<1>3. /\ Tail(toC) \o srv.todo = Tail(toC \o srv.todo) /\ toC \o srv.todo # <<>>
      /\ (toC \o srv.todo)[1] = Head(toC) /\ Sequence(toC \o srv.todo)
  BY <1>1, TailOfConcat
<1> QED BY <1>1, <1>2, <1>3 DEF Coming

\* What is sent that is neither a request nor a format asks for nothing.
Idle(ms) == \A k \in 1 .. Len(ms) : ms[k].t \notin {"request", "format"}
LEMMA IdleSent ==
  ASSUME Sequence(toS), NEW ms, Sequence(ms), Idle(ms), Reply(ms)
  PROVE  /\ Sequence(toS') /\ \A i \in DOMAIN toS : i \in DOMAIN toS' /\ toS'[i] = toS[i]
         /\ \A i \in DOMAIN toS' : toS'[i].t \in {"request", "format"} => i \in DOMAIN toS
<1>1. /\ Sequence(toS') /\ DOMAIN toS' = 1 .. Len(toS) + Len(ms) /\ DOMAIN toS = 1 .. Len(toS)
      /\ Len(toS) \in Nat /\ Len(ms) \in Nat
      /\ \A k \in 1 .. Len(toS) : toS'[k] = toS[k]
      /\ \A k \in 1 .. Len(ms) : toS'[Len(toS) + k] = ms[k]
  BY ConcatParts, SeqParts DEF Reply
<1>2. ASSUME NEW i \in DOMAIN toS', i \notin DOMAIN toS
      PROVE  toS'[i].t \notin {"request", "format"}
  <2>1. i - Len(toS) \in 1 .. Len(ms) /\ Len(toS) + (i - Len(toS)) = i
    BY <1>1, <1>2
  <2>2. toS'[i] = ms[i - Len(toS)]
    BY <1>1, <2>1
  <2> QED BY <2>1, <2>2 DEF Idle
<1> QED BY <1>1, <1>2

\* Where requests and formats are as they were, what is asked for is as it was.
SameAsked ==
  /\ \A i \in DOMAIN toS : i \in DOMAIN toS' /\ toS'[i] = toS[i]
  /\ \A i \in DOMAIN toS' : toS'[i].t \in {"request", "format"} => i \in DOMAIN toS
LEMMA AskedSame ==
  ASSUME AskInv, SameAsked, srv'.want = srv.want, UNCHANGED <<sent, seq, setup, rd>>
  PROVE  AskInv'
<1>1. \A i \in DOMAIN toS' : Asks(i)' => i \in DOMAIN toS /\ Asks(i)
  BY DEF SameAsked, Asks
<1>2. Asking' <=> Asking
  BY <1>1 DEF SameAsked, Asking, Asks
<1>3. NoneOut' <=> NoneOut
  BY <1>2 DEF NoneOut
<1>4. Out' = Out
  BY DEF Out
<1>5. Viewer' <=> Viewer
  BY DEF Viewer
<1> QED BY <1>1, <1>2, <1>3, <1>4, <1>5 DEF AskInv

\* What is agreed on stays so.
LEMMA AgreedSame ==
  ASSUME Sequence(toS), AgreeInv, SameAsked,
         srv'.fmt = srv.fmt, srv'.want = srv.want, UNCHANGED <<sent, fmt, seq>>,
         rd' = rd \/ (rd \notin Handshaking \cup {"failed"} /\ rd' \notin Handshaking)
         \/ rd' = "failed"
  PROVE  AgreeInv'
<1>1. \A i \in DOMAIN toS' : Asks(i)' => i \in DOMAIN toS /\ Asks(i)
  BY DEF SameAsked, Asks
<1>2. NoneOut' <=> NoneOut
  BY <1>1 DEF SameAsked, Asking, Asks, NoneOut
<1>3. \A i \in DOMAIN toS' : toS'[i].t = "format" => i \in DOMAIN toS /\ toS'[i] = toS[i]
  BY DEF SameAsked
<1>4. \A i \in DOMAIN toS : i \in DOMAIN toS' /\ toS'[i] = toS[i]
  BY DEF SameAsked
<1>5. rd' \notin Handshaking \cup {"failed"} => rd \notin Handshaking \cup {"failed"} \/ rd' = rd
  OBVIOUS
<1>6. rd' \in Handshaking => rd' = rd
  BY DEF Handshaking
<1>7. rd' \in Handshaking => /\ fmt' \in {"auto", "8bit", "rgb565"} /\ srv'.fmt = "rgb565"
                           /\ sent' = <<>> /\ seq' = 0 /\ NoneOut'
                           /\ \A i \in DOMAIN toS' : toS'[i].t # "format"
  BY <1>2, <1>3, <1>6 DEF AgreeInv
<1>8. \A i \in DOMAIN toS' : toS'[i].t = "format" => toS'[i].arg = fmt'
  BY <1>3 DEF AgreeInv
<1>9. ASSUME NEW i \in DOMAIN toS', Asks(i)'
      PROVE  srv'.fmt = fmt' \/ \E j \in 1 .. i - 1 : toS'[j].t = "format"
  <2>1. i \in DOMAIN toS /\ Asks(i)
    BY <1>1, <1>9
  <2>2. CASE srv.fmt = fmt
    BY <2>2
  <2>3. CASE \E j \in 1 .. i - 1 : toS[j].t = "format"
    <3>1. PICK j \in 1 .. i - 1 : toS[j].t = "format"
      BY <2>3
    <3>2. j \in DOMAIN toS
      BY <2>1, SeqParts
    <3> QED BY <1>4, <3>1, <3>2
  <2> QED BY <2>1, <2>2, <2>3 DEF AgreeInv
<1> QED BY <1>4, <1>5, <1>7, <1>8, <1>9 DEF AgreeInv

\* What the updates stand for stays so while none is begun, read or shown.
LEMMA SentSame ==
  ASSUME SentInv, UNCHANGED <<sent, setup, seq, frame, taken, shown>>,
         srv'.fmt = srv.fmt, srv'.screen = srv.screen, srv'.palSent = srv.palSent,
         rd' # "publish" \/ UNCHANGED <<rd, fb, pal>>
  PROVE  SentInv'
<1>1. Viewer' <=> Viewer
  BY DEF Viewer
<1>2. Frame(frame, seq)' <=> Frame(frame, seq)
  BY DEF Frame
<1>3. /\ Frame(taken.f, taken.seq)' <=> Frame(taken.f, taken.seq)
      /\ Frame(shown.f, shown.seq)' <=> Frame(shown.f, shown.seq)
  BY DEF Frame
<1> QED BY <1>1, <1>2, <1>3 DEF SentInv

-----------------------------------------------------------------------------
(* The steps of the client.                                                *)

\* What neither the reader nor the server does changes nothing for them but the
\* idle messages that are sent.
LEMMA FrameIdle ==
  ASSUME FrameInv, SameAsked, Sequence(toS'),
         UNCHANGED <<setup, toC, srv, sent, rd, decVars, seq>>, SentInv'
  PROVE  FrameInv'
<1>1. StateInv'
  BY ClientState DEF FrameInv, StateInv, decVars
<1>2. AskInv' /\ AgreeInv'
  BY AskedSame, AgreedSame DEF FrameInv, StateInv, decVars
<1>3. Coming' = Coming /\ Now' = Now /\ Out' = Out
  BY DEF Coming, Now, Out, decVars
<1>4. DrawInv'
  BY <1>3 DEF FrameInv, DrawInv, decVars
<1> QED BY <1>1, <1>2, <1>4 DEF FrameInv

\* What is unchanged asks for what it asked for.
LEMMA SameSame ==
  ASSUME Sequence(toS), UNCHANGED toS
  PROVE  SameAsked /\ Sequence(toS')
BY DEF SameAsked

\* A list of one message that is neither a request nor a format.
LEMMA IdleOne ==
  ASSUME NEW m, m.t \notin {"request", "format"}
  PROVE  Sequence(<<m>>) /\ Idle(<<m>>)
<1>1. <<m>> \in Seq({m}) /\ Len(<<m>>) = 1 /\ <<m>>[1] = m
  OBVIOUS
<1>2. Sequence(<<m>>)
  BY <1>1, IsSequence
<1> QED BY <1>1, <1>2 DEF Idle

\* The Tk thread takes whole frames, shows what it took, and sends keys.
LEMMA FrameTk == ASSUME FrameInv, Tk \/ User PROVE FrameInv'
<1>1. UNCHANGED <<setup, toC, srv, sent, rd, decVars, frame, seq>>
  BY DEF Tk, User, TkOnly, srvVars, frameVars
<1>2. SameAsked /\ Sequence(toS')
  <2>0. Sequence(toS)
    BY DEF FrameInv, StateInv
  <2>1. CASE UNCHANGED toS
    BY <2>0, <2>1, SameSame
  <2>2. CASE Reply(<<Message("key", "press", 0)>>)
    <3>1. PICK m : m = Message("key", "press", 0)
      OBVIOUS
    <3>2. m.t \notin {"request", "format"} /\ Reply(<<m>>)
      BY <2>2, <3>1 DEF Message
    <3>3. PICK ms : ms = <<m>>
      OBVIOUS
    <3>4. Sequence(ms) /\ Idle(ms) /\ Reply(ms)
      BY <3>2, <3>3, IdleOne
    <3> QED BY <2>0, <3>4, IdleSent DEF SameAsked
  <2> QED BY <2>1, <2>2 DEF Tk, User, TickTakes, TickShows, TickChecks, KeyLock, KeySend,
                            KeyPress, UserCloses
<1>3. SentInv'
  <2>1. /\ taken' = taken \/ taken' = [f |-> frame, seq |-> seq]
        /\ shown' = shown \/ shown' = taken
    BY DEF Tk, User, TickTakes, TickShows, TickChecks, KeyLock, KeySend, KeyPress, UserCloses
  <2>2. Viewer' <=> Viewer
    BY <1>1 DEF Viewer
  <2>3. \A f, n : (Frame(f, n)' <=> Frame(f, n))
    BY <1>1 DEF Frame
  <2>4. Viewer => Frame(taken'.f, taken'.seq) /\ Frame(shown'.f, shown'.seq)
    BY <2>1 DEF FrameInv, SentInv
  <2>5. Viewer => Frame(taken.f, taken.seq)' /\ Frame(shown.f, shown.seq)' /\ Frame(frame, seq)'
    BY <1>1, <2>4 DEF FrameInv, SentInv, Frame
  <2> QED BY <1>1, <2>2, <2>5 DEF FrameInv, SentInv, decVars
<1> QED BY <1>1, <1>2, <1>3, FrameIdle

\* The reader fails: nothing is drawn any more.
LEMMA FrameFails ==
  ASSUME FrameInv, rd' \in {"failing", "failed"}, rd # "publish",
         rd \notin Handshaking \cup {"failed"} \/ rd' = "failed",
         UNCHANGED <<setup, toS, srv, sent, fmt, fb, seq, frame, taken, shown>>, Sequence(toC')
  PROVE  FrameInv'
<1>0. SameAsked /\ Sequence(toS')
  BY SameSame DEF FrameInv, StateInv
<1>1. StateInv'
  BY <1>0, ClientState DEF FrameInv, StateInv
<1>2. AgreeInv'
  BY <1>0, AgreedSame DEF FrameInv, StateInv, Handshaking
<1>3. SentInv'
  BY SentSame DEF FrameInv
<1>4. Out' = Out /\ (NoneOut' <=> NoneOut) /\ (Asking' <=> Asking)
      /\ \A i \in DOMAIN toS' : Asks(i)' <=> Asks(i)
  BY DEF Out, NoneOut, Asking, Asks
<1>5. AskInv'
  BY <1>4 DEF FrameInv, AskInv
<1>6. DrawInv'
  BY DEF DrawInv
<1> QED BY <1>1, <1>2, <1>3, <1>5, <1>6 DEF FrameInv

\* The request is the last message to the server, and the only one of its kind.
LEMMA RequestSent ==
  ASSUME Sequence(toS), ~Asking, Reply(<<Message("request", Ask, 0)>>)
  PROVE  /\ Sequence(toS') /\ Asking'
         /\ \A i, j \in DOMAIN toS' : Asks(i)' /\ Asks(j)' => i = j
         /\ \A i \in DOMAIN toS : i \in DOMAIN toS' /\ toS'[i] = toS[i]
         /\ \A i \in DOMAIN toS' : i \in DOMAIN toS \/ (i = Len(toS) + 1 /\ Asks(i)')
<1>m. PICK m : m = Message("request", Ask, 0)
  OBVIOUS
<1>0. m.t = "request"
  BY <1>m DEF Message
<1>1. PICK ms : ms = <<m>>
  OBVIOUS
<1>2. ms \in Seq({m}) /\ Len(ms) = 1 /\ ms[1] = m
  BY <1>1
<1>3. Sequence(ms)
  BY <1>2, IsSequence
<1>4. toS' = toS \o ms
  BY <1>m, <1>1 DEF Reply
<1>5. /\ Sequence(toS') /\ DOMAIN toS' = 1 .. Len(toS) + Len(ms) /\ DOMAIN toS = 1 .. Len(toS)
      /\ Len(toS) \in Nat /\ \A k \in 1 .. Len(toS) : toS'[k] = toS[k]
      /\ \A k \in 1 .. Len(ms) : toS'[Len(toS) + k] = ms[k]
  BY <1>3, <1>4, ConcatParts, SeqParts
<1>6. Len(toS) + 1 \in DOMAIN toS' /\ toS'[Len(toS) + 1].t = "request"
  BY <1>0, <1>2, <1>5
<1>7. \A i \in DOMAIN toS' : i \in DOMAIN toS \/ (i = Len(toS) + 1 /\ Asks(i)')
  BY <1>2, <1>5, <1>6 DEF Asks
<1>8. \A i \in DOMAIN toS : toS'[i] = toS[i] /\ toS[i].t # "request" /\ i \in DOMAIN toS'
  BY <1>2, <1>5 DEF Asking, Asks
<1>9. \A i \in DOMAIN toS' : Asks(i)' => i = Len(toS) + 1
  BY <1>7, <1>8 DEF Asks
<1>10. Asking'
  BY <1>6 DEF Asking, Asks
<1> QED BY <1>5, <1>7, <1>8, <1>9, <1>10

\* A request is sent only when the last update is completely read.
LEMMA FrameRequest ==
  ASSUME FrameInv, SendRequest, Reading
  PROVE  FrameInv'
<1>0. /\ StateInv /\ AskInv /\ AgreeInv /\ DrawInv /\ SentInv
      /\ rd \in {"first", "again"} /\ Reply(<<Message("request", Ask, 0)>>)
      /\ rd' = IF rd = "again" /\ Viewer THEN "publish" ELSE "message"
      /\ UNCHANGED <<setup, toC, srv, sent, decVars, frame, seq, taken, shown>>
  BY DEF FrameInv, SendRequest, Reading, srvVars, uiVars, frameVars
<1>1. /\ NoneOut /\ Out \in {0, 1} /\ UpToDate(Coming, Now, pal, srv.palSent)
      /\ (rd = "again" /\ Viewer) \/ Out = 0
  <2>1. CASE rd = "again" /\ Viewer
    BY <1>0, <2>1 DEF AskInv, DrawInv
  <2>2. CASE ~(rd = "again" /\ Viewer)
    BY <1>0, <2>2 DEF AskInv, DrawInv
  <2> QED BY <2>1, <2>2
<1>2. seq \in Nat /\ Len(sent) \in Nat /\ Sequence(toS)
  BY <1>0, SeqParts DEF StateInv
<1>3. /\ rd = "again" /\ Viewer => Len(sent) = seq + 1 /\ Out' = 0
      /\ ~(rd = "again" /\ Viewer) => Out' = 0
  <2>1. CASE rd = "again" /\ Viewer
    <3>1. Out = Len(sent) - seq /\ Out' = Len(sent) - (seq + 1) /\ Out = 1
      BY <1>0, <2>1 DEF Out, AskInv
    <3> QED BY <1>2, <2>1, <3>1
  <2>2. CASE ~(rd = "again" /\ Viewer)
    BY <1>0, <1>1, <2>2 DEF Out
  <2> QED BY <2>1, <2>2
<1>4. /\ Sequence(toS') /\ Asking'
      /\ \A i, j \in DOMAIN toS' : Asks(i)' /\ Asks(j)' => i = j
      /\ \A i \in DOMAIN toS : i \in DOMAIN toS' /\ toS'[i] = toS[i]
      /\ \A i \in DOMAIN toS' : i \in DOMAIN toS \/ (i = Len(toS) + 1 /\ Asks(i)')
  BY <1>0, <1>1, <1>2, RequestSent DEF NoneOut
<1>5. StateInv'
  BY <1>0, <1>4, ClientState DEF StateInv, decVars
<1>6. AskInv'
  <2>1. srv'.want = "none" /\ (Viewer' <=> Viewer) /\ Out' = 0
    BY <1>0, <1>1, <1>3 DEF NoneOut, Viewer
  <2>2. rd' \in {"publish", "message"} /\ (rd' = "publish" => Viewer')
    BY <1>0, <2>1
  <2> QED BY <1>4, <2>1, <2>2 DEF AskInv
<1>7. srv.fmt = fmt \/ \E j \in DOMAIN toS : toS[j].t = "format"
  BY <1>0 DEF AgreeInv, Handshaking
<1>8. AgreeInv'
  <2>1. \A i \in DOMAIN toS' : toS'[i].t = "format" => i \in DOMAIN toS /\ toS'[i] = toS[i]
    BY <1>4 DEF Asks
  <2>2. \A i \in DOMAIN toS' : toS'[i].t = "format" => toS'[i].arg = fmt'
    BY <1>0, <2>1 DEF AgreeInv, decVars
  <2>3. srv'.fmt = fmt' \/ \E j \in DOMAIN toS : j \in DOMAIN toS' /\ toS'[j].t = "format"
    BY <1>0, <1>4, <1>7 DEF decVars
  <2>4. ASSUME NEW i \in DOMAIN toS', Asks(i)'
        PROVE  srv'.fmt = fmt' \/ \E j \in 1 .. i - 1 : toS'[j].t = "format"
    <3>1. i = Len(toS) + 1
      BY <1>1, <1>4, <2>4 DEF NoneOut, Asking, Asks
    <3>2. DOMAIN toS = 1 .. i - 1
      BY <1>2, <3>1, SeqParts
    <3> QED BY <2>3, <3>2
  <2>5. rd' \notin Handshaking
    BY <1>0 DEF Handshaking
  <2>6. srv'.want # "none" \/ sent' # <<>> => srv'.fmt = fmt'
    BY <1>0 DEF AgreeInv, decVars
  <2> QED BY <2>2, <2>3, <2>4, <2>5, <2>6 DEF AgreeInv
<1>9. DrawInv'
  <2>1. Coming' = Coming /\ Now' = Now /\ pal' = pal /\ srv'.palSent = srv.palSent
    BY <1>0 DEF Coming, Now, decVars
  <2>2. UpToDate(Coming', Now', pal', srv'.palSent)
    BY <1>1, <2>1
  <2>3. Out' = 0 /\ rd' \in {"publish", "message"}
    BY <1>0, <1>3
  <2> QED BY <2>2, <2>3 DEF DrawInv
<1>10. SentInv'
  <2>1. CASE rd = "again" /\ Viewer
    <3>1. sent[seq + 1] = [fb |-> srv.screen, pal |-> srv.palSent]
      <4>1. sent # <<>> /\ Len(sent) = seq + 1
        BY <1>0, <1>2, <1>3, <2>1, SeqParts DEF StateInv
      <4> QED BY <1>0, <4>1 DEF SentInv
    <3>2. pal = srv.palSent /\ \A t \in Screen : fb[t] = srv.screen[t]
      <4>1. Run(Coming, 0, 0, Now) /\ pal = srv.palSent
        BY <1>1 DEF UpToDate
      <4>2. \A t \in Screen : Now.fb[t] = Now.screen[t]
        BY <4>1, RunOver
      <4> QED BY <4>1, <4>2 DEF Now
    <3>3. fb = srv.screen
      BY <1>0, <3>2 DEF StateInv
    <3>4. sent[seq + 1] = [fb |-> fb, pal |-> pal]
      BY <3>1, <3>2, <3>3
    <3>5. \A f, n : Frame(f, n)' <=> Frame(f, n)
      BY <1>0 DEF Frame
    <3> QED BY <1>0, <3>4, <3>5 DEF SentInv, decVars, Viewer, Frame
  <2>2. CASE ~(rd = "again" /\ Viewer)
    BY <1>0, <2>2, SentSame
  <2> QED BY <2>1, <2>2
<1> QED BY <1>5, <1>6, <1>8, <1>9, <1>10 DEF FrameInv

\* While the reader reads an update nothing is asked for.
LEMMA FrameReads ==
  ASSUME FrameInv, rd \in {"message", "rect", "pixels"}, Sequence(toC'),
         UNCHANGED <<setup, toS, srv, sent, fmt, frame, seq, taken, shown>>,
         fb' = [t \in Screen |-> fb'[t]],
         rd' = "message" \/ (rd' \in {"rect", "pixels", Decoded} /\ Out = 1),
         DrawInv'
  PROVE  FrameInv'
<1>0. SameAsked /\ Sequence(toS')
  BY SameSame DEF FrameInv, StateInv
<1>1. StateInv'
  BY <1>0, ClientState DEF FrameInv, StateInv
<1>2. rd' \in {"message", "rect", "pixels", "again", "count"}
  BY DEF Decoded
<1>3. AgreeInv'
  BY <1>0, <1>2, AgreedSame DEF FrameInv, StateInv, Handshaking
<1>4. SentInv'
  BY <1>2, SentSame DEF FrameInv
<1>5. Out' = Out /\ (NoneOut' <=> NoneOut) /\ (Asking' <=> Asking) /\ (Viewer' <=> Viewer)
      /\ \A i \in DOMAIN toS' : Asks(i)' <=> Asks(i)
  BY <1>2 DEF Out, NoneOut, Asking, Asks, Viewer
<1>6. (rd' = "again" => Viewer) /\ (rd' = "count" => ~Viewer)
  BY DEF Decoded
<1>7. AskInv'
  BY <1>2, <1>5, <1>6 DEF FrameInv, AskInv
<1> QED BY <1>1, <1>3, <1>4, <1>7, <1>0 DEF FrameInv

\* Between updates a palette or a bell may come.
LEMMA FrameBetween ==
  ASSUME FrameInv, (NewPalette \/ Bell) /\ Reading
  PROVE  FrameInv'
<1>0. /\ StateInv /\ AskInv /\ DrawInv /\ rd = "message"
      /\ UNCHANGED <<setup, toS, srv, sent, fmt, fb, frame, seq, taken, shown>>
      /\ (Ready("palette") /\ pal' = Head(toC).arg /\ rd' = "message")
         \/ (Ready("bell") /\ pal' = pal /\ rd' \in {"message", "failed"})
  BY DEF FrameInv, NewPalette, Bell, Looping, Reading, srvVars, uiVars, decVars, frameVars
<1>1. /\ Sequence(toC') /\ Sequence(Coming) /\ Coming # <<>> /\ Coming' = Tail(Coming)
      /\ Head(toC) = Coming[1] /\ Coming[1].t \in {"palette", "bell"}
      /\ Coming[1].t = "palette" => pal' = Coming[1].arg
      /\ Coming[1].t = "bell" => pal' = pal
  BY <1>0, MessageRead
<1>2. /\ Now'.fmt = Now.fmt /\ Now'.screen = Now.screen /\ Now'.fb = Now.fb
      /\ srv'.palSent = srv.palSent /\ Out' = Out
  BY <1>0 DEF Now, Out
<1>3. CASE rd' = "failed"
  BY <1>0, <1>1, <1>3, FrameFails DEF Handshaking
<1>4. CASE rd' = "message" /\ Out = 0
  <2>1. Run(Coming, 0, 0, Now) /\ pal = srv.palSent
    BY <1>0, <1>4 DEF DrawInv, UpToDate
  <2>2. Run(Tail(Coming), 0, 0, Now') /\ ~Draws(Coming[1])
    BY <1>1, <1>2, <2>1, QuietRead
  <2>3. pal' = srv'.palSent
    BY <1>1, <1>2, <2>1, <2>2 DEF Draws
  <2>4. DrawInv'
    BY <1>1, <1>2, <1>4, <2>2, <2>3 DEF DrawInv, UpToDate
  <2> QED BY <1>0, <1>1, <1>4, <2>4, FrameReads DEF FrameInv, StateInv
<1>5. CASE rd' = "message" /\ Out = 1
  <2>1. Pending(Coming, Now) /\ Coloured(Coming, pal, srv.palSent)
    BY <1>0, <1>5 DEF DrawInv
  <2>2. Pending(Tail(Coming), Now')
    BY <1>1, <1>2, <2>1, UpdateMoved
  <2>3. Coloured(Tail(Coming), pal', srv.palSent)
    <3>1. /\ Len(Coming) \in Nat \ {0} /\ Len(Tail(Coming)) = Len(Coming) - 1
          /\ \A k \in 1 .. Len(Coming) - 1 : Tail(Coming)[k] = Coming[k + 1]
      BY <1>1, TailParts
    <3> DEFINE s == Coming
               t == Tail(Coming)
    <3>2. /\ \A k \in 1 .. Len(s) : s[k].t = "palette" => s[k].arg = srv.palSent
          /\ pal = srv.palSent \/ \E k \in 1 .. Len(s) : s[k].t = "palette"
      BY <2>1 DEF Coloured
    <3>3. \A k \in 1 .. Len(t) : t[k] = s[k + 1] /\ k + 1 \in 1 .. Len(s)
      BY <3>1
    <3> HIDE DEF s, t
    <3>4. \A k \in 1 .. Len(t) : t[k].t = "palette" => t[k].arg = srv.palSent
      BY <3>2, <3>3
    <3>5. CASE s[1].t = "palette"
      <4>1. 1 \in 1 .. Len(s) /\ pal' = s[1].arg
        BY <1>1, <3>1, <3>5 DEF s
      <4>2. pal' = srv.palSent
        BY <3>2, <3>5, <4>1
      <4> QED BY <3>4, <4>2 DEF Coloured, t
    <3>6. CASE s[1].t # "palette"
      <4>1. pal' = pal
        BY <1>1, <3>6 DEF s
      <4>2. ASSUME NEW k \in 1 .. Len(s), s[k].t = "palette"
            PROVE  \E j \in 1 .. Len(t) : t[j].t = "palette"
        <5>1. k # 1 /\ k - 1 \in 1 .. Len(t) /\ (k - 1) + 1 = k
          BY <3>1, <3>6, <4>2 DEF s, t
        <5>2. t[k - 1] = s[k]
          BY <3>3, <5>1
        <5> QED BY <4>2, <5>1, <5>2
      <4> QED BY <3>2, <3>4, <4>1, <4>2 DEF Coloured, t
    <3> QED BY <3>5, <3>6
  <2>4. DrawInv'
    BY <1>1, <1>2, <1>5, <2>2, <2>3 DEF DrawInv
  <2> QED BY <1>0, <1>1, <1>5, <2>4, FrameReads DEF FrameInv, StateInv
<1>6. Out \in {0, 1}
  BY <1>0 DEF AskInv
<1> QED BY <1>0, <1>3, <1>4, <1>5, <1>6

\* The update that begins is the one that was asked for.
LEMMA FrameBegins ==
  ASSUME FrameInv, UpdateBegins, Reading
  PROVE  FrameInv'
<1>0. /\ StateInv /\ AskInv /\ DrawInv /\ rd = "message" /\ Ready("update")
      /\ UNCHANGED <<setup, toS, srv, sent, fmt, fb, pal, bg, fg, frame, seq, taken, shown>>
      /\ rects' = Head(toC).arg /\ rd' = IF rects' = 0 THEN Decoded ELSE "rect"
  BY DEF FrameInv, UpdateBegins, Looping, Reading, srvVars, uiVars, decVars, frameVars
<1>1. /\ Sequence(toC') /\ Sequence(Coming) /\ Coming # <<>> /\ Coming' = Tail(Coming)
      /\ Head(toC) = Coming[1] /\ Coming[1].t = "update"
  BY <1>0, MessageRead
<1>2. Now' = Now /\ srv'.palSent = srv.palSent /\ Out \in {0, 1}
  BY <1>0 DEF Now, AskInv
<1>3. Out = 1
  <2>1. CASE Out = 0
    <3>1. Run(Coming, 0, 0, Now)
      BY <1>0, <2>1 DEF DrawInv, UpToDate
    <3>2. ~Draws(Coming[1])
      BY <1>1, <3>1, QuietRead
    <3> QED BY <1>1, <3>2 DEF Draws
  <2> QED BY <1>2, <2>1
<1>4. Pending(Coming, Now) /\ Coloured(Coming, pal, srv.palSent)
  BY <1>0, <1>3 DEF DrawInv
<1>5. Whole(Coming, 1, Now)
  BY <1>1, <1>4, WholeBegins
<1>6. pal = srv.palSent
  <2>1. Len(Coming) \in Nat
    BY <1>1, SeqParts
  <2>2. \A k \in 1 .. Len(Coming) : Coming[k].t # "palette"
    BY <1>5, <2>1, NoPalette
  <2> QED BY <1>4, <2>2 DEF Coloured
<1>7. DrawInv' /\ rd' \in {"rect", Decoded}
  <2>1. CASE Coming[1].arg = 0
    <3>1. Run(Coming, 1, 0, Now)
      BY <1>5, <2>1 DEF Whole
    <3>5. \A d \in Nat \ {0} : \A r : Run(Coming, d, r, Now) => Run(Tail(Coming), d - 1, r, Now)
      BY Zenon, <1>1, UpdateMoved
    <3>2. Run(Tail(Coming), 1 - 1, 0, Now)
      BY <3>1, <3>5
    <3>3. UpToDate(Coming', Now', pal', srv'.palSent)
      BY <1>0, <1>1, <1>2, <1>6, <3>2 DEF UpToDate
    <3>4. rd' = Decoded /\ Decoded \in {"again", "count"}
      BY <1>0, <1>1, <2>1 DEF Decoded
    <3> QED BY <3>3, <3>4 DEF DrawInv
  <2>2. CASE Coming[1].arg # 0
    <3>1. Rect(Coming, 1, Now)
      BY <1>5, <2>2 DEF Whole
    <3>2. Rect(Tail(Coming), 1 - 1, Now)
      BY <1>1, <3>1, UpdateMoved
    <3>3. Rect(Coming', 0, Now') /\ pal' = srv'.palSent /\ rd' = "rect"
      BY <1>0, <1>1, <1>2, <1>6, <2>2, <3>2
    <3>4. Out' = 1
      BY <1>0, <1>3, <3>3 DEF Out
    <3> QED BY <3>3, <3>4 DEF DrawInv
  <2> QED BY <2>1, <2>2
<1> QED BY <1>0, <1>1, <1>3, <1>7, FrameReads DEF FrameInv, StateInv

\* A rectangle begins: its pixels are still to come.
LEMMA FrameRect ==
  ASSUME FrameInv, RectBegins, Reading
  PROVE  FrameInv'
<1>0. /\ StateInv /\ AskInv /\ DrawInv /\ rd = "rect" /\ (Ready("raw") \/ Ready("hextile"))
      /\ UNCHANGED <<setup, toS, srv, sent, fmt, fb, pal, frame, seq, taken, shown>>
      /\ rects' = Head(toC).arg /\ rd' = "pixels"
  BY DEF FrameInv, RectBegins, Reading, srvVars, uiVars, decVars, frameVars
<1>1. /\ Sequence(toC') /\ Sequence(Coming) /\ Coming # <<>> /\ Coming' = Tail(Coming)
      /\ Head(toC) = Coming[1]
  BY <1>0, MessageRead
<1>2. /\ Now'.fmt = Now.fmt /\ Now'.screen = Now.screen /\ Now'.fb = Now.fb
      /\ srv'.palSent = srv.palSent
  BY <1>0 DEF Now
<1>3. Out = 1 /\ Out' = 1
  BY <1>0 DEF Out, AskInv
<1>4. Rect(Coming, 0, Now) /\ pal = srv.palSent
  BY <1>0 DEF DrawInv
<1>5. 0 + 1 = 1 /\ Coming[1].arg # 0 /\ Run(Coming, 1, Coming[1].arg, Now)
  BY <1>4 DEF Rect
<1>6. Run(Tail(Coming), 1 - 1, Coming[1].arg, Now')
  BY <1>1, <1>2, <1>5, UpdateMoved
<1>7. Run(Coming', 0, rects', Now') /\ rects' # 0 /\ pal' = srv'.palSent
  BY <1>0, <1>1, <1>2, <1>4, <1>5, <1>6
<1>8. DrawInv'
  BY <1>0, <1>3, <1>7 DEF DrawInv
<1> QED BY <1>0, <1>1, <1>3, <1>8, FrameReads DEF FrameInv, StateInv

\* Pixels are drawn: the tiles they are of are the server's.
LEMMA FramePixels ==
  ASSUME FrameInv, RectPixels, Reading
  PROVE  FrameInv'
<1>0. /\ StateInv /\ AskInv /\ DrawInv /\ rd = "pixels" /\ Ready("pixels")
      /\ UNCHANGED <<setup, toS, srv, sent, fmt, pal, frame, seq, taken, shown>>
      /\ rects' = rects - 1 /\ rd' = IF rects' = 0 THEN Decoded ELSE "pixels"
  BY DEF FrameInv, RectPixels, Reading, srvVars, uiVars, decVars, frameVars
<1>1. /\ Sequence(toC') /\ Sequence(Coming) /\ Coming # <<>> /\ Coming' = Tail(Coming)
      /\ Head(toC) = Coming[1]
  BY <1>0, MessageRead
<1>3. Out = 1
  BY <1>0 DEF AskInv
<1>4. Run(Coming, 0, rects, Now) /\ rects # 0 /\ pal = srv.palSent
  BY <1>0 DEF DrawInv
<1>s. PICK s : s = Coming
  OBVIOUS
<1>d. PICK data : data = Drawn(KindOf(s[1]), ReadAs(s[1].val))
  OBVIOUS
<1>5. /\ \A i \in DOMAIN s[1].arg : data[i] = srv.screen[s[1].arg[i]]
      /\ KindOf(s[1]) \in {"bg", "sub"} => data[1] = ColourOf(s[1])
  BY <1>4, <1>s, <1>d, DataRead
<1>6. /\ fb' = [t \in Screen |-> IF \E i \in DOMAIN s[1].arg : s[1].arg[i] = t
                                 THEN data[CHOOSE i \in DOMAIN s[1].arg : s[1].arg[i] = t]
                                 ELSE fb[t]]
      /\ bg' = (IF KindOf(s[1]) = "bg" THEN data[1] ELSE bg)
      /\ fg' = (IF KindOf(s[1]) = "sub" THEN data[1] ELSE fg)
  BY <1>1, <1>s, <1>d DEF RectPixels, KindOf
<1>7. /\ bg' = IF KindOf(s[1]) = "bg" THEN ColourOf(s[1]) ELSE bg
      /\ fg' = IF KindOf(s[1]) = "sub" THEN ColourOf(s[1]) ELSE fg
  BY <1>5, <1>6
<1>b. PICK b : b = Now'
  OBVIOUS
<1>c. PICK c : c = Now
  OBVIOUS
<1>8. /\ b.fmt = c.fmt /\ b.screen = c.screen
      /\ c.fb = fb /\ c.bg = bg /\ c.fg = fg /\ b.fb = fb' /\ b.bg = bg' /\ b.fg = fg'
      /\ c.screen = srv.screen
  BY <1>0, <1>b, <1>c DEF Now
<1>9. Run(Tail(s), 0, rects - 1, b)
  <2>1. \A i \in DOMAIN s[1].arg : data[i] = c.screen[s[1].arg[i]]
    BY <1>5, <1>8
  <2>2. \A t \in Screen : b.fb[t] = IF \E i \in DOMAIN s[1].arg : s[1].arg[i] = t
                                    THEN data[CHOOSE i \in DOMAIN s[1].arg : s[1].arg[i] = t]
                                    ELSE c.fb[t]
    BY <1>6, <1>8
  <2>3. /\ b.bg = IF KindOf(s[1]) = "bg" THEN ColourOf(s[1]) ELSE c.bg
        /\ b.fg = IF KindOf(s[1]) = "sub" THEN ColourOf(s[1]) ELSE c.fg
    BY <1>7, <1>8
  <2>4. Sequence(s) /\ Run(s, 0, rects, c) /\ rects # 0
    BY <1>1, <1>4, <1>s, <1>c
  <2>5. Painted(s, data, c, b)
    BY <1>8, <2>1, <2>2, <2>3 DEF Painted
  <2> QED BY <2>4, <2>5, RunRead
<1>10. Run(Coming', 0, rects', Now') /\ pal' = srv'.palSent
  BY <1>0, <1>1, <1>4, <1>9, <1>s, <1>b
<1>11. DrawInv'
  <2>1. CASE rects' = 0
    <3>1. UpToDate(Coming', Now', pal', srv'.palSent)
      BY <1>10, <2>1 DEF UpToDate
    <3>2. rd' \in {"again", "count"}
      BY <1>0, <2>1 DEF Decoded
    <3> QED BY <3>1, <3>2 DEF DrawInv
  <2>2. CASE rects' # 0
    <3>1. rd' = "pixels" /\ Out' = 1
      BY <1>0, <1>3, <2>2 DEF Out
    <3> QED BY <1>10, <2>2, <3>1 DEF DrawInv
  <2> QED BY <2>1, <2>2
<1>12. rd' \in {"pixels", Decoded} /\ fb' = [t \in Screen |-> fb'[t]]
  BY <1>0, <1>6
<1> QED BY <1>0, <1>1, <1>3, <1>11, <1>12, FrameReads

\* A frame is handed over when the screen is that of the update it is the number of.
LEMMA FramePublish ==
  ASSUME FrameInv, Publish, Reading
  PROVE  FrameInv'
<1>0. /\ StateInv /\ AskInv /\ AgreeInv /\ DrawInv /\ SentInv
      /\ rd = "publish" /\ rd' = "message" /\ frame' = [fb |-> fb, pal |-> pal] /\ seq' = seq + 1
      /\ UNCHANGED <<setup, toS, toC, srv, sent, decVars, taken, shown>>
  BY DEF FrameInv, Publish, Reading, srvVars, uiVars, netVars
<1>1. seq \in Nat /\ SameAsked /\ Sequence(toS')
  BY <1>0, SameSame DEF StateInv
<1>2. Viewer /\ Viewer' /\ Out' = Out
  BY <1>0, <1>1 DEF AskInv, Viewer, Out
<1>3. StateInv'
  BY <1>0, <1>1, ClientState DEF StateInv, decVars
<1>4. (NoneOut' <=> NoneOut) /\ (Asking' <=> Asking) /\ \A i \in DOMAIN toS' : Asks(i)' <=> Asks(i)
  BY <1>0 DEF NoneOut, Asking, Asks
<1>5. AskInv'
  BY <1>0, <1>2, <1>4 DEF AskInv
<1>6. AgreeInv'
  BY <1>0, <1>4 DEF AgreeInv, Handshaking, decVars
<1>7. Coming' = Coming /\ Now' = Now /\ pal' = pal /\ srv'.palSent = srv.palSent
  BY <1>0 DEF Coming, Now, decVars
<1>8. DrawInv'
  BY <1>0, <1>2, <1>7 DEF DrawInv
<1>9. SentInv'
  <2>1. frame' = sent'[seq'] /\ seq' \in 0 .. seq'
    BY <1>0, <1>1 DEF SentInv
  <2>2. Frame(frame, seq)'
    BY <2>1 DEF Frame
  <2>3. \A f, n : Frame(f, n) => n \in 0 .. seq' /\ (n > 0 => f = sent'[n])
    BY <1>0, <1>1 DEF Frame
  <2>4. Frame(taken.f, taken.seq)' /\ Frame(shown.f, shown.seq)'
    BY <1>0, <1>2, <2>3 DEF SentInv, Frame
  <2> QED BY <1>0, <1>2, <2>2, <2>4 DEF SentInv
<1> QED BY <1>3, <1>5, <1>6, <1>8, <1>9 DEF FrameInv

\* The probe counts an update that it has read.
LEMMA FrameCounts ==
  ASSUME FrameInv, ProbeCounts, Reading
  PROVE  FrameInv'
<1>0. /\ StateInv /\ AskInv /\ AgreeInv /\ DrawInv /\ SentInv
      /\ rd = "count" /\ rd' \in {"again", "done"} /\ seq' = seq + 1
      /\ UNCHANGED <<setup, toS, toC, srv, sent, decVars, frame, taken, shown>>
  BY DEF FrameInv, ProbeCounts, Reading, srvVars, uiVars, netVars
<1>1. seq \in Nat /\ SameAsked /\ Sequence(toS') /\ Len(sent) \in Nat
  BY <1>0, SameSame, SeqParts DEF StateInv
<1>2. ~Viewer /\ ~Viewer' /\ Out = 1
  BY <1>0, <1>1 DEF AskInv, Viewer
<1>3. Out' = 0
  BY <1>0, <1>1, <1>2 DEF Out
<1>4. StateInv'
  BY <1>0, <1>1, ClientState DEF StateInv, decVars
<1>5. (NoneOut' <=> NoneOut) /\ (Asking' <=> Asking) /\ \A i \in DOMAIN toS' : Asks(i)' <=> Asks(i)
  BY <1>0 DEF NoneOut, Asking, Asks
<1>6. AskInv'
  BY <1>0, <1>2, <1>3, <1>5 DEF AskInv
<1>7. AgreeInv'
  BY <1>0, <1>5 DEF AgreeInv, Handshaking, decVars
<1>8. Coming' = Coming /\ Now' = Now /\ pal' = pal /\ srv'.palSent = srv.palSent
  BY <1>0 DEF Coming, Now, decVars
<1>9. DrawInv'
  BY <1>0, <1>3, <1>8 DEF DrawInv
<1>10. SentInv'
  BY <1>0, <1>2 DEF SentInv
<1> QED BY <1>4, <1>6, <1>7, <1>9, <1>10 DEF FrameInv

\* Every step of the reader.
LEMMA FrameReader == ASSUME FrameInv, Reader PROVE FrameInv'
<1>0. Reading /\ UNCHANGED <<setup, srv, sent, taken, shown>> /\ Sequence(toS) /\ Sequence(toC)
      /\ SentInv
  BY DEF Reader, Reading, srvVars, uiVars, FrameInv, StateInv
<1>1. CASE TakeLock
  <2>1. SameAsked /\ Sequence(toS')
    BY <1>0, <1>1, SameSame DEF TakeLock, netVars
  <2>2. UNCHANGED <<setup, toC, srv, sent, rd, decVars, seq, frame, taken, shown, fb, pal>>
    BY <1>0, <1>1 DEF TakeLock, netVars, decVars, frameVars
  <2>3. SentInv'
    BY <1>0, <2>2, SentSame
  <2> QED BY <2>1, <2>2, <2>3, FrameIdle
<1>2. CASE SendRequest
  BY <1>0, <1>2, FrameRequest
<1>3. CASE NewPalette \/ Bell
  BY <1>0, <1>3, FrameBetween
<1>4. CASE UpdateBegins
  BY <1>0, <1>4, FrameBegins
<1>5. CASE RectBegins
  BY <1>0, <1>5, FrameRect
<1>6. CASE RectPixels
  BY <1>0, <1>6, FramePixels
<1>7. CASE Publish
  BY <1>0, <1>7, FramePublish
<1>8. CASE ProbeCounts
  BY <1>0, <1>8, FrameCounts
<1>9. CASE ReaderFails \/ ProbeTimeout
  <2>1. /\ rd \in {"first", "again", "message", "rect", "pixels", "failing"}
        /\ rd' \in {"failing", "failed"}
        /\ UNCHANGED <<toS, toC, fmt, fb, frame, seq>>
    BY <1>9 DEF ReaderFails, ProbeTimeout, Fail, Blocked, netVars, decVars, frameVars
  <2> QED BY <1>0, <2>1, FrameFails DEF Handshaking
<1> QED BY <1>1, <1>2, <1>3, <1>4, <1>5, <1>6, <1>7, <1>8, <1>9 DEF Reader

-----------------------------------------------------------------------------
(* The handshake.                                                          *)

\* Nothing has been asked for and nothing of an update is on its way.
LEMMA FrameGreets ==
  ASSUME FrameInv, rd \in Handshaking, rd' \in Handshaking, Sequence(toC'), Coming' = Tail(Coming),
         Sequence(Coming), Coming # <<>>, NEW ms, Sequence(ms), Idle(ms), Reply(ms),
         UNCHANGED <<setup, srv, sent, decVars, frame, seq, taken, shown>>
  PROVE  FrameInv'
<1>0. /\ StateInv /\ AskInv /\ AgreeInv /\ DrawInv /\ SentInv /\ Sequence(toS)
      /\ sent = <<>> /\ seq = 0 /\ NoneOut
  BY DEF FrameInv, StateInv, AgreeInv
<1>1. SameAsked /\ Sequence(toS')
  BY <1>0, IdleSent DEF SameAsked
<1>2. StateInv'
  BY <1>0, <1>1, ClientState DEF StateInv, decVars
<1>3. \A i \in DOMAIN toS' : ~Asks(i)' /\ toS'[i].t # "format"
  BY <1>0, <1>1 DEF SameAsked, Asks, NoneOut, Asking, AgreeInv
<1>4. NoneOut' /\ ~Asking'
  BY <1>0, <1>3 DEF NoneOut, Asking
<1>5. Out = 0 /\ Out' = 0
  <2>1. Len(sent) = 0
    BY <1>0, SeqParts DEF StateInv
  <2> QED BY <1>0, <2>1 DEF Out, Handshaking
<1>6. AskInv'
  BY <1>0, <1>3, <1>4, <1>5 DEF AskInv, Handshaking
<1>7. AgreeInv'
  BY <1>0, <1>3, <1>4 DEF AgreeInv, decVars
<1>8. UpToDate(Coming, Now, pal, srv.palSent)
  BY <1>0, <1>5 DEF DrawInv, Handshaking
<1>9. Now'.screen = Now.screen /\ Now'.fb = Now.fb /\ pal' = pal /\ srv'.palSent = srv.palSent
  BY DEF Now, decVars
<1>10. UpToDate(Coming', Now', pal', srv'.palSent)
  BY <1>8, <1>9, QuietRead DEF UpToDate
<1>11. DrawInv'
  BY <1>10 DEF DrawInv, Handshaking
<1>12. SentInv'
  BY <1>0, SentSame DEF Handshaking
<1> QED BY <1>2, <1>6, <1>7, <1>11, <1>12 DEF FrameInv

\* The format that is set, if one is, is the one the client reads in.
Settles(ms, f) ==
  /\ \A k \in 1 .. Len(ms) : ms[k].t \in {"format", "encs"} /\ (ms[k].t = "format" => ms[k].arg = f)
  /\ f = "rgb565" \/ \E k \in 1 .. Len(ms) : ms[k].t = "format"
LEMMA FrameSettles ==
  ASSUME FrameInv, rd = "init", rd' = "first", Sequence(toC'), Coming' = Tail(Coming),
         Sequence(Coming), Coming # <<>>, NEW ms, Sequence(ms), Settles(ms, fmt'), Reply(ms),
         UNCHANGED <<setup, srv, sent, rects, fb, pal, bg, fg, frame, seq, taken, shown>>
  PROVE  FrameInv'
<1>0. /\ StateInv /\ AskInv /\ AgreeInv /\ DrawInv /\ SentInv /\ Sequence(toS)
      /\ sent = <<>> /\ seq = 0 /\ NoneOut /\ srv.fmt = "rgb565"
      /\ \A i \in DOMAIN toS : toS[i].t # "format"
  BY DEF FrameInv, StateInv, AgreeInv, Handshaking
<1>1. /\ Sequence(toS') /\ DOMAIN toS' = 1 .. Len(toS) + Len(ms) /\ DOMAIN toS = 1 .. Len(toS)
      /\ Len(toS) \in Nat /\ Len(ms) \in Nat
      /\ \A k \in 1 .. Len(toS) : toS'[k] = toS[k]
      /\ \A k \in 1 .. Len(ms) : toS'[Len(toS) + k] = ms[k]
  BY <1>0, ConcatParts, SeqParts DEF Reply
<1>2. ASSUME NEW i \in DOMAIN toS'
      PROVE  i \in DOMAIN toS \/ \E k \in 1 .. Len(ms) : toS'[i] = ms[k]
  <2>1. CASE i \notin DOMAIN toS
    <3>1. i - Len(toS) \in 1 .. Len(ms) /\ Len(toS) + (i - Len(toS)) = i
      BY <1>1, <2>1
    <3>2. toS'[i] = ms[i - Len(toS)]
      BY <1>1, <3>1
    <3> QED BY <3>1, <3>2
  <2> QED BY <2>1
<1>3. \A i \in DOMAIN toS' : ~Asks(i)' /\ (toS'[i].t = "format" => toS'[i].arg = fmt')
  <2> TAKE i \in DOMAIN toS'
  <2>1. CASE i \in DOMAIN toS
    BY <1>0, <1>1, <2>1 DEF Asks, NoneOut, Asking
  <2>2. CASE \E k \in 1 .. Len(ms) : toS'[i] = ms[k]
    BY <2>2 DEF Settles, Asks
  <2> QED BY <1>2, <2>1, <2>2
<1>4. srv'.fmt = fmt' \/ \E j \in DOMAIN toS' : toS'[j].t = "format"
  <2>1. ASSUME NEW k \in 1 .. Len(ms), ms[k].t = "format"
        PROVE  \E j \in DOMAIN toS' : toS'[j].t = "format"
    <3>1. Len(toS) + k \in DOMAIN toS' /\ toS'[Len(toS) + k] = ms[k]
      BY <1>1
    <3> QED BY <2>1, <3>1
  <2> QED BY <1>0, <2>1 DEF Settles
<1>5. StateInv'
  BY <1>0, <1>1, ClientState DEF StateInv
<1>6. NoneOut' /\ ~Asking'
  BY <1>0, <1>3 DEF NoneOut, Asking
<1>7. Out = 0 /\ Out' = 0
  <2>1. Len(sent) = 0
    BY <1>0, SeqParts DEF StateInv
  <2> QED BY <1>0, <2>1 DEF Out
<1>8. AskInv'
  BY <1>0, <1>3, <1>6, <1>7 DEF AskInv
<1>9. AgreeInv'
  BY <1>0, <1>3, <1>4, <1>6 DEF AgreeInv, Handshaking, NoneOut
<1>10. UpToDate(Coming, Now, pal, srv.palSent)
  BY <1>0, <1>7 DEF DrawInv
<1>11. Now'.screen = Now.screen /\ Now'.fb = Now.fb /\ pal' = pal /\ srv'.palSent = srv.palSent
  BY DEF Now
<1>12. UpToDate(Coming', Now', pal', srv'.palSent)
  BY <1>10, <1>11, QuietRead DEF UpToDate
<1>13. DrawInv'
  BY <1>12 DEF DrawInv
<1>14. SentInv'
  BY <1>0, SentSame
<1> QED BY <1>5, <1>8, <1>9, <1>13, <1>14 DEF FrameInv

\* The client's first messages: it sets the format before it asks for anything.
LEMMA FormatFirst ==
  ASSUME FrameInv, ServerInit, Handshake
  PROVE  FrameInv'
<1>0. /\ StateInv /\ AgreeInv /\ rd = "init" /\ rd' = "first" /\ Ready("init") /\ fmt' = Format
      /\ UNCHANGED <<setup, srv, sent, rects, fb, pal, bg, fg, frame, seq, taken, shown>>
  BY DEF FrameInv, ServerInit, Handshake, srvVars, frameVars
<1>1. Sequence(toC') /\ Coming' = Tail(Coming) /\ Sequence(Coming) /\ Coming # <<>>
  BY <1>0, MessageRead
<1>2. fmt' = "8bit" \/ fmt' = "rgb565"
  BY <1>0 DEF AgreeInv, Handshaking, Format, FormatByName
<1>f. PICK f : f = Message("format", Format, 0)
  OBVIOUS
<1>e. PICK e : e = Message("encs", setup.hextile, 0)
  OBVIOUS
<1>3. f.t = "format" /\ f.arg = fmt' /\ e.t = "encs"
  BY <1>0, <1>e, <1>f DEF Message
<1>4. Reply(<<f, e>>) \/ Reply(<<e, f>>) \/ (Reply(<<e>>) /\ fmt' = "rgb565")
  <2>1. Reply(IF Viewer THEN <<f, e>> ELSE IF Format = "8bit" THEN <<e, f>> ELSE <<e>>)
    BY <1>e, <1>f DEF ServerInit
  <2>2. CASE Viewer
    BY <2>1, <2>2
  <2>3. CASE ~Viewer /\ Format = "8bit"
    BY <2>1, <2>3
  <2>4. CASE ~Viewer /\ Format # "8bit"
    BY <1>0, <1>2, <2>1, <2>4
  <2> QED BY <2>2, <2>3, <2>4
<1>5. CASE Reply(<<f, e>>)
  <2>1. PICK ms : ms = <<f, e>>
    OBVIOUS
  <2>2. ms \in Seq({f, e}) /\ Len(ms) = 2 /\ ms[1] = f /\ ms[2] = e
    BY <2>1
  <2>3. Sequence(ms)
    BY <2>2, IsSequence
  <2>4. Settles(ms, fmt')
    BY <1>3, <1>5, <2>2 DEF Settles
  <2>5. Reply(ms)
    BY <1>5, <2>1
  <2> QED BY <1>0, <1>1, <2>3, <2>4, <2>5, FrameSettles
<1>6. CASE Reply(<<e, f>>)
  <2>1. PICK ms : ms = <<e, f>>
    OBVIOUS
  <2>2. ms \in Seq({f, e}) /\ Len(ms) = 2 /\ ms[1] = e /\ ms[2] = f
    BY <2>1
  <2>3. Sequence(ms)
    BY <2>2, IsSequence
  <2>4. Settles(ms, fmt')
    BY <1>3, <1>6, <2>2 DEF Settles
  <2>5. Reply(ms)
    BY <1>6, <2>1
  <2> QED BY <1>0, <1>1, <2>3, <2>4, <2>5, FrameSettles
<1>7. CASE Reply(<<e>>) /\ fmt' = "rgb565"
  <2>1. PICK ms : ms = <<e>>
    OBVIOUS
  <2>2. ms \in Seq({e}) /\ Len(ms) = 1 /\ ms[1] = e
    BY <2>1
  <2>3. Sequence(ms)
    BY <2>2, IsSequence
  <2>4. Settles(ms, fmt')
    BY <1>3, <1>7, <2>2 DEF Settles
  <2>5. Reply(ms)
    BY <1>7, <2>1
  <2> QED BY <1>0, <1>1, <2>3, <2>4, <2>5, FrameSettles
<1> QED BY <1>4, <1>5, <1>6, <1>7

\* Every step of the handshake.
LEMMA FrameHandshake == ASSUME FrameInv, Handshake PROVE FrameInv'
<1>0. UNCHANGED <<setup, srv, sent, frame, seq, taken, shown>> /\ StateInv
  BY DEF Handshake, srvVars, frameVars, FrameInv
<1>1. CASE ServerInit
  BY <1>1, FormatFirst
<1>2. CASE HandshakeBreaks
  <2>1. rd \in Handshaking /\ rd' = "failed" /\ UNCHANGED <<toS, toC, fmt, fb>> /\ Sequence(toC)
    BY <1>0, <1>2 DEF HandshakeBreaks, Handshaking, netVars, decVars, StateInv
  <2> QED BY <1>0, <2>1, FrameFails DEF Handshaking
<1>3. ASSUME rd \in Handshaking, NEW t, Ready(t), NEW m, m.t \notin {"request", "format"},
             Reply(<<m>>), UNCHANGED decVars, rd' \in Handshaking
      PROVE  FrameInv'
  <2>1. Sequence(toC') /\ Coming' = Tail(Coming) /\ Sequence(Coming) /\ Coming # <<>>
    BY <1>0, <1>3, MessageRead
  <2>2. PICK ms : ms = <<m>>
    OBVIOUS
  <2>3. Sequence(ms) /\ Idle(ms) /\ Reply(ms)
    BY <1>3, <2>2, IdleOne
  <2> QED BY <1>0, <1>3, <2>1, <2>3, FrameGreets
<1>4. CASE Version
  <2>1. PICK m : m = Message("version", 0, 0)
    OBVIOUS
  <2>2. /\ rd = "version" /\ Ready("version") /\ Reply(<<m>>) /\ rd' = "types" /\ UNCHANGED decVars
        /\ m.t = "version"
    BY <1>4, <2>1 DEF Version, Message
  <2> QED BY <1>3, <2>2 DEF Handshaking
<1>5. CASE SecurityResult
  <2>1. PICK m : m = Message("shared", 0, 0)
    OBVIOUS
  <2>2. /\ rd = "result" /\ Ready("result") /\ Reply(<<m>>) /\ rd' = "init" /\ UNCHANGED decVars
        /\ m.t = "shared"
    BY <1>5, <2>1 DEF SecurityResult, Message
  <2> QED BY <1>3, <2>2 DEF Handshaking
<1>6. CASE Types /\ rd' = "failed"
  <2>1. rd = "types" /\ Ready("types") /\ UNCHANGED decVars /\ UNCHANGED toS
    BY <1>6 DEF Types
  <2>2. Sequence(toC')
    BY <1>0, <2>1, MessageRead
  <2> QED BY <1>0, <1>6, <2>1, <2>2, FrameFails DEF Handshaking, decVars
<1>7. CASE Types /\ rd' # "failed"
  <2>2. PICK x : x = Message("choose", 0, 0)
    OBVIOUS
  <2>3. PICK y : y = Message("shared", 0, 0)
    OBVIOUS
  <2>4. x.t = "choose" /\ y.t = "shared"
    BY <2>2, <2>3 DEF Message
  <2>5. /\ rd = "types" /\ Ready("types") /\ UNCHANGED decVars
        /\ (Reply(<<x>>) /\ rd' = "result") \/ (Reply(<<y>>) /\ rd' = "init")
    BY <1>7, <2>2, <2>3 DEF Types
  <2> QED BY <1>3, <2>4, <2>5 DEF Handshaking
<1> QED BY <1>1, <1>2, <1>4, <1>5, <1>6, <1>7 DEF Handshake

-----------------------------------------------------------------------------
(* The steps of the server.                                                *)

\* A part of an update is sent: it is still on its way.
LEMMA FrameSends == ASSUME FrameInv, SendPart, OnlyServer PROVE FrameInv'
<1>0. /\ StateInv /\ AskInv /\ AgreeInv /\ DrawInv /\ SentInv
      /\ srv.todo # <<>> /\ toC' = Append(toC, Head(srv.todo))
      /\ srv' = [srv EXCEPT !.todo = Tail(srv.todo)]
      /\ UNCHANGED <<setup, toS, sent, rd, rects, fmt, fb, pal, bg, fg, frame, seq, taken, shown>>
  BY DEF FrameInv, SendPart, OnlyServer, decVars, frameVars, uiVars
<1>1. srv' = [ph |-> srv.ph, fmt |-> srv.fmt, hextile |-> srv.hextile, want |-> srv.want,
              screen |-> srv.screen, pal |-> srv.pal, palSent |-> srv.palSent,
              todo |-> Tail(srv.todo)]
  BY <1>0 DEF StateInv
<1>2. /\ srv'.fmt = srv.fmt /\ srv'.want = srv.want /\ srv'.screen = srv.screen
      /\ srv'.palSent = srv.palSent /\ srv'.todo = Tail(srv.todo)
  BY <1>1
<1>3. Sequence(toC) /\ Sequence(srv.todo) /\ Sequence(toS) /\ Sequence(sent)
  BY <1>0 DEF StateInv
<1>4. Sequence(toC') /\ Sequence(srv'.todo) /\ Sequence(toS') /\ Sequence(sent') /\ SameAsked
  BY <1>0, <1>2, <1>3, AppendParts, TailParts, SameSame
<1>5. Coming' = Coming
  BY <1>0, <1>2, <1>3, MovedAlong DEF Coming
<1>6. StateInv'
  BY <1>0, <1>1, <1>2, <1>4 DEF StateInv
<1>7. AskInv' /\ AgreeInv' /\ SentInv'
  BY <1>0, <1>2, <1>3, <1>4, AskedSame, AgreedSame, SentSame
<1>8. Now' = Now /\ Out' = Out
  BY <1>0, <1>2 DEF Now, Out
<1>9. DrawInv'
  BY <1>0, <1>2, <1>5, <1>8 DEF DrawInv
<1> QED BY <1>6, <1>7, <1>9 DEF FrameInv

\* What comes with one more message behind it, nothing of an update, if any.
LEMMA ComesBehind ==
  ASSUME NEW s, Sequence(s), NEW m, ~Draws(m), NEW t, t = s \/ t = Append(s, m)
  PROVE  /\ Sequence(t) /\ Len(s) \in Nat /\ Len(t) \in Nat /\ Len(s) <= Len(t)
         /\ \A k \in 1 .. Len(s) : t[k] = s[k]
         /\ \A k \in Len(s) + 1 .. Len(t) : ~Draws(t[k])
<1>1. Len(s) \in Nat
  BY SeqParts
<1>2. CASE t = s
  BY <1>1, <1>2
<1>3. CASE t = Append(s, m)
  BY <1>1, <1>3, AppendParts
<1> QED BY <1>2, <1>3

\* Such a message changes nothing of what is read.
LEMMA DrawBehind ==
  ASSUME DrawInv, Sequence(Coming), NEW m, ~Draws(m),
         Coming' = Coming \/ Coming' = Append(Coming, m),
         UNCHANGED <<rd, rects, fmt, fb, pal, bg, fg, sent, seq>>,
         srv'.screen = srv.screen, srv'.palSent = srv.palSent
  PROVE  DrawInv'
<1>s. PICK s : s = Coming
  OBVIOUS
<1>t. PICK t : t = Coming'
  OBVIOUS
<1>c. PICK c : c = Now
  OBVIOUS
<1>1. /\ Len(s) \in Nat /\ Len(t) \in Nat /\ Len(s) <= Len(t)
      /\ \A k \in 1 .. Len(s) : t[k] = s[k]
      /\ \A k \in Len(s) + 1 .. Len(t) : ~Draws(t[k])
  BY <1>s, <1>t, ComesBehind
<1>2. Now' = c /\ Out' = Out
  BY <1>c DEF Now, Out
<1>3. /\ \A r : Run(s, 0, r, c) => Run(t, 0, r, c)
      /\ Rect(s, 0, c) => Rect(t, 0, c)
      /\ Pending(s, c) => Pending(t, c)
  BY <1>1, RunBefore, UpdateBefore
<1>4. ASSUME Coloured(s, pal, srv.palSent) PROVE Coloured(t, pal, srv.palSent)
  <2>1. \A k \in 1 .. Len(t) : t[k].t = "palette" => k \in 1 .. Len(s)
    BY <1>1 DEF Draws
  <2>2. \A k \in 1 .. Len(s) : k \in 1 .. Len(t) /\ t[k] = s[k]
    BY <1>1
  <2> QED BY <1>4, <2>1, <2>2 DEF Coloured
<1>5. UpToDate(s, c, pal, srv.palSent) => UpToDate(t, c, pal, srv.palSent)
  BY <1>3 DEF UpToDate
<1> QED BY <1>2, <1>3, <1>4, <1>5, <1>s, <1>t, <1>c DEF DrawInv

\* What the server makes of a message: a format and a request are kept, and what is
\* answered is nothing of an update.
LEMMA AnswersParts ==
  ASSUME StateInv, NEW h, NEW a \in Answers(h)
  PROVE  /\ a[1] = [srv EXCEPT !.fmt = IF h.t = "format" THEN h.arg ELSE srv.fmt,
                               !.want = IF h.t = "request" THEN h.arg ELSE srv.want,
                               !.hextile = IF h.t = "encs" THEN h.arg ELSE srv.hextile]
         /\ \E m : ~Draws(m) /\ (a[2] = <<>> \/ a[2] = <<m>>)
<1>1. PICK s : s = srv
  OBVIOUS
<1>2. s = [ph |-> s.ph, fmt |-> s.fmt, hextile |-> s.hextile, want |-> s.want,
           screen |-> s.screen, pal |-> s.pal, palSent |-> s.palSent, todo |-> s.todo]
  BY <1>1 DEF StateInv
<1>q. ASSUME NEW t \in {"types", "result", "init", "bell"}, NEW x, NEW y PROVE ~Draws(Message(t, x, y))
  BY DEF Draws, Message
<1>3. CASE h.t = "version"
  <2>1. a = <<srv, <<Message("types", IF setup.auth THEN 2 ELSE 1, 0)>>>>
    BY <1>3 DEF Answers
  <2>2. a[1] = srv /\ a[2] = <<Message("types", IF setup.auth THEN 2 ELSE 1, 0)>>
    BY <2>1
  <2>3. a[1] = [srv EXCEPT !.fmt = srv.fmt, !.want = srv.want, !.hextile = srv.hextile]
    BY <1>1, <1>2, <2>2
  <2> QED BY <1>3, <1>q, <2>2, <2>3
<1>4. CASE h.t = "choose"
  <2>1. a = <<srv, <<Message("result", 0, 0)>>>>
    BY <1>4 DEF Answers
  <2>2. a[1] = srv /\ a[2] = <<Message("result", 0, 0)>>
    BY <2>1
  <2>3. a[1] = [srv EXCEPT !.fmt = srv.fmt, !.want = srv.want, !.hextile = srv.hextile]
    BY <1>1, <1>2, <2>2
  <2> QED BY <1>4, <1>q, <2>2, <2>3
<1>5. CASE h.t = "shared"
  <2>1. a = <<srv, <<Message("init", 0, 0)>>>>
    BY <1>5 DEF Answers
  <2>2. a[1] = srv /\ a[2] = <<Message("init", 0, 0)>>
    BY <2>1
  <2>3. a[1] = [srv EXCEPT !.fmt = srv.fmt, !.want = srv.want, !.hextile = srv.hextile]
    BY <1>1, <1>2, <2>2
  <2> QED BY <1>5, <1>q, <2>2, <2>3
<1>6. CASE h.t \in {"format", "encs", "request"}
  <2>1. a[2] = <<>> /\ a[1] = IF h.t = "format" THEN [srv EXCEPT !.fmt = h.arg]
                              ELSE IF h.t = "encs" THEN [srv EXCEPT !.hextile = h.arg]
                              ELSE [srv EXCEPT !.want = h.arg]
    BY <1>6 DEF Answers
  <2>2. a[1] = [srv EXCEPT !.fmt = IF h.t = "format" THEN h.arg ELSE srv.fmt,
                           !.want = IF h.t = "request" THEN h.arg ELSE srv.want,
                           !.hextile = IF h.t = "encs" THEN h.arg ELSE srv.hextile]
    BY <1>1, <1>2, <1>6, <2>1
  <2> QED BY <1>q, <2>1, <2>2
<1>7. CASE h.t \notin {"version", "choose", "shared", "format", "encs", "request"}
  <2>1. a = <<srv, <<>>>> \/ a = <<srv, <<Message("bell", 0, 0)>>>>
    BY <1>7 DEF Answers
  <2>2. a[1] = srv /\ (a[2] = <<>> \/ a[2] = <<Message("bell", 0, 0)>>)
    BY <2>1
  <2>3. a[1] = [srv EXCEPT !.fmt = srv.fmt, !.want = srv.want, !.hextile = srv.hextile]
    BY <1>1, <1>2, <2>2
  <2> QED BY <1>7, <1>q, <2>2, <2>3
<1> QED BY <1>3, <1>4, <1>5, <1>6, <1>7

\* A message is read by the server: a request is with it now, and a format set.
LEMMA FrameAnswers == ASSUME FrameInv, ServerReads, OnlyServer PROVE FrameInv'
<1>0. /\ StateInv /\ AskInv /\ AgreeInv /\ DrawInv /\ SentInv
      /\ srv.todo = <<>> /\ toS # <<>> /\ toS' = Tail(toS)
      /\ UNCHANGED <<toC, setup, sent, rd, rects, fmt, fb, pal, bg, fg, frame, seq, taken, shown>>
  BY DEF FrameInv, ServerReads, OnlyServer, decVars, frameVars, uiVars
<1>h. PICK h : h = Head(toS)
  OBVIOUS
<1>a. PICK a \in Answers(h) : srv' = [a[1] EXCEPT !.todo = a[2]]
  BY <1>h DEF ServerReads
<1>m. PICK m : ~Draws(m) /\ (a[2] = <<>> \/ a[2] = <<m>>)
  BY <1>0, AnswersParts
<1>1. a[1] = [srv EXCEPT !.fmt = IF h.t = "format" THEN h.arg ELSE srv.fmt,
                         !.want = IF h.t = "request" THEN h.arg ELSE srv.want,
                         !.hextile = IF h.t = "encs" THEN h.arg ELSE srv.hextile]
  BY <1>0, AnswersParts
<1>2. srv' = [ph |-> srv.ph, fmt |-> IF h.t = "format" THEN h.arg ELSE srv.fmt,
              hextile |-> IF h.t = "encs" THEN h.arg ELSE srv.hextile,
              want |-> IF h.t = "request" THEN h.arg ELSE srv.want,
              screen |-> srv.screen, pal |-> srv.pal, palSent |-> srv.palSent, todo |-> a[2]]
  <2>1. srv = [ph |-> srv.ph, fmt |-> srv.fmt, hextile |-> srv.hextile, want |-> srv.want,
               screen |-> srv.screen, pal |-> srv.pal, palSent |-> srv.palSent, todo |-> srv.todo]
    BY <1>0 DEF StateInv
  <2>2. a[1] = [ph |-> srv.ph, fmt |-> IF h.t = "format" THEN h.arg ELSE srv.fmt,
                hextile |-> IF h.t = "encs" THEN h.arg ELSE srv.hextile,
                want |-> IF h.t = "request" THEN h.arg ELSE srv.want,
                screen |-> srv.screen, pal |-> srv.pal, palSent |-> srv.palSent, todo |-> srv.todo]
    BY <1>1, <2>1
  <2> QED BY <1>a, <2>2
<1>3. /\ srv'.fmt = IF h.t = "format" THEN h.arg ELSE srv.fmt
      /\ srv'.want = IF h.t = "request" THEN h.arg ELSE srv.want
      /\ srv'.screen = srv.screen /\ srv'.palSent = srv.palSent /\ srv'.todo = a[2]
  BY <1>2
<1>4. /\ Sequence(toS) /\ Sequence(toS') /\ Len(toS) \in Nat \ {0} /\ h = toS[1]
      /\ DOMAIN toS = 1 .. Len(toS) /\ DOMAIN toS' = 1 .. Len(toS) - 1
      /\ \A k \in 1 .. Len(toS) - 1 : toS'[k] = toS[k + 1]
  BY <1>0, <1>h, TailParts DEF StateInv
<1>5. Sequence(a[2])
  <2>1. <<>> \in Seq({m}) /\ <<m>> \in Seq({m})
    OBVIOUS
  <2> QED BY <1>m, <2>1, IsSequence
<1>6. Sequence(Coming) /\ (Coming' = Coming \/ Coming' = Append(Coming, m))
  <2> DEFINE S == {toC[i] : i \in DOMAIN toC} \cup {m}
  <2>1. toC \in Seq(S) /\ m \in S /\ Sequence(toC)
    BY <1>0, SeqMonotonic DEF StateInv, Sequence
  <2> HIDE DEF S
  <2>2. toC \o <<>> = toC /\ toC \o <<m>> = Append(toC, m)
    BY <2>1, ConcatEmptySeq, AppendIsConcat
  <2>3. Coming = toC
    BY <1>0, <2>2 DEF Coming
  <2>4. Coming' = toC \o a[2]
    BY <1>0, <1>3 DEF Coming
  <2> QED BY <1>m, <2>1, <2>2, <2>3, <2>4
<1>7. \A i \in DOMAIN toS' : i + 1 \in DOMAIN toS /\ toS'[i] = toS[i + 1]
  BY <1>4
<1>8. StateInv'
  BY <1>0, <1>2, <1>3, <1>4, <1>5 DEF StateInv
<1>9. (h.t = "request") <=> Asks(1)
  BY <1>4 DEF Asks
<1>10. \A i \in DOMAIN toS' : Asks(i)' <=> Asks(i + 1)
  BY <1>7 DEF Asks
<1>11. 1 \in DOMAIN toS /\ (Asks(1) => Asking) /\ (Asking' => Asking)
  BY <1>4, <1>7, <1>10 DEF Asking
<1>12. Asks(1) => ~Asking'
  <2> SUFFICES ASSUME Asks(1), NEW i \in DOMAIN toS', Asks(i)' PROVE FALSE
    BY DEF Asking
  <2>1. Asks(i + 1) /\ i + 1 \in DOMAIN toS
    BY <1>7, <1>10
  <2>2. i + 1 = 1
    BY <1>0, <1>11, <2>1 DEF AskInv
  <2> QED BY <1>4, <2>2
<1>13. Out' = Out /\ (Viewer' <=> Viewer)
  BY <1>0 DEF Out, Viewer
<1>14. NoneOut => NoneOut'
  BY <1>3, <1>9, <1>11 DEF NoneOut
<1>15. AskInv'
  <2>1. \A i, j \in DOMAIN toS' : Asks(i)' /\ Asks(j)' => i = j
    <3> SUFFICES ASSUME NEW i \in DOMAIN toS', NEW j \in DOMAIN toS', Asks(i)', Asks(j)'
                 PROVE  i = j
      OBVIOUS
    <3>1. i + 1 \in DOMAIN toS /\ j + 1 \in DOMAIN toS /\ Asks(i + 1) /\ Asks(j + 1)
      BY <1>7, <1>10
    <3>2. i + 1 = j + 1
      BY <1>0, <3>1 DEF AskInv
    <3> QED BY <1>4, <3>2
  <2>2. Asking' => srv'.want = "none"
    BY <1>0, <1>3, <1>9, <1>11, <1>12 DEF AskInv
  <2> QED BY <1>0, <1>13, <1>14, <2>1, <2>2 DEF AskInv
<1>16. AgreeInv'
  <2>1. \A i \in DOMAIN toS' : toS'[i].t = "format" => toS'[i].arg = fmt'
    BY <1>0, <1>7 DEF AgreeInv
  <2>2. h.t = "format" => srv'.fmt = fmt'
    BY <1>0, <1>3, <1>4, <1>11 DEF AgreeInv
  <2>3. h.t # "format" => srv'.fmt = srv.fmt
    BY <1>3
  <2>4. ASSUME NEW i \in DOMAIN toS', Asks(i)'
        PROVE  srv'.fmt = fmt' \/ \E j \in 1 .. i - 1 : toS'[j].t = "format"
    <3>1. srv.fmt = fmt \/ \E j \in 1 .. (i + 1) - 1 : toS[j].t = "format"
      BY <1>0, <1>7, <1>10, <2>4 DEF AgreeInv
    <3>2. CASE h.t = "format" \/ srv.fmt = fmt
      BY <1>0, <2>2, <2>3, <3>2
    <3>3. CASE h.t # "format" /\ \E j \in 1 .. (i + 1) - 1 : toS[j].t = "format"
      <4>1. PICK j \in 1 .. (i + 1) - 1 : toS[j].t = "format"
        BY <3>3
      <4>2. j # 1 /\ j - 1 \in 1 .. i - 1 /\ j - 1 \in 1 .. Len(toS) - 1 /\ (j - 1) + 1 = j
        BY <1>4, <3>3, <4>1
      <4>3. toS'[j - 1] = toS[j]
        BY <1>4, <4>2
      <4> QED BY <4>1, <4>2, <4>3
    <3> QED BY <3>1, <3>2, <3>3
  <2>5. ASSUME srv.fmt = fmt \/ \E j \in DOMAIN toS : toS[j].t = "format"
        PROVE  srv'.fmt = fmt' \/ \E j \in DOMAIN toS' : toS'[j].t = "format"
    <3>1. CASE h.t = "format" \/ srv.fmt = fmt
      BY <1>0, <2>2, <2>3, <3>1
    <3>2. CASE h.t # "format" /\ \E j \in DOMAIN toS : toS[j].t = "format"
      <4>1. PICK j \in DOMAIN toS : toS[j].t = "format"
        BY <3>2
      <4>2. j # 1 /\ j - 1 \in 1 .. Len(toS) - 1 /\ (j - 1) + 1 = j
        BY <1>4, <3>2, <4>1
      <4>3. toS'[j - 1] = toS[j]
        BY <1>4, <4>2
      <4> QED BY <1>4, <4>1, <4>2, <4>3
    <3> QED BY <2>5, <3>1, <3>2
  <2>6. ASSUME rd' \in Handshaking
        PROVE  /\ fmt' \in {"auto", "8bit", "rgb565"} /\ srv'.fmt = "rgb565"
               /\ sent' = <<>> /\ seq' = 0 /\ NoneOut'
               /\ \A i \in DOMAIN toS' : toS'[i].t # "format"
    <3>1. /\ fmt \in {"auto", "8bit", "rgb565"} /\ srv.fmt = "rgb565" /\ sent = <<>> /\ seq = 0
          /\ NoneOut /\ \A i \in DOMAIN toS : toS[i].t # "format"
      BY <1>0, <2>6 DEF AgreeInv
    <3> QED BY <1>0, <1>4, <1>7, <1>11, <1>14, <2>3, <3>1
  <2>7. srv'.want # "none" \/ sent' # <<>> => srv'.fmt = fmt'
    <3>1. CASE h.t = "format"
      BY <2>2, <3>1
    <3>2. CASE h.t = "request"
      <4>1. srv.fmt = fmt \/ \E j \in 1 .. 1 - 1 : toS[j].t = "format"
        BY <1>0, <1>9, <1>11, <3>2 DEF AgreeInv
      <4> QED BY <1>0, <2>3, <3>2, <4>1
    <3>3. CASE h.t \notin {"format", "request"}
      BY <1>0, <1>3, <2>3, <3>3 DEF AgreeInv
    <3> QED BY <3>1, <3>2, <3>3
  <2>8. rd' \notin Handshaking \cup {"failed"} =>
          srv'.fmt = fmt' \/ \E j \in DOMAIN toS' : toS'[j].t = "format"
    BY <1>0, <2>5 DEF AgreeInv
  <2> QED BY <2>1, <2>4, <2>6, <2>7, <2>8 DEF AgreeInv
<1>17. DrawInv'
  BY <1>0, <1>3, <1>6, <1>m, DrawBehind
<1>18. SentInv'
  <2>1. sent = <<>> \/ srv'.fmt # "8bit" => srv.palSent = 0
    <3>1. CASE sent = <<>>
      BY <1>0, <3>1 DEF SentInv
    <3>2. CASE sent # <<>>
      <4>1. srv'.fmt = srv.fmt
        BY <1>0, <1>3, <1>4, <1>11, <3>2 DEF AgreeInv
      <4> QED BY <1>0, <3>2, <4>1 DEF SentInv
    <3> QED BY <3>1, <3>2
  <2>2. \A f, n : Frame(f, n)' <=> Frame(f, n)
    BY <1>0 DEF Frame
  <2>3. Viewer => Frame(frame, seq)' /\ Frame(taken.f, taken.seq)' /\ Frame(shown.f, shown.seq)'
    BY <1>0 DEF SentInv, Frame
  <2> QED BY <1>0, <1>3, <1>13, <2>1, <2>3 DEF SentInv
<1> QED BY <1>8, <1>15, <1>16, <1>17, <1>18 DEF FrameInv

\* An update is begun only when nothing of the last is on its way, and what it is made of
\* makes the server's screen of the client's.
LEMMA FrameStarts == ASSUME FrameInv, StartUpdate, OnlyServer PROVE FrameInv'
<1>0. /\ StateInv /\ AskInv /\ AgreeInv /\ DrawInv /\ SentInv
      /\ srv.todo = <<>> /\ srv.want # "none"
      /\ UNCHANGED <<toS, toC, setup, rd, rects, fmt, fb, pal, bg, fg, frame, seq, taken, shown>>
  BY DEF FrameInv, StartUpdate, OnlyServer, decVars, frameVars, uiVars, netVars
<1>1. PICK changed \in SUBSET Screen, p \in {srv.pal, srv.pal + 1} :
        LET screen  == [i \in Screen |-> IF i \in changed THEN Len(sent) + 1 ELSE srv.screen[i]]
            mapped  == srv.fmt = "8bit"
            palette == IF mapped /\ p # srv.palSent THEN <<Message("palette", p, 0)>> ELSE <<>>
            which   == IF srv.want = "full" THEN Screen ELSE changed
        IN /\ \E u \in Update(screen, which) :
                srv' = [srv EXCEPT !.screen = screen, !.pal = p, !.want = "none",
                                   !.palSent = IF mapped THEN p ELSE @, !.todo = palette \o u]
           /\ sent' = Append(sent, [fb |-> screen, pal |-> IF mapped THEN p ELSE 0])
  BY DEF StartUpdate
<1>s. PICK screen : screen = [i \in Screen |-> IF i \in changed THEN Len(sent) + 1 ELSE srv.screen[i]]
  OBVIOUS
<1>c. PICK palette : palette = IF srv.fmt = "8bit" /\ p # srv.palSent
                               THEN <<Message("palette", p, 0)>> ELSE <<>>
  OBVIOUS
<1>w. PICK which : which = IF srv.want = "full" THEN Screen ELSE changed
  OBVIOUS
<1>2. PICK u \in Update(screen, which) :
        srv' = [srv EXCEPT !.screen = screen, !.pal = p, !.want = "none",
                           !.palSent = IF srv.fmt = "8bit" THEN p ELSE @, !.todo = palette \o u]
  BY <1>1, <1>s, <1>c, <1>w
<1>3. sent' = Append(sent, [fb |-> screen, pal |-> IF srv.fmt = "8bit" THEN p ELSE 0])
  BY <1>1, <1>s
<1>4. srv' = [ph |-> srv.ph, fmt |-> srv.fmt, hextile |-> srv.hextile, want |-> "none",
              screen |-> screen, pal |-> p, palSent |-> IF srv.fmt = "8bit" THEN p ELSE srv.palSent,
              todo |-> palette \o u]
  BY <1>0, <1>2 DEF StateInv
<1>5. /\ srv'.fmt = srv.fmt /\ srv'.want = "none" /\ srv'.screen = screen
      /\ srv'.palSent = (IF srv.fmt = "8bit" THEN p ELSE srv.palSent) /\ srv'.todo = palette \o u
  BY <1>4
<1>6. /\ Sequence(toS) /\ Sequence(toC) /\ Sequence(sent) /\ Len(sent) \in Nat /\ seq \in Nat
  BY <1>0, SeqParts DEF StateInv
<1>7. /\ ~NoneOut /\ ~Asking /\ Out = 0 /\ rd \notin Handshaking
  <2>1. ~NoneOut /\ ~Asking
    BY <1>0 DEF NoneOut, AskInv
  <2> QED BY <1>0, <2>1 DEF AskInv, AgreeInv
<1>8. rd \notin {"first", "again", "rect", "pixels", "count"}
  BY <1>0, <1>7 DEF AskInv
<1>9. which \in SUBSET Screen
  BY <1>w
<1>10. Sequence(u)
  <2>1. PICK c : c = [fmt |-> srv.fmt, screen |-> screen, fb |-> screen]
    OBVIOUS
  <2>2. c.fmt = srv.fmt /\ c.screen = screen /\ Left(which, c)
    BY <2>1 DEF Left
  <2> QED BY <1>9, <2>2, UpdateMade
<1>11. Sequence(palette) /\ \A k \in 1 .. Len(palette) : palette[k].t = "palette" /\ palette[k].arg = p
  <2>m. PICK m : m = Message("palette", p, 0)
    OBVIOUS
  <2>1. m.t = "palette" /\ m.arg = p
    BY <2>m DEF Message
  <2>2. <<>> \in Seq({m}) /\ <<m>> \in Seq({m}) /\ Len(<<m>>) = 1 /\ <<m>>[1] = m /\ Len(<<>>) = 0
    OBVIOUS
  <2>3. palette = <<>> \/ palette = <<m>>
    BY <1>c, <2>m
  <2>4. Sequence(palette)
    BY <2>2, <2>3, IsSequence
  <2>5. CASE palette = <<>>
    BY <2>2, <2>4, <2>5
  <2>6. CASE palette = <<m>>
    BY <2>1, <2>2, <2>4, <2>6
  <2> QED BY <2>3, <2>5, <2>6
<1>v. PICK v : v = palette \o u
  OBVIOUS
<1>12. Sequence(v) /\ srv'.todo = v
  BY <1>5, <1>10, <1>11, <1>v, ConcatParts
<1>13. /\ Sequence(sent') /\ Len(sent') = Len(sent) + 1 /\ sent' # <<>>
       /\ \A n \in 1 .. Len(sent) : sent'[n] = sent[n]
       /\ sent'[Len(sent')] = [fb |-> screen, pal |-> IF srv.fmt = "8bit" THEN p ELSE 0]
  BY <1>3, <1>6, AppendParts
<1>14. StateInv'
  <2>1. screen = [t \in Screen |-> screen[t]]
    BY <1>s
  <2> QED BY <1>0, <1>4, <1>5, <1>6, <1>12, <1>13, <2>1 DEF StateInv
<1>15. Out' = 1
  <2>1. CASE rd = "publish"
    BY <1>0, <1>6, <1>7, <1>13, <2>1 DEF Out
  <2>2. CASE rd # "publish"
    BY <1>0, <1>6, <1>7, <1>13, <2>2 DEF Out
  <2> QED BY <2>1, <2>2
<1>16. NoneOut' /\ ~Asking' /\ (Viewer' <=> Viewer) /\ \A i \in DOMAIN toS' : ~Asks(i)'
  BY <1>0, <1>5, <1>7 DEF NoneOut, Asking, Asks, Viewer
<1>17. AskInv'
  BY <1>0, <1>8, <1>15, <1>16 DEF AskInv
<1>18. AgreeInv'
  BY <1>0, <1>5, <1>7, <1>16 DEF AgreeInv
<1>19. SentInv'
  <2>1. seq <= Len(sent) /\ (rd = "publish" => seq + 1 \in 1 .. Len(sent))
    BY <1>6, <1>7 DEF Out
  <2>2. sent'[Len(sent')] = [fb |-> srv'.screen, pal |-> srv'.palSent]
    BY <1>0, <1>5, <1>13 DEF SentInv
  <2>3. srv'.fmt # "8bit" => srv'.palSent = 0
    BY <1>0, <1>5 DEF SentInv
  <2>4. rd' = "publish" => sent'[seq' + 1] = [fb |-> fb', pal |-> pal']
    BY <1>0, <1>13, <2>1 DEF SentInv
  <2>5. \A f, n : Frame(f, n) => n \in 0 .. seq' /\ (n > 0 => f = sent'[n])
    BY <1>0, <1>6, <1>13, <2>1 DEF Frame
  <2>6. Viewer => Frame(frame, seq)' /\ Frame(taken.f, taken.seq)' /\ Frame(shown.f, shown.seq)'
    BY <1>0, <2>5 DEF SentInv, Frame
  <2> QED BY <1>13, <1>16, <2>2, <2>3, <2>4, <2>6 DEF SentInv
<1>20. ASSUME rd \in {"message", "publish"}
       PROVE  Pending(Coming', Now') /\ Coloured(Coming', pal', srv'.palSent)
  <2>b. PICK b : b = Now'
    OBVIOUS
  <2>1. Run(Coming, 0, 0, Now) /\ pal = srv.palSent
    BY <1>0, <1>7, <1>20 DEF DrawInv, UpToDate
  <2>2. Quiet(Coming, 0) /\ \A t \in Screen : fb[t] = srv.screen[t]
    <3>1. Quiet(Coming, 0) /\ \A t \in Screen : Now.fb[t] = Now.screen[t]
      BY <2>1, RunOver
    <3> QED BY <3>1 DEF Now
  <2>3. Coming = toC
    <3>1. toC \o <<>> = toC
      BY <1>6, ConcatEmptySeq DEF Sequence
    <3> QED BY <1>0, <3>1 DEF Coming
  <2>4. \A k \in 1 .. Len(toC) : ~Draws(toC[k])
    BY <2>2, <2>3 DEF Quiet
  <2>5. b.fmt = srv.fmt /\ b.screen = screen /\ b.fb = fb
    BY <1>0, <1>5, <2>b DEF AgreeInv, Now
  <2>6. Left(which, b)
    BY <1>s, <1>w, <2>2, <2>5 DEF Left
  <2>7. 1 \in 1 .. Len(u) /\ Whole(u, 1, b)
    BY <1>9, <2>5, <2>6, UpdateMade
  <2>8. PICK n : n = Len(palette) + 1
    OBVIOUS
  <2>9. Whole(v, n, b) /\ n \in 1 .. Len(v)
    BY <1>10, <1>11, <1>v, <2>7, <2>8, WholeBehind
  <2>10. Coming' = toC \o v
    BY <1>0, <1>12 DEF Coming
  <2>11. Whole(toC \o v, Len(toC) + n, b) /\ Len(toC) + n \in 1 .. Len(toC \o v)
    BY <1>6, <1>12, <2>4, <2>9, WholeBehind
  <2>12. Pending(Coming', Now')
    BY <2>b, <2>10, <2>11 DEF Pending
  <2>13. \A k \in 1 .. Len(u) : u[k].t # "palette"
    <3>1. Len(u) \in Nat
      BY <1>10, SeqParts
    <3> QED BY <2>7, <3>1, NoPalette
  <2>14. /\ Len(toC \o v) = Len(toC) + Len(v) /\ Len(v) = Len(palette) + Len(u)
         /\ \A k \in 1 .. Len(toC) : (toC \o v)[k] = toC[k]
         /\ \A k \in 1 .. Len(v) : (toC \o v)[Len(toC) + k] = v[k]
         /\ \A k \in 1 .. Len(palette) : v[k] = palette[k]
         /\ \A k \in 1 .. Len(u) : v[Len(palette) + k] = u[k]
         /\ Len(toC) \in Nat /\ Len(v) \in Nat /\ Len(palette) \in Nat /\ Len(u) \in Nat
    BY <1>6, <1>10, <1>11, <1>12, <1>v, ConcatParts, SeqParts
  <2>15. ASSUME NEW k \in 1 .. Len(v), v[k].t = "palette" PROVE v[k].arg = p /\ k \in 1 .. Len(palette)
    <3>1. CASE k <= Len(palette)
      BY <1>11, <2>14, <3>1
    <3>2. CASE ~(k <= Len(palette))
      <4>1. k - Len(palette) \in 1 .. Len(u) /\ Len(palette) + (k - Len(palette)) = k
        BY <2>14, <3>2
      <4>2. v[k] = u[k - Len(palette)]
        BY <2>14, <4>1
      <4> QED BY <2>13, <2>15, <4>1, <4>2
    <3> QED BY <3>1, <3>2
  <2>16. ASSUME NEW k \in 1 .. Len(toC \o v), (toC \o v)[k].t = "palette"
         PROVE  (toC \o v)[k].arg = p /\ palette # <<>>
    <3>1. CASE k <= Len(toC)
      BY <2>4, <2>14, <2>16, <3>1 DEF Draws
    <3>2. CASE ~(k <= Len(toC))
      <4>1. k - Len(toC) \in 1 .. Len(v) /\ Len(toC) + (k - Len(toC)) = k
        BY <2>14, <3>2
      <4>2. (toC \o v)[k] = v[k - Len(toC)]
        BY <2>14, <4>1
      <4>3. v[k - Len(toC)].arg = p /\ k - Len(toC) \in 1 .. Len(palette)
        BY <2>15, <2>16, <4>1, <4>2
      <4>4. Len(palette) # 0
        BY <2>14, <4>3
      <4> QED BY <1>11, <4>2, <4>3, <4>4, SeqParts
    <3> QED BY <3>1, <3>2
  <2>17. palette # <<>> => srv'.palSent = p
    BY <1>5, <1>c
  <2>18. pal = srv'.palSent \/ \E k \in 1 .. Len(toC \o v) : (toC \o v)[k].t = "palette"
    <3>1. CASE palette = <<>>
      <4>1. <<Message("palette", p, 0)>> # <<>>
        OBVIOUS
      <4>2. srv.fmt # "8bit" \/ p = srv.palSent
        BY <1>c, <3>1, <4>1
      <4> QED BY <1>5, <2>1, <4>2
    <3>2. CASE palette # <<>>
      <4>1. 1 \in 1 .. Len(palette) /\ 1 \in 1 .. Len(v)
        BY <1>11, <2>14, <3>2, SeqParts
      <4>2. Len(toC) + 1 \in 1 .. Len(toC \o v) /\ (toC \o v)[Len(toC) + 1] = palette[1]
        BY <2>14, <4>1
      <4> QED BY <1>11, <4>1, <4>2
    <3> QED BY <3>1, <3>2
  <2>19. Coloured(toC \o v, pal, srv'.palSent)
    BY <2>16, <2>17, <2>18 DEF Coloured
  <2> QED BY <1>0, <2>10, <2>12, <2>19
<1>21. DrawInv'
  BY <1>0, <1>8, <1>15, <1>20 DEF DrawInv
<1> QED BY <1>14, <1>17, <1>18, <1>19, <1>21 DEF FrameInv

-----------------------------------------------------------------------------
(* The theorems.                                                           *)

\* Nothing is asked for when the session begins.
LEMMA FrameInit == ASSUME SessionInit PROVE FrameInv
<1>1. StateInv
  BY StateInit
<1>2. /\ toS = <<>> /\ toC = <<Message("version", setup.minor, 0)>> /\ srv.todo = <<>>
      /\ srv.want = "none" /\ srv.fmt = "rgb565" /\ srv.palSent = 0 /\ sent = <<>> /\ seq = 0
      /\ rd = "version" /\ pal = 0 /\ fmt = setup.fmt /\ fb = srv.screen
      /\ frame = NoFrame /\ taken.seq = 0 /\ shown.seq = 0 /\ setup \in Setups
  BY DEF SessionInit
<1>3. DOMAIN toS = {} /\ Len(sent) = 0 /\ Len(toC) = 1 /\ toC[1].t = "version"
  BY <1>2 DEF Message
<1>4. ~Asking /\ NoneOut /\ Out = 0
  BY <1>2, <1>3 DEF Asking, NoneOut, Out
<1>5. AskInv
  BY <1>2, <1>3, <1>4 DEF AskInv
<1>6. AgreeInv
  <2>1. setup.fmt \in {"auto", "8bit", "rgb565"}
    BY <1>2, SessionAssumption
  <2> QED BY <1>2, <1>3, <1>4, <2>1 DEF AgreeInv, Handshaking
<1>7. Run(Coming, 0, 0, Now)
  <2>1. Coming = toC
    <3>1. toC \o <<>> = toC
      BY <1>1, ConcatEmptySeq DEF StateInv, Sequence
    <3> QED BY <1>2, <3>1 DEF Coming
  <2>2. Quiet(Coming, 0)
    BY <1>3, <2>1 DEF Quiet, Draws
  <2>3. \A t \in Screen : Now.fb[t] = Now.screen[t]
    BY <1>2 DEF Now
  <2>4. 0 <= Len(Coming) /\ 0 \in Nat
    BY <1>3, <2>1
  <2> QED BY <2>2, <2>3, <2>4, RunOver
<1>8. DrawInv
  BY <1>2, <1>4, <1>7 DEF DrawInv, UpToDate
<1>9. SentInv
  BY <1>2 DEF SentInv, Frame
<1> QED BY <1>1, <1>5, <1>6, <1>8, <1>9 DEF FrameInv

\* Every step keeps the invariant.
LEMMA FrameNext == ASSUME FrameInv, [SessionNext]_vncVars PROVE FrameInv'
<1>0. Sequence(toS) /\ Sequence(toC) /\ SentInv
  BY DEF FrameInv, StateInv
<1>1. CASE SendPart /\ OnlyServer
  BY <1>1, FrameSends
<1>2. CASE StartUpdate /\ OnlyServer
  BY <1>2, FrameStarts
<1>3. CASE ServerReads /\ OnlyServer
  BY <1>3, FrameAnswers
<1>4. CASE (ServerCloses /\ OnlyServer) \/ UNCHANGED vncVars
  <2>1. UNCHANGED <<setup, toS, toC, srv, sent, rd, decVars, frame, seq, taken, shown, fb, pal>>
    BY <1>4 DEF ServerCloses, OnlyServer, vncVars, netVars, srvVars, decVars, frameVars, uiVars
  <2>2. SameAsked /\ Sequence(toS') /\ SentInv'
    BY <1>0, <2>1, SameSame, SentSame
  <2> QED BY <2>1, <2>2, FrameIdle
<1>5. CASE Handshake
  BY <1>5, FrameHandshake
<1>6. CASE Reader
  BY <1>6, FrameReader
<1>7. CASE Tk \/ User
  BY <1>7, FrameTk
<1> QED BY <1>1, <1>2, <1>3, <1>4, <1>5, <1>6, <1>7 DEF SessionNext, Server, ServerWorks

\* Between one complete update and the next the server is asked once, whatever palettes and
\* bells come in between (vnc_viewer.py:180-199).
THEOREM OneRequestOut == SessionSpec => []OneRequest
<1>1. FrameInv => OneRequest
  BY OneOut DEF FrameInv
<1> QED BY <1>1, FrameInit, FrameNext, PTL DEF SessionSpec

\* The frame that is handed over, and the one in the window, is one whole update with the
\* palette it was sent with (vnc_viewer.py:199-202, 259-277).
THEOREM FrameIsWhole == SessionSpec => []FrameIsUpdate
<1>1. FrameInv => FrameIsUpdate
  BY DEF FrameInv, SentInv, Frame, FrameIsUpdate
<1> QED BY <1>1, FrameInit, FrameNext, PTL DEF SessionSpec

-----------------------------------------------------------------------------
(***************************************************************************)
(* What runs is what the sources were, and what is said to be the same is, *)
(* whatever the versions, the commands and the number of them: the proofs  *)
(* of ExeIsSource and SameIsSame.                                          *)
(***************************************************************************)

Building == {"read", "stamped", "verilate", "stamp"}
Running  == {"launch", "sim", "compare"}

\* A source, or what stands for no executable or half of one.
AnySource == [rtl : Rtl \cup {0, -1}, tb : Benches \cup {0}]

Given == [cmd : {"test", "diff", "irq", "socdiff"}, seeds : 1 .. Seeds]

\* The types the steps below rest on: a directory holds what two sources are.
IsProc ==
  /\ proc = [pc |-> proc.pc, cmd |-> proc.cmd, seeds |-> proc.seeds, tree |-> proc.tree,
             read |-> proc.read, seed |-> proc.seed, early |-> proc.early, st |-> proc.st]
  /\ proc.pc \in Building \cup Running
  /\ proc.cmd \in {"test", "diff", "irq", "socdiff"} /\ proc.tree \in Trees
  /\ proc.read \in [Trees -> AnySource]

TypesOK ==
  /\ tree \in AnySource /\ torn \in [Dirs -> BOOLEAN]
  /\ dir \in [Dirs -> [exe : AnySource, stamp : AnySource]]
  /\ plan \in Seq(Given)
  /\ proc = Off \/ IsProc

\* A stamp that is not torn tells the truth about its executable.
StampTrue == \A d \in Dirs : torn[d] \/ dir[d].exe = dir[d].stamp

\* Between verilator and the stamp the executable has the sources' core.
CoreCompiled == proc.pc = "stamp" => dir[Dir].exe.rtl = proc.read[proc.tree].rtl

Current(t) == Exe(t) = proc.read[t] \/ torn[DirOf(t)]

\* What a command has built stays what it is while it goes on.
BaseBuilt  == proc.pc \in Building /\ proc.tree = "wt" /\ proc.cmd # "test" => Current("base")
TestTree   == proc.pc \in Building /\ proc.cmd = "test" => proc.tree = "wt"
BothBuilt  == proc.pc \in Running => \A t \in Trees : (t = "wt" \/ proc.cmd # "test") => Current(t)

SourceInv == TypesOK /\ StampTrue /\ CoreCompiled /\ BaseBuilt /\ TestTree /\ BothBuilt

-----------------------------------------------------------------------------
\* Before the first command nothing has been built.
LEMMA InitInv == ASSUME VsimInit PROVE SourceInv
<1>1. BaseSource \in AnySource
  BY VsimAssumption DEF Sources, AnySource
<1>2. NoExe \in AnySource
  BY DEF NoExe, AnySource
<1>3. plan \in Seq(Given)
  BY VsimAssumption DEF VsimInit, Given
<1>4. proc.pc = "off" /\ proc = Off
  BY DEF VsimInit, Off
<1>5. TypesOK /\ StampTrue
  BY <1>1, <1>2, <1>3, <1>4 DEF VsimInit, TypesOK, StampTrue
<1> QED BY <1>4, <1>5 DEF SourceInv, CoreCompiled, BaseBuilt, TestTree, BothBuilt, Building, Running

\* An invocation that ends leaves nothing to be true of it.
LEMMA EndsQuietly ==
  ASSUME proc' = Off PROVE CoreCompiled' /\ BaseBuilt' /\ TestTree' /\ BothBuilt'
BY DEF Off, CoreCompiled, BaseBuilt, TestTree, BothBuilt, Building, Running

\* The directory of a build is one of the four.
LEMMA DirType == ASSUME IsProc, NEW t \in Trees PROVE DirOf(t) \in Dirs /\ Dir \in Dirs
BY DEF IsProc, DirOf, Dir, Dirs, Trees, Soc

\* A new invocation inherits the directories as they are.
LEMMA InvokeInv == ASSUME SourceInv, Invoke PROVE SourceInv'
<1>1. Head(plan) \in Given /\ plan' \in Seq(Given)
  <2> plan \in Seq(Given) /\ plan # <<>> /\ plan' = Tail(plan)
    BY DEF SourceInv, TypesOK, Invoke
  <2> QED OBVIOUS
<1>2. BaseSource \in AnySource
  BY VsimAssumption DEF Sources, AnySource
<1>3. IsProc' /\ proc'.pc = "read" /\ proc'.tree = (IF proc'.cmd = "test" THEN "wt" ELSE "base")
  BY <1>1, <1>2 DEF Invoke, IsProc, Building, Trees, Given
<1>4. UNCHANGED <<tree, dir, torn>>
  BY DEF Invoke, Directories
<1>5. TypesOK' /\ StampTrue'
  BY <1>1, <1>3, <1>4 DEF SourceInv, TypesOK, StampTrue
<1> QED BY <1>3, <1>5 DEF SourceInv, CoreCompiled, BaseBuilt, TestTree, BothBuilt, Building, Running

\* Reading the sources touches no executable.
LEMMA ReadSourcesInv == ASSUME SourceInv, ReadSources PROVE SourceInv'
<1>1. proc.pc = "read" /\ IsProc
  BY DEF SourceInv, TypesOK, ReadSources, At, Off
<1>2. SourceRead \in AnySource
  BY VsimAssumption DEF SourceInv, TypesOK, SourceRead, Sources, AnySource
<1>3. proc' = [proc EXCEPT !.pc = "stamped", !.read = [proc.read EXCEPT ![proc.tree] = SourceRead]]
  BY <1>1 DEF ReadSources, IsProc
<1>4. IsProc' /\ proc'.pc = "stamped" /\ proc'.tree = proc.tree /\ proc'.cmd = proc.cmd
      /\ proc'.read = [proc.read EXCEPT ![proc.tree] = SourceRead]
  BY <1>1, <1>2, <1>3 DEF IsProc, Building
<1>5. UNCHANGED <<tree, dir, torn, plan>>
  BY DEF ReadSources, World, Directories
<1>6. TypesOK' /\ StampTrue'
  BY <1>4, <1>5 DEF SourceInv, TypesOK, StampTrue
<1>7. BaseBuilt'
  BY <1>1, <1>4, <1>5 DEF SourceInv, BaseBuilt, Current, Exe, DirOf, Soc, Building, IsProc, Trees
<1> QED BY <1>1, <1>4, <1>6, <1>7
        DEF SourceInv, CoreCompiled, TestTree, BothBuilt, Building, Running

\* The next state when a build goes on: nothing but pc is new.
LEMMA Proceeds ==
  ASSUME SourceInv, NEW pc \in Building, IsProc, proc' = [proc EXCEPT !.pc = pc]
  PROVE  IsProc' /\ proc'.pc = pc /\ proc'.tree = proc.tree /\ proc'.cmd = proc.cmd
         /\ proc'.read = proc.read
BY DEF IsProc, Building

\* A build that is done, with its executable current, is over to the base's
\* working tree or to the runs.
LEMMA BuiltInv ==
  ASSUME SourceInv, proc.pc \in Building, IsProc, proc' = Built, UNCHANGED <<tree, plan>>,
         dir' \in [Dirs -> [exe : AnySource, stamp : AnySource]], torn' \in [Dirs -> BOOLEAN],
         StampTrue', dir'[Dir].exe = proc.read[proc.tree] \/ torn'[Dir],
         \A d \in Dirs \ {Dir} : dir'[d] = dir[d] /\ torn'[d] = torn[d]
  PROVE  SourceInv'
<1>1. IsProc' /\ proc'.cmd = proc.cmd /\ proc'.read = proc.read
      /\ proc'.pc = (IF proc.tree = "base" THEN "read" ELSE "launch")
      /\ proc'.tree = (IF proc.tree = "base" \/ proc.cmd = "test" THEN "wt" ELSE "base")
  BY DEF IsProc, Built, Building, Running, Trees
<1> DEFINE CurrentNow(t) == dir'[DirOf(t)].exe = proc.read[t] \/ torn'[DirOf(t)]
<1>0. \A t \in Trees : Current(t)' <=> CurrentNow(t)
  BY <1>1 DEF Current, Exe, DirOf, Soc
<1>2. TypesOK'
  BY <1>1 DEF SourceInv, TypesOK
<1>3. CoreCompiled'
  BY <1>1 DEF CoreCompiled
<1>4. TestTree' /\ BaseBuilt'
  <2>1. CASE proc.tree = "base"
    <3>1. Current("base")' /\ proc.cmd # "test"
      BY <1>0, <2>1 DEF SourceInv, TestTree, Dir, Trees
    <3> QED BY <1>1, <2>1, <3>1 DEF TestTree, BaseBuilt
  <2>2. CASE proc.tree = "wt"
    BY <1>1, <2>2 DEF TestTree, BaseBuilt, Building
  <2> QED BY <2>1, <2>2 DEF IsProc, Trees
<1>5. BothBuilt'
  <2>1. CASE proc.tree = "base"
    BY <1>1, <2>1 DEF BothBuilt, Running
  <2>2. CASE proc.tree = "wt"
    <3>1. Current("wt")'
      BY <1>0, <2>2 DEF Dir, Trees
    <3>2. DirOf("base") \in Dirs \ {Dir}
      BY <2>2, DirType DEF DirOf, Dir, Trees
    <3>3. proc.cmd # "test" => Current("base")'
      BY <1>0, <2>2, <3>2 DEF SourceInv, BaseBuilt, Current, Exe, Trees
    <3> QED BY <1>1, <3>1, <3>3 DEF BothBuilt, Trees
  <2> QED BY <2>1, <2>2 DEF IsProc, Trees
<1> QED BY <1>2, <1>3, <1>4, <1>5 DEF SourceInv

\* An executable is reused only under its own stamp.
LEMMA ReuseInv == ASSUME SourceInv, Reuse PROVE SourceInv'
<1>1. proc.pc = "stamped" /\ IsProc
  BY DEF SourceInv, TypesOK, Reuse, At, Off
<1>2. UNCHANGED <<tree, plan, dir, torn>> /\ proc' = Built
  BY DEF Reuse, World, Directories
<1>3. StampTrue'
  BY <1>2 DEF SourceInv, StampTrue
<1>4. Dir \in Dirs
  BY <1>1, DirType DEF IsProc
<1>5. dir[Dir].exe = proc.read[proc.tree] \/ torn[Dir]
  BY <1>4 DEF SourceInv, StampTrue, Reuse, Stamped
<1> QED BY <1>1, <1>2, <1>3, <1>5, BuiltInv DEF Building, SourceInv, TypesOK

\* Writing the sources touches no executable.
LEMMA WriteSourcesInv == ASSUME SourceInv, WriteSources PROVE SourceInv'
<1>1. proc.pc = "stamped" /\ IsProc
  BY DEF SourceInv, TypesOK, WriteSources, At, Off
<1>2. UNCHANGED <<tree, plan, dir, torn>> /\ proc' = [proc EXCEPT !.pc = "verilate"]
  BY DEF WriteSources, World, Directories
<1>3. IsProc' /\ proc'.pc = "verilate" /\ proc'.tree = proc.tree /\ proc'.cmd = proc.cmd
      /\ proc'.read = proc.read
  BY <1>1, <1>2, Proceeds DEF Building
<1>4. TypesOK' /\ StampTrue' /\ CoreCompiled' /\ BothBuilt'
  BY <1>2, <1>3 DEF SourceInv, TypesOK, StampTrue, CoreCompiled, BothBuilt, Running
<1>5. TestTree' /\ BaseBuilt'
  BY <1>1, <1>2, <1>3 DEF SourceInv, TestTree, BaseBuilt, Building, Current, Exe, DirOf, Soc
<1> QED BY <1>4, <1>5 DEF SourceInv

\* Verilator makes the executable of the core read; until the stamp it is torn.
LEMMA VerilateInv == ASSUME SourceInv, Verilate PROVE SourceInv'
<1>1. proc.pc = "verilate" /\ IsProc /\ UNCHANGED <<tree, plan>>
  BY DEF SourceInv, TypesOK, Verilate, At, Off, World
<1>2. CASE proc' = Off /\ Directories
  BY <1>1, <1>2, EndsQuietly DEF Directories, SourceInv, TypesOK, StampTrue
<1>3. CASE /\ dir' = [dir EXCEPT ![Dir].exe = Compiled]
           /\ torn' = [torn EXCEPT ![Dir] = TRUE] /\ proc' = [proc EXCEPT !.pc = "stamp"]
  <2>1. IsProc' /\ proc'.pc = "stamp" /\ proc'.tree = proc.tree /\ proc'.cmd = proc.cmd
        /\ proc'.read = proc.read
    BY <1>1, <1>3, Proceeds DEF Building
  <2>2. Dir \in Dirs /\ DirOf("base") \in Dirs /\ Dir' = Dir
    BY <1>1, <2>1, DirType DEF IsProc, Dir, DirOf, Soc, Trees
  <2>3. Compiled \in AnySource /\ Compiled.rtl = proc.read[proc.tree].rtl
    BY <1>1 DEF SourceInv, TypesOK, IsProc, Compiled, AnySource
  <2>4. /\ dir' \in [Dirs -> [exe : AnySource, stamp : AnySource]] /\ torn' \in [Dirs -> BOOLEAN]
        /\ dir'[Dir].exe = Compiled /\ torn'[Dir]
        /\ \A d \in Dirs \ {Dir} : dir'[d] = dir[d] /\ torn'[d] = torn[d]
    BY <1>3, <2>2, <2>3 DEF SourceInv, TypesOK
  <2>5. TypesOK' /\ StampTrue' /\ CoreCompiled' /\ BothBuilt'
    BY <1>1, <2>1, <2>2, <2>3, <2>4
       DEF SourceInv, TypesOK, StampTrue, CoreCompiled, BothBuilt, Running
  <2>6. BaseBuilt'
    BY <1>1, <2>1, <2>2, <2>4
       DEF SourceInv, BaseBuilt, Building, Current, Exe, DirOf, Soc
  <2>7. TestTree'
    BY <1>1, <2>1 DEF SourceInv, TestTree, Building
  <2> QED BY <2>5, <2>6, <2>7 DEF SourceInv
<1> QED BY <1>2, <1>3 DEF Verilate

\* The stamp makes the executable true, but for a test bench edited meanwhile.
LEMMA StampInv == ASSUME SourceInv, Stamp PROVE SourceInv'
<1>1. proc.pc = "stamp" /\ IsProc /\ UNCHANGED <<tree, plan>> /\ proc' = Built
  BY DEF SourceInv, TypesOK, Stamp, At, Off, World
<1>2. Dir \in Dirs /\ proc.read[proc.tree] \in AnySource
  BY <1>1, DirType DEF IsProc
<1> DEFINE exe == dir[Dir].exe
           now == proc.read[proc.tree]
<1>3. /\ dir' \in [Dirs -> [exe : AnySource, stamp : AnySource]] /\ torn' \in [Dirs -> BOOLEAN]
      /\ dir'[Dir].exe = exe /\ dir'[Dir].stamp = now /\ torn'[Dir] = (exe.tb # now.tb)
      /\ \A d \in Dirs \ {Dir} : dir'[d] = dir[d] /\ torn'[d] = torn[d]
  BY <1>2 DEF SourceInv, TypesOK, Stamp
<1>4. exe \in AnySource /\ exe.rtl = now.rtl
  BY <1>1, <1>2 DEF SourceInv, TypesOK, CoreCompiled
<1>5. exe.tb = now.tb => exe = now
  BY <1>2, <1>4 DEF AnySource
<1>6. StampTrue'
  BY <1>2, <1>3, <1>5 DEF SourceInv, StampTrue
<1>7. dir'[Dir].exe = proc.read[proc.tree] \/ torn'[Dir]
  BY <1>3, <1>5
<1> QED BY <1>1, <1>3, <1>6, <1>7, BuiltInv DEF Building

-----------------------------------------------------------------------------
\* The runs leave the directories and what was read alone.
LEMMA RunningInv ==
  ASSUME SourceInv, IsProc, proc.pc \in Running, UNCHANGED <<tree, plan, dir, torn>>,
         proc' = Off \/ (IsProc' /\ proc'.pc \in Running /\ proc'.cmd = proc.cmd
                         /\ proc'.read = proc.read)
  PROVE  SourceInv'
<1>1. TypesOK' /\ StampTrue'
  BY DEF SourceInv, TypesOK, StampTrue
<1>2. CASE proc' = Off
  BY <1>1, <1>2, EndsQuietly DEF SourceInv
<1>3. CASE IsProc' /\ proc'.pc \in Running /\ proc'.cmd = proc.cmd /\ proc'.read = proc.read
  <2>1. BothBuilt'
    BY <1>3 DEF SourceInv, BothBuilt, Current, Exe, DirOf, Soc
  <2> QED BY <1>1, <1>3, <2>1
          DEF SourceInv, CoreCompiled, BaseBuilt, TestTree, Building, Running
<1> QED BY <1>2, <1>3

\* A run that starts changes no directory.
LEMMA LaunchInv == ASSUME SourceInv, Launch PROVE SourceInv'
<1>1. proc.pc = "launch" /\ IsProc /\ UNCHANGED <<tree, plan, dir, torn>>
      /\ proc' = [proc EXCEPT !.pc = "sim"]
  BY DEF SourceInv, TypesOK, Launch, At, Off, World, Directories
<1>2. IsProc' /\ proc'.pc = "sim" /\ proc'.cmd = proc.cmd /\ proc'.read = proc.read
  BY <1>1 DEF IsProc, Running
<1> QED BY <1>1, <1>2, RunningInv DEF Running

\* Nor does one that is over.
LEMMA AfterKeeps ==
  ASSUME IsProc, NEW kept, NEW early, After(kept, early)
  PROVE  IsProc' /\ proc'.pc \in Running /\ proc'.cmd = proc.cmd /\ proc'.read = proc.read
BY DEF IsProc, After, Running, Trees

\* So the simulator leaves the invariant as it is, however it ends.
LEMMA SimInv == ASSUME SourceInv, SimEnds \/ SimCrashes PROVE SourceInv'
<1>1. proc.pc = "sim" /\ UNCHANGED <<tree, plan, dir, torn>>
  <2>1. CASE SimEnds
    BY <2>1 DEF SimEnds, At, World, Directories
  <2>2. CASE SimCrashes
    BY <2>2 DEF SimCrashes, At, World, Directories
  <2> QED BY <2>1, <2>2
<1>2. IsProc
  BY <1>1 DEF SourceInv, TypesOK, Off
<1>3. proc' = Off \/ \E kept, early : After(kept, early)
  BY DEF SimEnds, SimCrashes
<1> QED BY <1>1, <1>2, <1>3, AfterKeeps, RunningInv DEF Running

\* The comparison changes no directory.
LEMMA CompareInv == ASSUME SourceInv, Compare PROVE SourceInv'
<1>1. proc.pc = "compare" /\ IsProc /\ UNCHANGED <<tree, plan, dir, torn>>
  BY DEF SourceInv, TypesOK, Compare, At, Off, Directories
<1>2. \/ proc' = Off
      \/ proc' = [proc EXCEPT !.pc = "launch", !.seed = @ + 1, !.early = FALSE,
                              !.tree = IF proc.cmd = "test" THEN "wt" ELSE "base"]
  BY DEF Compare
<1>3. CASE proc' # Off
  BY <1>1, <1>2, <1>3, RunningInv DEF IsProc, Running, Trees
<1> QED BY <1>1, <1>2, <1>3, RunningInv DEF Running

\* An edit reaches the working tree only.
LEMMA EditInv == ASSUME SourceInv, Edit PROVE SourceInv'
<1>1. tree' \in AnySource /\ UNCHANGED <<proc, plan, dir, torn>>
  BY DEF Edit, Sources, AnySource, Directories
<1> QED BY <1>1 DEF SourceInv, TypesOK, IsProc, StampTrue, CoreCompiled, BaseBuilt, TestTree,
                    BothBuilt, Current, Exe, DirOf, Dir, Soc

\* A killed build leaves its directory torn, or as it was.
LEMMA KillInv == ASSUME SourceInv, Kill PROVE SourceInv'
<1>1. proc' = Off /\ UNCHANGED <<tree, plan>> /\ proc.pc # "off"
  BY DEF Kill, World, At
<1>2. CASE UNCHANGED <<dir, torn>>
  BY <1>1, <1>2, EndsQuietly DEF SourceInv, TypesOK, StampTrue
<1>3. CASE dir' = [dir EXCEPT ![Dir].exe = CutExe] /\ torn' = [torn EXCEPT ![Dir] = TRUE]
  <2>1. Dir \in Dirs
    BY <1>1, DirType DEF SourceInv, TypesOK, IsProc, Off
  <2>2. CutExe \in AnySource
    BY DEF CutExe, AnySource
  <2>3. TypesOK' /\ StampTrue'
    BY <1>1, <1>3, <2>1, <2>2 DEF SourceInv, TypesOK, StampTrue
  <2> QED BY <1>1, <2>3, EndsQuietly DEF SourceInv
<1> QED BY <1>2, <1>3 DEF Kill, Directories

-----------------------------------------------------------------------------
\* Every step keeps the invariant.
LEMMA NextInv == ASSUME SourceInv, [VsimNext]_vsimVars PROVE SourceInv'
<1>1. CASE VsimNext
  BY <1>1, InvokeInv, ReadSourcesInv, ReuseInv, WriteSourcesInv, VerilateInv, StampInv,
     LaunchInv, SimInv, CompareInv, EditInv, KillInv DEF VsimNext
<1>2. CASE UNCHANGED vsimVars
  BY <1>2 DEF vsimVars, SourceInv, TypesOK, IsProc, StampTrue, CoreCompiled, BaseBuilt, TestTree,
              BothBuilt, Current, Exe, DirOf, Dir, Soc
<1> QED BY <1>1, <1>2

\* Whatever was built, killed and edited before, what runs is what the
\* sources were when the build read them - or the directory is one of those
\* the stamp does not cover (run.py:47-74, 128-143).
THEOREM ExecutableIsSource == VsimSpec => []ExeIsSource
<1>1. SourceInv => ExeIsSource
  BY DEF SourceInv, BothBuilt, Running, Current, ExeIsSource
<1> QED BY <1>1, InitInv, NextInv, PTL DEF VsimSpec

-----------------------------------------------------------------------------
(* What "same" says.                                                       *)

\* The runs of a command: of a test, only the working tree's.
RunsTree(t) == t = "wt" \/ proc.cmd # "test"
Over(t)     == /\ proc.pc = "compare" \/ (proc.pc \in {"launch", "sim"} /\ t = "base" /\ proc.tree = "wt")
               /\ RunsTree(t)
Behaves(t)  == Does[Exe(t).rtl][proc.seed]

\* A run that is over: an end it reached is the executable's, and so is its trace,
\* unless the simulator died, which left a cut one.
OverAsIs(t) ==
  /\ TraceOf(t) = <<Behaves(t).trace, Exe(t).tb>> /\ Exe(t) # CutExe
  /\ Behaves(t).end = "fatal" /\ ~Soc => proc.st[t].end = "crash"
Went(t) ==
  /\ proc.st[t].end = "park" =>
       Behaves(t).end = "park" /\ (~Soc => proc.st[t].final = Behaves(t).final)
  /\ Traced /\ ~proc.early => OverAsIs(t) \/ (TraceOf(t) = CutTrace /\ proc.st[t].end = "crash")

\* What an invocation counts and reads, and the files there are.
Counted ==
  /\ out = [n \in Runs |-> out[n]] /\ trace = [n \in Runs |-> trace[n]]
  /\ proc = Off \/ (/\ proc.seeds \in 1 .. Seeds /\ proc.seed \in 1 .. proc.seeds
                    /\ proc.st = [t \in Trees |-> proc.st[t]] /\ proc.early \in BOOLEAN)

\* A build that has run is of sources.
ExeMade ==
  /\ tree \in Sources /\ (proc = Off \/ proc.read \in [Trees -> Sources])
  /\ \A d \in Dirs : torn[d] => dir[d].exe # NoExe

TreeRuns == proc.pc \in Running /\ (proc.cmd = "test" \/ proc.pc = "compare") => proc.tree = "wt"

\* The final state of an earlier run is gone before the simulator starts.
Cleared == proc.pc = "sim" /\ ~Soc => out[Name] = NoOut

OverInv == \A t \in Trees : Over(t) => Went(t)

SameInv == Counted /\ ExeMade /\ TreeRuns /\ Cleared /\ OverInv /\ SameIsSame

\* Nothing is there to compare before the first command.
LEMMA SameStart == ASSUME VsimInit PROVE SameInv
<1>1. proc = Off /\ proc.pc = "off" /\ verdict.says = "none"
  BY DEF VsimInit, Off, Unsaid
<1>2. Counted
  BY <1>1 DEF VsimInit, Counted
<1>3. ExeMade
  BY <1>1, VsimAssumption DEF VsimInit, ExeMade
<1> QED BY <1>1, <1>2, <1>3 DEF SameInv, TreeRuns, Cleared, OverInv, Over, SameIsSame, Running

\* A command that builds, has ended, or has its first run before it has no run over.
LEMMA NoneOver ==
  ASSUME SameIsSame, verdict' \in {verdict, Unsaid},
         \/ proc'.pc \in Building \cup {"off"}
         \/ proc'.pc = "launch" /\ proc'.tree = IF proc'.cmd = "test" THEN "wt" ELSE "base"
  PROVE  TreeRuns' /\ Cleared' /\ OverInv' /\ SameIsSame'
<1>1. TreeRuns' /\ Cleared'
  BY DEF TreeRuns, Cleared, Running, Building
<1>2. \A t \in Trees : ~Over(t)'
  BY DEF Over, RunsTree, Building
<1>3. SameIsSame'
  <2>1. CASE verdict' = verdict
    BY <2>1 DEF SameIsSame
  <2>2. CASE verdict' = Unsaid
    BY <2>2 DEF SameIsSame, Unsaid
  <2> QED BY <2>1, <2>2
<1> QED BY <1>1, <1>2, <1>3 DEF OverInv

\* A command starts with no run over and none counted.
LEMMA InvokeSame == ASSUME SourceInv, SameInv, Invoke PROVE SameInv'
<1>1. Head(plan) \in Given
  <2> plan \in Seq(Given) /\ plan # <<>>
    BY DEF SourceInv, TypesOK, Invoke
  <2> QED OBVIOUS
<1>2. UNCHANGED <<tree, dir, torn, out, trace>> /\ verdict' = Unsaid
  BY DEF Invoke, Directories, Files
<1>3. /\ proc'.pc = "read" /\ proc'.seeds \in 1 .. Seeds /\ proc'.seed = 1
      /\ proc'.st = [t \in Trees |-> NoOut] /\ proc'.early = FALSE
      /\ proc'.read = [t \in Trees |-> BaseSource]
  BY <1>1 DEF Invoke, Given
<1>4. Counted'
  <2>1. proc'.seed \in 1 .. proc'.seeds
    BY <1>3, VsimAssumption
  <2>2. proc'.early \in BOOLEAN
    BY <1>3, Zenon
  <2> QED BY <1>2, <1>3, <2>1, <2>2 DEF SameInv, Counted
<1>5. ExeMade'
  BY <1>2, <1>3, VsimAssumption DEF SameInv, ExeMade
<1> QED BY <1>2, <1>3, <1>4, <1>5, NoneOver DEF SameInv, Building

\* Where a build leaves what the invocation counts, and the files, alone.
LEMMA StillCounted ==
  ASSUME Counted, UNCHANGED <<out, trace>>,
         \/ proc' = Off
         \/ /\ proc # Off /\ proc'.seeds = proc.seeds /\ proc'.seed = proc.seed
            /\ proc'.st = proc.st /\ proc'.early = proc.early
  PROVE  Counted'
BY DEF Counted

\* A build that is done leaves what the invocation counts alone.
LEMMA BuiltFacts ==
  ASSUME IsProc, proc' = Built
  PROVE  /\ proc'.seeds = proc.seeds /\ proc'.seed = proc.seed /\ proc'.st = proc.st
         /\ proc'.early = proc.early /\ proc'.read = proc.read /\ proc'.cmd = proc.cmd
         /\ \/ proc'.pc = "read"
            \/ proc'.pc = "launch" /\ proc'.tree = IF proc'.cmd = "test" THEN "wt" ELSE "base"
BY DEF IsProc, Built

\* A build touches none of the files of the runs,
LEMMA BuildSame ==
  ASSUME SourceInv, SameInv, ReadSources \/ Reuse \/ WriteSources PROVE SameInv'
<1>1. proc.pc \in {"read", "stamped"} /\ IsProc /\ proc # Off
  BY DEF SourceInv, TypesOK, ReadSources, Reuse, WriteSources, At, Off
<1>2. UNCHANGED <<tree, dir, torn, out, trace, verdict>>
  BY DEF ReadSources, Reuse, WriteSources, World, Directories, Files
<1>3. /\ proc'.seeds = proc.seeds /\ proc'.seed = proc.seed /\ proc'.st = proc.st
      /\ proc'.early = proc.early /\ proc'.read \in [Trees -> Sources]
      /\ \/ proc'.pc \in Building
         \/ proc'.pc = "launch" /\ proc'.tree = IF proc'.cmd = "test" THEN "wt" ELSE "base"
  <2>0. proc.read \in [Trees -> Sources]
    BY <1>1 DEF SameInv, ExeMade
  <2>1. CASE ReadSources
    <3>1. SourceRead \in Sources
      BY VsimAssumption DEF SameInv, ExeMade, SourceRead, Sources
    <3>2. proc' = [proc EXCEPT !.pc = "stamped", !.read = [proc.read EXCEPT ![proc.tree] = SourceRead]]
      BY <1>1, <2>1 DEF ReadSources, IsProc
    <3> QED BY <1>1, <2>0, <3>1, <3>2 DEF IsProc, Building
  <2>2. CASE Reuse
    BY <1>1, <2>0, <2>2, BuiltFacts DEF Reuse, Building
  <2>3. CASE WriteSources
    BY <1>1, <2>0, <2>3 DEF WriteSources, IsProc, Building
  <2> QED BY <2>1, <2>2, <2>3
<1>4. Counted' /\ ExeMade'
  BY <1>1, <1>2, <1>3, StillCounted DEF SameInv, ExeMade
<1> QED BY <1>2, <1>3, <1>4, NoneOver DEF SameInv

\* makes an executable of sources there are,
LEMMA VerilateSame == ASSUME SourceInv, SameInv, Verilate PROVE SameInv'
<1>1. proc.pc = "verilate" /\ IsProc /\ proc # Off
  BY DEF SourceInv, TypesOK, Verilate, At, Off
<1>2. UNCHANGED <<tree, out, trace, verdict>>
  BY DEF Verilate, World, Files
<1>3. proc.read \in [Trees -> Sources]
  BY <1>1 DEF SameInv, ExeMade
<1>4. Compiled \in Sources /\ Compiled # NoExe
  BY <1>1, <1>3, VsimAssumption DEF SameInv, ExeMade, IsProc, Compiled, Sources, NoExe
<1>5. CASE proc' = Off /\ Directories
  <2>1. Counted' /\ ExeMade'
    BY <1>2, <1>5, StillCounted DEF SameInv, ExeMade, Directories
  <2> QED BY <1>2, <1>5, <2>1, NoneOver DEF SameInv, Off
<1>6. CASE /\ dir' = [dir EXCEPT ![Dir].exe = Compiled]
           /\ torn' = [torn EXCEPT ![Dir] = TRUE] /\ proc' = [proc EXCEPT !.pc = "stamp"]
  <2>1. /\ proc'.seeds = proc.seeds /\ proc'.seed = proc.seed /\ proc'.st = proc.st
        /\ proc'.early = proc.early /\ proc'.read = proc.read /\ proc'.pc = "stamp"
    BY <1>1, <1>6 DEF IsProc
  <2>2. Dir \in Dirs
    BY <1>1, DirType DEF IsProc
  <2>3. \A d \in Dirs : torn'[d] => dir'[d].exe # NoExe
    BY <1>4, <1>6, <2>2 DEF SourceInv, TypesOK, SameInv, ExeMade
  <2>4. Counted' /\ ExeMade'
    BY <1>1, <1>2, <1>3, <2>1, <2>3, StillCounted DEF SameInv, ExeMade
  <2> QED BY <1>2, <2>1, <2>4, NoneOver DEF SameInv, Building
<1> QED BY <1>5, <1>6 DEF Verilate

\* and only stamps it.
LEMMA StampSame == ASSUME SourceInv, SameInv, Stamp PROVE SameInv'
<1>1. proc.pc = "stamp" /\ IsProc /\ proc # Off
  BY DEF SourceInv, TypesOK, Stamp, At, Off
<1>2. UNCHANGED <<tree, out, trace, verdict>> /\ proc' = Built
  BY DEF Stamp, World, Files
<1>3. Dir \in Dirs
  BY <1>1, DirType DEF IsProc
<1>4. dir[Dir].exe # NoExe
  <2>1. dir[Dir].exe.rtl = proc.read[proc.tree].rtl /\ proc.read[proc.tree] \in Sources
    BY <1>1 DEF SourceInv, CoreCompiled, SameInv, ExeMade, IsProc
  <2> QED BY <2>1, VsimAssumption DEF Sources, NoExe
<1>5. \A d \in Dirs : torn'[d] => dir'[d].exe # NoExe
  BY <1>3, <1>4 DEF Stamp, SourceInv, TypesOK, SameInv, ExeMade
<1>6. Counted' /\ ExeMade'
  BY <1>1, <1>2, <1>5, BuiltFacts, StillCounted DEF SameInv, ExeMade
<1> QED BY <1>1, <1>2, <1>6, BuiltFacts, NoneOver DEF SameInv, Building

\* A killed invocation has nothing to compare.
LEMMA KillSame == ASSUME SourceInv, SameInv, Kill PROVE SameInv'
<1>1. proc.pc # "off" /\ IsProc /\ proc # Off /\ proc' = Off /\ UNCHANGED <<tree, verdict, out>>
  BY DEF SourceInv, TypesOK, Kill, At, Off, World
<1>2. trace' = [n \in Runs |-> trace'[n]]
  BY DEF Kill, SameInv, Counted
<1>3. \A d \in Dirs : torn'[d] => dir'[d].exe # NoExe
  <2>1. Dir \in Dirs /\ CutExe # NoExe
    BY <1>1, DirType DEF IsProc, CutExe, NoExe
  <2> QED BY <2>1 DEF Kill, Directories, SourceInv, TypesOK, SameInv, ExeMade
<1>4. Counted' /\ ExeMade'
  BY <1>1, <1>2, <1>3 DEF SameInv, Counted, ExeMade
<1> QED BY <1>1, <1>4, NoneOver DEF SameInv, Off

\* A run that is over stays what it was.
LEMMA StillWent ==
  ASSUME NEW t \in Trees, Went(t), proc'.cmd = proc.cmd, proc'.seed = proc.seed, dir' = dir,
         TraceOf(t)' = TraceOf(t), proc'.st[t] = proc.st[t], ~proc'.early => ~proc.early
  PROVE  Went(t)'
<1>1. /\ Behaves(t)' = Behaves(t) /\ Exe(t)' = Exe(t)
      /\ (Soc' <=> Soc) /\ (Traced' <=> Traced)
  BY DEF Behaves, Exe, DirOf, Soc, Traced
<1>2. OverAsIs(t) => OverAsIs(t)'
  BY <1>1 DEF OverAsIs
<1> QED BY <1>1, <1>2 DEF Went

\* Every run over stays what it was where only the sources change.
LEMMA OverStays ==
  ASSUME OverInv, UNCHANGED <<proc, dir, trace>>
  PROVE  OverInv'
<1> SUFFICES ASSUME NEW t \in Trees, Over(t)'
             PROVE  Went(t)'
  BY DEF OverInv
<1>1. Over(t) /\ TraceOf(t)' = TraceOf(t)
  BY DEF Over, RunsTree, TraceOf, Name
<1> QED BY <1>1, StillWent DEF OverInv

\* An edit reaches no file a run leaves, nor an invocation.
LEMMA EditSame == ASSUME SourceInv, SameInv, Edit PROVE SameInv'
<1>1. tree' \in Sources /\ UNCHANGED <<proc, dir, torn, out, trace, verdict>>
  BY DEF Edit, Directories, Files
<1>2. Counted' /\ ExeMade' /\ TreeRuns' /\ Cleared' /\ SameIsSame'
  BY <1>1 DEF SameInv, Counted, ExeMade, TreeRuns, Cleared, SameIsSame, Soc, Name
<1>3. OverInv'
  BY <1>1, OverStays DEF SameInv
<1> QED BY <1>2, <1>3 DEF SameInv

\* The files of a run are named for the run.
LEMMA NameType ==
  ASSUME IsProc, proc.seeds \in 1 .. Seeds, proc.seed \in 1 .. proc.seeds
  PROVE  /\ Name \in Runs
         /\ \A t \in Trees : [Name EXCEPT ![2] = t] \in Runs
                             /\ (t # proc.tree => [Name EXCEPT ![2] = t] # Name)
                             /\ (t = proc.tree => [Name EXCEPT ![2] = t] = Name)
<1>1. proc.seed \in 1 .. Seeds
  BY VsimAssumption
<1> QED BY <1>1 DEF IsProc, Name, Runs

\* A run that starts has no final state of an earlier one.
LEMMA LaunchSame == ASSUME SourceInv, SameInv, Launch PROVE SameInv'
<1>1. proc.pc = "launch" /\ IsProc /\ proc # Off /\ proc' = [proc EXCEPT !.pc = "sim"]
      /\ UNCHANGED <<tree, dir, torn, trace, verdict>>
  BY DEF SourceInv, TypesOK, Launch, At, Off, World, Directories
<1>2. /\ proc'.pc = "sim" /\ proc'.cmd = proc.cmd /\ proc'.seeds = proc.seeds /\ proc'.seed = proc.seed
      /\ proc'.st = proc.st /\ proc'.early = proc.early /\ proc'.read = proc.read
      /\ proc'.tree = proc.tree
  BY <1>1 DEF IsProc
<1>3. Name \in Runs
  BY <1>1, NameType DEF SameInv, Counted
<1>4. Counted'
  BY <1>1, <1>2, <1>3 DEF SameInv, Counted, Launch
<1>5. ExeMade' /\ TreeRuns' /\ SameIsSame'
  BY <1>1, <1>2 DEF SameInv, ExeMade, TreeRuns, SameIsSame, Running
<1>6. Cleared'
  BY <1>2, <1>3 DEF Cleared, Launch, Name, Soc, SameInv, Counted
<1>7. OverInv'
  <2> SUFFICES ASSUME NEW t \in Trees, Over(t)'
               PROVE  Went(t)'
    BY DEF OverInv
  <2>1. Over(t) /\ TraceOf(t)' = TraceOf(t)
    BY <1>1, <1>2 DEF Over, RunsTree, TraceOf, Name
  <2> QED BY <1>1, <1>2, <2>1, StillWent DEF SameInv, OverInv
<1> QED BY <1>4, <1>5, <1>6, <1>7 DEF SameInv

\* What a run that ends does to the invocation.
LEMMA AfterFacts ==
  ASSUME IsProc, Counted, NEW left, NEW early \in BOOLEAN, After(left, early)
  PROVE  /\ proc'.cmd = proc.cmd /\ proc'.seeds = proc.seeds /\ proc'.seed = proc.seed
         /\ proc'.read = proc.read /\ proc'.tree = "wt"
         /\ proc'.pc = (IF proc.tree = "base" THEN "launch" ELSE "compare")
         /\ proc'.st = [t \in Trees |-> IF t # proc.tree THEN proc.st[t]
                                        ELSE IF left = NoOut THEN Crash ELSE left]
         /\ proc'.early \in BOOLEAN /\ (proc'.early <=> early \/ proc.early)
<1>1. proc # Off /\ proc.early \in BOOLEAN /\ proc.st = [t \in Trees |-> proc.st[t]]
  BY DEF IsProc, Counted, Off, Building, Running
<1>2. /\ proc'.cmd = proc.cmd /\ proc'.seeds = proc.seeds /\ proc'.seed = proc.seed
      /\ proc'.read = proc.read /\ proc'.tree = "wt"
      /\ proc'.pc = (IF proc.tree = "base" THEN "launch" ELSE "compare")
      /\ proc'.st = [proc.st EXCEPT ![proc.tree] = IF left = NoOut THEN Crash ELSE left]
  BY DEF IsProc, After
<1>3. proc'.early = (early \/ proc.early)
  BY DEF IsProc, After
<1> QED BY <1>1, <1>2, <1>3

\* A run that ends is over, and the one before it still is.
LEMMA RunsOver ==
  ASSUME SourceInv, SameInv, proc.pc = "sim", NEW left, NEW early \in BOOLEAN, After(left, early),
         UNCHANGED <<tree, dir, torn, verdict>>, out' = [n \in Runs |-> out'[n]],
         trace' = [n \in Runs |-> trace'[n]], \A n \in Runs \ {Name} : trace'[n] = trace[n],
         \A t \in Trees : t = proc.tree => Went(t)'
  PROVE  SameInv'
<1>1. IsProc /\ proc # Off
  BY DEF SourceInv, TypesOK, Off
<1>2. Counted
  BY DEF SameInv
<1>3. Counted' /\ ExeMade' /\ TreeRuns' /\ Cleared' /\ SameIsSame'
  BY <1>1, <1>2, AfterFacts DEF SameInv, Counted, ExeMade, TreeRuns, Cleared, SameIsSame, Running
<1>4. OverInv'
  <2> SUFFICES ASSUME NEW t \in Trees, Over(t)', t # proc.tree
               PROVE  Went(t)'
    BY DEF OverInv
  <2>1. t = "base" /\ proc.tree = "wt" /\ Over(t)
    BY <1>1, <1>2, AfterFacts DEF Over, RunsTree, IsProc, Trees
  <2>2. TraceOf(t)' = TraceOf(t)
    <3>1. proc'.cmd = proc.cmd /\ proc'.seed = proc.seed
      BY <1>1, <1>2, AfterFacts
    <3>2. [Name' EXCEPT ![2] = t] = [Name EXCEPT ![2] = t]
      <4> DEFINE run == <<IF proc.cmd = "irq" THEN "diff" ELSE proc.cmd, t, proc.seed>>
      <4>1. [Name EXCEPT ![2] = t] = run
        BY DEF Name
      <4>2. [Name' EXCEPT ![2] = t] = run
        BY <3>1 DEF Name
      <4> QED BY <4>1, <4>2
    <3>3. [Name EXCEPT ![2] = t] \in Runs \ {Name}
      BY <1>1, <1>2, <2>1, NameType DEF Counted
    <3> QED BY <3>2, <3>3 DEF TraceOf
  <2> QED BY <1>1, <1>2, <2>1, <2>2, AfterFacts, StillWent DEF SameInv, OverInv
<1> QED BY <1>3, <1>4 DEF SameInv

\* A simulator that ends leaves its own trace and final state.
LEMMA EndsSame == ASSUME SourceInv, SameInv, SimEnds PROVE SameInv'
<1> DEFINE kept == IF Soc THEN [end |-> Outcome.end, final |-> 0]
                   ELSE IF Outcome.end = "fatal" THEN out[Name]
                   ELSE [end |-> Outcome.end, final |-> Outcome.final]
<1>1. /\ proc.pc = "sim" /\ IsProc /\ proc # Off /\ Counted /\ Exe(proc.tree) # CutExe
      /\ UNCHANGED <<tree, dir, torn, verdict>> /\ After(kept, FALSE)
  <2>1. After(kept, FALSE)
    BY DEF SimEnds
  <2>2. /\ proc.pc = "sim" /\ Exe(proc.tree) # CutExe
        /\ UNCHANGED <<tree, dir, torn, verdict>>
    BY DEF SimEnds, At, World, Directories
  <2>3. IsProc /\ proc # Off
    BY <2>2 DEF SourceInv, TypesOK, Off
  <2> QED BY <2>1, <2>2, <2>3 DEF SameInv
<1>2. Name \in Runs /\ proc.tree \in Trees
  BY <1>1, NameType DEF Counted, IsProc
<1>3. /\ out' = [n \in Runs |-> out'[n]] /\ trace' = [n \in Runs |-> trace'[n]]
      /\ \A n \in Runs \ {Name} : trace'[n] = trace[n]
      /\ Traced => trace'[Name] = <<Outcome.trace, Exe(proc.tree).tb>>
  BY <1>1, <1>2 DEF SimEnds, Counted
<1>4. ~Soc => out[Name] = NoOut
  BY <1>1 DEF SameInv, Cleared
<1>5. PICK t \in Trees : t = proc.tree
  BY <1>2
<1>6. proc'.st[t] = IF kept = NoOut THEN Crash ELSE kept
  <2>1. FALSE \in BOOLEAN
    OBVIOUS
  <2> HIDE DEF kept
  <2>2. proc'.st = [u \in Trees |-> IF u # proc.tree THEN proc.st[u]
                                   ELSE IF kept = NoOut THEN Crash ELSE kept]
    BY <1>1, <2>1, AfterFacts
  <2> QED BY <1>5, <2>2
<1>7. /\ Behaves(t)' = Outcome /\ Exe(t)' = Exe(t) /\ (Soc' <=> Soc) /\ (Traced' <=> Traced)
      /\ TraceOf(t)' = trace'[Name]
  <2>1. proc'.cmd = proc.cmd /\ proc'.seed = proc.seed
    BY <1>1, AfterFacts
  <2>2. Exe(t)' = Exe(t)
    BY <1>1, <2>1 DEF Exe, DirOf, Soc
  <2>3. [Name' EXCEPT ![2] = t] = Name
    BY <1>5, <2>1 DEF Name
  <2> QED BY <1>1, <1>5, <2>1, <2>2, <2>3 DEF Behaves, Outcome, Soc, Traced, TraceOf
<1>8. proc'.st[t].end = "park" => Outcome.end = "park" /\ (~Soc => proc'.st[t].final = Outcome.final)
  BY <1>4, <1>6 DEF Crash, NoOut
<1>9. Outcome.end = "fatal" /\ ~Soc => proc'.st[t].end = "crash"
  BY <1>4, <1>6 DEF Crash
<1>10. Went(t)'
  BY <1>1, <1>3, <1>5, <1>7, <1>8, <1>9 DEF Went, OverAsIs
<1> QED BY <1>1, <1>3, <1>5, <1>10, RunsOver

\* One that dies leaves a cut trace, or the one of before.
LEMMA CrashesSame == ASSUME SourceInv, SameInv, SimCrashes PROVE SameInv'
<1>1. /\ proc.pc = "sim" /\ IsProc /\ proc # Off /\ Counted
      /\ UNCHANGED <<tree, dir, torn, verdict, out>>
  BY DEF SourceInv, TypesOK, SimCrashes, At, Off, World, Directories, SameInv
<1>2. Name \in Runs /\ proc.tree \in Trees
  BY <1>1, NameType DEF Counted, IsProc
<1>3. PICK early \in BOOLEAN :
        /\ trace' = IF early \/ ~Traced THEN trace ELSE [trace EXCEPT ![Name] = CutTrace]
        /\ IF Soc /\ trace'[Name] = NoTrace THEN proc' = Off
           ELSE After(IF Soc THEN NoOut ELSE out[Name], early)
  BY DEF SimCrashes
<1>4. /\ out' = [n \in Runs |-> out'[n]] /\ trace' = [n \in Runs |-> trace'[n]]
      /\ \A n \in Runs \ {Name} : trace'[n] = trace[n]
      /\ Traced /\ ~early => trace'[Name] = CutTrace
  BY <1>1, <1>2, <1>3 DEF Counted
<1>5. CASE proc' = Off
  <2>1. Counted' /\ ExeMade'
    BY <1>1, <1>4, <1>5 DEF SameInv, Counted, ExeMade
  <2> QED BY <1>1, <1>5, <2>1, NoneOver DEF SameInv, Off
<1>6. CASE After(IF Soc THEN NoOut ELSE out[Name], early)
  <2>1. (IF Soc THEN NoOut ELSE out[Name]) = NoOut
    BY <1>1 DEF SameInv, Cleared
  <2>2. After(NoOut, early)
    BY <1>6, <2>1
  <2>3. PICK t \in Trees : t = proc.tree
    BY <1>2
  <2>4. proc'.st[t].end = "crash" /\ (~proc'.early => ~early)
    <3>0. /\ proc'.st = [u \in Trees |-> IF u # proc.tree THEN proc.st[u]
                                        ELSE IF NoOut = NoOut THEN Crash ELSE NoOut]
          /\ proc'.early <=> early \/ proc.early
      BY <1>1, <2>2, AfterFacts
    <3>1. proc'.st[t] = Crash /\ (proc'.early <=> early \/ proc.early)
      BY <2>3, <3>0
    <3> QED BY <3>1 DEF Crash
  <2>5. (Traced' <=> Traced) /\ TraceOf(t)' = trace'[Name]
    <3>1. proc'.cmd = proc.cmd /\ proc'.seed = proc.seed
      BY <1>1, <2>2, AfterFacts
    <3>2. [Name' EXCEPT ![2] = t] = Name
      BY <2>3, <3>1 DEF Name
    <3> QED BY <3>1, <3>2 DEF Traced, TraceOf
  <2>6. Went(t)'
    BY <1>4, <2>4, <2>5 DEF Went
  <2> QED BY <1>1, <1>4, <2>2, <2>3, <2>6, RunsOver
<1> QED BY <1>3, <1>5, <1>6

\* A program that is run in an executable there is.
LEMMA ExeThere ==
  ASSUME SourceInv, SameInv, proc.pc \in Running, NEW t \in Trees, RunsTree(t)
  PROVE  Exe(t) # NoExe
<1>1. IsProc /\ proc # Off
  BY DEF SourceInv, TypesOK, Off, Running
<1>2. Exe(t) = proc.read[t] \/ torn[DirOf(t)]
  BY DEF SourceInv, BothBuilt, RunsTree, Current
<1>3. DirOf(t) \in Dirs /\ proc.read[t] \in Sources
  BY <1>1, DirType DEF SameInv, ExeMade
<1>4. proc.read[t] # NoExe
  BY <1>3, VsimAssumption DEF Sources, NoExe
<1> QED BY <1>2, <1>3, <1>4 DEF SameInv, ExeMade, Exe

\* What is said of two runs that are over is true of the executables.
LEMMA SaidOfRuns ==
  ASSUME SourceInv, SameInv, proc.pc = "compare", Good
  PROVE  LET wt   == Behaves("wt")
             base == Behaves("base")
         IN CASE proc.cmd = "test" -> wt.end = "park" /\ wt.final = ExpectedState[proc.seed]
              [] proc.cmd = "irq"  -> base.end = "park" /\ wt.end = "park" /\ wt.final = base.final
              [] proc.cmd = "diff" -> proc.early \/ (/\ base.end = "park" /\ wt.trace = base.trace
                                                     /\ wt.end # "fatal")
              [] OTHER             -> proc.early \/ (base.end = "park" /\ wt.trace = base.trace)
<1>1. IsProc /\ proc # Off
  BY DEF SourceInv, TypesOK, Off
<1>2. Went("wt") /\ (proc.cmd # "test" => Went("base"))
  BY DEF SameInv, OverInv, Over, RunsTree, Trees
<1>3. Exe("wt") # NoExe
  BY ExeThere DEF Running, RunsTree, Trees
<1>4. CASE proc.cmd = "test"
  <2>1. proc.st["wt"] = [end |-> "park", final |-> ExpectedState[proc.seed]]
    BY <1>4 DEF Good
  <2> QED BY <1>2, <1>4, <2>1 DEF Went, Soc
<1>5. CASE proc.cmd = "irq"
  <2>1. proc.st["base"].end = "park" /\ proc.st["wt"] = proc.st["base"]
    BY <1>5 DEF Good
  <2> QED BY <1>2, <1>5, <2>1 DEF Went, Soc
<1>6. ASSUME proc.cmd \in {"diff", "socdiff"}, ~proc.early
      PROVE  /\ Behaves("base").end = "park" /\ Behaves("wt").trace = Behaves("base").trace
             /\ OverAsIs("wt")
  <2>1. proc.st["base"].end = "park" /\ TraceOf("base") = TraceOf("wt")
    BY <1>6 DEF Good
  <2>2. Traced
    BY <1>6 DEF Traced
  <2>3. Behaves("base").end = "park" /\ OverAsIs("base")
    BY <1>2, <1>6, <2>1, <2>2 DEF Went
  <2>4. TraceOf("wt") # CutTrace
    BY <2>1, <2>3 DEF OverAsIs, CutTrace
  <2>5. OverAsIs("wt")
    BY <1>2, <1>6, <2>2, <2>4 DEF Went
  <2> QED BY <2>1, <2>3, <2>5 DEF OverAsIs
<1>7. CASE proc.cmd = "diff" /\ ~proc.early
  <2>1. ~AnyFatal
    BY <1>7 DEF Good
  <2>2. ~Fatal("wt")
    BY <1>3, <1>6, <1>7, <2>1 DEF AnyFatal, OverAsIs, Trees
  <2>3. Behaves("wt").end # "fatal"
    BY <1>6, <1>7, <2>2 DEF Fatal, OverAsIs, Behaves, Soc
  <2> QED BY <1>6, <1>7, <2>3
<1>8. CASE proc.cmd = "socdiff" /\ ~proc.early
  BY <1>6, <1>8
<1>9. CASE proc.cmd \in {"diff", "socdiff"} /\ proc.early
  BY <1>9
<1> QED BY <1>1, <1>4, <1>5, <1>7, <1>8, <1>9 DEF IsProc

\* The comparison speaks of runs that are over.
LEMMA CompareSame == ASSUME SourceInv, SameInv, Compare PROVE SameInv'
<1>1. /\ proc.pc = "compare" /\ IsProc /\ proc # Off /\ Counted
      /\ UNCHANGED <<tree, dir, torn, out, trace>>
  BY DEF SourceInv, TypesOK, Compare, At, Off, Directories, Files, SameInv
<1>2. \/ proc' = Off
      \/ /\ proc.seed # proc.seeds
         /\ proc' = [proc EXCEPT !.pc = "launch", !.seed = @ + 1, !.early = FALSE,
                                 !.tree = IF proc.cmd = "test" THEN "wt" ELSE "base"]
  BY DEF Compare
<1>3. Counted' /\ ExeMade'
  <2>1. CASE proc' = Off
    BY <1>1, <2>1 DEF SameInv, Counted, ExeMade
  <2>2. CASE proc' # Off
    <3>1. /\ proc'.seeds = proc.seeds /\ proc'.seed = proc.seed + 1 /\ proc'.st = proc.st
          /\ proc'.read = proc.read
      BY <1>1, <1>2, <2>2 DEF IsProc
    <3>2. proc'.early = FALSE
      BY <1>1, <1>2, <2>2, Zenon DEF IsProc
    <3>3. proc.seed \in 1 .. proc.seeds /\ proc.seeds \in 1 .. Seeds /\ proc.seed # proc.seeds
      BY <1>1, <1>2, <2>2 DEF Counted
    <3>4. proc'.seed \in 1 .. proc'.seeds
      BY <3>1, <3>3, VsimAssumption
    <3>5. proc'.early \in BOOLEAN
      BY <3>2, Zenon
    <3> QED BY <1>1, <3>1, <3>3, <3>4, <3>5 DEF SameInv, Counted, ExeMade
  <2> QED BY <2>1, <2>2
<1>4. \/ proc'.pc = "off"
      \/ proc'.pc = "launch" /\ proc'.tree = IF proc'.cmd = "test" THEN "wt" ELSE "base"
  <2>1. CASE proc' = Off
    BY <2>1 DEF Off
  <2>2. CASE proc' # Off
    <3>1. proc'.pc = "launch" /\ proc'.cmd = proc.cmd
          /\ proc'.tree = IF proc.cmd = "test" THEN "wt" ELSE "base"
      BY <1>1, <1>2, <2>2 DEF IsProc
    <3> QED BY <3>1
  <2> QED BY <2>1, <2>2
<1>5. TreeRuns' /\ Cleared' /\ OverInv'
  BY <1>4 DEF TreeRuns, Cleared, OverInv, Over, RunsTree, Running
<1>6. SameIsSame'
  <2>1. CASE verdict' = verdict
    BY <2>1 DEF SameInv, SameIsSame
  <2>2. CASE verdict' = [says |-> IF Good THEN "same" ELSE "diff", cmd |-> proc.cmd,
                         seed |-> proc.seed, base |-> Exe("base"), wt |-> Exe("wt"),
                         early |-> proc.early]
    <3> SUFFICES ASSUME Good
                 PROVE  SameIsSame'
      BY <2>2 DEF SameIsSame
    <3>1. /\ verdict'.cmd = proc.cmd /\ verdict'.seed = proc.seed
          /\ verdict'.base = Exe("base") /\ verdict'.wt = Exe("wt")
      BY <2>2
    <3>2. verdict'.early = proc.early
      BY <2>2
    <3> QED BY <1>1, <3>1, <3>2, SaidOfRuns DEF SameIsSame, Behaves
  <2> QED BY <2>1, <2>2 DEF Compare
<1> QED BY <1>3, <1>5, <1>6 DEF SameInv

-----------------------------------------------------------------------------
\* Every step keeps the invariant.
LEMMA SameNext == ASSUME SourceInv, SameInv, [VsimNext]_vsimVars PROVE SameInv'
<1>1. CASE VsimNext
  BY <1>1, InvokeSame, BuildSame, VerilateSame, StampSame, LaunchSame, EndsSame, CrashesSame,
     CompareSame, EditSame, KillSame DEF VsimNext
<1>2. CASE UNCHANGED vsimVars
  <2>1. UNCHANGED <<tree, proc, dir, torn, out, trace, verdict>>
    BY <1>2 DEF vsimVars
  <2>2. Counted' /\ ExeMade' /\ TreeRuns' /\ Cleared' /\ SameIsSame'
    BY <2>1 DEF SameInv, Counted, ExeMade, TreeRuns, Cleared, SameIsSame, Soc, Name
  <2>3. OverInv'
    BY <2>1, OverStays DEF SameInv
  <2> QED BY <2>2, <2>3 DEF SameInv
<1> QED BY <1>1, <1>2

\* "same" is said only of what the two executables do in fact, whatever earlier runs
\* have left, except by a simulator that died before it opened its trace
\* (run.py:146-195, 220-300).
THEOREM SameIsTrue == VsimSpec => []SameIsSame
<1>1. VsimInit => SourceInv /\ SameInv
  BY InitInv, SameStart
<1>2. SourceInv /\ SameInv /\ [VsimNext]_vsimVars => (SourceInv /\ SameInv)'
  BY NextInv, SameNext
<1>3. SameInv => SameIsSame
  BY DEF SameInv
<1> QED BY <1>1, <1>2, <1>3, PTL DEF VsimSpec
=============================================================================
