----------------------------- MODULE StreamProofs -----------------------------
(* Proofs about the stream of one task: the login that its account needs,    *)
(* the console it is opened with, and the reconnects that keep it; and that  *)
(* every part of a stream keeps its types.                                   *)
EXTENDS MCStream, PlayProofs, FiniteSetTheorems, TLAPS

-----------------------------------------------------------------------------
(* StreamOpen *)

\* While no console is being tried none is held; from its hold to its release the console
\* is held, and until the offer is sent the stream has no peer.
HoldInv ==
  /\ held \subseteq {console} /\ (peer # NoHost => peer \in held)
  /\ step \in {"route", "creds", "list", "try", "wake", "power", "ask", "hold", "failed"} =>
       held = {} /\ peer = NoHost
  /\ step \in {"lock", "unopened", "release", "giveup", "play", "poll", "offer"} => peer = NoHost
  /\ step \in Connecting \cup {"lock"} => console \in held

LEMMA HoldInvStep == ASSUME HoldInv, [OpenNext]_openVars PROVE HoldInv'
<1> USE DEF HoldInv, Connecting, leaseVars, channelVars
<1>1. ASSUME Route \/ Credentials \/ ListConsoles \/ ListPlayStations \/ NoneLeft \/ WakeUp \/ PowerOn PROVE HoldInv'
  BY <1>1 DEF Route, Credentials, ListConsoles, ListPlayStations, NoneLeft, WakeUp, PowerOn
<1>2. ASSUME TryNext \/ AskOccupied PROVE HoldInv'
  BY <1>2 DEF TryNext, AskOccupied, Skip
<1>3. ASSUME AcquireHost \/ Lock \/ Release \/ Unopened \/ \E h \in Host : Rival(h) PROVE HoldInv'
  BY <1>3 DEF AcquireHost, Skip, Lock, ReleaseLocal, Release, GivenBack, Unopened, Rival
<1>4. ASSUME Play \/ Poll \/ Offer \/ Answer \/ Ice \/ Linked \/ InputReady \/ FirstFrame PROVE HoldInv'
  BY <1>4 DEF Play, Poll, Offer, Answer, Ice, Linked, InputReady, FirstFrame, Onward
<1>5. ASSUME (\E c \in Channel : ChannelOpens(c)) \/ HandshakeAck \/ FrameComes PROVE HoldInv'
  BY <1>5 DEF ChannelOpens, HandshakeAck, FrameComes
<1>6. ASSUME ConnectFails \/ StepThree \/ EnsureBinding \/ OpenStream \/ Cancelled PROVE HoldInv'
  BY <1>6 DEF ConnectFails, StepThree, EnsureBinding, OpenStream, Cancelled, Close, Onward
<1>7. CASE UNCHANGED openVars
  BY <1>7 DEF openVars
<1> QED BY <1>1, <1>2, <1>3, <1>4, <1>5, <1>6, <1>7 DEF OpenNext

\* Whichever consoles are listed, refused, lost to another agent or fail to connect, at most
\* the one being tried is held and streamed from, and a failure leaves none.
THEOREM OneConsoleAtATime == OpenSpec => []OnlyTheConsoleTried
<1>1. OpenInit => HoldInv
  BY DEF OpenInit, HoldInv, Connecting
<1>2. HoldInv /\ [OpenNext]_openVars => HoldInv'
  BY HoldInvStep
<1>3. HoldInv => OnlyTheConsoleTried
  BY DEF HoldInv, OnlyTheConsoleTried
<1> QED BY <1>1, <1>2, <1>3, PTL DEF OpenSpec

-----------------------------------------------------------------------------
(* StreamHealth *)

\* Streams are opened once, and a context has one that was.
AtInv == \A c \in Ctx : at[c] # NoStream => at[c] \in Stream /\ stream[at[c]] # "none"

RedoInv == HealthTypeOK /\ AtInv /\ OneDial /\ Watched

LEMMA RingKeepsLocked ==
  ASSUME NEW C, NEW r \in [Who -> RedoPC], NEW q \in Ring(C, r)
  PROVE  /\ q \in [Who -> RedoPC]
         /\ \A w \in Who : /\ q[w] \in Locked <=> r[w] \in Locked
                           /\ r[w] # "off" => q[w] = r[w]
<1>1. q \in [Who -> RedoPC] /\ \A w \in Who : q[w] = r[w] \/ (r[w] = "off" /\ q[w] = "asked")
  BY DEF Ring
<1> QED BY <1>1 DEF Locked

LEMMA RedoInvInit == HealthInit => RedoInv
<1> SUFFICES ASSUME HealthInit PROVE RedoInv
  OBVIOUS
<1> USE StreamAssumption DEF HealthInit
<1>1. HealthTypeOK
  <2>1. tried \in [Ctx -> 0..Tries] /\ strike \in [Ctx -> 0..(Strikes - 1)]
    OBVIOUS
  <2>2. writer \in [Ctx -> BOOLEAN] /\ monitor \in [Ctx -> BOOLEAN] /\ ended \in BOOLEAN
    OBVIOUS
  <2>3. redo \in [Who -> RedoPC]
    BY DEF RedoPC
  <2>4. /\ stream \in [Stream -> {"none", "open", "blind", "dead", "closed"}]
        /\ owner \in [Stream -> Ctx \cup {"nobody"}]
        /\ at \in [Ctx -> Stream \cup {NoStream}] /\ web \in [Ctx -> Stream \cup {NoStream}]
    BY DEF Ctx
  <2> QED BY <2>1, <2>2, <2>3, <2>4 DEF HealthTypeOK
<1>2. AtInv
  BY DEF AtInv
<1>3. OneDial
  BY DEF OneDial, Locked
<1>4. Watched
  BY DEF Watched, Ctx
<1> QED BY <1>1, <1>2, <1>3, <1>4 DEF RedoInv

LEMMA Contexts ==
  /\ Who = {"media", "task", "command"} /\ Ctx = {"media", "task"}
  /\ \A w \in Who : CtxOf(w) \in Ctx /\ (CtxOf(w) = "media" <=> w = "media")
BY DEF Who, Ctx, CtxOf

LEMMA NextIsFresh == Fresh # {} => NextStream \in Stream /\ stream[NextStream] = "none"
BY DEF NextStream, Fresh

\* What closes streams rings for no one who has the lock, and asks for nothing but that.
LEMMA ClosingKeeps ==
  ASSUME HealthTypeOK, NEW S, NEW r \in [Who -> RedoPC], CloseAll(S, r)
  PROVE  /\ stream' \in [Stream -> {"none", "open", "blind", "dead", "closed"}]
         /\ \A s \in Stream : stream'[s] = stream[s] \/ stream'[s] = "closed"
         /\ redo' \in [Who -> RedoPC]
         /\ \A w \in Who : /\ redo'[w] \in Locked <=> r[w] \in Locked
                           /\ r[w] # "off" => redo'[w] = r[w]
<1>1. redo' \in Ring(Told(S), r)
  BY DEF CloseAll
<1>2. /\ redo' \in [Who -> RedoPC]
      /\ \A w \in Who : (redo'[w] \in Locked <=> r[w] \in Locked) /\ (r[w] # "off" => redo'[w] = r[w])
  BY <1>1, RingKeepsLocked
<1> QED BY <1>2 DEF CloseAll, HealthTypeOK

LEMMA HealthTypeStep == ASSUME HealthTypeOK, HealthNext PROVE HealthTypeOK'
<1> USE StreamAssumption DEF HealthTypeOK
<1>0. \A w \in Who : CtxOf(w) \in Ctx
  BY Contexts
<1>1. ASSUME NEW s \in Stream, InputCloses(s) \/ VideoEnds(s) PROVE HealthTypeOK'
  <2>1. \A q \in Ring({owner[s]} \ {"nobody"}, redo) : q \in [Who -> RedoPC]
    BY DEF Ring
  <2>2. redo' \in [Who -> RedoPC]
    <3>1. CASE InputCloses(s)
      BY <2>1, <3>1 DEF InputCloses
    <3>2. CASE VideoEnds(s)
      BY <2>1, <3>2 DEF VideoEnds
    <3> QED BY <1>1, <3>1, <3>2
  <2>3. stream' \in [Stream -> {"none", "open", "blind", "dead", "closed"}]
    BY <1>1 DEF InputCloses, VideoEnds
  <2>4. UNCHANGED <<owner, at, web, tried, writer, monitor, strike, ended>>
    BY <1>1 DEF InputCloses, VideoEnds
  <2> QED BY <2>2, <2>3, <2>4
<1>2. ASSUME Command PROVE HealthTypeOK'
  BY <1>2 DEF Command, RedoPC
<1>3. ASSUME Terminate PROVE HealthTypeOK'
  <2>1. /\ stream' \in [Stream -> {"none", "open", "blind", "dead", "closed"}]
        /\ redo' \in [Who -> RedoPC]
    BY <1>3, ClosingKeeps DEF Terminate
  <2>2. writer' \in [Ctx -> BOOLEAN] /\ monitor' \in [Ctx -> BOOLEAN]
    BY <1>3 DEF Terminate
  <2>3. strike' \in [Ctx -> 0..(Strikes - 1)]
    <3>1. strike' = [strike EXCEPT !["task"] = 0] \/ strike' = [strike EXCEPT !["task"] = strike["task"]]
      BY <1>3 DEF Terminate
    <3>2. "task" \in Ctx /\ 0 \in 0..(Strikes - 1)
      BY DEF Ctx
    <3> QED BY <3>1, <3>2
  <2>4. ended' \in BOOLEAN
    BY <1>3 DEF Terminate
  <2> QED BY <1>3, <2>1, <2>2, <2>3, <2>4 DEF Terminate
<1>4. ASSUME NEW w \in Who, Enter(w) PROVE HealthTypeOK'
  <2>1. tried' \in [Ctx -> 0..Tries]
    BY <1>0, <1>4 DEF Enter
  <2>2. redo' \in [Who -> RedoPC]
    BY <1>4 DEF Enter, Goes, RedoPC, Locked
  <2> QED BY <1>4, <2>1, <2>2 DEF Enter
<1>5. ASSUME NEW w \in Who, TearDown(w) PROVE HealthTypeOK'
  <2>1. [redo EXCEPT ![w] = "dial"] \in [Who -> RedoPC]
    BY DEF RedoPC, Locked
  <2>2. /\ stream' \in [Stream -> {"none", "open", "blind", "dead", "closed"}]
        /\ redo' \in [Who -> RedoPC]
    BY <1>5, <2>1, ClosingKeeps DEF TearDown
  <2> QED BY <1>0, <1>5, <2>2 DEF TearDown
<1>6. ASSUME NEW w \in Who, DialSucceeds(w) PROVE HealthTypeOK'
  BY <1>0, <1>6, NextIsFresh DEF DialSucceeds, Goes, RedoPC, Locked
<1>7. ASSUME NEW w \in Who, DialFails(w) PROVE HealthTypeOK'
  BY <1>0, <1>7, NextIsFresh DEF DialFails, Goes, RedoPC
<1>8. ASSUME NEW c \in Ctx, Revive(c)
      PROVE /\ writer' \in [Ctx -> BOOLEAN] /\ monitor' \in [Ctx -> BOOLEAN]
            /\ strike' \in [Ctx -> 0..(Strikes - 1)]
  <2>1. writer' \in [Ctx -> BOOLEAN] /\ monitor' \in [Ctx -> BOOLEAN]
    BY <1>8 DEF Revive
  <2>2. strike' \in [Ctx -> 0..(Strikes - 1)]
    BY <1>8 DEF Revive
  <2> QED BY <2>1, <2>2
<1>9. ASSUME NEW w \in Who, Verified(w) PROVE HealthTypeOK'
  <2>1. redo' \in [Who -> RedoPC]
    BY <1>9 DEF Verified, Goes, RedoPC
  <2>2. CASE Connected(CtxOf(w))
    BY <1>0, <1>8, <1>9, <2>1, <2>2 DEF Verified
  <2>3. CASE ~Connected(CtxOf(w))
    BY <1>9, <2>1, <2>3 DEF Verified
  <2> QED BY <2>2, <2>3
<1>10. ASSUME NEW c \in Ctx, MonitorTick(c) PROVE HealthTypeOK'
  <2>0. UNCHANGED <<stream, owner, at, web, tried, writer, ended>>
    BY <1>10 DEF MonitorTick, MonitorSees
  <2>1. monitor' = monitor \/ monitor' = [monitor EXCEPT ![c] = FALSE]
    BY <1>10 DEF MonitorTick, MonitorSees
  <2>2. monitor' \in [Ctx -> BOOLEAN]
    BY <2>1
  <2>3. redo' = redo \/ (c \in Who /\ redo' = [redo EXCEPT ![c] = "asked"])
    BY <1>10 DEF MonitorTick, MonitorSees, Goes, Who
  <2>4. redo' \in [Who -> RedoPC]
    BY <2>3 DEF RedoPC
  <2>5. strike' = [strike EXCEPT ![c] = 0] \/ strike' = [strike EXCEPT ![c] = (strike[c] + 1) % Strikes]
    BY <1>10 DEF MonitorTick, MonitorSees
  <2>6. (strike[c] + 1) % Strikes \in 0..(Strikes - 1)
    OBVIOUS
  <2>7. strike' \in [Ctx -> 0..(Strikes - 1)]
    BY <2>5, <2>6
  <2> QED BY <2>0, <2>2, <2>4, <2>7
<1>11. ASSUME NEW c \in Ctx, Survive(c) PROVE HealthTypeOK'
  BY <1>8, <1>11 DEF Survive
<1>12. ASSUME NEW c \in Ctx, WriterTick(c) PROVE HealthTypeOK'
  <2>1. writer' \in [Ctx -> BOOLEAN]
    BY <1>12 DEF WriterTick
  <2> QED BY <1>12, <2>1 DEF WriterTick
<1>13. ASSUME NEW c \in Ctx, WindowSlides(c) PROVE HealthTypeOK'
  BY <1>13 DEF WindowSlides
<1> QED BY <1>1, <1>2, <1>3, <1>4, <1>5, <1>6, <1>7, <1>9, <1>10, <1>11, <1>12, <1>13 DEF HealthNext

LEMMA AtStep == ASSUME HealthTypeOK, AtInv, HealthNext PROVE AtInv'
<1> USE DEF AtInv
<1>0. \A w \in Who : CtxOf(w) \in Ctx
  BY Contexts
<1>1. ASSUME NEW s \in Stream, InputCloses(s) \/ VideoEnds(s) PROVE AtInv'
  BY <1>1 DEF InputCloses, VideoEnds, HealthTypeOK
<1>2. ASSUME Terminate PROVE AtInv'
  <2>1. \A s \in Stream : stream'[s] = stream[s] \/ stream'[s] = "closed"
    BY <1>2, ClosingKeeps DEF Terminate, HealthTypeOK
  <2> QED BY <1>2, <2>1 DEF Terminate, HealthTypeOK
<1>3. ASSUME NEW w \in Who, TearDown(w) PROVE AtInv'
  <2>1. [redo EXCEPT ![w] = "dial"] \in [Who -> RedoPC]
    BY DEF RedoPC, Locked, HealthTypeOK
  <2>2. \A s \in Stream : stream'[s] = stream[s] \/ stream'[s] = "closed"
    BY <1>3, <2>1, ClosingKeeps DEF TearDown
  <2> QED BY <1>0, <1>3, <2>2 DEF TearDown, HealthTypeOK
<1>4. ASSUME NEW w \in Who, DialSucceeds(w) \/ DialFails(w) PROVE AtInv'
  BY <1>0, <1>4, NextIsFresh DEF DialSucceeds, DialFails, HealthTypeOK
<1>5. ASSUME Command \/ \E w \in Who : Enter(w) \/ Verified(w) PROVE AtInv'
  BY <1>5 DEF Command, Enter, Verified
<1>6. ASSUME NEW c \in Ctx, MonitorTick(c) \/ Survive(c) \/ WriterTick(c) \/ WindowSlides(c) PROVE AtInv'
  BY <1>6 DEF MonitorTick, MonitorSees, Survive, WriterTick, WindowSlides
<1> QED BY <1>1, <1>2, <1>3, <1>4, <1>5, <1>6 DEF HealthNext

LEMMA DialStep == ASSUME HealthTypeOK, OneDial, HealthNext PROVE OneDial'
<1> USE DEF OneDial
\* Whoever keeps or leaves the lock leaves the others as they are.
<1>0. ASSUME \A w \in Who : redo'[w] \in Locked => redo[w] \in Locked PROVE OneDial'
  BY <1>0
<1>1. ASSUME NEW w \in Who, NEW pc \in RedoPC, Goes(w, pc), pc \in Locked => redo[w] \in Locked PROVE OneDial'
  BY <1>0, <1>1 DEF Goes, HealthTypeOK
<1>2. ASSUME NEW s \in Stream, InputCloses(s) \/ VideoEnds(s) PROVE OneDial'
  <2>1. \A q \in Ring({owner[s]} \ {"nobody"}, redo) : \A w \in Who : q[w] \in Locked => redo[w] \in Locked
    BY RingKeepsLocked DEF HealthTypeOK
  <2> QED BY <1>0, <1>2, <2>1 DEF InputCloses, VideoEnds
<1>3. ASSUME Terminate PROVE OneDial'
  BY <1>0, <1>3, ClosingKeeps DEF Terminate, HealthTypeOK
<1>4. ASSUME NEW w \in Who, Enter(w) PROVE OneDial'
  <2>1. CASE \E v \in Who : CtxOf(v) = CtxOf(w) /\ redo[v] \in Locked
    BY <1>1, <1>4, <2>1 DEF Enter, RedoPC, Locked
  <2>2. CASE ~\E v \in Who : CtxOf(v) = CtxOf(w) /\ redo[v] \in Locked
    <3>1. redo' = [redo EXCEPT ![w] = redo'[w]]
      BY <1>4 DEF Enter, Goes, HealthTypeOK
    <3> QED BY <2>2, <3>1 DEF HealthTypeOK
  <2> QED BY <2>1, <2>2
<1>5. ASSUME NEW w \in Who, TearDown(w) PROVE OneDial'
  <2>1. [redo EXCEPT ![w] = "dial"] \in [Who -> RedoPC]
    BY DEF RedoPC, Locked, HealthTypeOK
  <2>2. \A v \in Who : redo'[v] \in Locked <=> [redo EXCEPT ![w] = "dial"][v] \in Locked
    BY <1>5, <2>1, ClosingKeeps DEF TearDown
  <2>3. redo[w] \in Locked
    BY <1>5 DEF TearDown, Locked
  <2> QED BY <1>0, <2>2, <2>3 DEF HealthTypeOK
<1>6. ASSUME NEW w \in Who, DialSucceeds(w) \/ DialFails(w) \/ Verified(w) PROVE OneDial'
  BY <1>1, <1>6 DEF DialSucceeds, DialFails, Verified, RedoPC, Locked
<1>7. ASSUME Command PROVE OneDial'
  BY <1>0, <1>7 DEF Command, Locked, HealthTypeOK
<1>8. ASSUME NEW c \in Ctx, MonitorTick(c) PROVE OneDial'
  <2>1. redo' = redo \/ Goes(c, "asked")
    BY <1>8 DEF MonitorTick, MonitorSees
  <2> QED BY <1>0, <2>1 DEF Goes, Locked, HealthTypeOK
<1>9. ASSUME NEW c \in Ctx, Survive(c) \/ WriterTick(c) \/ WindowSlides(c) PROVE OneDial'
  BY <1>9 DEF Survive, WriterTick, WindowSlides
<1> QED BY <1>2, <1>3, <1>4, <1>5, <1>6, <1>7, <1>8, <1>9 DEF HealthNext

\* Watched needs the lock's holder alone to leave "verify", and only a context that is not
\* connected, or revives them, to change the loops.
LEMMA WatchedStep == ASSUME HealthTypeOK, AtInv, Watched, HealthNext PROVE Watched'
<1> USE DEF Watched, Connected
<1>c. "media" \in Ctx /\ "media" \in Who /\ \A w \in Who : CtxOf(w) = "media" <=> w = "media"
  BY Contexts
<1>0. ASSUME at'["media"] = at["media"], at["media"] # NoStream => (stream'[at["media"]] \in {"open", "blind", "dead"} => Connected("media")),
             redo["media"] = "verify" => redo'["media"] = "verify",
             monitor["media"] => monitor'["media"], writer["media"] => writer'["media"]
      PROVE Watched'
  BY <1>0
<1>1. ASSUME NEW s \in Stream, InputCloses(s) \/ VideoEnds(s) PROVE Watched'
  <2>1. \A q \in Ring({owner[s]} \ {"nobody"}, redo) : redo["media"] = "verify" => q["media"] = "verify"
    BY <1>c, RingKeepsLocked DEF HealthTypeOK
  <2>2. redo["media"] = "verify" => redo'["media"] = "verify"
    BY <1>1, <2>1 DEF InputCloses, VideoEnds
  <2>3. at["media"] # NoStream => at["media"] \in Stream
    BY <1>c DEF HealthTypeOK
  <2>4. \A x \in Stream : stream'[x] \in {"open", "blind", "dead"} => stream[x] \in {"open", "blind", "dead"}
    BY <1>1 DEF InputCloses, VideoEnds, HealthTypeOK
  <2>5. UNCHANGED <<at, monitor, writer>>
    BY <1>1 DEF InputCloses, VideoEnds
  <2> QED BY <1>0, <2>2, <2>3, <2>4, <2>5
<1>2. ASSUME Terminate PROVE Watched'
  <2>1. at'["media"] = at["media"] /\ monitor'["media"] = monitor["media"] /\ writer'["media"] = writer["media"]
    BY <1>2, <1>c DEF Terminate, HealthTypeOK
  <2>2. /\ \A s \in Stream : stream'[s] = stream[s] \/ stream'[s] = "closed"
        /\ redo["media"] = "verify" => redo'["media"] = "verify"
    BY <1>2, <1>c, ClosingKeeps DEF Terminate, HealthTypeOK
  <2> QED BY <1>0, <1>c, <2>1, <2>2 DEF HealthTypeOK
<1>3. ASSUME NEW w \in Who, TearDown(w) PROVE Watched'
  <2>1. [redo EXCEPT ![w] = "dial"] \in [Who -> RedoPC]
    BY DEF RedoPC, Locked, HealthTypeOK
  <2>2. /\ \A s \in Stream : stream'[s] = stream[s] \/ stream'[s] = "closed"
        /\ [redo EXCEPT ![w] = "dial"]["media"] = "verify" => redo'["media"] = "verify"
    BY <1>3, <1>c, <2>1, ClosingKeeps DEF TearDown
  <2>3. CASE w = "media"
    BY <1>3, <1>c, <2>3 DEF TearDown, HealthTypeOK
  <2>4. CASE w # "media"
    <3>1. at'["media"] = at["media"] /\ UNCHANGED <<monitor, writer>>
      BY <1>3, <1>c, <2>4 DEF TearDown, HealthTypeOK
    <3>2. redo["media"] = "verify" => redo'["media"] = "verify"
      BY <1>c, <2>2, <2>4 DEF HealthTypeOK
    <3> QED BY <1>0, <1>c, <2>2, <3>1, <3>2 DEF HealthTypeOK
  <2> QED BY <2>3, <2>4
<1>4. ASSUME NEW w \in Who, DialSucceeds(w) PROVE Watched'
  <2>1. CASE w = "media"
    BY <1>4, <1>c, <2>1 DEF DialSucceeds, Goes, HealthTypeOK
  <2>2. CASE w # "media"
    <3>1. at'["media"] = at["media"] /\ redo'["media"] = redo["media"] /\ monitor' = monitor
          /\ (writer["media"] => writer'["media"])
      BY <1>4, <1>c, <2>2 DEF DialSucceeds, Goes, HealthTypeOK
    <3>2. at["media"] # NoStream => stream'[at["media"]] = stream[at["media"]]
      BY <1>4, <1>c, NextIsFresh DEF DialSucceeds, AtInv, HealthTypeOK
    <3> QED BY <1>0, <3>1, <3>2
  <2> QED BY <2>1, <2>2
<1>5. ASSUME NEW w \in Who, DialFails(w) PROVE Watched'
  <2>1. redo[w] = "dial" /\ redo' = [redo EXCEPT ![w] = "off"] /\ UNCHANGED <<at, monitor, writer>>
    BY <1>5 DEF DialFails, Goes
  <2>2. at["media"] # NoStream => stream'[at["media"]] = stream[at["media"]]
    BY <1>5, <1>c, NextIsFresh DEF DialFails, AtInv, HealthTypeOK
  <2> QED BY <1>0, <1>c, <2>1, <2>2 DEF HealthTypeOK
<1>6. ASSUME NEW w \in Who, Enter(w) PROVE Watched'
  <2>1. redo[w] = "asked" /\ redo' = [redo EXCEPT ![w] = redo'[w]] /\ UNCHANGED <<stream, at, monitor, writer>>
    BY <1>6 DEF Enter, Goes, HealthTypeOK
  <2> QED BY <1>0, <1>c, <2>1 DEF HealthTypeOK
<1>7. ASSUME NEW w \in Who, Verified(w) PROVE Watched'
  <2>1. redo' = [redo EXCEPT ![w] = "off"] /\ UNCHANGED <<stream, at>>
    BY <1>7 DEF Verified, Goes
  <2>2. CASE w = "media"
    <3>1. CASE Connected("media")
      <4>1. Revive("media")
        BY <1>7, <1>c, <2>2, <3>1 DEF Verified
      <4> QED BY <1>c, <4>1 DEF Revive, HealthTypeOK
    <3>2. CASE ~Connected("media")
      BY <2>1, <3>2
    <3> QED BY <3>1, <3>2
  <2>3. CASE w # "media"
    <3>1. (monitor["media"] => monitor'["media"]) /\ (writer["media"] => writer'["media"])
      BY <1>7, <1>c, <2>3 DEF Verified, Revive, HealthTypeOK
    <3> QED BY <1>0, <1>c, <2>1, <2>3, <3>1 DEF HealthTypeOK
  <2> QED BY <2>2, <2>3
<1>8. ASSUME Command PROVE Watched'
  BY <1>0, <1>8, <1>c DEF Command, HealthTypeOK
<1>9. ASSUME NEW c \in Ctx, MonitorTick(c) PROVE Watched'
  <2>1. UNCHANGED <<stream, at, writer>>
    BY <1>9 DEF MonitorTick, MonitorSees
  <2>2. redo["media"] = "verify" => redo'["media"] = "verify"
    BY <1>9, <1>c DEF MonitorTick, MonitorSees, Goes, HealthTypeOK
  <2>3. monitor'["media"] = monitor["media"] \/ ~Connected("media")
    BY <1>9, <1>c DEF MonitorTick, MonitorSees, HealthTypeOK
  <2> QED BY <1>0, <2>1, <2>2, <2>3
<1>10. ASSUME NEW c \in Ctx, Survive(c) PROVE Watched'
  <2>1. (monitor["media"] => monitor'["media"]) /\ (writer["media"] => writer'["media"])
    BY <1>10, <1>c DEF Survive, Revive, HealthTypeOK
  <2> QED BY <1>0, <1>10, <2>1 DEF Survive
<1>11. ASSUME NEW c \in Ctx, WriterTick(c) \/ WindowSlides(c) PROVE Watched'
  <2>1. writer'["media"] = writer["media"] \/ ~Connected("media")
    BY <1>11, <1>c DEF WriterTick, WindowSlides, HealthTypeOK
  <2>2. UNCHANGED <<stream, at, redo, monitor>>
    BY <1>11 DEF WriterTick, WindowSlides
  <2> QED BY <1>0, <2>1, <2>2
<1> QED BY <1>1, <1>2, <1>3, <1>4, <1>5, <1>6, <1>7, <1>8, <1>9, <1>10, <1>11 DEF HealthNext

LEMMA RedoInvStep == RedoInv /\ [HealthNext]_healthVars => RedoInv'
<1>1. RedoInv /\ HealthNext => RedoInv'
  BY HealthTypeStep, AtStep, DialStep, WatchedStep DEF RedoInv
<1>2. ASSUME RedoInv, UNCHANGED healthVars PROVE RedoInv'
  <2>1. HealthTypeOK' /\ AtInv'
    BY <1>2 DEF RedoInv, healthVars, HealthTypeOK, AtInv
  <2>2. OneDial' /\ Watched'
    BY <1>2 DEF RedoInv, healthVars, OneDial, Watched, Connected
  <2> QED BY <2>1, <2>2 DEF RedoInv
<1> QED BY <1>1, <1>2

\* Whoever asks for a reconnect, and whoever's clean-up asks for another one, each context
\* makes one at a time, and a media context that is connected is watched and written to.
THEOREM ReconnectsAreWhole == HealthSpec => [](HealthTypeOK /\ ReconnectIsWhole)
<1>1. RedoInv /\ [HealthNext]_healthVars => RedoInv'
  BY RedoInvStep
<1>2. RedoInv => HealthTypeOK /\ ReconnectIsWhole
  BY DEF RedoInv, ReconnectIsWhole
<1> QED BY <1>1, <1>2, RedoInvInit, PTL DEF HealthSpec

-----------------------------------------------------------------------------
(* Login *)

Whole(d) == d["user"] = d["xsts"] /\ d["xhome"] # NoToken

\* How much of its chain a login has: what it started from until it fetches a token, and
\* then the tokens from the user's on.
ChainInv ==
  /\ \A d \in Cached : d # Empty => Whole(d)
  /\ \A l \in Login :
       /\ place[l] = "chain" => doc[l] = Empty \/ Whole(doc[l])
       /\ place[l] = "xsts" => doc[l]["user"] = l
       /\ place[l] = "xhome" => doc[l]["user"] = doc[l]["xsts"]
       /\ place[l] \in {"console", "put", "again", "write"} => Whole(doc[l])
       /\ place[l] \notin {"put", "again", "write"} => attempt[l] = 0
       /\ place[l] = "put" => attempt[l] < Attempts

LoginInv == LoginTypeOK /\ ChainInv

LEMMA LoginInvInit == LoginInit => LoginInv
<1> SUFFICES ASSUME LoginInit PROVE LoginInv
  OBVIOUS
<1> USE LoginAssumption DEF LoginInit
<1>1. FromBefore \in Stamped /\ Nothing \in Stamped /\ Empty \in Doc
  BY DEF FromBefore, Nothing, Empty, Stamped, Doc, Maker
<1>2. LoginTypeOK
  <2>1. changed \in [Login -> BOOLEAN]
    OBVIOUS
  <2>2. expected \in [Login -> 0..LastVersion] /\ attempt \in [Login -> 0..Attempts]
    OBVIOUS
  <2>3. place \in [Login -> Place] /\ doc \in [Login -> Doc] /\ saved \in Stamped /\ local \in [Login -> Stamped]
    BY <1>1 DEF Place
  <2> QED BY <2>1, <2>2, <2>3 DEF LoginTypeOK
<1>3. \A d \in Cached : d = Empty \/ d = FromBefore.doc
  BY DEF Cached, Nothing
<1>4. Whole(FromBefore.doc)
  BY DEF Whole, FromBefore, Token
<1>5. ChainInv
  BY <1>3, <1>4 DEF ChainInv
<1> QED BY <1>2, <1>5 DEF LoginInv

\* A step of a login that leaves all but its place, its tokens and whether they changed.
LEMMA GoesOn ==
  ASSUME LoginInv, NEW l \in Login, NEW there \in Place, place' = [place EXCEPT ![l] = there],
         NEW d \in Doc, doc' = [doc EXCEPT ![l] = d], changed' \in [Login -> BOOLEAN],
         UNCHANGED cacheVars, place[l] \notin {"put", "again", "write"},
         there \in {"chain", "again", "write"} => FALSE,
         there = "xsts" => d["user"] = l,
         there = "xhome" => d["user"] = d["xsts"],
         there \in {"console", "put"} => Whole(d)
  PROVE  LoginInv'
<1> USE LoginAssumption DEF LoginInv
<1>1. LoginTypeOK'
  BY DEF LoginTypeOK, cacheVars
<1>2. Cached' = Cached
  BY DEF Cached, cacheVars
<1>3. attempt' = attempt /\ attempt[l] = 0
  BY DEF ChainInv, cacheVars
<1>4. \A k \in Login \ {l} : place'[k] = place[k] /\ doc'[k] = doc[k]
  BY DEF LoginTypeOK
<1>5. place'[l] = there /\ doc'[l] = d
  BY DEF LoginTypeOK
<1>6. ChainInv'
  BY <1>2, <1>3, <1>4, <1>5 DEF ChainInv
<1> QED BY <1>1, <1>6

LEMMA AskedKeeps ==
  ASSUME LoginInv, NEW l \in Login, NEW here, NEW ways \in SUBSET Place, Asked(l, here, ways),
         here \notin {"put", "again", "write"}, {"chain", "again", "write", "xsts", "console"} \cap ways = {},
         "xhome" \in ways => doc[l]["user"] = doc[l]["xsts"],
         "put" \in ways => Whole(doc[l])
  PROVE  LoginInv'
<1>1. PICK there \in ways : place[l] = here /\ place' = [place EXCEPT ![l] = there]
  BY DEF Asked, Moves
<1>2. UNCHANGED <<doc, changed, cacheVars>>
  BY DEF Asked, heldVars
<1>3. doc[l] \in Doc /\ doc' = [doc EXCEPT ![l] = doc[l]] /\ changed' \in [Login -> BOOLEAN]
  BY <1>2 DEF LoginInv, LoginTypeOK
<1>4. there \in Place /\ place[l] \notin {"put", "again", "write"}
  BY <1>1
<1>5. there \notin {"chain", "again", "write", "xsts", "console"}
  OBVIOUS
<1>6. /\ there \in {"chain", "again", "write"} => FALSE
      /\ there = "xsts" => doc[l]["user"] = l
      /\ there = "xhome" => doc[l]["user"] = doc[l]["xsts"]
      /\ there \in {"console", "put"} => Whole(doc[l])
  BY <1>5
<1>7. UNCHANGED cacheVars
  BY <1>2
<1> QED BY ONLY LoginInv, <1>1, <1>3, <1>4, <1>6, <1>7, GoesOn

LEMMA EndsKeeps ==
  ASSUME LoginInv, NEW l \in Login, NEW here, NEW how \in {"ok", "failed"}, Ends(l, here, how),
         saved' \in Stamped, local' \in [Login -> Stamped],
         \A d \in Cached' : d # Empty => Whole(d)
  PROVE  LoginInv'
<1> USE LoginAssumption DEF LoginInv
<1>1. Empty \in Doc /\ how \in Place
  BY DEF Empty, Doc, Maker, Place
<1>2. changed' \in [Login -> BOOLEAN]
  BY DEF Ends, LoginTypeOK
<1>3. expected' \in [Login -> 0..LastVersion] /\ attempt' \in [Login -> 0..Attempts] /\ attempt'[l] = 0
  BY DEF Ends, LoginTypeOK
<1>4. place' = [place EXCEPT ![l] = how] /\ doc' = [doc EXCEPT ![l] = Empty] /\ attempt' = [attempt EXCEPT ![l] = 0]
  BY DEF Ends, Moves
<1>5. LoginTypeOK'
  BY <1>1, <1>2, <1>3, <1>4 DEF LoginTypeOK
<1>6. ChainInv'
  BY <1>3, <1>4 DEF ChainInv, LoginTypeOK
<1> QED BY <1>5, <1>6

\* A login that fetches a token of its own has the chain that is asked of the place it goes to.
LEMMA FetchedKeeps ==
  ASSUME LoginInv, NEW l \in Login, NEW here, NEW tok \in Token, NEW there \in Place,
         Fetched(l, here, tok, there), here \notin {"put", "again", "write"},
         \/ tok = "user" /\ there = "xsts"
         \/ tok = "xsts" /\ there = "xhome" /\ doc[l]["user"] = l
         \/ tok = "xhome" /\ there = "console" /\ doc[l]["user"] = doc[l]["xsts"]
         \/ there = "invalidate"
  PROVE  LoginInv'
<1> DEFINE d == [doc[l] EXCEPT ![tok] = l]
<1>1. place[l] \notin {"put", "again", "write"} /\ place' = [place EXCEPT ![l] = there] /\ UNCHANGED cacheVars
  BY DEF Fetched, Moves
<1>2. doc[l] \in Doc /\ l \in Maker /\ l # NoToken
  BY LoginAssumption DEF LoginInv, LoginTypeOK, Maker
<1>3. d \in Doc
  BY <1>2 DEF Doc
<1>4. doc' = [doc EXCEPT ![l] = d] /\ changed' \in [Login -> BOOLEAN]
  <2>1. doc' = [doc EXCEPT ![l] = d]
    BY DEF Fetched, Gains
  <2>2. changed' \in [Login -> BOOLEAN]
    BY DEF Fetched, Gains, LoginInv, LoginTypeOK
  <2> QED BY <2>1, <2>2
<1>5. \A t \in Token : d[t] = IF t = tok THEN l ELSE doc[l][t]
  BY <1>2 DEF Doc
<1>6. /\ there \in {"chain", "again", "write"} => FALSE
      /\ there = "xsts" => d["user"] = l
      /\ there = "xhome" => d["user"] = d["xsts"]
      /\ there \in {"console", "put"} => Whole(d)
  BY <1>2, <1>5 DEF Whole, Token
<1> HIDE DEF d
<1> QED BY ONLY LoginInv, <1>1, <1>3, <1>4, <1>6, GoesOn

\* Up to the moment it writes, a login fetches what the chain lacks.
LEMMA ChainKeeps ==
  ASSUME LoginInv, NEW l \in Login,
         \/ DoAuthentication(l) \/ RefreshUserToken(l) \/ GetDeviceToken(l) \/ XalRedirectUrl(l)
         \/ OAuthWebLogin(l) \/ GetUserToken(l) \/ XstsAuthorize(l) \/ GetXhomeToken(l) \/ GetXhomeConsole(l)
  PROVE  LoginInv'
<1>c. ChainInv /\ Token = {"user", "xsts", "xhome"}
  BY DEF LoginInv, Token
<1>1. ASSUME NEW here, Fail(l, here), here \notin {"put", "again", "write"} PROVE LoginInv'
  <2>1. {"invalidate"} \in SUBSET Place
    BY DEF Place
  <2> QED BY <1>1, <2>1, AskedKeeps DEF Fail
<1>2. ASSUME DoAuthentication(l) PROVE LoginInv'
  <2>0. place[l] = "chain" => doc[l] = Empty \/ Whole(doc[l])
    BY <1>c DEF ChainInv
  <2>1. CASE doc[l]["xhome"] # NoToken /\ Asked(l, "chain", {"put"})
    <3>1. place[l] = "chain" /\ {"put"} \in SUBSET Place
      BY <2>1 DEF Asked, Moves, Place
    <3>2. Whole(doc[l])
      BY <2>0, <2>1, <3>1 DEF Empty, Token
    <3> QED BY <2>1, <3>1, <3>2, AskedKeeps
  <2>2. CASE doc[l]["xsts"] # NoToken /\ Asked(l, "chain", {"xhome"})
    <3>1. place[l] = "chain" /\ {"xhome"} \in SUBSET Place
      BY <2>2 DEF Asked, Moves, Place
    <3>2. doc[l]["user"] = doc[l]["xsts"]
      BY <2>0, <3>1 DEF Empty, Token, Whole
    <3> QED BY <2>2, <3>1, <3>2, AskedKeeps
  <2>3. CASE Asked(l, "chain", {"refresh"}) \/ Asked(l, "chain", {"device"})
    <3>1. {"refresh"} \in SUBSET Place /\ {"device"} \in SUBSET Place
      BY DEF Place
    <3> QED BY <2>3, <3>1, AskedKeeps
  <2> QED BY <1>2, <2>1, <2>2, <2>3 DEF DoAuthentication
<1>3. ASSUME RefreshUserToken(l) PROVE LoginInv'
  <2>1. CASE Fetched(l, "refresh", "user", "xsts")
    BY <1>c, <2>1, FetchedKeeps DEF Place
  <2>2. CASE Moves(l, "refresh", "invalidate") /\ Gains(l, "user") /\ UNCHANGED cacheVars
    BY <1>c, <2>2, FetchedKeeps DEF Place, Fetched
  <2>3. CASE Asked(l, "refresh", {"device"})
    BY <2>3, AskedKeeps DEF Place
  <2> QED BY <1>3, <2>1, <2>2, <2>3 DEF RefreshUserToken
<1>4. ASSUME GetDeviceToken(l) \/ XalRedirectUrl(l) \/ OAuthWebLogin(l) PROVE LoginInv'
  <2>1. {"page"} \in SUBSET Place /\ {"code", "web"} \in SUBSET Place /\ {"code"} \in SUBSET Place
    BY DEF Place
  <2> QED BY <1>1, <1>4, <2>1, AskedKeeps DEF GetDeviceToken, XalRedirectUrl, OAuthWebLogin
<1>5. ASSUME GetUserToken(l) PROVE LoginInv'
  <2>1. CASE Fetched(l, "code", "user", "xsts")
    BY <1>c, <2>1, FetchedKeeps DEF Place
  <2> QED BY <1>1, <1>5, <2>1 DEF GetUserToken
<1>6. ASSUME XstsAuthorize(l) PROVE LoginInv'
  <2>1. CASE Fetched(l, "xsts", "xsts", "xhome")
    <3>1. doc[l]["user"] = l
      BY <1>c, <2>1 DEF Fetched, Moves, ChainInv
    <3> QED BY <1>c, <2>1, <3>1, FetchedKeeps DEF Place
  <2> QED BY <1>1, <1>6, <2>1 DEF XstsAuthorize
<1>7. ASSUME GetXhomeToken(l) PROVE LoginInv'
  <2>1. CASE Fetched(l, "xhome", "xhome", "console")
    <3>1. doc[l]["user"] = doc[l]["xsts"]
      BY <1>c, <2>1 DEF Fetched, Moves, ChainInv
    <3> QED BY <1>c, <2>1, <3>1, FetchedKeeps DEF Place
  <2> QED BY <1>1, <1>7, <2>1 DEF GetXhomeToken
<1>8. ASSUME GetXhomeConsole(l) PROVE LoginInv'
  <2>1. CASE Asked(l, "console", {"put"})
    <3>1. Whole(doc[l])
      BY <1>c, <2>1 DEF Asked, Moves, ChainInv
    <3>2. {"put"} \in SUBSET Place
      BY DEF Place
    <3> QED BY <2>1, <3>1, <3>2, AskedKeeps
  <2> QED BY <1>1, <1>8, <2>1 DEF GetXhomeConsole
<1> QED BY <1>2, <1>3, <1>4, <1>5, <1>6, <1>7, <1>8

\* A login that writes has its whole chain, and the row it writes has it too.
LEMMA PutKeeps ==
  ASSUME LoginInv, NEW l \in Login, PutAuthCache(l)
  PROVE  LoginInv'
<1> USE LoginAssumption
<1>c. LoginTypeOK /\ ChainInv
  BY DEF LoginInv
<1>1. /\ attempt' = [attempt EXCEPT ![l] = attempt[l] + 1] /\ UNCHANGED <<local, doc, changed>>
      /\ place[l] = "put"
      /\ place' = [place EXCEPT ![l] = "write"] \/ place' = [place EXCEPT ![l] = "again"]
      /\ saved' = saved \/ (saved' = Taken(l) /\ saved.ver < LastVersion)
      /\ expected' = expected \/ (expected' = [expected EXCEPT ![l] = saved.ver + 1] /\ saved.ver < LastVersion)
  BY DEF PutAuthCache, SaveAuthCache, Moves
<1>2. attempt[l] \in 0..Attempts /\ attempt[l] < Attempts /\ Whole(doc[l]) /\ doc[l] \in Doc /\ saved.ver \in 0..LastVersion
  BY <1>c, <1>1 DEF ChainInv, LoginTypeOK, Stamped
<1>3. attempt[l] + 1 \in 0..Attempts /\ (saved.ver < LastVersion => saved.ver + 1 \in 0..LastVersion)
  BY <1>2
<1>4. saved' \in Stamped /\ (saved'.doc = saved.doc \/ saved'.doc = doc[l])
  BY <1>c, <1>1, <1>2, <1>3 DEF Stamped, Taken, LoginTypeOK
<1>5. LoginTypeOK'
  <2>1. attempt' \in [Login -> 0..Attempts] /\ expected' \in [Login -> 0..LastVersion]
    BY <1>c, <1>1, <1>3 DEF LoginTypeOK
  <2>2. place' \in [Login -> Place]
    BY <1>c, <1>1 DEF LoginTypeOK, Place
  <2> QED BY <1>c, <1>1, <1>4, <2>1, <2>2 DEF LoginTypeOK
<1>6. \A d \in Cached' : d # Empty => Whole(d)
  <2>1. Cached' \subseteq Cached \cup {doc[l]}
    BY <1>1, <1>4 DEF Cached
  <2> QED BY <1>c, <1>2, <2>1 DEF ChainInv
<1>7. \A k \in Login \ {l} : place'[k] = place[k] /\ doc'[k] = doc[k] /\ attempt'[k] = attempt[k]
  BY <1>c, <1>1 DEF LoginTypeOK
<1>8. place'[l] \in {"write", "again"} /\ doc'[l] = doc[l]
  BY <1>c, <1>1 DEF LoginTypeOK
<1> QED BY <1>c, <1>2, <1>5, <1>6, <1>7, <1>8 DEF LoginInv, ChainInv

\* Another try is made with the document of the first.
LEMMA AgainKeeps ==
  ASSUME LoginInv, NEW l \in Login, PutAgain(l)
  PROVE  LoginInv'
<1> USE LoginAssumption
<1>c. LoginTypeOK /\ ChainInv
  BY DEF LoginInv
<1>1. PICK copy \in GetAuthCache : expected' = [expected EXCEPT ![l] = copy.ver]
  BY DEF PutAgain
<1>2. /\ attempt[l] < Attempts /\ place[l] = "again" /\ place' = [place EXCEPT ![l] = "put"]
      /\ UNCHANGED <<saved, local, attempt, doc, changed>>
  BY DEF PutAgain, Moves
<1>3. copy.ver \in 0..LastVersion
  BY <1>c DEF GetAuthCache, Nothing, LoginTypeOK, Stamped
<1>4. LoginTypeOK'
  BY <1>c, <1>1, <1>2, <1>3 DEF LoginTypeOK, Place
<1>5. Cached' = Cached
  BY <1>2 DEF Cached
<1>6. /\ \A k \in Login \ {l} : place'[k] = place[k]
      /\ place'[l] = "put" /\ doc' = doc /\ attempt' = attempt
  BY <1>c, <1>2 DEF LoginTypeOK
<1> QED BY <1>c, <1>2, <1>4, <1>5, <1>6 DEF LoginInv, ChainInv

\* What a login starts from is a copy that is kept.
LEMMA ResolveKeeps ==
  ASSUME LoginInv, NEW l \in Login, ResolveTokenDoc(l)
  PROVE  LoginInv'
<1> USE LoginAssumption
<1>c. LoginTypeOK /\ ChainInv
  BY DEF LoginInv
<1>0. Nothing \in Stamped /\ Nothing.doc = Empty
  BY DEF Nothing, Stamped, Empty, Doc, Maker
<1>1. PICK copy \in {saved, local[l]} :
        /\ Hydrate(l, copy.doc, copy.ver)
        /\ local' = [local EXCEPT ![l] = copy] \/ local' = local
  BY DEF ResolveTokenDoc, GetAuthCache
<1>2. place[l] = "resolve" /\ place' = [place EXCEPT ![l] = "chain"] /\ UNCHANGED <<saved, attempt>>
  BY DEF ResolveTokenDoc, Moves
<1>3. copy \in Stamped /\ copy.doc \in Cached /\ copy.doc \in Doc /\ copy.ver \in 0..LastVersion
  BY <1>c DEF LoginTypeOK, Stamped, Cached
<1>4. LoginTypeOK'
  <2>1. changed' \in [Login -> BOOLEAN]
    BY <1>c, <1>1 DEF Hydrate, LoginTypeOK
  <2>2. local' \in [Login -> Stamped]
    BY <1>c, <1>1, <1>3 DEF LoginTypeOK
  <2>3. doc' \in [Login -> Doc] /\ expected' \in [Login -> 0..LastVersion]
    BY <1>c, <1>1, <1>3 DEF Hydrate, LoginTypeOK
  <2> QED BY <1>c, <1>2, <2>1, <2>2, <2>3 DEF LoginTypeOK, Place
<1>5. \A d \in Cached' : d \in Cached
  BY <1>c, <1>1, <1>2, <1>3 DEF Cached, LoginTypeOK
<1>6. \A k \in Login \ {l} : place'[k] = place[k] /\ doc'[k] = doc[k]
  BY <1>c, <1>1, <1>2 DEF Hydrate, LoginTypeOK
<1>7. place'[l] = "chain" /\ doc'[l] = copy.doc /\ attempt' = attempt
  BY <1>c, <1>1, <1>2 DEF Hydrate, LoginTypeOK
<1>8. copy.doc = Empty \/ Whole(copy.doc)
  BY <1>c, <1>3 DEF ChainInv
<1> QED BY <1>c, <1>2, <1>4, <1>5, <1>6, <1>7, <1>8 DEF LoginInv, ChainInv

\* A copy is dropped as a whole, or replaced by a whole chain.
LEMMA CopiesKeep ==
  ASSUME LoginInv, NEW l \in Login,
         \/ PutFails(l) \/ SaveTokenDoc(l) \/ PreserveCache(l) \/ DeleteTokenDoc(l)
         \/ DeleteAuthCache(l) \/ CancelLogin(l) \/ Start(l)
  PROVE  LoginInv'
<1> USE LoginAssumption
<1>c. LoginTypeOK /\ ChainInv
  BY DEF LoginInv
<1>0. Nothing \in Stamped /\ Nothing.doc = Empty
  BY DEF Nothing, Stamped, Empty, Doc, Maker
<1>1. ASSUME NEW here, NEW how \in {"ok", "failed"}, Ends(l, here, how), UNCHANGED <<saved, local>> PROVE LoginInv'
  <2>1. Cached' = Cached
    BY <1>1 DEF Cached
  <2>2. saved' \in Stamped /\ local' \in [Login -> Stamped] /\ \A d \in Cached' : d # Empty => Whole(d)
    BY <1>c, <1>1, <2>1 DEF LoginTypeOK, ChainInv
  <2> QED BY <1>1, <2>2, EndsKeeps
<1>2. ASSUME Start(l) PROVE LoginInv'
  <2>1. CASE Asked(l, "start", {"resolve"})
    BY <2>1, AskedKeeps DEF Place
  <2> QED BY <1>1, <1>2, <2>1 DEF Start
<1>3. ASSUME SaveTokenDoc(l) PROVE LoginInv'
  <2>1. Ends(l, "write", "ok") /\ saved' = saved /\ place[l] = "write"
        /\ local' = [local EXCEPT ![l] = [ver |-> expected[l], doc |-> doc[l]]]
    BY <1>3 DEF SaveTokenDoc, Ends, Moves
  <2>2. [ver |-> expected[l], doc |-> doc[l]] \in Stamped /\ Whole(doc[l])
    BY <1>c, <2>1 DEF LoginTypeOK, Stamped, ChainInv
  <2>3. saved' \in Stamped /\ local' \in [Login -> Stamped]
    BY <1>c, <2>1, <2>2 DEF LoginTypeOK
  <2>4. \A d \in Cached' : d \in Cached \/ d = doc[l]
    BY <1>c, <2>1 DEF Cached, LoginTypeOK
  <2> QED BY <1>c, <2>1, <2>2, <2>3, <2>4, EndsKeeps DEF ChainInv
<1>4. ASSUME DeleteAuthCache(l) PROVE LoginInv'
  <2>1. Ends(l, "delete", "failed") /\ saved' \in {Nothing, saved} /\ local' = local
    BY <1>4 DEF DeleteAuthCache, Dropped
  <2>2. saved' \in Stamped /\ local' \in [Login -> Stamped]
    BY <1>c, <1>0, <2>1 DEF LoginTypeOK
  <2>3. \A d \in Cached' : d \in Cached \/ d = Empty
    BY <1>0, <2>1 DEF Cached
  <2> QED BY <1>c, <2>1, <2>2, <2>3, EndsKeeps DEF ChainInv
<1>5. ASSUME DeleteTokenDoc(l) PROVE LoginInv'
  <2>1. /\ place[l] = "invalidate" /\ place' = [place EXCEPT ![l] = "delete"]
        /\ local' = [local EXCEPT ![l] = Nothing] /\ UNCHANGED <<saved, expected, attempt, doc, changed>>
    BY <1>5 DEF DeleteTokenDoc, Moves
  <2>2. LoginTypeOK'
    BY <1>c, <1>0, <2>1 DEF LoginTypeOK, Place
  <2>3. \A d \in Cached' : d \in Cached \/ d = Empty
    BY <1>c, <1>0, <2>1 DEF Cached, LoginTypeOK
  <2>4. place'[l] = "delete" /\ \A k \in Login \ {l} : place'[k] = place[k]
    BY <1>c, <2>1 DEF LoginTypeOK
  <2> QED BY <1>c, <2>1, <2>2, <2>3, <2>4 DEF LoginInv, ChainInv
<1> QED BY <1>1, <1>2, <1>3, <1>4, <1>5 DEF PutFails, PreserveCache, CancelLogin

LEMMA LoginInvStep == LoginInv /\ [LoginNext]_loginVars => LoginInv'
<1>1. LoginInv /\ LoginNext => LoginInv'
  BY ResolveKeeps, ChainKeeps, PutKeeps, AgainKeeps, CopiesKeep DEF LoginNext
<1>2. ASSUME LoginInv, UNCHANGED loginVars PROVE LoginInv'
  <2>1. Cached' = Cached
    BY <1>2 DEF Cached, loginVars
  <2> QED BY <1>2, <2>1 DEF LoginInv, loginVars, LoginTypeOK, ChainInv
<1> QED BY <1>1, <1>2

\* Wherever a login fails, is cancelled or loses an answer, and however many write and drop
\* the row of their account, every copy that is kept is a whole chain of one login.
THEOREM ChainsAreWhole == LoginSpec => [](LoginTypeOK /\ ChainsWhole)
<1>1. LoginInv /\ [LoginNext]_loginVars => LoginInv'
  BY LoginInvStep
<1>2. LoginInv => LoginTypeOK /\ ChainsWhole
  BY DEF LoginInv, ChainInv, ChainsWhole, Whole
<1> QED BY <1>1, <1>2, LoginInvInit, PTL DEF LoginSpec

-----------------------------------------------------------------------------
(* MCStream: the types of all the parts. *)

\* However consoles are put in order, their order is a sequence of consoles.
LEMMA OrdersAreSequences ==
  ASSUME NEW c \in SUBSET Host, NEW s \in Orders(c)
  PROVE  s \in Seq(Host)
<1>1. IsFiniteSet(c)
  BY OpenAssumption, FS_Subset
<1>2. Cardinality(c) \in Nat
  BY <1>1, FS_CardinalityType
<1>3. s \in [1..Cardinality(c) -> Host]
  BY DEF Orders
<1> QED BY <1>2, <1>3

LEMMA OpenTypeInit == OpenInit => OpenTypeOK
<1> SUFFICES ASSUME OpenInit PROVE OpenTypeOK
  OBVIOUS
<1>1. step \in Step /\ console \in Host \cup {NoHost} /\ peer \in Host \cup {NoHost} /\ todo \in Seq(Host)
  BY DEF OpenInit, Step
<1>2. held \subseteq Host /\ leased \in [Host -> {"free", "us", "other"}] /\ opened \subseteq Channel
  BY DEF OpenInit
<1>3. playstation \in BOOLEAN /\ {authorised, ready, frame} \subseteq BOOLEAN
  BY DEF OpenInit
<1> QED BY <1>1, <1>2, <1>3 DEF OpenTypeOK

\* Before a console is held there is one to hold.
Tried == step \in {"wake", "power", "ask", "hold"} => console \in Host

LEMMA OpenTypeStep ==
  ASSUME OpenTypeOK, Tried, [OpenNext]_openVars
  PROVE  OpenTypeOK' /\ Tried'
<1>0. /\ step \in Step /\ playstation \in BOOLEAN /\ console \in Host \cup {NoHost} /\ peer \in Host \cup {NoHost}
      /\ todo \in Seq(Host) /\ held \subseteq Host /\ leased \in [Host -> {"free", "us", "other"}]
      /\ opened \subseteq Channel /\ authorised \in BOOLEAN /\ ready \in BOOLEAN /\ frame \in BOOLEAN
      /\ NoHost \notin Host
  BY OpenAssumption DEF OpenTypeOK
\* A step among the requests of Step 2 moves on and leaves the hosts and the channels alone.
<1>1. ASSUME step' \in Step, playstation' \in BOOLEAN, todo' \in Seq(Host), console' \in Host \cup {NoHost},
             step' \in {"wake", "power", "ask", "hold"} => console' \in Host,
             UNCHANGED <<leaseVars, peer, channelVars>>
      PROVE  OpenTypeOK' /\ Tried'
  BY <1>0, <1>1 DEF leaseVars, channelVars, OpenTypeOK, Tried
<1>2. ASSUME step' \in Step \ {"wake", "power", "ask", "hold"}, UNCHANGED <<playstation, todo, console>>,
             held' \subseteq Host, leased' \in [Host -> {"free", "us", "other"}], UNCHANGED <<peer, channelVars>>
      PROVE  OpenTypeOK' /\ Tried'
  BY <1>0, <1>2 DEF channelVars, OpenTypeOK, Tried
<1>3. ASSUME step' \in Step, step' \in {"wake", "power", "ask", "hold"} => step' = step,
             UNCHANGED <<playstation, todo, console, leaseVars>>,
             peer' \in {peer, console, NoHost}, opened' \subseteq Channel,
             authorised' \in BOOLEAN, ready' \in BOOLEAN, frame' \in BOOLEAN
      PROVE  OpenTypeOK' /\ Tried'
  BY <1>0, <1>3, Tried DEF leaseVars, OpenTypeOK, Tried
<1>4. CASE Route \/ Credentials \/ NoneLeft
  BY <1>0, <1>1, <1>4 DEF Route, Credentials, NoneLeft, Step
<1>5. CASE WakeUp \/ PowerOn
  BY <1>0, <1>1, <1>5, Tried DEF WakeUp, PowerOn, Step, Tried
<1>6. CASE AskOccupied
  <2>1. step' \in {"try", "hold"} /\ step = "ask" /\ UNCHANGED <<todo, playstation, console, leaseVars, peer, channelVars>>
    BY <1>6 DEF AskOccupied, Skip
  <2> QED BY <1>0, <1>1, <2>1, Tried DEF Step, Tried
<1>7. CASE ListConsoles \/ ListPlayStations
  <2>1. UNCHANGED <<playstation, console, leaseVars, peer, channelVars>> /\ step' \in {"try", "failed"}
    BY <1>7 DEF ListConsoles, ListPlayStations
  <2>2. todo' \in Seq(Host)
    <3>1. \A cloud \in SUBSET Host : Candidates(cloud) \in SUBSET Host /\ OfTheAccount(cloud) \in SUBSET Host
      BY OpenAssumption DEF Candidates, OfTheAccount
    <3>2. \A c \in SUBSET Host : \A s \in Orders(c) : s \in Seq(Host)
      BY OrdersAreSequences
    <3>3. CASE ListConsoles
      BY <1>0, <3>1, <3>2, <3>3 DEF ListConsoles
    <3>4. CASE ListPlayStations
      BY <1>0, <3>1, <3>2, <3>4 DEF ListPlayStations, CachedAnswers, LanAnswers
    <3> QED BY <1>7, <3>3, <3>4
  <2> QED BY <1>0, <1>1, <2>1, <2>2 DEF Step
<1>8. CASE TryNext
  <2>1. todo # <<>> /\ todo' = Tail(todo) /\ console' = Head(todo) /\ step' \in {"ask", "wake", "try"}
        /\ UNCHANGED <<playstation, leaseVars, peer, channelVars>>
    BY <1>8 DEF TryNext
  <2>2. Head(todo) \in Host /\ Tail(todo) \in Seq(Host)
    BY <1>0, <2>1
  <2> QED BY <1>0, <1>1, <2>1, <2>2 DEF Step
<1>9. CASE AcquireHost
  <2>1. /\ step = "hold" /\ UNCHANGED <<todo, playstation, console, leased, peer, channelVars>>
        /\ \/ step' = "lock" /\ held' = held \cup {console}
           \/ step' = "try" /\ held' = held
    BY <1>9 DEF AcquireHost, Skip, leaseVars
  <2>2. console \in Host
    BY <2>1, Tried DEF Tried
  <2> QED BY <1>0, <1>2, <2>1, <2>2 DEF Step
<1>10. CASE Lock \/ Release
  <2>1. /\ UNCHANGED <<playstation, todo, console, peer, channelVars>>
        /\ step' \in {"unopened", "play", "try", "failed"} /\ held' \subseteq held
    BY <1>10 DEF Lock, Release, ReleaseLocal
  <2>2. leased' \in [Host -> {"free", "us", "other"}]
    BY <1>0, <1>10 DEF Lock, Release, GivenBack
  <2> QED BY <1>0, <1>2, <2>1, <2>2 DEF Step, Connecting
<1>11. CASE \E h \in Host : Rival(h)
  <2>1. UNCHANGED <<step, playstation, todo, console, held, peer, channelVars>>
        /\ leased' \in [Host -> {"free", "us", "other"}]
    BY <1>0, <1>11 DEF Rival
  <2> QED BY <1>0, <2>1, Tried DEF channelVars, OpenTypeOK, Tried
<1>12. CASE Unopened
  BY <1>0, <1>1, <1>12 DEF Unopened, Step
<1>13. CASE Play \/ Poll \/ Offer \/ Answer \/ Ice \/ Linked \/ FirstFrame \/ EnsureBinding \/ OpenStream
  <2>1. /\ step' \in Connecting \cup {"step3", "done", "media", "thrown"}
        /\ UNCHANGED <<playstation, todo, console, leaseVars>>
        /\ peer' \in {peer, console} /\ UNCHANGED channelVars
    BY <1>13 DEF Play, Poll, Offer, Answer, Ice, Linked, FirstFrame, EnsureBinding, OpenStream, Onward, Connecting
  <2> QED BY <1>0, <1>3, <2>1 DEF Step, Connecting, channelVars
<1>14. CASE \E c \in Channel : ChannelOpens(c)
  BY <1>0, <1>3, <1>14 DEF ChannelOpens
<1>15. CASE HandshakeAck
  BY <1>0, <1>3, <1>15 DEF HandshakeAck, Authorise
<1>16. CASE FrameComes
  BY <1>0, <1>3, <1>16 DEF FrameComes
<1>17. CASE InputReady
  <2>1. step' = "frame" /\ UNCHANGED <<playstation, todo, console, leaseVars, peer, opened, frame>>
        /\ authorised' \in BOOLEAN /\ ready' \in BOOLEAN
    BY <1>0, <1>17 DEF InputReady, Onward, Authorise
  <2> QED BY <1>0, <1>3, <2>1 DEF Step, Connecting
<1>18. CASE ConnectFails \/ StepThree
  <2>1. /\ step' \in {"release", "bind", "giveup"} /\ UNCHANGED <<playstation, todo, console, leaseVars>>
        /\ peer' \in {peer, NoHost} /\ opened' \subseteq Channel
        /\ authorised' \in BOOLEAN /\ ready' \in BOOLEAN /\ frame' \in BOOLEAN
    BY <1>0, <1>18 DEF ConnectFails, StepThree, Close, channelVars
  <2> QED BY <1>0, <1>3, <2>1 DEF Step
<1>19. CASE Cancelled
  BY <1>0, <1>1, <1>19 DEF Cancelled, Step
<1>20. CASE UNCHANGED openVars
  BY <1>20, Tried DEF openVars, OpenTypeOK, Tried
<1> QED BY <1>4, <1>5, <1>6, <1>7, <1>8, <1>9, <1>10, <1>11, <1>12, <1>13, <1>14, <1>15, <1>16, <1>17,
        <1>18, <1>19, <1>20 DEF OpenNext

\* Every part's inductive invariant.
PartsInv ==
  /\ OpenTypeOK /\ Tried /\ RedoInv /\ SwitchInv /\ LoginInv /\ HeldInv /\ AskedInv /\ NavTyped

LEMMA PartsInit == StreamInit => PartsInv
<1> SUFFICES ASSUME StreamInit PROVE PartsInv
  OBVIOUS
<1>1. OpenInit /\ HealthInit /\ SwitchInit /\ LoginInit /\ InputInit /\ PlayInit /\ NavInit
  BY DEF StreamInit
<1>2. OpenTypeOK /\ Tried
  BY <1>1, OpenTypeInit DEF OpenInit, Tried
<1> QED BY <1>1, <1>2, RedoInvInit, SwitchInvInit, LoginInvInit, HeldInit, AskedInit, NavTypedInit DEF PartsInv

\* A step of one part is a step of that part and leaves the others alone.
LEMMA OnePartMoves ==
  ASSUME [OpenPart \/ HealthPart \/ SwitchPart \/ LoginPart \/ InputPart \/ PlayPart \/ NavPart]_streamVars
  PROVE  /\ [OpenNext]_openVars /\ [HealthNext]_healthVars /\ [SwitchNext]_switchVars
         /\ [LoginNext]_loginVars /\ [InputNext]_inputVars /\ [PlayNext]_playVars /\ [NavNext]_navVars
BY DEF OpenPart, HealthPart, SwitchPart, LoginPart, InputPart, PlayPart, NavPart, streamVars

LEMMA PartsStep ==
  ASSUME PartsInv,
         [OpenPart \/ HealthPart \/ SwitchPart \/ LoginPart \/ InputPart \/ PlayPart \/ NavPart]_streamVars
  PROVE  PartsInv'
<1>0. /\ [OpenNext]_openVars /\ [HealthNext]_healthVars /\ [SwitchNext]_switchVars
      /\ [LoginNext]_loginVars /\ [InputNext]_inputVars /\ [PlayNext]_playVars /\ [NavNext]_navVars
  BY OnePartMoves
<1> USE <1>0 DEF PartsInv
<1>1. OpenTypeOK' /\ Tried'
  BY OpenTypeStep
<1>2. RedoInv'
  BY RedoInvStep
<1>3. SwitchInv'
  BY SwitchInvStep
<1>4. LoginInv'
  BY LoginInvStep
<1>5. HeldInv'
  BY HeldInvStep
<1>6. AskedInv'
  BY AskedInvStep
<1>7. NavTyped'
  BY NavTypedStep
<1> QED BY <1>1, <1>2, <1>3, <1>4, <1>5, <1>6, <1>7

\* Every part of a stream keeps its types, for any numbers of consoles, streams, profiles,
\* logins, matches and presses.
THEOREM StreamsAreTyped == StreamSpec => []StreamTypeOK
<1>1. PartsInv => StreamTypeOK
  BY DEF PartsInv, RedoInv, SwitchInv, LoginInv, HeldInv, AskedInv, NavTyped, StreamTypeOK
<1> QED BY <1>1, PartsInit, PartsStep, PTL DEF StreamSpec
=============================================================================
