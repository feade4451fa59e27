-------------------------------- MODULE Backfill --------------------------------
(***************************************************************************)
(* How a message sent while the bridge is offline reaches the agent        *)
(* (mam.go, the replay window of xmpp.go, the recovery half of bridge.go). *)
(* The server archives every message; a room line sent while the bridge is *)
(* not in the room exists nowhere else, a direct one is also stored for a  *)
(* delayed push.  A launch drains both into the resumed session once its   *)
(* replay window closes; a reconnect walks the archive from a cursor kept  *)
(* in marker files.                                                        *)
(*                                                                         *)
(* Threads: the read loop, the startup drain (replayInbound) and one gap   *)
(* recovery (recoverReconnectGap) per reconnect.  backfillMu is held from  *)
(* the first query of a gap recovery to its end, and only tested by        *)
(* onXMPPConnected.  The account has mam on and was not spawned with a     *)
(* prompt.  Time is in whole seconds, the resolution of the markers and of *)
(* the archive's stamps; the server's clock is the bridge's.               *)
(*                                                                         *)
(* Handing a message over is atomic: what becomes of it is InboundDelivery.*)
(* `ever`, `twice`, `answered`, `again` and `excused` are history.         *)
(***************************************************************************)
EXTENDS Integers, SequencesExt, Subsequences

CONSTANTS
    Direct, Room, Own,  \* messages: the owner's, a room's to us, our own lines
    Scopes,             \* the archives walked: the owner's, then the room's if joined
    Gap,                \* gap recoveries
    PageMax,            \* mamPageMax, per archive
    Slack, Fresh, Reach,  \* replaySlack, directDelayFreshness, mamReconnectWindow
    MaxTime, MaxFaults  \* bounds: the clock; drops, refusals and process ends

Startup == "startup"    \* the thread of replayInbound
Message == Direct \union Room \union Own
By == {"loop", "drain", "gap"}  \* who hands messages over

ASSUME BackfillAssumption ==
    /\ Direct \intersect Room = {} /\ Own \intersect (Direct \union Room) = {}
    /\ Scopes \in {<<"direct">>, <<"direct", "room">>}
    /\ Scopes = <<"direct">> => Room \union Own = {}
    /\ Startup \notin Gap
    /\ PageMax \in Nat \ {0} /\ {Slack, Fresh, Reach, MaxTime, MaxFaults} \subseteq Nat

Thread == {Startup} \union Gap
Never == -1             \* an absent marker
Idle == [pc |-> "idle", since |-> Never, scope |-> 1, got |-> <<>>]

VARIABLES
    now, stamp, sent,           \* clock; when each message was sent; the archive
    offline,                    \* direct messages the server keeps for a push
    stream,                     \* what the server sent and the bridge has not read
    conn,                       \* "down", "up" (online), "serving" (read loop runs)
    running, connectedOnce,
    seen,                       \* stanza ids the process took in
    replay, start, buf,         \* replay window: state, start, replayBuf
    th,                         \* the recovery threads
    lastin, lastout, mamseen, swapstart,    \* marker files
    faults,                     \* the bound used
    handed, ever, twice,        \* handed over: by whom in this process; in any; twice
    answered, again,            \* handed over before the agent spoke; drained after that
    excused                     \* lost to a fault or to a cursor

server == <<sent, stamp, offline>>
process == <<running, connectedOnce, seen, replay, start, buf>>
markers == <<lastin, lastout, mamseen, swapstart>>
history == <<handed, ever, twice, answered, again, excused>>
vars == <<now, server, stream, conn, process, th, markers, faults, history>>

Later(s, t) == IF s > t THEN s ELSE t
AllHanded == UNION {handed[b] : b \in By}
Outstanding == (ToSet(sent) \ Own) \ ever
Held == ToSet(buf) \union UNION {ToSet(th[t].got) : t \in Thread}
\* What a marker written now leaves behind: sent in an earlier second, and
\* neither handed over nor in the hands of a recovery.
Behind == {m \in Outstanding \ Held : stamp[m] < now}

Init ==
    /\ now = 0 /\ stamp = [m \in Message |-> Never] /\ sent = <<>>
    /\ offline = {} /\ stream = <<>> /\ conn = "down"
    /\ running = FALSE /\ connectedOnce = FALSE /\ seen = {}
    /\ replay = "off" /\ start = Never /\ buf = <<>>
    /\ th = [t \in Thread |-> Idle]
    /\ lastout \in {Never, 0}
    /\ lastin = Never /\ mamseen = Never /\ swapstart = Never
    /\ faults = 0
    /\ handed = [b \in By |-> {}] /\ ever = {} /\ twice = {}
    /\ answered = {} /\ again = {} /\ excused = {}

(***************************************************************************)
(* The server.                                                             *)
(***************************************************************************)
Tick == now < MaxTime /\ now' = now + 1
        /\ UNCHANGED <<server, stream, conn, process, th, markers, faults, history>>

Live(m) == [kind |-> "live", msg |-> m]
Push(m) == [kind |-> "push", msg |-> m]
Answer(t, scope, page) == [kind |-> "answer", to |-> t, scope |-> scope, page |-> page]

\* Somebody sends m.  A server that takes us for connected delivers it, also
\* into a connection we will never read again.
SendMsg(m) ==
    /\ stamp[m] = Never /\ (m \in Own => conn # "down")
    /\ stamp' = [stamp EXCEPT ![m] = now] /\ sent' = Append(sent, m)
    /\ IF conn # "down"
       THEN stream' = Append(stream, Live(m)) /\ offline' = offline
       ELSE stream' = stream /\ offline' = offline \union ({m} \intersect Direct)
    /\ UNCHANGED <<now, conn, process, th, markers, faults, history>>

(***************************************************************************)
(* Launch and connections.                                                 *)
(***************************************************************************)
\* The window starts at the graceful stop, else at the last message we sent.
WindowStart == IF swapstart # Never THEN swapstart ELSE lastout

\* Mutant: the earlier of that and the last backfill.
MamSinceFor_Earlier(window) == IF window = Never \/ mamseen = Never \/ window < mamseen
                               THEN window ELSE mamseen
\* The archive is walked from the later of that and the last backfill.
MamSinceFor(window) == IF window = Never THEN Never ELSE Later(window, mamseen)

Launch ==
    /\ ~running /\ running' = TRUE
    /\ th' = [th EXCEPT ![Startup].since = MamSinceFor(WindowStart)]
    /\ start' = IF WindowStart = Never THEN now ELSE WindowStart
    /\ replay' = "armed" /\ swapstart' = Never
    /\ UNCHANGED <<now, server, stream, conn, connectedOnce, seen, buf,
                   lastin, lastout, mamseen, faults, history>>

Connect ==
    /\ running /\ conn = "down" /\ conn' = "up"
    \* The server pushes what it kept as soon as presence reaches it.
    /\ LET kept == Only(sent, offline)
       IN  stream' = [i \in DOMAIN kept |-> Push(kept[i])]
    /\ offline' = {}
    /\ replay' = IF replay = "armed" THEN "open" ELSE replay
    /\ UNCHANGED <<now, sent, stamp, running, connectedOnce, seen, start, buf,
                   th, markers, faults, history>>

Fault == faults < MaxFaults /\ faults' = faults + 1

\* Joining a room fails: the session is given up before onXMPPConnected, and
\* what was pushed into it goes with it.
ConnectFails ==
    /\ running /\ conn = "down" /\ Fault /\ offline' = {}
    /\ UNCHANGED <<now, sent, stamp, stream, conn, process, th, markers, history>>

\* backfillMu, as a gap recovery holds it.
Holds(t) == t \in Gap /\ th[t].pc \in {"fetch", "wait", "check", "hand", "mark"}
BackfillFree == \A t \in Gap : ~Holds(t)

OnFirstConnect ==
    ~connectedOnce /\ connectedOnce' = TRUE /\ th' = [th EXCEPT ![Startup].pc = "fetch"]

\* An answer to a query of t is on its way; its id is the query's own, so what is
\* left of an earlier recovery is no answer to the next one's.
Answering(t) == \E i \in ToSet(stream) : i.kind = "answer" /\ i.to = t

OnReconnect ==
    /\ connectedOnce /\ UNCHANGED connectedOnce
    /\ \E g \in Gap : th[g] = Idle /\ ~Answering(g) /\ th' = [th EXCEPT ![g].pc = "begin"]

\* onXMPPConnected; the read loop starts when it returns.
OnXMPPConnected ==
    /\ conn = "up" /\ BackfillFree /\ conn' = "serving"
    /\ OnFirstConnect \/ OnReconnect
    /\ UNCHANGED <<now, server, stream, running, seen, replay, start, buf,
                   markers, faults, history>>

Drop ==
    /\ conn = "serving" /\ Fault /\ conn' = "down" /\ stream' = <<>>
    /\ UNCHANGED <<now, server, process, th, markers, history>>

GraceEnds ==
    /\ replay = "open" /\ replay' = "closed"
    /\ UNCHANGED <<now, server, stream, conn, running, connectedOnce, seen, start,
                   buf, th, markers, faults, history>>

\* The process ends, of itself or killed; only the first records when.  What it
\* had not handed over is lost to the next launch if a marker is past it.
Ends(graceful) ==
    /\ running /\ Fault
    /\ running' = FALSE /\ connectedOnce' = FALSE /\ seen' = {} /\ replay' = "off"
    /\ start' = Never /\ buf' = <<>> /\ th' = [t \in Thread |-> Idle]
    /\ conn' = "down" /\ stream' = <<>> /\ handed' = [b \in By |-> {}]
    /\ swapstart' = IF graceful THEN now ELSE swapstart
    /\ LET passed == Later(IF graceful THEN now ELSE lastout, mamseen)
       IN  excused' = excused \union {m \in Outstanding : stamp[m] < passed}
    /\ UNCHANGED <<now, server, lastin, lastout, mamseen, ever, twice, answered, again>>
Stop == Ends(TRUE)
Crash == Ends(FALSE)

\* The agent sends something (markOutbound).
Speak ==
    /\ running /\ conn # "down" /\ lastout # now /\ lastout' = now
    /\ answered' = answered \union {m \in AllHanded : stamp[m] < now}
    /\ UNCHANGED <<now, server, stream, conn, process, th, lastin, mamseen, swapstart,
                   faults, handed, ever, twice, again, excused>>

(***************************************************************************)
(* The read loop.                                                          *)
(***************************************************************************)
\* m goes to the agent, and the last-inbound cursor moves to now.
HandOver(m, by) ==
    /\ seen' = seen \union {m} /\ lastin' = now
    /\ handed' = [handed EXCEPT ![by] = @ \union {m}] /\ ever' = ever \union {m}
    /\ twice' = twice \union ({m} \intersect handed[by])
    /\ excused' = excused \union (Behind \ {m})

\* A message the stream delivers, unless we wrote it or the process took it in.
DispatchFresh(m) ==
    IF m \in seen \union Own THEN UNCHANGED <<seen, lastin, handed, ever, twice, excused>>
                             ELSE HandOver(m, "loop")

InWindow(m) == replay = "open" /\ stamp[m] + Slack >= start
Recent(m) == stamp[m] >= now - Fresh

BufferReplay(s) == buf \o Only(s, Message \ ToSet(buf))

\* A delayed message is kept for the drain, delivered if recent, else dropped.
DispatchDelayed(m) ==
    IF InWindow(m)
    THEN buf' = BufferReplay(<<m>>) /\ UNCHANGED <<seen, lastin, handed, ever, twice, excused>>
    ELSE /\ UNCHANGED buf
         /\ IF Recent(m) THEN DispatchFresh(m)
                         ELSE UNCHANGED <<seen, lastin, handed, ever, twice, excused>>

\* Mutant: the scope is counted on past the last one.
NextScope_PastLast(t, got) ==
    [th[t] EXCEPT !.got = got, !.scope = @ + 1,
                  !.pc = IF th[t].scope < Len(Scopes) THEN "fetch"
                         ELSE IF t = Startup THEN "drain" ELSE "check"]

NextScope(t, got) ==
    [th[t] EXCEPT !.got = got,
                  !.scope = IF @ < Len(Scopes) THEN @ + 1 ELSE @,
                  !.pc = IF th[t].scope < Len(Scopes) THEN "fetch"
                         ELSE IF t = Startup THEN "drain" ELSE "check"]

\* An archive's answer goes to the query that asked for it, if it still waits,
\* without our own lines.
Collect(i) ==
    th' = IF th[i.to].pc = "wait" /\ th[i.to].scope = i.scope
          THEN [th EXCEPT ![i.to] = NextScope(i.to, @.got \o Only(i.page, Direct \union Room))]
          ELSE th

Receive ==
    /\ conn = "serving" /\ stream # <<>> /\ stream' = Tail(stream)
    /\ LET i == Head(stream) IN
       \/ i.kind = "live" /\ DispatchFresh(i.msg) /\ UNCHANGED <<buf, th>>
       \/ i.kind = "push" /\ DispatchDelayed(i.msg) /\ UNCHANGED th
       \/ /\ i.kind = "answer" /\ Collect(i)
          /\ UNCHANGED <<buf, seen, lastin, handed, ever, twice, excused>>
    /\ UNCHANGED <<now, server, conn, running, connectedOnce, replay, start,
                   lastout, mamseen, swapstart, faults, answered, again>>

(***************************************************************************)
(* The recoveries.                                                         *)
(***************************************************************************)
Set(t, r) == th' = [th EXCEPT ![t] = r]

\* The last message handled or the last backfill, at most Reach back.
ReconnectSince ==
    IF Later(lastin, mamseen) = Never THEN Never
    ELSE Later(Later(lastin, mamseen), now - Reach)

\* A gap recovery reads its cursor before it takes the lock.
GapBegins(g) ==
    /\ th[g].pc = "begin"
    /\ IF ReconnectSince = Never
       THEN Set(g, Idle) /\ excused' = excused \union Outstanding
       ELSE /\ Set(g, [th[g] EXCEPT !.pc = "lock", !.since = ReconnectSince])
            /\ excused' = excused \union {m \in Outstanding : stamp[m] < now - Reach}
    /\ UNCHANGED <<now, server, stream, conn, process, markers, faults,
                   handed, ever, twice, answered, again>>

GapLocks(g) ==
    /\ th[g].pc = "lock" /\ BackfillFree /\ Set(g, [th[g] EXCEPT !.pc = "fetch"])
    /\ UNCHANGED <<now, server, stream, conn, process, markers, faults, history>>

\* A first launch has no window: no archive is walked, the clock starts.
SeedMarker ==
    /\ th[Startup].pc = "fetch" /\ th[Startup].since = Never
    /\ mamseen' = now /\ Set(Startup, [th[Startup] EXCEPT !.pc = "drain"])
    /\ excused' = excused \union Outstanding
    /\ UNCHANGED <<now, server, stream, conn, process, lastin, lastout, swapstart, faults,
                   handed, ever, twice, answered, again>>

InScope(t) == IF Scopes[th[t].scope] = "direct" THEN Direct ELSE Room \union Own
\* Mutant: the query's start is exclusive.
InRange_Exclusive(t) == Only(sent, {m \in InScope(t) : stamp[m] > th[t].since})
InRange(t) == Only(sent, {m \in InScope(t) : stamp[m] >= th[t].since})
\* The newest page, oldest first.
Page(t) == SubSeq(InRange(t), Later(1, Len(InRange(t)) - PageMax + 1), Len(InRange(t)))

\* The query goes out and the server answers it.
Fetch(t) ==
    /\ th[t].pc = "fetch" /\ th[t].since # Never /\ conn # "down"
    /\ Set(t, [th[t] EXCEPT !.pc = "wait"])
    /\ stream' = Append(stream, Answer(t, th[t].scope, Page(t)))
    /\ excused' = excused \union (Outstanding \intersect (ToSet(InRange(t)) \ ToSet(Page(t))))
    /\ UNCHANGED <<now, server, conn, process, markers, faults,
                   handed, ever, twice, answered, again>>

Answerable(t) == conn = "serving" /\ Answering(t)

\* A failed query is skipped, and the next archive tried.
Skip(t) ==
    /\ Set(t, NextScope(t, th[t].got))
    /\ excused' = excused \union (Outstanding \intersect ToSet(InRange(t)))
    /\ UNCHANGED <<now, server, stream, conn, process, markers,
                   handed, ever, twice, answered, again>>

\* Mutant: a query has no time-out.
QueryFails_Untimed(t) == th[t].since # Never /\ th[t].pc = "fetch" /\ conn = "down"

\* It cannot be sent, or its connection is gone or not read and mamTimeout ends it.
QueryFails(t) ==
    /\ th[t].since # Never
    /\ \/ th[t].pc = "fetch" /\ conn = "down"
       \/ th[t].pc = "wait" /\ ~Answerable(t)

FetchFails(t) == QueryFails(t) /\ Skip(t) /\ UNCHANGED faults

FetchRefused(t) == th[t].pc = "wait" /\ Answerable(t) /\ Fault /\ Skip(t)

\* sort.SliceStable: by stamp, and by position among equal stamps.
InOrder(s) ==
    Listed(s, [i \in DOMAIN s |-> {j \in DOMAIN s :
        stamp[s[j]] < stamp[s[i]] \/ (stamp[s[j]] = stamp[s[i]] /\ j < i)}])

\* What was fetched joins the delayed pushes; DrainReplay waits for the grace
\* period and closes the window.
Drain ==
    /\ th[Startup].pc = "drain" /\ replay = "closed" /\ replay' = "off" /\ buf' = <<>>
    /\ Set(Startup, [th[Startup] EXCEPT !.pc = "check", !.got = BufferReplay(@)])
    /\ UNCHANGED <<now, server, stream, conn, running, connectedOnce, seen, start,
                   markers, faults, history>>

\* Mutant: what the process took in meanwhile is not left out.
Unseen_All(s) == s
Unseen(s) == Only(s, Message \ seen)

\* deliverRecovered drops what the process has seen and announces the rest, which
\* counts as a message sent.
Check(t) ==
    /\ th[t].pc = "check"
    /\ LET fresh == Unseen(InOrder(th[t].got)) IN
       /\ Set(t, [th[t] EXCEPT !.got = fresh, !.pc = IF fresh = <<>> THEN "mark" ELSE "hand"])
       /\ lastout' = IF fresh # <<>> /\ conn # "down" THEN now ELSE lastout
    /\ UNCHANGED <<now, server, stream, conn, process, lastin, mamseen, swapstart, faults, history>>

Hand(t) ==
    /\ th[t].pc = "hand"
    /\ LET m == Head(th[t].got) rest == Tail(th[t].got) IN
       /\ HandOver(m, IF t = Startup THEN "drain" ELSE "gap")
       /\ Set(t, [th[t] EXCEPT !.got = rest, !.pc = IF rest = <<>> THEN "mark" ELSE "hand"])
       /\ again' = IF t = Startup THEN again \union (({m} \intersect answered) \ AllHanded) ELSE again
    /\ UNCHANGED <<now, server, stream, conn, running, connectedOnce, replay, start, buf,
                   lastout, mamseen, swapstart, faults, answered>>

\* The backfill is recorded as done, whatever became of its queries.
Mark(t) ==
    /\ th[t].pc = "mark" /\ mamseen' = now /\ Set(t, Idle)
    /\ excused' = excused \union Behind
    /\ UNCHANGED <<now, server, stream, conn, process, lastin, lastout, swapstart, faults,
                   handed, ever, twice, answered, again>>

Recovers(t) == Fetch(t) \/ FetchFails(t) \/ Check(t) \/ Hand(t) \/ Mark(t)
Next ==
    \/ Tick \/ Launch \/ Connect \/ ConnectFails \/ OnXMPPConnected \/ Drop \/ GraceEnds
    \/ Stop \/ Crash \/ Speak \/ Receive \/ SeedMarker \/ Drain
    \/ \E m \in Message : SendMsg(m)
    \/ \E g \in Gap : GapBegins(g) \/ GapLocks(g)
    \/ \E t \in Thread : Recovers(t) \/ FetchRefused(t)
Spec == Init /\ [][Next]_vars

-----------------------------------------------------------------------------

ThreadState ==
    [pc : {"idle", "begin", "lock", "fetch", "wait", "drain", "check", "hand", "mark"},
     since : Int, scope : DOMAIN Scopes, got : Seq(Message)]

Item == [kind : {"live", "push"}, msg : Message]
        \union [kind : {"answer"}, to : Thread, scope : DOMAIN Scopes, page : Seq(Message)]

\* Every variable has its type; the markers are the times xmpp.go and config.go write.
TypeOK ==
    /\ now \in 0..MaxTime /\ stamp \in [Message -> Int] /\ sent \in Seq(Message)
    /\ offline \subseteq Direct /\ stream \in Seq(Item) /\ conn \in {"down", "up", "serving"}
    /\ running \in BOOLEAN /\ connectedOnce \in BOOLEAN /\ faults \in 0..MaxFaults
    /\ replay \in {"off", "armed", "open", "closed"} /\ buf \in Seq(Message)
    /\ th \in [Thread -> ThreadState]
    /\ lastin \in Int /\ lastout \in Int /\ mamseen \in Int
    /\ swapstart \in Int /\ start \in Int
    /\ handed \in [By -> SUBSET Message]
    /\ seen \subseteq Message /\ ever \subseteq Message /\ twice \subseteq Message
    /\ answered \subseteq Message /\ again \subseteq Message /\ excused \subseteq Message

\* A process hands no message over twice, whatever copies of it the live stream,
\* the delayed push and the archive bring, unless the startup drain and a gap
\* recovery each do (xmpp.go:1387-1430, bridge.go:4614-4630).
HandedOnce ==
    twice = {} /\ handed["loop"] \intersect (handed["drain"] \union handed["gap"]) = {}

\* Once nothing is under way, every message sent has been handed over, unless a
\* query for it failed or cut it off, a marker written for another message or a
\* backfill passed it, it was too old, or the process ended with a marker past
\* it (bridge.go:4508-4545, 4650-4668).
NothingLostSilently ==
    /\ running /\ conn = "serving" /\ stream = <<>> /\ replay = "off"
    /\ \A t \in Thread : th[t].pc = "idle"
    => Outstanding \subseteq excused

\* The startup drain brings back nothing an earlier process had been given before
\* it last spoke: a replayed !new would reset the session (mam.go:289-303).
AnsweredStaysAnswered == again = {}

\* t has a step of its own; or its answer is in the stream of the read loop; or
\* the grace period it waits for runs or is over.
CanGo(t) ==
    \/ th[t].pc \in {"begin", "check", "mark"} \/ (th[t].pc = "hand" /\ th[t].got # <<>>)
    \/ th[t].pc = "lock" /\ BackfillFree
    \/ th[t].pc = "fetch" /\ IF th[t].since = Never THEN t = Startup ELSE conn # "down"
    \/ th[t].pc = "wait" /\ Answerable(t)
    \/ QueryFails(t)
    \/ th[t].pc = "drain" /\ replay \in {"open", "closed"}

LockComesFree == BackfillFree \/ \E g \in Gap : Holds(g) /\ CanGo(g)

\* A connection waits in onXMPPConnected for the recovery that holds backfillMu,
\* and that recovery for answers nobody reads meanwhile: whatever waits, it or
\* what it waits for can go on (bridge.go:4477, 4528-4533).
NoStandstill ==
    /\ conn = "up" => LockComesFree
    /\ \A t \in Thread : th[t].pc # "idle" =>
         CanGo(t) \/ (th[t].pc = "lock" /\ LockComesFree)

\* "a crash mid-delivery re-fetches instead of losing the backlog"
\* (bridge.go:4614-4615): the next launch would query from no later than what a
\* recovery has still to hand over.
CrashRefetches ==
    \A t \in Thread : th[t].pc = "hand" /\ th[t].since # Never /\ WindowStart # Never =>
        \A m \in ToSet(th[t].got) : MamSinceFor(WindowStart) <= stamp[m]
=============================================================================
