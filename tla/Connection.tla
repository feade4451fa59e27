------------------------------- MODULE Connection -------------------------------
(***************************************************************************)
(* The XMPP connection and what it shows of the agent (xmpp.go, the        *)
(* presence half of bridge.go): dial and serve, keepalive and kick, the    *)
(* room's join and its confirmation, the presence held and announced, the  *)
(* idle clock.                                                             *)
(*                                                                         *)
(* Threads that announce: "events" (pi's events), "session" (whoever holds *)
(* sessionTransitionMu: an inbound message or idleTick), serve, and the    *)
(* keepalive when it joins again.  Every lock region is a step; a write is *)
(* a step of its own, on the session captured before it.  One room; the    *)
(* error room is joined alike and never gets presence.  pingInterval is    *)
(* positive and resetSessionOnAway off (it is in SessionTransition).       *)
(* A session is captured and written to in one step while it works.        *)
(*                                                                         *)
(* Left out: kick's debounce of a second.  A redial waits as long, so a    *)
(* kick it drops could only close what is closed.  So are the labels       *)
(* announced for a prompt before its run starts; whether the bridge is     *)
(* right that a run streams is the subject of RunLifecycle.                *)
(*                                                                         *)
(* `raced`, `unheard` and `evicted` are history.                           *)
(***************************************************************************)
EXTENDS Naturals

CONSTANTS MaxConn, MaxChange, MaxFaults  \* bounds: connections, occasions, faults

ASSUME ConnectionAssumption == {MaxConn, MaxChange, MaxFaults} \subseteq Nat

Writer == {"events", "session"}
Busy == {"working", "background"}                   \* dnd: a run's label, a count's
Presence == Busy \union {"startup", "listening", "away"}
Nothing == "nothing"                                \* no presence shown
Work == {"shells", "children"}                      \* background processes, subagents

VARIABLES
    sid, sock,          \* the connection, counted; "good", "wedged", "closed"
    pc, due,            \* serve: where it is, the presence it read last
    online,
    held,               \* show and status
    nick, echo,         \* selfNick is set; a 110 presence is on its way
    th,                 \* the announcing threads: where, what, on which session
    ka,                 \* the keepalive
    streaming, bg, idle, awayAnnounced,
    roster, room, member,   \* what the roster and the room show; how we are in it
    changes, faults,        \* bounds used
    raced, unheard, evicted

net == <<sid, sock, pc, due, online>>
agent == <<streaming, bg, idle, awayAnnounced>>
shown == <<roster, room, member>>
bounds == <<changes, faults>>
history == <<raced, unheard, evicted>>
vars == <<net, held, nick, echo, th, ka, agent, shown, bounds, history>>

Rest == [pc |-> "rest", val |-> Nothing, on |-> 0]

Init ==
    /\ sid = 0 /\ sock = "closed" /\ pc = "down" /\ due = Nothing
    /\ online = FALSE /\ held = "startup" /\ nick = FALSE /\ echo = FALSE
    /\ th = [t \in Writer |-> Rest] /\ ka = Rest
    /\ streaming = FALSE /\ bg = {} /\ idle = "off" /\ awayAnnounced = FALSE
    /\ roster = Nothing /\ room = Nothing /\ member = "out"
    /\ changes = 0 /\ faults = 0
    /\ raced = FALSE /\ unheard = FALSE /\ evicted = FALSE

\* Somebody else has a presence in hand that it has not finished announcing.
InHand(who) ==
    \/ \E t \in Writer \ {who} : th[t].pc # "rest"
    \/ who # "serve" /\ pc \in {"announce", "read", "join"}
    \/ who # "keepalive" /\ ka.pc = "join"

(***************************************************************************)
(* Closing, and writing to a session that is not there any more.           *)
(***************************************************************************)
Works(s) == s = sid /\ sock = "good"

\* Mutant: the stream is closed, the transport under it is not.
HardClose_Graceful(s) == IF s = sid /\ sock = "good" THEN "closed" ELSE sock
\* The transport goes, whatever the graceful close did: the read loop unwinds.
HardClose(s) == IF s = sid THEN "closed" ELSE sock

\* kick closes the session of now, not the one the write failed on.
Kick == sock' = IF online THEN HardClose(sid) ELSE sock

\* A write that fails on the transport kicks; one the library refuses does not.
WriteFails(s) == ~Works(s) /\ (Kick \/ sock' = sock)

(***************************************************************************)
(* serve.                                                                  *)
(***************************************************************************)
\* Mutant: every connection announces the startup label (issue #130).
ReconnectPresence_Startup(p) == "startup"
\* away and dnd are facts about the agent and survive the socket.
ReconnectPresence(p) == IF p \in Busy \union {"away"} THEN p ELSE "startup"

\* Mutant: what the last connection confirmed is kept.
Connect_KeepsNick ==
    /\ pc = "down" /\ sid < MaxConn
    /\ sid' = sid + 1 /\ sock' = "good" /\ online' = TRUE
    /\ held' = ReconnectPresence(held) /\ due' = held' /\ pc' = "announce"
    /\ nick' = nick /\ echo' = FALSE
    /\ roster' = Nothing /\ room' = Nothing /\ member' = "out"
    /\ raced' = (raced \/ InHand("serve")) /\ unheard' = FALSE /\ evicted' = FALSE
    /\ UNCHANGED <<th, ka, agent, bounds>>
Connect ==
    /\ pc = "down" /\ sid < MaxConn
    /\ sid' = sid + 1 /\ sock' = "good" /\ online' = TRUE
    /\ held' = ReconnectPresence(held) /\ due' = held' /\ pc' = "announce"
    /\ nick' = FALSE /\ echo' = FALSE
    /\ roster' = Nothing /\ room' = Nothing /\ member' = "out"
    /\ raced' = (raced \/ InHand("serve")) /\ unheard' = FALSE /\ evicted' = FALSE
    /\ UNCHANGED <<th, ka, agent, bounds>>

\* Mutant: the session that ended stays the bridge's.
SetOffline_StaysOnline == online' = online /\ sock' = "closed" /\ pc' = "down" /\ due' = Nothing
SetOffline == online' = FALSE /\ sock' = "closed" /\ pc' = "down" /\ due' = Nothing

Announce ==
    /\ pc = "announce" /\ Works(sid)
    /\ roster' = due /\ pc' = "read" /\ due' = Nothing
    /\ UNCHANGED <<sid, sock, online, held, nick, echo, th, ka, agent, room, member, bounds, history>>

\* joinRoom takes the presence of the moment along ...
JoinReads ==
    /\ pc = "read" /\ due' = held /\ pc' = "join"
    /\ UNCHANGED <<sid, sock, online, held, nick, echo, th, ka, agent, shown, bounds, history>>

\* ... into the room, which answers with our own presence and status code 110.
Enter(p) == room' = p /\ member' = "full" /\ echo' = TRUE
Join ==
    /\ pc = "join" /\ Works(sid) /\ Enter(due)
    /\ pc' = "serving" /\ due' = Nothing
    /\ UNCHANGED <<sid, sock, online, held, nick, th, ka, agent, roster, bounds, history>>

SetupFails ==
    /\ pc \in {"announce", "join"} /\ ~Works(sid) /\ SetOffline
    /\ UNCHANGED <<sid, held, nick, echo, th, ka, agent, shown, bounds, history>>

\* The read loop takes in our own presence: the join is confirmed.
HandlePresence ==
    /\ pc = "serving" /\ sock # "closed" /\ echo
    /\ echo' = FALSE /\ nick' = TRUE
    /\ UNCHANGED <<net, held, th, ka, agent, shown, bounds, history>>

ServeReturns ==
    /\ pc = "serving" /\ sock = "closed" /\ SetOffline
    /\ UNCHANGED <<sid, held, nick, echo, th, ka, agent, shown, bounds, history>>

Serve == Connect \/ Announce \/ JoinReads \/ Join \/ SetupFails \/ HandlePresence \/ ServeReturns

(***************************************************************************)
(* keepalive, one per connection, pings all the time: an answered ping     *)
(* changes nothing and is left out.  The ping in flight when a connection  *)
(* ends is cancelled, which may show late and is a failure as any other.   *)
(***************************************************************************)
\* Mutant: the session of now is closed, not the keepalive's own.
PingFails_Current ==
    \E s \in 1..sid :
        /\ ~Works(s) /\ (s = sid => pc = "serving") /\ sock' = HardClose(sid)
        /\ UNCHANGED <<sid, pc, due, online, held, nick, echo, th, ka, agent, shown, bounds, history>>
PingFails ==
    \E s \in 1..sid :
        /\ ~Works(s) /\ (s = sid => pc = "serving") /\ sock' = HardClose(s)
        /\ UNCHANGED <<sid, pc, due, online, held, nick, echo, th, ka, agent, shown, bounds, history>>

\* The server answers, the room does not know us: it is joined again.
SelfPing ==
    /\ pc = "serving" /\ Works(sid) /\ member = "out"
    /\ ka = Rest /\ ka' = [Rest EXCEPT !.pc = "rejoin"]
    /\ UNCHANGED <<net, held, nick, echo, th, agent, shown, bounds, history>>

RejoinReads ==
    /\ ka.pc = "rejoin"
    /\ ka' = IF online THEN [pc |-> "join", val |-> held, on |-> sid] ELSE Rest
    /\ raced' = (raced \/ (online /\ InHand("keepalive")))
    /\ UNCHANGED <<net, held, nick, echo, th, agent, shown, bounds, unheard, evicted>>

Rejoin ==
    /\ ka.pc = "join" /\ Works(ka.on)
    /\ Enter(ka.val) /\ ka' = Rest /\ unheard' = FALSE
    /\ UNCHANGED <<net, held, nick, th, agent, roster, bounds, raced, evicted>>

RejoinFails ==
    /\ ka.pc = "join" /\ WriteFails(ka.on) /\ ka' = Rest
    /\ UNCHANGED <<sid, pc, due, online, held, nick, echo, th, agent, shown, bounds, history>>

Keepalive == SelfPing \/ PingFails \/ RejoinReads \/ Rejoin \/ RejoinFails

(***************************************************************************)
(* SetPresence: hold it, then announce it to the roster and to the rooms   *)
(* whose join is confirmed.                                                *)
(***************************************************************************)
Decide(t, p) ==
    /\ th[t] = Rest
    /\ th' = [th EXCEPT ![t] = [pc |-> "set", val |-> p, on |-> 0]]
    /\ raced' = (InHand(t) \/ (raced /\ p = held))

SetPresence(t) ==
    /\ th[t].pc = "set" /\ held' = th[t].val
    /\ th' = [th EXCEPT ![t] = IF @.val = held \/ ~online THEN Rest ELSE [@ EXCEPT !.pc = "broadcast"]]
    /\ UNCHANGED <<net, nick, echo, ka, agent, shown, bounds, history>>

\* Broadcast on the session of now; one that does not work keeps the writer
\* until the write fails, which may be after the next one is up.
Broadcast(t) ==
    /\ th[t].pc = "broadcast"
    /\ IF ~online THEN th' = [th EXCEPT ![t] = Rest] /\ roster' = roster
       ELSE IF sock = "good"
       THEN th' = [th EXCEPT ![t].pc = "direct", ![t].on = sid] /\ roster' = th[t].val
       ELSE th' = [th EXCEPT ![t].pc = "blocked", ![t].on = sid] /\ roster' = roster
    /\ UNCHANGED <<net, held, nick, echo, ka, agent, room, member, bounds, history>>

BroadcastFails(t) ==
    /\ th[t].pc = "blocked" /\ WriteFails(th[t].on)
    /\ th' = [th EXCEPT ![t].pc = "direct"]
    /\ UNCHANGED <<sid, pc, due, online, held, nick, echo, ka, agent, shown, bounds, history>>

\* No room has confirmed us: nothing is directed.
Undirected(t) ==
    /\ th[t].pc = "direct" /\ ~nick /\ th' = [th EXCEPT ![t] = Rest]
    /\ unheard' = (unheard \/ pc \in {"join", "serving"})
    /\ UNCHANGED <<net, held, nick, echo, ka, agent, shown, bounds, raced, evicted>>

\* Mutant: a change reaches the roster only.
Direct_RosterOnly(t) ==
    /\ th[t].pc = "direct" /\ nick /\ th' = [th EXCEPT ![t] = Rest]
    /\ UNCHANGED <<net, held, nick, echo, ka, agent, shown, bounds, history>>
\* Presence for an occupant; for a room we are not in it is a legacy join,
\* which the room may grant or refuse.
Direct(t) ==
    /\ th[t].pc = "direct" /\ nick /\ th' = [th EXCEPT ![t] = Rest]
    /\ IF Works(th[t].on)
       THEN /\ sock' = sock /\ unheard' = FALSE
            /\ IF member = "out"
               THEN \/ room' = th[t].val /\ member' = "legacy"
                    \/ room' = room /\ member' = member
               ELSE room' = th[t].val /\ member' = member
       ELSE WriteFails(th[t].on) /\ UNCHANGED <<room, member, unheard>>
    /\ UNCHANGED <<sid, pc, due, online, held, nick, echo, ka, agent, roster, bounds, raced, evicted>>

Announcing(t) == SetPresence(t) \/ Broadcast(t) \/ BroadcastFails(t) \/ Undirected(t) \/ Direct(t)

(***************************************************************************)
(* What the bridge announces.                                              *)
(***************************************************************************)
Occasion == changes < MaxChange /\ changes' = changes + 1 /\ UNCHANGED faults
Unannounced == UNCHANGED <<net, held, nick, echo, ka, shown, unheard, evicted>>

AgentStart ==
    /\ Occasion /\ ~streaming /\ Decide("events", "working")
    /\ streaming' = TRUE /\ idle' = "off" /\ awayAnnounced' = FALSE
    /\ UNCHANGED bg /\ Unannounced

SettledPresence(work) == IF work # {} THEN "background" ELSE "listening"

\* announceSettledPresence on a clock that was just set: children stop it again.
AnnounceSettled(t, work, clock, announced) ==
    /\ Decide(t, SettledPresence(work))
    /\ idle' = IF "children" \in work THEN "off" ELSE clock
    /\ awayAnnounced' = (announced /\ "children" \notin work)

\* The clock is armed, and the presence goes back to what still works.
AgentSettled ==
    /\ Occasion /\ streaming /\ streaming' = FALSE
    /\ AnnounceSettled("events", bg, "armed", awayAnnounced)
    /\ UNCHANGED bg /\ Unannounced

\* A relayed count starts or ends; while a run streams it is only noted.
Relayed(kind) ==
    /\ Occasion /\ th["events"] = Rest
    /\ bg' = IF kind \in bg THEN bg \ {kind} ELSE bg \union {kind}
    /\ IF streaming
       THEN UNCHANGED <<th, raced, idle, awayAnnounced>>
       ELSE AnnounceSettled("events", bg', IF bg' = {} THEN "armed" ELSE idle, awayAnnounced)
    /\ UNCHANGED streaming /\ Unannounced

\* onInbound: back from away, the clock restarts.
OnInbound ==
    /\ Occasion /\ th["session"] = Rest
    /\ IF streaming
       THEN idle' = "armed" /\ awayAnnounced' = FALSE /\ UNCHANGED <<th, raced>>
       ELSE AnnounceSettled("session", bg, "armed", FALSE)
    /\ UNCHANGED <<streaming, bg>> /\ Unannounced

\* idleAwayTimeout passes.
Elapse ==
    /\ idle = "armed" /\ idle' = "past"
    /\ UNCHANGED <<net, held, nick, echo, th, ka, streaming, bg, awayAnnounced, shown, bounds, history>>

Away == idle = "past" /\ ~streaming /\ bg = {} /\ ~awayAnnounced
IdleTick ==
    /\ Away /\ Decide("session", "away") /\ awayAnnounced' = TRUE
    /\ UNCHANGED <<streaming, bg, idle, bounds>> /\ Unannounced

(***************************************************************************)
(* The network, the server and the room.                                   *)
(***************************************************************************)
Fault == faults < MaxFaults /\ faults' = faults + 1 /\ UNCHANGED changes

\* Our writes are not acknowledged any more, the read side stays open.
Wedge ==
    /\ Fault /\ sock = "good" /\ sock' = "wedged"
    /\ UNCHANGED <<sid, pc, due, online, held, nick, echo, th, ka, agent, shown, history>>

\* The server ends the stream, or the system the socket.
Lost ==
    /\ Fault /\ sock # "closed" /\ sock' = "closed"
    /\ UNCHANGED <<sid, pc, due, online, held, nick, echo, th, ka, agent, shown, history>>

\* The room drops us.  If it says so, the presence carries a 110 as well: to
\* HandlePresence our nick stays confirmed.
Evict ==
    /\ Fault /\ sock = "good" /\ member # "out"
    /\ member' = "out" /\ room' = Nothing /\ evicted' = TRUE
    /\ UNCHANGED <<net, held, nick, echo, th, ka, agent, roster, raced, unheard>>

Environment == Wedge \/ Lost \/ Evict
Bridge == AgentStart \/ AgentSettled \/ OnInbound \/ \E k \in Work : Relayed(k)

Own == Serve \/ Keepalive \/ Elapse \/ IdleTick \/ \E t \in Writer : Announcing(t)
Next == Own \/ Bridge \/ Environment

\* The bridge's own threads go on.  None of them can keep the others waiting
\* for ever, so one condition for all is enough.
Fairness == WF_vars(Own)

Spec == Init /\ [][Next]_vars /\ Fairness

(***************************************************************************)
(* Properties.                                                             *)
(***************************************************************************)
Thread == [pc : {"rest", "set", "broadcast", "blocked", "direct", "rejoin", "join"},
           val : Presence \union {Nothing}, on : 0..MaxConn]

\* Every variable has its type; the bridge has a session exactly while serve has
\* one, and serve a presence in hand exactly where it read one.
TypeOK ==
    /\ sid \in 0..MaxConn /\ sock \in {"good", "wedged", "closed"}
    /\ pc \in {"down", "announce", "read", "join", "serving"} /\ (online <=> pc # "down")
    /\ due \in Presence \union {Nothing} /\ (due # Nothing <=> pc \in {"announce", "join"})
    /\ {online, nick, echo, streaming, awayAnnounced, raced, unheard, evicted} \subseteq BOOLEAN
    /\ held \in Presence /\ bg \subseteq Work /\ idle \in {"off", "armed", "past"}
    /\ th \in [Writer -> Thread] /\ ka \in Thread
    /\ {roster, room} \subseteq Presence \union {Nothing} /\ member \in {"out", "full", "legacy"}
    /\ changes \in 0..MaxChange /\ faults \in 0..MaxFaults

AtRest == pc = "serving" /\ sock = "good" /\ ka.pc # "join" /\ \A t \in Writer : th[t] = Rest

\* On a working connection with nothing in hand, the roster and a room we
\* joined show the presence the bridge holds, which is what SetPresence drops
\* a repetition on; unless two announcements overlapped, or the presence
\* changed between joinRoom and its confirmation (xmpp.go 2141 says nothing is
\* lost there).
ShownIsHeld ==
    AtRest /\ ~raced => /\ roster = held
                        /\ (member # "out" /\ ~unheard => room = held)

\* With nothing in hand the presence held is busy while a run streams or
\* background work is counted, also across a reconnect, and away only once the
\* idle clock has run out; unless two announcements overlapped.
HeldIsTrue ==
    (\A t \in Writer : th[t] = Rest) /\ ~raced
    => /\ (streaming \/ bg # {}) => held \in Busy
       /\ (held = "away") => (idle = "past")

\* Presence reaches a room we are not in, which is the legacy join that keeps
\* the owner from being recognised, only where the room dropped us on this
\* connection: selfNick outlives an eviction.
ProperJoin == member = "legacy" => evicted

\* Some writer is about to learn that the session it holds is gone.
StaleWriter == \/ \E t \in Writer : th[t].pc \in {"blocked", "direct"} /\ th[t].on < sid
               \/ ka.pc = "join" /\ ka.on < sid
\* The bridge does not close a working connection; only the write of a thread
\* that still holds an earlier one can, as kick closes the session of now.
HealthyIsKept ==
    [][(sock = "good" /\ sock' = "closed") => (StaleWriter \/ faults' > faults)]_vars

\* A connection that stopped working, also one whose read side stays open, is
\* replaced, and a room that dropped us is joined again.
Repaired ==
    (pc = "serving" /\ (sock # "good" \/ member = "out"))
    ~> ((sock = "good" /\ member # "out") \/ sid = MaxConn)
=================================================================================
