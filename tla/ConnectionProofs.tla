--------------------------- MODULE ConnectionProofs ---------------------------
(***************************************************************************)
(* Proofs about Connection, for every number of connections, of occasions  *)
(* to announce something and of faults.                                    *)
(***************************************************************************)
EXTENDS Connection, Integers, TLAPS

-----------------------------------------------------------------------------
(* The inductive invariant.                                                  *)

\* The parts of TypeOK, by what they are about.
NetTypes ==
    /\ sid \in 0..MaxConn /\ sock \in {"good", "wedged", "closed"}
    /\ pc \in {"down", "announce", "read", "join", "serving"}
    /\ online \in BOOLEAN /\ (online <=> pc # "down")
    /\ due \in Presence \union {Nothing} /\ (due # Nothing <=> pc \in {"announce", "join"})
FlagTypes ==
    /\ nick \in BOOLEAN /\ echo \in BOOLEAN /\ streaming \in BOOLEAN /\ awayAnnounced \in BOOLEAN
    /\ raced \in BOOLEAN /\ unheard \in BOOLEAN /\ evicted \in BOOLEAN
AgentTypes == held \in Presence /\ bg \subseteq Work /\ idle \in {"off", "armed", "past"}
ThreadTypes == th \in [Writer -> Thread] /\ ka \in Thread
ShownTypes ==
    /\ roster \in Presence \union {Nothing} /\ room \in Presence \union {Nothing}
    /\ member \in {"out", "full", "legacy"}
BoundTypes == changes \in 0..MaxChange /\ faults \in 0..MaxFaults

\* A thread that rests holds nothing, one that does not holds a presence, and
\* none holds a session that is still to come.
TidyWriter(t) ==
    /\ th[t].pc \in {"rest", "set", "broadcast", "blocked", "direct"}
    /\ th[t].pc = "rest" => th[t] = Rest
    /\ th[t].pc # "rest" => th[t].val \in Presence
    /\ th[t].on <= sid
Tidy ==
    /\ \A t \in Writer : TidyWriter(t)
    /\ ka.pc \in {"rest", "rejoin", "join"} /\ ka.on <= sid
    /\ ka.pc = "join" => ka.val \in Presence
    /\ pc = "down" => sock = "closed"

\* A confirmed join, or one whose confirmation is on its way, is lost only when
\* the room drops us.
Dropped == (nick \/ echo) /\ member = "out" => evicted

\* Unless two announcements overlapped, one presence at most is in hand.
Exclusive ==
    ~raced =>
        /\ \A t \in Writer : th[t].pc # "rest" => ~InHand(t)
        /\ pc \in {"announce", "read", "join"} => ~InHand("serve")
        /\ ka.pc = "join" => ~InHand("keepalive")

\* What is decided, or held when nothing is, agrees with what the agent does.
Agrees(p) == ((streaming \/ bg # {}) => p \in Busy) /\ (p = "away" => idle = "past")
Intended ==
    ~raced =>
        /\ \A t \in Writer : th[t].pc = "set" => Agrees(th[t].val)
        /\ (\A t \in Writer : th[t].pc # "set") => Agrees(held)

\* What is announced is what is held, on the connection of now.
Carried ==
    ~raced =>
        /\ \A t \in Writer :
              /\ th[t].pc \in {"broadcast", "blocked", "direct"} => th[t].val = held
              /\ th[t].pc \in {"blocked", "direct"} => th[t].on = sid
              /\ th[t].pc = "blocked" => sock # "good"
        /\ ka.pc = "join" => ka.val = held
        /\ pc \in {"announce", "join"} => due = held

\* A writer that will still bring the roster, or the room, up to date.
ToTell(t) == th[t].pc = "broadcast" \/ (th[t].pc = "set" /\ th[t].val # held)
RosterShows ==
    /\ ~raced /\ sock = "good" /\ pc \in {"read", "join", "serving"}
    /\ \A t \in Writer : ~ToTell(t)
    => roster = held
RoomShows ==
    /\ ~raced /\ sock = "good" /\ pc = "serving" /\ member # "out" /\ ~unheard
    /\ \A t \in Writer : ~ToTell(t) /\ th[t].pc # "direct"
    => room = held

IInv ==
    /\ NetTypes /\ FlagTypes /\ AgentTypes /\ ThreadTypes /\ ShownTypes /\ BoundTypes /\ Tidy
    /\ Dropped /\ ProperJoin /\ Exclusive /\ Intended /\ Carried /\ RosterShows /\ RoomShows

\* The parts make up the type invariant.
LEMMA TypeParts ==
    ASSUME NetTypes, FlagTypes, AgentTypes, ThreadTypes, ShownTypes, BoundTypes
    PROVE  TypeOK
BY DEF NetTypes, FlagTypes, AgentTypes, ThreadTypes, ShownTypes, BoundTypes, TypeOK

-----------------------------------------------------------------------------
(* What the steps of a writer do to it.                                      *)

Others(t) == \A u \in Writer \ {t} : th'[u] = th[u]
Becomes(t, place, v, s) ==
    /\ th'[t].pc = place /\ th'[t].val = v /\ th'[t].on = s /\ Others(t)
    /\ th' \in [Writer -> Thread]
Rests(t) == th'[t] = Rest /\ Others(t) /\ th' \in [Writer -> Thread]

\* Rest is a state of a thread.
LEMMA RestIsThread == Rest \in Thread /\ Rest.pc = "rest" /\ Rest.on = 0
BY ConnectionAssumption DEF Rest, Thread

\* Deciding, announcing and finishing, place by place.
LEMMA WriterMoves ==
    ASSUME ThreadTypes, NetTypes, Tidy, NEW t \in Writer
    PROVE  /\ \A p \in Presence : Decide(t, p) => th[t] = Rest /\ Becomes(t, "set", p, 0)
           /\ SetPresence(t) =>
                 \/ (th[t].val = held \/ ~online) /\ Rests(t)
                 \/ th[t].val # held /\ online /\ Becomes(t, "broadcast", th[t].val, th[t].on)
           /\ Broadcast(t) =>
                 \/ ~online /\ roster' = roster /\ Rests(t)
                 \/ online /\ sock = "good" /\ roster' = th[t].val /\ Becomes(t, "direct", th[t].val, sid)
                 \/ online /\ sock # "good" /\ roster' = roster /\ Becomes(t, "blocked", th[t].val, sid)
           /\ BroadcastFails(t) => Becomes(t, "direct", th[t].val, th[t].on)
           /\ Undirected(t) => Rests(t)
           /\ Direct(t) => Rests(t)
<1>0. th \in [Writer -> Thread] /\ th[t] \in Thread /\ sid \in 0..MaxConn /\ MaxConn \in Nat
    BY ConnectionAssumption DEF ThreadTypes, NetTypes
<1>1. ASSUME th' = [th EXCEPT ![t] = Rest] PROVE Rests(t)
    BY <1>0, <1>1, RestIsThread DEF Rests, Others
<1>2. ASSUME NEW place \in {"set", "broadcast", "blocked", "direct"},
             NEW v \in Presence \union {Nothing}, NEW s \in 0..MaxConn,
             th' = [th EXCEPT ![t] = [pc |-> place, val |-> v, on |-> s]]
      PROVE  Becomes(t, place, v, s)
    <2>1. [pc |-> place, val |-> v, on |-> s] \in Thread
        BY DEF Thread
    <2> QED BY <1>0, <1>2, <2>1 DEF Becomes, Others
<1>3. th[t].val \in Presence \union {Nothing} /\ th[t].on \in 0..MaxConn
      /\ th[t] = [pc |-> th[t].pc, val |-> th[t].val, on |-> th[t].on]
    BY <1>0 DEF Thread
<1>4. ASSUME NEW p \in Presence, Decide(t, p) PROVE th[t] = Rest /\ Becomes(t, "set", p, 0)
    <2>1. 0 \in 0..MaxConn
        BY <1>0
    <2> QED BY <1>2, <1>4, <2>1 DEF Decide
<1>5. ASSUME SetPresence(t)
      PROVE  \/ (th[t].val = held \/ ~online) /\ Rests(t)
             \/ th[t].val # held /\ online /\ Becomes(t, "broadcast", th[t].val, th[t].on)
    <2>1. CASE th[t].val = held \/ ~online
        BY <1>0, <1>1, <1>5, <2>1 DEF SetPresence
    <2>2. CASE ~(th[t].val = held \/ ~online)
        <3>1. th' = [th EXCEPT ![t] = [th[t] EXCEPT !.pc = "broadcast"]]
            BY <1>0, <1>5, <2>2 DEF SetPresence
        <3>2. [th[t] EXCEPT !.pc = "broadcast"] = [pc |-> "broadcast", val |-> th[t].val, on |-> th[t].on]
            BY <1>3
        <3> QED BY <1>2, <1>3, <2>2, <3>1, <3>2
    <2> QED BY <2>1, <2>2
<1>6. ASSUME Broadcast(t)
      PROVE  \/ ~online /\ roster' = roster /\ Rests(t)
             \/ online /\ sock = "good" /\ roster' = th[t].val /\ Becomes(t, "direct", th[t].val, sid)
             \/ online /\ sock # "good" /\ roster' = roster /\ Becomes(t, "blocked", th[t].val, sid)
    <2>1. CASE ~online
        BY <1>1, <1>6, <2>1 DEF Broadcast
    <2>2. CASE online /\ sock = "good"
        <3>1. th' = [th EXCEPT ![t] = [pc |-> "direct", val |-> th[t].val, on |-> sid]]
            BY <1>0, <1>3, <1>6, <2>2 DEF Broadcast
        <3> QED BY <1>0, <1>2, <1>3, <1>6, <2>2, <3>1 DEF Broadcast
    <2>3. CASE online /\ sock # "good"
        <3>1. th' = [th EXCEPT ![t] = [pc |-> "blocked", val |-> th[t].val, on |-> sid]]
            BY <1>0, <1>3, <1>6, <2>3 DEF Broadcast
        <3> QED BY <1>0, <1>2, <1>3, <1>6, <2>3, <3>1 DEF Broadcast
    <2> QED BY <2>1, <2>2, <2>3 DEF NetTypes
<1>7. ASSUME BroadcastFails(t) PROVE Becomes(t, "direct", th[t].val, th[t].on)
    <2>1. th' = [th EXCEPT ![t] = [th[t] EXCEPT !.pc = "direct"]]
        BY <1>0, <1>7 DEF BroadcastFails
    <2>2. [th[t] EXCEPT !.pc = "direct"] = [pc |-> "direct", val |-> th[t].val, on |-> th[t].on]
        BY <1>3
    <2> QED BY <1>2, <1>3, <2>1, <2>2
<1>8. (Undirected(t) => Rests(t)) /\ (Direct(t) => Rests(t))
    BY <1>1 DEF Undirected, Direct
<1> QED BY <1>4, <1>5, <1>6, <1>7, <1>8

-----------------------------------------------------------------------------
(* The kinds of steps.                                                       *)

\* The bridge decides on a presence that agrees with the agent, or only takes
\* note of something that the presence agrees with anyway.
Occurs(t, p) == Unannounced /\ Decide(t, p) /\ Agrees(p)'
Noted == Unannounced /\ UNCHANGED <<th, raced>> /\ \A p \in Presence : Agrees(p) => Agrees(p)'

\* So do all occasions, the ticker of the idle clock and the clock itself.
LEMMA BridgeMoves ==
    ASSUME FlagTypes, AgentTypes, Bridge \/ IdleTick \/ Elapse
    PROVE  (\E t \in Writer, p \in Presence : Occurs(t, p)) \/ Noted
<1> USE DEF Presence, Busy, Writer
<1>0. streaming \in BOOLEAN /\ bg \subseteq Work
    BY DEF FlagTypes, AgentTypes
<1>1. CASE AgentStart
    <2>1. Unannounced /\ Decide("events", "working") /\ streaming' = TRUE
        BY <1>1 DEF AgentStart
    <2> QED BY <2>1 DEF Occurs, Agrees
<1>2. ASSUME NEW t \in Writer, NEW work, NEW clock, NEW announced, work = bg', streaming' = FALSE,
             Unannounced, AnnounceSettled(t, work, clock, announced)
      PROVE  \E p \in Presence : Occurs(t, p)
    <2>1. SettledPresence(work) \in {"background", "listening"} /\ Decide(t, SettledPresence(work))
          /\ (work # {} => SettledPresence(work) = "background")
        BY <1>2 DEF AnnounceSettled, SettledPresence
    <2>2. Agrees(SettledPresence(work))'
        BY <1>2, <2>1 DEF Agrees, SettledPresence
    <2> QED BY <1>2, <2>1, <2>2 DEF Occurs
<1>3. CASE AgentSettled
    <2>1. AnnounceSettled("events", bg', "armed", awayAnnounced) /\ streaming' = FALSE /\ Unannounced
        BY <1>3 DEF AgentSettled
    <2> QED BY <1>2, <2>1
<1>4. ASSUME streaming, streaming' = streaming, idle' = idle \/ idle' = "armed",
             UNCHANGED <<th, raced>>, Unannounced
      PROVE  Noted
    BY <1>4 DEF Noted, Agrees
<1>5. ASSUME NEW k \in Work, Relayed(k) PROVE (\E t \in Writer, p \in Presence : Occurs(t, p)) \/ Noted
    <2>1. CASE streaming
        BY <1>4, <1>5, <2>1 DEF Relayed
    <2>2. CASE ~streaming
        <3>1. AnnounceSettled("events", bg', IF bg' = {} THEN "armed" ELSE idle, awayAnnounced)
              /\ streaming' = FALSE /\ Unannounced
            BY <1>0, <1>5, <2>2 DEF Relayed
        <3> QED BY <1>2, <3>1
    <2> QED BY <2>1, <2>2
<1>6. CASE OnInbound
    <2>1. CASE streaming
        BY <1>4, <1>6, <2>1 DEF OnInbound
    <2>2. CASE ~streaming
        <3>1. AnnounceSettled("session", bg', "armed", FALSE) /\ streaming' = FALSE /\ Unannounced
            BY <1>0, <1>6, <2>2 DEF OnInbound
        <3> QED BY <1>2, <3>1
    <2> QED BY <2>1, <2>2
<1>7. CASE IdleTick
    <2>1. Unannounced /\ Decide("session", "away") /\ Agrees("away")'
        BY <1>7 DEF IdleTick, Away, Agrees
    <2> QED BY <2>1 DEF Occurs
<1>8. CASE Elapse
    BY <1>8 DEF Elapse, Noted, Unannounced, Agrees, history, agent
<1> QED BY <1>1, <1>3, <1>5, <1>6, <1>7, <1>8 DEF Bridge

\* The ways of the connection: a new one, the stages of its setup, its end, and
\* the socket getting worse.
Down == pc # "down" /\ sid' = sid /\ SetOffline
Worse ==
    /\ UNCHANGED <<sid, pc, due, online>>
    /\ sock' \in {sock, "closed"} \/ (sock = "good" /\ sock' = "wedged")

\* Every other step leaves the connection as it is, but for its socket.
LEMMA NetMoves ==
    ASSUME [Next]_vars
    PROVE  Connect \/ Announce \/ JoinReads \/ Join \/ Down \/ Worse
<1> USE DEF net
<1>1. CASE UNCHANGED vars
    BY <1>1 DEF vars, Worse
<1>2. CASE Serve
    BY <1>2 DEF Serve, SetupFails, ServeReturns, HandlePresence, Down, Worse
<1>3. CASE Keepalive
    BY <1>3 DEF Keepalive, SelfPing, PingFails, RejoinReads, Rejoin, RejoinFails, WriteFails, Kick,
        HardClose, Worse
<1>4. CASE \E t \in Writer : Announcing(t)
    BY <1>4 DEF Announcing, SetPresence, Broadcast, BroadcastFails, Undirected, Direct, WriteFails,
        Kick, HardClose, Worse
<1>5. CASE Bridge \/ IdleTick \/ Elapse
    BY <1>5 DEF Bridge, IdleTick, Elapse, AgentStart, AgentSettled, OnInbound, Relayed, Unannounced,
        Worse
<1>6. CASE Environment
    BY <1>6 DEF Environment, Wedge, Lost, Evict, Worse
<1> QED BY <1>1, <1>2, <1>3, <1>4, <1>5, <1>6 DEF Next, Own

-----------------------------------------------------------------------------
(* Types.                                                                    *)

\* A presence that survives the socket is one.
LEMMA ReconnectKind ==
    \A p \in Presence : ReconnectPresence(p) \in Presence /\ ReconnectPresence(p) # Nothing
BY DEF ReconnectPresence, Presence, Busy, Nothing

\* Nothing is no presence.
LEMMA NothingIsNone == Nothing \notin Presence
BY DEF Presence, Busy, Nothing

\* The bridge has a session exactly while serve has one.
LEMMA NetStep ==
    ASSUME NetTypes, AgentTypes, [Next]_vars
    PROVE  NetTypes'
<1> USE DEF NetTypes
<1>0. MaxConn \in Nat /\ held \in Presence
    BY ConnectionAssumption DEF AgentTypes
<1>1. CASE Connect
    <2>1. /\ sid < MaxConn /\ sid' = sid + 1 /\ sock' = "good" /\ online' = TRUE /\ pc' = "announce"
          /\ due' = ReconnectPresence(held)
        BY <1>1 DEF Connect
    <2>2. sid' \in 0..MaxConn
        BY <1>0, <2>1
    <2>3. due' \in Presence /\ due' # Nothing
        BY <1>0, <2>1, ReconnectKind
    <2> QED BY <2>1, <2>2, <2>3
<1>2. CASE Announce
    BY <1>2 DEF Announce
<1>3. CASE JoinReads
    BY <1>0, <1>3, NothingIsNone DEF JoinReads
<1>4. CASE Join
    BY <1>4 DEF Join
<1>5. CASE Down
    BY <1>5 DEF Down, SetOffline
<1>6. CASE Worse
    BY <1>6 DEF Worse
<1> QED BY <1>1, <1>2, <1>3, <1>4, <1>5, <1>6, NetMoves

\* The flags are set, cleared, or take in whether somebody is in between.
LEMMA FlagStep ==
    ASSUME FlagTypes, [Next]_vars
    PROVE  FlagTypes'
<1> USE DEF FlagTypes, net, agent, shown, bounds, history
<1>1. CASE UNCHANGED vars
    BY <1>1 DEF vars
<1>2. CASE Serve
    <2>1. /\ UNCHANGED <<streaming, awayAnnounced>> /\ nick' \in {nick, TRUE, FALSE}
          /\ echo' \in {echo, TRUE, FALSE} /\ unheard' \in {unheard, FALSE} /\ evicted' \in {evicted, FALSE}
        BY <1>2 DEF Serve, Connect, Announce, JoinReads, Join, Enter, SetupFails, HandlePresence,
            ServeReturns
    <2>2. raced' = raced \/ raced' = (raced \/ InHand("serve"))
        BY <1>2 DEF Serve, Connect, Announce, JoinReads, Join, SetupFails, HandlePresence, ServeReturns
    <2> QED BY <2>1, <2>2
<1>3. CASE Keepalive
    <2>1. /\ UNCHANGED <<streaming, awayAnnounced, nick, evicted>>
          /\ echo' \in {echo, TRUE} /\ unheard' \in {unheard, FALSE}
        BY <1>3 DEF Keepalive, SelfPing, PingFails, RejoinReads, Rejoin, Enter, RejoinFails
    <2>2. raced' = raced \/ raced' = (raced \/ (online /\ InHand("keepalive")))
        BY <1>3 DEF Keepalive, SelfPing, PingFails, RejoinReads, Rejoin, RejoinFails
    <2> QED BY <2>1, <2>2
<1>4. CASE \E t \in Writer : Announcing(t)
    <2>1. /\ UNCHANGED <<streaming, awayAnnounced, nick, echo, raced, evicted>>
          /\ unheard' \in {unheard, FALSE} \/ unheard' = (unheard \/ pc \in {"join", "serving"})
        BY <1>4 DEF Announcing, SetPresence, Broadcast, BroadcastFails, Undirected, Direct
    <2> QED BY <2>1
<1>5. CASE Bridge \/ IdleTick \/ Elapse
    <2>1. UNCHANGED <<nick, echo, unheard, evicted>>
        BY <1>5 DEF Bridge, IdleTick, Elapse, AgentStart, AgentSettled, OnInbound, Relayed, Unannounced
    <2>2. streaming' \in {streaming, TRUE, FALSE}
        BY <1>5 DEF Bridge, IdleTick, Elapse, AgentStart, AgentSettled, OnInbound, Relayed
    <2>3. awayAnnounced' \in {awayAnnounced, TRUE, FALSE} \/ \E w : awayAnnounced' = (awayAnnounced /\ "children" \notin w)
        BY <1>5 DEF Bridge, IdleTick, Elapse, AgentStart, AgentSettled, OnInbound, Relayed,
            AnnounceSettled
    <2>4. awayAnnounced' \in BOOLEAN
        BY <2>3
    <2>5. raced' = raced \/ \E t \in Writer : \E p : raced' = (InHand(t) \/ (raced /\ p = held))
        BY <1>5 DEF Bridge, IdleTick, Elapse, AgentStart, AgentSettled, OnInbound, Relayed,
            AnnounceSettled, Decide, Writer
    <2>6. raced' \in BOOLEAN
        BY <2>5
    <2> QED BY <2>1, <2>2, <2>4, <2>6
<1>6. CASE Environment
    BY <1>6 DEF Environment, Wedge, Lost, Evict
<1> QED BY <1>1, <1>2, <1>3, <1>4, <1>5, <1>6 DEF Next, Own

\* The presence held is the one of a reconnect or a decided one.
LEMMA AgentStep ==
    ASSUME AgentTypes, Tidy, [Next]_vars
    PROVE  AgentTypes'
<1> USE DEF net, agent, shown, bounds, history
<1>0. held \in Presence /\ bg \subseteq Work /\ idle \in {"off", "armed", "past"}
    BY DEF AgentTypes
<1>1. CASE UNCHANGED vars
    BY <1>0, <1>1 DEF vars, AgentTypes
<1>2. CASE Serve
    <2>1. UNCHANGED <<bg, idle>> /\ (held' = held \/ held' = ReconnectPresence(held))
        BY <1>2 DEF Serve, Connect, Announce, JoinReads, Join, SetupFails, HandlePresence, ServeReturns
    <2> QED BY <1>0, <2>1, ReconnectKind DEF AgentTypes
<1>3. CASE Keepalive \/ Environment
    <2>1. UNCHANGED <<held, bg, idle>>
        BY <1>3 DEF Keepalive, SelfPing, PingFails, RejoinReads, Rejoin, RejoinFails, Environment,
            Wedge, Lost, Evict
    <2> QED BY <1>0, <2>1 DEF AgentTypes
<1>4. ASSUME NEW t \in Writer, Announcing(t) PROVE AgentTypes'
    <2>1. UNCHANGED <<bg, idle>> /\ (held' = held \/ (th[t].pc = "set" /\ held' = th[t].val))
        BY <1>4 DEF Announcing, SetPresence, Broadcast, BroadcastFails, Undirected, Direct
    <2>2. th[t].pc = "set" => th[t].val \in Presence
        BY DEF Tidy, TidyWriter
    <2> QED BY <1>0, <2>1, <2>2 DEF AgentTypes
<1>5. CASE Bridge \/ IdleTick \/ Elapse
    <2>1. held' = held
        BY <1>5 DEF Bridge, IdleTick, Elapse, AgentStart, AgentSettled, OnInbound, Relayed, Unannounced
    <2>2. \/ bg' = bg
          \/ \E k \in Work : bg' = bg \ {k} \/ bg' = bg \union {k}
        BY <1>5 DEF Bridge, IdleTick, Elapse, AgentStart, AgentSettled, OnInbound, Relayed
    <2>3. idle' \in {idle, "off", "armed", "past"}
        BY <1>5 DEF Bridge, IdleTick, Elapse, AgentStart, AgentSettled, OnInbound, Relayed,
            AnnounceSettled
    <2>4. bg' \subseteq Work
        BY <1>0, <2>2
    <2> QED BY <1>0, <2>1, <2>3, <2>4 DEF AgentTypes
<1> QED BY <1>1, <1>2, <1>3, <1>4, <1>5 DEF Next, Own

\* Where the writers and the keepalive go.
WriterGoes ==
    \/ UNCHANGED th
    \/ \E t \in Writer :
          \/ Rests(t)
          \/ \E p \in Presence : Becomes(t, "set", p, 0)
          \/ /\ th[t].pc \in {"set", "broadcast", "blocked"}
             /\ \E place \in {"broadcast", "blocked", "direct"}, s \in {th[t].on, sid} :
                    Becomes(t, place, th[t].val, s)
KeepaliveGoes ==
    \/ UNCHANGED ka \/ ka' = Rest \/ ka' = [Rest EXCEPT !.pc = "rejoin"]
    \/ ka' = [pc |-> "join", val |-> held, on |-> sid]

\* Nothing else moves them, and while they move the connection is the same.
LEMMA ThreadsMove ==
    ASSUME NetTypes, FlagTypes, AgentTypes, ThreadTypes, Tidy, [Next]_vars
    PROVE  /\ WriterGoes /\ KeepaliveGoes
           /\ sid' = sid \/ (sid' = sid + 1 /\ UNCHANGED <<th, ka>>)
<1> USE DEF net, agent, shown, bounds, history
<1>1. CASE UNCHANGED vars
    BY <1>1 DEF vars, WriterGoes, KeepaliveGoes
<1>2. CASE Serve \/ Environment
    BY <1>2 DEF Serve, Connect, Announce, JoinReads, Join, SetupFails, SetOffline, HandlePresence,
        ServeReturns, Environment, Wedge, Lost, Evict, WriterGoes, KeepaliveGoes
<1>3. CASE Keepalive
    BY <1>3 DEF Keepalive, SelfPing, PingFails, RejoinReads, Rejoin, RejoinFails, WriterGoes,
        KeepaliveGoes
<1>4. CASE Bridge \/ IdleTick \/ Elapse
    <2>1. (\E t \in Writer, p \in Presence : Occurs(t, p)) \/ Noted
        BY <1>4, BridgeMoves
    <2>2. ASSUME NEW t \in Writer, NEW p \in Presence, Occurs(t, p) PROVE Becomes(t, "set", p, 0)
        BY <2>2, WriterMoves DEF Occurs
    <2>3. UNCHANGED <<sid, ka>>
        BY <2>1 DEF Occurs, Noted, Unannounced
    <2> QED BY <2>1, <2>2, <2>3 DEF WriterGoes, KeepaliveGoes, Noted
<1>5. ASSUME NEW t \in Writer, Announcing(t) PROVE WriterGoes /\ UNCHANGED <<sid, ka>>
    <2>1. UNCHANGED <<sid, ka>>
        BY <1>5 DEF Announcing, SetPresence, Broadcast, BroadcastFails, Undirected, Direct
    <2>2. /\ SetPresence(t) => th[t].pc = "set"
          /\ Broadcast(t) => th[t].pc = "broadcast"
          /\ BroadcastFails(t) => th[t].pc = "blocked"
        BY DEF SetPresence, Broadcast, BroadcastFails
    <2>3. Rests(t) \/ (th[t].pc \in {"set", "broadcast", "blocked"} /\
              \E place \in {"broadcast", "blocked", "direct"}, s \in {th[t].on, sid} :
                  Becomes(t, place, th[t].val, s))
        BY <1>5, <2>2, WriterMoves DEF Announcing
    <2> QED BY <2>1, <2>3 DEF WriterGoes
<1> QED BY <1>1, <1>2, <1>3, <1>4, <1>5 DEF Next, Own, KeepaliveGoes

\* Threads keep their types and stay tidy.
LEMMA ThreadStep ==
    ASSUME NetTypes, FlagTypes, AgentTypes, ThreadTypes, Tidy, [Next]_vars
    PROVE  ThreadTypes' /\ Tidy'
<1>0. /\ th \in [Writer -> Thread] /\ ka \in Thread /\ held \in Presence
      /\ sid \in 0..MaxConn /\ sid' \in 0..MaxConn /\ MaxConn \in Nat
    BY NetStep, ConnectionAssumption DEF ThreadTypes, AgentTypes, NetTypes
<1>1. WriterGoes /\ KeepaliveGoes /\ (sid' = sid \/ (sid' = sid + 1 /\ UNCHANGED <<th, ka>>))
    BY ThreadsMove
<1>2. th' \in [Writer -> Thread]
    BY <1>0, <1>1 DEF WriterGoes, Rests, Becomes
<1>3. ka' \in Thread
    <2>1. [Rest EXCEPT !.pc = "rejoin"] \in Thread
        BY RestIsThread DEF Rest, Thread
    <2>2. [pc |-> "join", val |-> held, on |-> sid] \in Thread
        BY <1>0 DEF Thread
    <2> QED BY <1>0, <1>1, <2>1, <2>2, RestIsThread DEF KeepaliveGoes
<1>4. \A s \in 0..MaxConn : 0 <= s /\ (s <= sid => s <= sid')
    BY <1>0, <1>1
<1>5. \A t \in Writer : th[t].on \in 0..MaxConn /\ th[t].val \in Presence \union {Nothing}
    BY <1>0 DEF Thread
<1>6. \A t \in Writer : TidyWriter(t)
    BY DEF Tidy
<1>7. ASSUME NEW u \in Writer, th'[u] = th[u] PROVE TidyWriter(u)'
    BY <1>4, <1>5, <1>6, <1>7 DEF TidyWriter
<1>8. ASSUME NEW t \in Writer, Rests(t) PROVE TidyWriter(t)'
    <2>1. th'[t] = Rest /\ 0 <= sid'
        BY <1>0, <1>8 DEF Rests
    <2> QED BY <2>1, RestIsThread DEF TidyWriter
<1>9. ASSUME NEW t \in Writer, NEW p \in Presence, Becomes(t, "set", p, 0) PROVE TidyWriter(t)'
    BY <1>0, <1>9 DEF Becomes, TidyWriter
<1>10. ASSUME NEW t \in Writer, th[t].pc \in {"set", "broadcast", "blocked"},
              NEW place \in {"broadcast", "blocked", "direct"}, NEW s \in {th[t].on, sid},
              Becomes(t, place, th[t].val, s)
       PROVE  TidyWriter(t)'
    <2>1. th[t].val \in Presence /\ s <= sid'
        BY <1>0, <1>4, <1>5, <1>6, <1>10 DEF TidyWriter
    <2> QED BY <1>10, <2>1 DEF Becomes, TidyWriter
<1>11. \A t \in Writer : TidyWriter(t)'
    BY <1>1, <1>7, <1>8, <1>9, <1>10 DEF WriterGoes, Rests, Becomes, Others
<1>12. ka'.pc \in {"rest", "rejoin", "join"} /\ (ka'.pc = "join" => ka'.val \in Presence)
    BY <1>0, <1>1 DEF KeepaliveGoes, Rest, Tidy
<1>13. ka'.on <= sid'
    <2>1. ka.on <= sid /\ ka.on \in 0..MaxConn
        BY <1>0 DEF Tidy, Thread
    <2>2. ka'.on \in {ka.on, 0, sid}
        BY <1>1 DEF KeepaliveGoes, Rest
    <2> QED BY <1>0, <1>4, <2>1, <2>2
<1>14. pc' = "down" => sock' = "closed"
    BY NetMoves DEF Connect, Announce, JoinReads, Join, Down, SetOffline, Worse, Tidy
<1> QED BY <1>2, <1>3, <1>11, <1>12, <1>13, <1>14 DEF ThreadTypes, Tidy

\* The roster and the room show a presence or nothing.
LEMMA ShownStep ==
    ASSUME NetTypes, AgentTypes, ThreadTypes, Tidy, ShownTypes, [Next]_vars
    PROVE  ShownTypes'
<1> USE DEF net, agent, shown, bounds, history
<1>0. /\ due \in Presence \union {Nothing}
      /\ \A t \in Writer : th[t].val \in Presence \union {Nothing}
      /\ ka.val \in Presence \union {Nothing}
    BY DEF NetTypes, ThreadTypes, Thread
<1>1. CASE UNCHANGED vars
    BY <1>1 DEF vars, ShownTypes
<1>2. CASE Serve
    BY <1>0, <1>2 DEF Serve, Connect, Announce, JoinReads, Join, Enter, SetupFails, HandlePresence,
        ServeReturns, ShownTypes
<1>3. CASE Keepalive \/ Environment
    <2>1. /\ roster' = roster /\ room' \in {room, ka.val, Nothing}
          /\ member' \in {member, "out", "full"}
        BY <1>3 DEF Keepalive, SelfPing, PingFails, RejoinReads, Rejoin, Enter, RejoinFails, Environment,
            Wedge, Lost, Evict
    <2> QED BY <1>0, <2>1 DEF ShownTypes
<1>4. ASSUME NEW t \in Writer, Announcing(t) PROVE ShownTypes'
    <2>1. roster' \in {roster, th[t].val} /\ room' \in {room, th[t].val} /\ member' \in {member, "legacy"}
        BY <1>4 DEF Announcing, SetPresence, Broadcast, BroadcastFails, Undirected, Direct
    <2> QED BY <1>0, <2>1 DEF ShownTypes
<1>5. CASE Bridge \/ IdleTick \/ Elapse
    <2>1. UNCHANGED <<roster, room, member>>
        BY <1>5 DEF Bridge, IdleTick, Elapse, AgentStart, AgentSettled, OnInbound, Relayed, Unannounced
    <2> QED BY <2>1 DEF ShownTypes
<1> QED BY <1>1, <1>2, <1>3, <1>4, <1>5 DEF Next, Own

\* Occasions and faults come within their bounds.
LEMMA BoundStep ==
    ASSUME BoundTypes, [Next]_vars
    PROVE  BoundTypes'
<1> USE DEF net, agent, shown, bounds, history
<1>0. MaxChange \in Nat /\ MaxFaults \in Nat
    BY ConnectionAssumption
<1>1. \/ UNCHANGED <<changes, faults>>
      \/ changes < MaxChange /\ changes' = changes + 1 /\ faults' = faults
      \/ faults < MaxFaults /\ faults' = faults + 1 /\ changes' = changes
    BY DEF Next, Own, vars, Serve, Connect, Announce, JoinReads, Join, SetupFails, HandlePresence,
        ServeReturns, Keepalive, SelfPing, PingFails, RejoinReads, Rejoin, RejoinFails, Announcing,
        SetPresence, Broadcast, BroadcastFails, Undirected, Direct, Bridge, IdleTick, Elapse,
        AgentStart, AgentSettled, OnInbound, Relayed, Occasion, Environment, Wedge, Lost, Evict, Fault
<1> QED BY <1>0, <1>1 DEF BoundTypes

-----------------------------------------------------------------------------
(* Joins, and healthy connections.                                           *)

\* A room that does not have us has dropped us, where it once confirmed us.
LEMMA JoinStep ==
    ASSUME FlagTypes, ShownTypes, Dropped, ProperJoin, [Next]_vars
    PROVE  Dropped' /\ ProperJoin'
<1> USE DEF net, agent, shown, bounds, history, Dropped, ProperJoin
<1>1. CASE UNCHANGED vars
    BY <1>1 DEF vars
<1>2. CASE Serve
    <2>1. \/ nick' = FALSE /\ echo' = FALSE /\ member' = "out"
          \/ member' = "full" /\ evicted' = evicted
          \/ UNCHANGED <<member, evicted, nick, echo>>
          \/ UNCHANGED <<member, evicted>> /\ echo
        BY <1>2 DEF Serve, Connect, Announce, JoinReads, Join, Enter, SetupFails, HandlePresence,
            ServeReturns
    <2> QED BY <2>1 DEF FlagTypes
<1>3. CASE Keepalive
    <2>1. member' = "full" \/ UNCHANGED <<member, evicted, nick, echo>>
        BY <1>3 DEF Keepalive, SelfPing, PingFails, RejoinReads, Rejoin, Enter, RejoinFails
    <2> QED BY <2>1
<1>4. ASSUME NEW t \in Writer, Announcing(t) PROVE Dropped' /\ ProperJoin'
    <2>1. UNCHANGED <<evicted, nick, echo>>
          /\ (member' = member \/ (nick /\ member = "out" /\ member' = "legacy"))
        BY <1>4 DEF Announcing, SetPresence, Broadcast, BroadcastFails, Undirected, Direct
    <2> QED BY <2>1
<1>5. CASE Bridge \/ IdleTick \/ Elapse
    <2>1. UNCHANGED <<evicted, nick, echo, member>>
        BY <1>5 DEF Bridge, IdleTick, Elapse, AgentStart, AgentSettled, OnInbound, Relayed, Unannounced
    <2> QED BY <2>1
<1>6. CASE Environment
    BY <1>6 DEF Environment, Wedge, Lost, Evict
<1> QED BY <1>1, <1>2, <1>3, <1>4, <1>5, <1>6 DEF Next, Own

\* A step that closes a working connection is a fault's, or the write of a writer
\* that holds an earlier one.
LEMMA ClosesStale ==
    ASSUME NetTypes, ThreadTypes, BoundTypes, Tidy, [Next]_vars, sock = "good", sock' = "closed"
    PROVE  StaleWriter \/ faults' > faults
<1> USE DEF net, agent, shown, bounds, history
<1>0. /\ \A t \in Writer : th[t].on \in 0..MaxConn /\ th[t].on <= sid
      /\ ka.on \in 0..MaxConn /\ ka.on <= sid /\ sid \in 0..MaxConn /\ MaxConn \in Nat
    BY ConnectionAssumption DEF NetTypes, ThreadTypes, Thread, Tidy, TidyWriter
<1>1. \A s \in 0..MaxConn : s <= sid /\ ~Works(s) => s < sid
    BY <1>0 DEF Works
<1>2. CASE UNCHANGED vars
    BY <1>2 DEF vars
<1>3. CASE Serve
    BY <1>3 DEF Serve, Connect, Announce, JoinReads, Join, SetupFails, HandlePresence, ServeReturns,
        Works, NetTypes, Tidy
<1>4. CASE Keepalive
    <2>1. ~PingFails
        BY <1>0 DEF PingFails, HardClose, Works
    <2>2. RejoinFails
        BY <1>4, <2>1 DEF Keepalive, SelfPing, RejoinReads, Rejoin
    <2>3. ka.pc = "join" /\ ~Works(ka.on)
        BY <2>2 DEF RejoinFails, WriteFails
    <2> QED BY <1>0, <1>1, <2>3 DEF StaleWriter
<1>5. ASSUME NEW t \in Writer, Announcing(t) PROVE StaleWriter
    <2>1. th[t].pc \in {"blocked", "direct"} /\ ~Works(th[t].on)
        BY <1>5 DEF Announcing, SetPresence, Broadcast, BroadcastFails, Undirected, Direct, WriteFails
    <2> QED BY <1>0, <1>1, <2>1 DEF StaleWriter
<1>6. CASE Bridge \/ IdleTick \/ Elapse
    BY <1>6 DEF Bridge, IdleTick, Elapse, AgentStart, AgentSettled, OnInbound, Relayed, Unannounced
<1>7. CASE Environment
    <2>1. faults \in Nat /\ faults' = faults + 1
        BY <1>7 DEF Environment, Wedge, Lost, Evict, Fault, BoundTypes
    <2> QED BY <2>1
<1> QED BY <1>2, <1>3, <1>4, <1>5, <1>6, <1>7 DEF Next, Own

-----------------------------------------------------------------------------
(* One presence in hand at a time, unless announcements raced.               *)

\* An announcement begins with nothing else in hand, or it races.
LEMMA ExclusiveStep ==
    ASSUME NetTypes, FlagTypes, AgentTypes, ThreadTypes, Tidy, Exclusive, [Next]_vars
    PROVE  Exclusive'
<1> USE DEF net, agent, shown, bounds, history
<1>0. raced \in BOOLEAN /\ online \in BOOLEAN
    BY DEF FlagTypes, NetTypes
<1>1. ASSUME raced' = raced, pc' = pc \/ pc' \notin {"announce", "read", "join"} \/ pc \in {"announce", "read", "join"},
             ka'.pc = "join" => ka.pc = "join",
             \A t \in Writer : th'[t].pc # "rest" => th[t].pc # "rest"
      PROVE  Exclusive'
    BY <1>1 DEF Exclusive, InHand
<1>2. CASE UNCHANGED vars
    BY <1>1, <1>2 DEF vars
<1>3. CASE Connect
    <2>1. raced' = (raced \/ InHand("serve")) /\ UNCHANGED <<th, ka>>
        BY <1>3 DEF Connect
    <2> QED BY <1>0, <2>1 DEF Exclusive, InHand, Writer
<1>4. CASE Serve /\ ~Connect
    BY <1>1, <1>4 DEF Serve, Announce, JoinReads, Join, SetupFails, SetOffline, HandlePresence,
        ServeReturns
<1>5. CASE RejoinReads
    <2>1. CASE online
        BY <1>0, <1>5, <2>1 DEF RejoinReads, Exclusive, InHand, Writer
    <2>2. CASE ~online
        BY <1>0, <1>1, <1>5, <2>2 DEF RejoinReads, Rest
    <2> QED BY <2>1, <2>2
<1>6. CASE Keepalive /\ ~RejoinReads
    BY <1>1, <1>6 DEF Keepalive, SelfPing, PingFails, Rejoin, RejoinFails, Rest
<1>7. ASSUME NEW t \in Writer, Announcing(t) PROVE Exclusive'
    <2>1. /\ UNCHANGED <<raced, pc, ka>> /\ th[t].pc # "rest"
        BY <1>7 DEF Announcing, SetPresence, Broadcast, BroadcastFails, Undirected, Direct
    <2>2. \A u \in Writer \ {t} : th'[u] = th[u]
        BY <1>7, WriterMoves DEF Announcing, Becomes, Rests, Others
    <2> QED BY <1>1, <2>1, <2>2
<1>8. CASE Bridge \/ IdleTick \/ Elapse
    <2>1. (\E t \in Writer, p \in Presence : Occurs(t, p)) \/ Noted
        BY <1>8, BridgeMoves
    <2>2. CASE Noted
        BY <1>1, <2>2 DEF Noted, Unannounced
    <2>3. ASSUME NEW t \in Writer, NEW p \in Presence, Occurs(t, p) PROVE Exclusive'
        <3>1. raced' = (InHand(t) \/ (raced /\ p = held)) /\ UNCHANGED <<pc, ka>>
            BY <2>3 DEF Occurs, Decide, Unannounced
        <3>2. \A u \in Writer \ {t} : th'[u] = th[u]
            BY <2>3, WriterMoves DEF Occurs, Becomes, Others
        <3>3. CASE InHand(t)
            BY <3>1, <3>3 DEF Exclusive
        <3>4. CASE ~InHand(t)
            <4>1. /\ \A u \in Writer \ {t} : th'[u].pc = "rest"
                  /\ pc' \notin {"announce", "read", "join"} /\ ka'.pc # "join"
                BY <3>1, <3>2, <3>4 DEF InHand, Writer
            <4>2. ~InHand(t)'
                BY <4>1 DEF InHand
            <4> QED BY <4>1, <4>2 DEF Exclusive
        <3> QED BY <3>3, <3>4
    <2> QED BY <2>1, <2>2, <2>3
<1>9. CASE Environment
    BY <1>1, <1>9 DEF Environment, Wedge, Lost, Evict
<1> QED BY <1>2, <1>3, <1>4, <1>5, <1>6, <1>7, <1>8, <1>9 DEF Next, Own, Serve, Keepalive

-----------------------------------------------------------------------------
(* What is decided, announced and shown.                                     *)

\* Where nothing races, a writer that has something in hand is the only thread
\* that has.
LEMMA OneInHand ==
    ASSUME Exclusive, NetTypes, ~raced, NEW t \in Writer, th[t].pc # "rest"
    PROVE  /\ \A u \in Writer \ {t} : th[u].pc = "rest"
           /\ pc \in {"down", "serving"} /\ ka.pc # "join"
BY DEF Exclusive, InHand, Writer, NetTypes

\* Nothing else is in hand when an announcement begins that does not race, and it
\* tells something new or nothing raced before.
LEMMA BeginsAlone ==
    ASSUME NetTypes, FlagTypes, ThreadTypes, Tidy, NEW t \in Writer, NEW p \in Presence, Occurs(t, p), ~raced'
    PROVE  /\ th[t] = Rest /\ Becomes(t, "set", p, 0)
           /\ \A u \in Writer : th[u].pc = "rest"
           /\ \A u \in Writer \ {t} : th'[u].pc = "rest"
           /\ pc \in {"down", "serving"} /\ ka.pc # "join"
           /\ ~raced \/ p # held
           /\ UNCHANGED <<sid, sock, pc, due, online, held, nick, ka, roster, room, member, unheard>>
           /\ Agrees(p)'
<1>1. /\ raced' = (InHand(t) \/ (raced /\ p = held))
      /\ UNCHANGED <<sid, sock, pc, due, online, held, nick, ka, roster, room, member, unheard>>
    BY DEF Occurs, Decide, Unannounced, net, shown
<1>2. th[t] = Rest /\ Becomes(t, "set", p, 0)
    BY WriterMoves DEF Occurs
<1>3. ~InHand(t)
    BY <1>1
<1>4. /\ \A u \in Writer : th[u].pc = "rest"
      /\ pc \in {"down", "serving"} /\ ka.pc # "join"
    BY <1>2, <1>3, RestIsThread DEF InHand, Writer, NetTypes
<1> QED BY <1>1, <1>2, <1>4 DEF Becomes, Others, Occurs, FlagTypes

\* Nothing is in hand when a connection comes up that does not race.
LEMMA ConnectsAlone ==
    ASSUME FlagTypes, Connect, ~raced'
    PROVE  /\ ~raced /\ \A u \in Writer : th[u].pc = "rest" /\ th'[u].pc = "rest"
           /\ ka.pc # "join" /\ ka' = ka
BY DEF Connect, InHand, FlagTypes, Writer

\* The steps that neither decide nor change what is held.
Apart == UNCHANGED <<th, held, streaming, bg, idle>> /\ (~raced' => ~raced)
\* The keepalive, the environment and the server's loop but for a connect are such.
LEMMA ApartSteps ==
    ASSUME FlagTypes, UNCHANGED vars \/ (Serve /\ ~Connect) \/ Keepalive \/ Environment
    PROVE  Apart
<1> USE DEF net, agent, shown, bounds, history, Apart
<1>1. CASE UNCHANGED vars
    BY <1>1 DEF vars
<1>2. CASE Serve /\ ~Connect
    BY <1>2 DEF Serve, Announce, JoinReads, Join, SetupFails, HandlePresence, ServeReturns
<1>3. CASE Keepalive
    BY <1>3 DEF Keepalive, SelfPing, PingFails, RejoinReads, Rejoin, RejoinFails, FlagTypes
<1>4. CASE Environment
    BY <1>4 DEF Environment, Wedge, Lost, Evict
<1> QED BY <1>1, <1>2, <1>3, <1>4

\* What is decided agrees with the agent, and so does what is held after it.
LEMMA IntendedStep ==
    ASSUME NetTypes, FlagTypes, AgentTypes, ThreadTypes, Tidy, Exclusive, Intended, [Next]_vars
    PROVE  Intended'
<1> USE DEF agent
<1>1. SUFFICES ASSUME ~raced' PROVE /\ \A t \in Writer : th'[t].pc = "set" => Agrees(th[t].val)'
                                    /\ (\A t \in Writer : th'[t].pc # "set") => Agrees(held)'
    BY DEF Intended, Agrees
<1>2. CASE Apart
    BY <1>1, <1>2 DEF Apart, Intended, Agrees
<1>3. CASE Connect
    <2>1. UNCHANGED <<streaming, bg, idle>> /\ held' = ReconnectPresence(held)
        BY <1>3 DEF Connect
    <2>2. ~raced /\ \A u \in Writer : th[u].pc = "rest" /\ th'[u].pc = "rest"
        BY <1>1, <1>3, ConnectsAlone
    <2>3. Agrees(held)
        BY <2>2 DEF Intended
    <2>4. Agrees(held)'
        BY <2>1, <2>3 DEF Agrees, ReconnectPresence, Busy
    <2> QED BY <2>2, <2>4
<1>4. ASSUME NEW t \in Writer, SetPresence(t)
      PROVE  /\ \A u \in Writer : th'[u].pc = "set" => Agrees(th[u].val)'
             /\ (\A u \in Writer : th'[u].pc # "set") => Agrees(held)'
    <2>1. th[t].pc = "set" /\ held' = th[t].val /\ UNCHANGED <<streaming, bg, idle, raced>>
        BY <1>4 DEF SetPresence, history
    <2>2. \A u \in Writer \ {t} : th[u].pc = "rest"
        BY <1>1, <2>1, OneInHand
    <2>3. \A u \in Writer : th'[u].pc # "set"
        BY <1>4, <2>2, WriterMoves, RestIsThread DEF Becomes, Rests, Others
    <2>4. Agrees(held)'
        BY <1>1, <2>1 DEF Intended, Agrees
    <2> QED BY <2>3, <2>4
<1>5. ASSUME NEW t \in Writer, Announcing(t), ~SetPresence(t)
      PROVE  /\ \A u \in Writer : th'[u].pc = "set" => Agrees(th[u].val)'
             /\ (\A u \in Writer : th'[u].pc # "set") => Agrees(held)'
    <2>1. th[t].pc # "set" /\ UNCHANGED <<held, streaming, bg, idle, raced>>
        BY <1>5 DEF Announcing, Broadcast, BroadcastFails, Undirected, Direct, history
    <2>2. th'[t].pc # "set" /\ \A u \in Writer \ {t} : th'[u] = th[u]
        BY <1>5, WriterMoves, RestIsThread DEF Announcing, Becomes, Rests, Others
    <2> QED BY <1>1, <2>1, <2>2 DEF Intended, Agrees
<1>6. CASE Noted
    <2>1. UNCHANGED <<th, held, raced>> /\ \A p \in Presence : Agrees(p) => Agrees(p)'
        BY <1>6 DEF Noted, Unannounced
    <2>2. held \in Presence /\ \A t \in Writer : th[t].pc = "set" => th[t].val \in Presence
        BY DEF AgentTypes, Tidy, TidyWriter
    <2> QED BY <1>1, <2>1, <2>2 DEF Intended, Agrees
<1>7. ASSUME NEW t \in Writer, NEW p \in Presence, Occurs(t, p)
      PROVE  /\ \A u \in Writer : th'[u].pc = "set" => Agrees(th[u].val)'
             /\ (\A u \in Writer : th'[u].pc # "set") => Agrees(held)'
    <2>1. /\ Agrees(p)' /\ th'[t].pc = "set" /\ th'[t].val = p
          /\ \A u \in Writer \ {t} : th'[u].pc = "rest"
        BY <1>1, <1>7, BeginsAlone DEF Becomes
    <2> QED BY <2>1 DEF Agrees
<1> QED BY <1>2, <1>3, <1>4, <1>5, <1>6, <1>7, ApartSteps, BridgeMoves DEF Next, Own, Serve

\* What is announced is what is held, until it is announced.
LEMMA CarriedStep ==
    ASSUME NetTypes, FlagTypes, AgentTypes, ThreadTypes, Tidy, Exclusive, Carried, [Next]_vars
    PROVE  Carried'
<1> USE DEF net, agent, shown, bounds, history
<1>1. SUFFICES ASSUME ~raced'
               PROVE  /\ \A t \in Writer :
                            /\ th'[t].pc \in {"broadcast", "blocked", "direct"} => th'[t].val = held'
                            /\ th'[t].pc \in {"blocked", "direct"} => th'[t].on = sid'
                            /\ th'[t].pc = "blocked" => sock' # "good"
                      /\ ka'.pc = "join" => ka'.val = held'
                      /\ pc' \in {"announce", "join"} => due' = held'
    BY DEF Carried
<1>2. ASSUME UNCHANGED <<sid, th, held>>, ~raced, sock' = "good" => sock = "good"
      PROVE  \A t \in Writer :
                 /\ th'[t].pc \in {"broadcast", "blocked", "direct"} => th'[t].val = held'
                 /\ th'[t].pc \in {"blocked", "direct"} => th'[t].on = sid'
                 /\ th'[t].pc = "blocked" => sock' # "good"
    BY <1>2 DEF Carried
<1>3. CASE UNCHANGED vars
    BY <1>1, <1>2, <1>3 DEF vars, Carried
<1>4. CASE Connect
    <2>1. due' = held' /\ pc' = "announce"
        BY <1>4 DEF Connect
    <2>2. /\ \A u \in Writer : th'[u].pc = "rest"
          /\ ka'.pc # "join"
        BY <1>1, <1>4, ConnectsAlone
    <2> QED BY <2>1, <2>2
<1>5. CASE Serve /\ ~Connect
    <2>1. UNCHANGED <<sid, th, held, ka, raced>> /\ (sock' = "good" => sock = "good")
          /\ (pc' \in {"announce", "join"} => due' = held \/ (pc' = pc /\ due' = due))
        BY <1>5 DEF Serve, Announce, JoinReads, Join, SetupFails, SetOffline, HandlePresence,
            ServeReturns
    <2> QED BY <1>1, <1>2, <2>1 DEF Carried
<1>6. CASE Keepalive \/ Environment
    <2>1. UNCHANGED <<sid, pc, due, th, held>> /\ (sock' = "good" => sock = "good")
        BY <1>6 DEF Keepalive, SelfPing, PingFails, RejoinReads, Rejoin, RejoinFails, WriteFails, Kick,
            HardClose, Environment, Wedge, Lost, Evict
    <2>2. ka'.pc = "join" => ka'.val = held \/ ka' = ka
        BY <1>6 DEF Keepalive, SelfPing, PingFails, RejoinReads, Rejoin, RejoinFails, Rest, Environment,
            Wedge, Lost, Evict
    <2>3. ~raced
        BY <1>1, <1>6, ApartSteps DEF Apart
    <2> QED BY <1>2, <2>1, <2>2, <2>3 DEF Carried
<1>7. ASSUME NEW t \in Writer, Announcing(t)
      PROVE  /\ \A u \in Writer :
                   /\ th'[u].pc \in {"broadcast", "blocked", "direct"} => th'[u].val = held'
                   /\ th'[u].pc \in {"blocked", "direct"} => th'[u].on = sid'
                   /\ th'[u].pc = "blocked" => sock' # "good"
             /\ ka'.pc = "join" => ka'.val = held'
             /\ pc' \in {"announce", "join"} => due' = held'
    <2>1. UNCHANGED <<sid, pc, due, ka, raced>> /\ th[t].pc # "rest" /\ (sock' = "good" => sock = "good")
        BY <1>7 DEF Announcing, SetPresence, Broadcast, BroadcastFails, Undirected, Direct, WriteFails,
            Kick, HardClose
    <2>2. /\ \A u \in Writer \ {t} : th[u].pc = "rest"
          /\ pc \in {"down", "serving"} /\ ka.pc # "join"
        BY <1>1, <2>1, OneInHand
    <2>3. \A u \in Writer \ {t} : th'[u].pc = "rest"
        BY <1>7, <2>2, WriterMoves DEF Announcing, Becomes, Rests, Others
    <2>4. CASE SetPresence(t)
        <3>1. held' = th[t].val
            BY <2>4 DEF SetPresence
        <3>2. th'[t].pc = "rest" \/ (th'[t].pc = "broadcast" /\ th'[t].val = th[t].val)
            BY <2>4, WriterMoves, RestIsThread DEF Becomes, Rests
        <3> QED BY <2>1, <2>2, <2>3, <3>1, <3>2
    <2>5. CASE Broadcast(t)
        <3>1. held' = held /\ th[t].pc = "broadcast" /\ sock' = sock
            BY <2>5 DEF Broadcast
        <3>2. \/ th'[t].pc = "rest"
              \/ /\ th'[t].pc \in {"direct", "blocked"} /\ th'[t].val = th[t].val /\ th'[t].on = sid
                 /\ th'[t].pc = "blocked" => sock # "good"
            BY <2>5, WriterMoves, RestIsThread DEF Becomes, Rests
        <3>3. th[t].val = held
            BY <1>1, <2>1, <3>1 DEF Carried
        <3> QED BY <2>1, <2>2, <2>3, <3>1, <3>2, <3>3
    <2>6. CASE BroadcastFails(t)
        <3>1. held' = held /\ th[t].pc = "blocked"
            BY <2>6 DEF BroadcastFails
        <3>2. th'[t].pc = "direct" /\ th'[t].val = th[t].val /\ th'[t].on = th[t].on
            BY <2>6, WriterMoves DEF Becomes
        <3>3. th[t].val = held /\ th[t].on = sid
            BY <1>1, <2>1, <3>1 DEF Carried
        <3> QED BY <2>1, <2>2, <2>3, <3>1, <3>2, <3>3
    <2>7. CASE Undirected(t) \/ Direct(t)
        <3>1. th'[t].pc = "rest"
            BY <2>7, WriterMoves, RestIsThread DEF Rests
        <3> QED BY <2>1, <2>2, <2>3, <3>1
    <2> QED BY <1>7, <2>4, <2>5, <2>6, <2>7 DEF Announcing
<1>8. CASE Noted
    BY <1>1, <1>2, <1>8 DEF Noted, Unannounced, Carried
<1>9. ASSUME NEW t \in Writer, NEW p \in Presence, Occurs(t, p)
      PROVE  /\ \A u \in Writer : th'[u].pc \in {"rest", "set"}
             /\ ka'.pc # "join" /\ pc' \notin {"announce", "join"}
    BY <1>1, <1>9, BeginsAlone DEF Becomes
<1>10. CASE Bridge \/ IdleTick \/ Elapse
    BY <1>8, <1>9, <1>10, BridgeMoves
<1> QED BY <1>3, <1>4, <1>5, <1>6, <1>7, <1>10 DEF Next, Own

\* On a connection that works the roster and the room are told what is held,
\* unless announcements raced.
LEMMA ShowsStep ==
    ASSUME NetTypes, FlagTypes, AgentTypes, ThreadTypes, Tidy, Exclusive, Carried, RosterShows,
           RoomShows, [Next]_vars
    PROVE  RosterShows' /\ RoomShows'
<1> USE DEF net, agent, shown, bounds, history
<1>1. SUFFICES ASSUME ~raced', sock' = "good", pc' \in {"read", "join", "serving"},
                      \A t \in Writer : ~ToTell(t)'
               PROVE  /\ roster' = held'
                      /\ /\ pc' = "serving" /\ member' # "out" /\ ~unheard'
                         /\ \A t \in Writer : th'[t].pc # "direct"
                         => room' = held'
    BY DEF RosterShows, RoomShows
<1>2. ASSUME UNCHANGED <<th, held, roster, pc>>, ~raced, sock = "good",
             room' = room \/ room' = held \/ member' = "out",
             member' # "out" /\ ~unheard' => (member # "out" /\ ~unheard) \/ room' = held
      PROVE  /\ roster' = held'
             /\ /\ pc' = "serving" /\ member' # "out" /\ ~unheard'
                /\ \A t \in Writer : th'[t].pc # "direct"
                => room' = held'
    BY <1>1, <1>2 DEF RosterShows, RoomShows, ToTell
<1>3. CASE UNCHANGED vars
    BY <1>1, <1>2, <1>3 DEF vars
<1>4. CASE Connect
    BY <1>1, <1>4 DEF Connect
<1>5. CASE Announce
    BY <1>1, <1>5 DEF Announce, Carried
<1>6. CASE JoinReads
    BY <1>1, <1>6 DEF JoinReads, RosterShows, ToTell
<1>7. CASE Join
    <2>1. room' = due /\ UNCHANGED <<roster, held, th, raced, sock>> /\ pc = "join"
        BY <1>7 DEF Join, Enter
    <2> QED BY <1>1, <2>1 DEF Carried, RosterShows, ToTell
<1>8. CASE SetupFails \/ ServeReturns
    BY <1>1, <1>8 DEF SetupFails, ServeReturns, SetOffline
<1>9. CASE HandlePresence
    BY <1>1, <1>2, <1>9 DEF HandlePresence
<1>10. CASE Keepalive \/ Environment
    <2>1. UNCHANGED <<th, held, roster, pc>> /\ sock = "good"
        BY <1>1, <1>10 DEF Keepalive, SelfPing, PingFails, RejoinReads, Rejoin, RejoinFails, WriteFails,
            Kick, HardClose, Environment, Wedge, Lost, Evict
    <2>2. ~raced
        BY <1>1, <1>10, ApartSteps DEF Apart
    <2>3. \/ UNCHANGED <<room, member, unheard>>
          \/ ka.pc = "join" /\ room' = ka.val
          \/ member' = "out"
        BY <1>10 DEF Keepalive, SelfPing, PingFails, RejoinReads, Rejoin, Enter, RejoinFails,
            Environment, Wedge, Lost, Evict
    <2> QED BY <1>2, <2>1, <2>2, <2>3 DEF Carried
<1>11. ASSUME NEW t \in Writer, Announcing(t)
       PROVE  /\ roster' = held'
              /\ /\ pc' = "serving" /\ member' # "out" /\ ~unheard'
                 /\ \A u \in Writer : th'[u].pc # "direct"
                 => room' = held'
    <2>1. UNCHANGED <<sid, pc, online, raced>> /\ th[t].pc # "rest" /\ sock = "good"
        BY <1>1, <1>11 DEF Announcing, SetPresence, Broadcast, BroadcastFails, Undirected, Direct,
            WriteFails, Kick, HardClose
    <2>2. /\ \A u \in Writer \ {t} : th[u].pc = "rest"
          /\ pc = "serving" /\ online
        BY <1>1, <2>1, OneInHand DEF NetTypes
    <2>3. CASE SetPresence(t)
        <3>1. held' = th[t].val /\ th[t].pc = "set" /\ UNCHANGED <<roster, room, member, unheard>>
            BY <2>3 DEF SetPresence
        <3>2. th[t].val = held
            BY <1>1, <2>2, <2>3, WriterMoves DEF Becomes, ToTell
        <3> QED BY <1>1, <2>1, <2>2, <3>1, <3>2 DEF RosterShows, RoomShows, ToTell
    <2>4. CASE Broadcast(t)
        <3>1. th[t].pc = "broadcast" /\ held' = held
            BY <2>4 DEF Broadcast
        <3>2. roster' = th[t].val /\ th'[t].pc = "direct"
            BY <2>1, <2>2, <2>4, WriterMoves DEF Becomes
        <3> QED BY <1>1, <2>1, <3>1, <3>2 DEF Carried
    <2>5. CASE BroadcastFails(t)
        BY <1>1, <2>1, <2>5 DEF BroadcastFails, Carried
    <2>6. CASE Undirected(t)
        <3>1. th[t].pc = "direct" /\ UNCHANGED <<held, roster>> /\ unheard'
            BY <2>2, <2>6 DEF Undirected
        <3> QED BY <1>1, <2>1, <2>2, <3>1 DEF RosterShows, ToTell
    <2>7. CASE Direct(t)
        <3>1. th[t].pc = "direct" /\ UNCHANGED <<held, roster>>
            BY <2>7 DEF Direct
        <3>2. th[t].on = sid /\ th[t].val = held
            BY <1>1, <2>1, <3>1 DEF Carried
        <3>3. room' = th[t].val \/ member' = "out"
            BY <2>1, <2>7, <3>2 DEF Direct, Works
        <3> QED BY <1>1, <2>1, <2>2, <3>1, <3>2, <3>3 DEF RosterShows, ToTell
    <2> QED BY <1>11, <2>3, <2>4, <2>5, <2>6, <2>7 DEF Announcing
<1>12. CASE Noted
    BY <1>1, <1>2, <1>12 DEF Noted, Unannounced
<1>13. ASSUME NEW t \in Writer, NEW p \in Presence, Occurs(t, p)
       PROVE  /\ roster' = held'
              /\ /\ pc' = "serving" /\ member' # "out" /\ ~unheard'
                 /\ \A u \in Writer : th'[u].pc # "direct"
                 => room' = held'
    <2>1. /\ th'[t].pc = "set" /\ th'[t].val = p
          /\ \A u \in Writer : th[u].pc = "rest"
          /\ ~raced \/ p # held
          /\ UNCHANGED <<sock, pc, held, roster, room, member, unheard>>
        BY <1>1, <1>13, BeginsAlone DEF Becomes
    <2>2. p = held
        BY <1>1, <2>1 DEF ToTell
    <2> QED BY <1>1, <2>1, <2>2 DEF RosterShows, RoomShows, ToTell
<1>14. CASE Bridge \/ IdleTick \/ Elapse
    BY <1>12, <1>13, <1>14, BridgeMoves
<1> QED BY <1>3, <1>4, <1>5, <1>6, <1>7, <1>8, <1>9, <1>10, <1>11, <1>14 DEF Next, Own, Serve

-----------------------------------------------------------------------------
(* The theorems.                                                             *)

\* The bridge starts offline, at rest, holding the startup label.
LEMMA InitInv == Init => IInv
<1> SUFFICES ASSUME Init PROVE IInv
    OBVIOUS
<1>1. \A t \in Writer : th[t] = Rest
    BY DEF Init
<1>2. NetTypes /\ BoundTypes
    <2>1. 0 \in 0..MaxConn /\ 0 \in 0..MaxChange /\ 0 \in 0..MaxFaults
        BY ConnectionAssumption
    <2> QED BY <2>1 DEF Init, NetTypes, BoundTypes
<1>3. FlagTypes /\ AgentTypes /\ ShownTypes
    BY DEF Init, FlagTypes, AgentTypes, ShownTypes, Presence, Busy
<1>4. ThreadTypes
    BY RestIsThread DEF Init, ThreadTypes
<1>5. Tidy
    BY <1>1, RestIsThread DEF Init, Tidy, TidyWriter
<1>6. Dropped /\ ProperJoin
    BY DEF Init, Dropped, ProperJoin
<1>7. Exclusive
    BY <1>1, RestIsThread DEF Init, Exclusive
<1>8. Intended
    BY <1>1, RestIsThread DEF Init, Intended, Agrees
<1>9. Carried /\ RosterShows /\ RoomShows
    BY <1>1, RestIsThread DEF Init, Carried, RosterShows, RoomShows
<1> QED BY <1>2, <1>3, <1>4, <1>5, <1>6, <1>7, <1>8, <1>9 DEF IInv

\* The parts keep each other.
LEMMA StepInv == IInv /\ [Next]_vars => IInv'
<1> SUFFICES ASSUME IInv, [Next]_vars PROVE IInv'
    OBVIOUS
<1>1. /\ NetTypes /\ FlagTypes /\ AgentTypes /\ ThreadTypes /\ ShownTypes /\ BoundTypes /\ Tidy
      /\ Dropped /\ ProperJoin /\ Exclusive /\ Intended /\ Carried /\ RosterShows /\ RoomShows
    BY DEF IInv
<1>2. /\ NetTypes' /\ FlagTypes' /\ AgentTypes' /\ ThreadTypes' /\ ShownTypes' /\ BoundTypes' /\ Tidy'
    BY <1>1, NetStep, FlagStep, AgentStep, ThreadStep, ShownStep, BoundStep
<1>3. Dropped' /\ ProperJoin' /\ Exclusive' /\ Intended'
    BY <1>1, JoinStep, ExclusiveStep, IntendedStep
<1>4. Carried' /\ RosterShows' /\ RoomShows'
    BY <1>1, CarriedStep, ShowsStep
<1> QED BY <1>2, <1>3, <1>4 DEF IInv

\* Every variable keeps its type: the bridge has a session exactly while serve has
\* one, and serve a presence in hand exactly where it read one.
THEOREM TypeCorrect == Spec => []TypeOK
<1>1. IInv => TypeOK
    BY TypeParts DEF IInv
<1> QED BY InitInv, StepInv, <1>1, PTL DEF Spec

\* Presence reaches a room we are not in, the legacy join, only where the room
\* dropped us on this connection (xmpp.go, broadcastPresence and handlePresence).
THEOREM JoinsAreProper == Spec => []ProperJoin
<1>1. IInv => ProperJoin
    BY DEF IInv
<1> QED BY InitInv, StepInv, <1>1, PTL DEF Spec

\* With nothing in hand the presence held is true of the agent, across any number
\* of reconnects, unless two announcements overlapped.
THEOREM HoldsWhatIsTrue == Spec => []HeldIsTrue
<1>1. IInv => HeldIsTrue
    BY RestIsThread DEF IInv, Intended, Agrees, HeldIsTrue
<1> QED BY InitInv, StepInv, <1>1, PTL DEF Spec

\* On a working connection with nothing in hand, the roster and a room we joined
\* show the presence held, unless announcements overlapped or the presence changed
\* between joinRoom and its confirmation.
THEOREM ShowsWhatIsHeld == Spec => []ShownIsHeld
<1>1. IInv => ShownIsHeld
    BY RestIsThread DEF IInv, RosterShows, RoomShows, ToTell, AtRest, ShownIsHeld
<1> QED BY InitInv, StepInv, <1>1, PTL DEF Spec

\* The bridge never closes a working connection but by the write of a thread that
\* still holds an earlier one.
THEOREM KeepsTheHealthy == Spec => HealthyIsKept
<1>1. IInv /\ [Next]_vars
      => [(sock = "good" /\ sock' = "closed") => (StaleWriter \/ faults' > faults)]_vars
    BY ClosesStale DEF IInv
<1> QED BY InitInv, StepInv, <1>1, PTL DEF Spec, HealthyIsKept
===============================================================================
