-------------------------- MODULE RunLifecycleProofs --------------------------
(***************************************************************************)
(* Proofs about RunLifecycle, for every set of stanzas and of work and for *)
(* every bound on what comes in.                                           *)
(***************************************************************************)
EXTENDS RunLifecycle, QueueFacts

-----------------------------------------------------------------------------
(* The inductive invariant.                                                  *)

Command == Prompt \union Control
Sending == {t \in Thread : sending[t] # Nothing}

\* A heartbeat is queued at the bridge, on its way there or still to come.
Alarmed == heartbeats + Cardinality(Hits(events, {"heartbeat"})) + alarms =< MaxAlarms

\* A stanza is in the tally of the run, in the reader's hand or still to come.
Tallied ==
    runInbound + left + One(reader = "received" /\ hand = "user") =< MaxInbound

\* Only a message or a reaction is made a prompt.
HandIsPrompt == reader \in {"prompt", "submit"} => hand \in {"user", "reaction"}

\* While pi has no run, the bridge believes in none and will not be told of one,
\* or the settle that ends its belief comes after every start that renews it.
NoRunAhead ==
    \/ ~streaming /\ \A i \in DOMAIN events : events[i] # "agent_start"
    \/ \E i \in DOMAIN events :
          /\ events[i] = "agent_settled"
          /\ \A k \in DOMAIN events : k > i => events[k] # "agent_start"

Backed == lastEnd # "aborted" /\ piState \notin {"run", "tool"} => NoRunAhead

IInv == TypeOK /\ PendingIsExact /\ Alarmed /\ Tallied /\ HandIsPrompt /\ Backed

\* Commands and prompts are told apart by their kind.
LEMMA CommandFacts ==
    /\ Nothing \notin Prompt
    /\ Prompt \intersect Control = {}
    /\ \A c \in Command : c.kind \in Kind <=> c \in Prompt
    /\ \A c \in Control : c.kind \in {"clear_queue", "abort", "result"}
    /\ \A k \in {"clear_queue", "abort", "result"} : [kind |-> k, steer |-> FALSE] \in Control
    /\ \A k \in Kind, b \in BOOLEAN : [kind |-> k, steer |-> b] \in Prompt
BY DEF Nothing, Prompt, Control, Command, Kind

\* Under the types, the model's two sets of indices count the sorts.
LEMMA ExactIsCount ==
    ASSUME wire \in Seq(Command)
    PROVE  InFlight = Hits(wire, Prompt) /\ Answered = Hits(events, Response)
<1>1. \A i \in DOMAIN wire : wire[i] \in Command
    OBVIOUS
<1> QED BY <1>1, CommandFacts DEF InFlight, Answered, Hits

-----------------------------------------------------------------------------
(* Pending prompts.                                                          *)

\* The ways a prompt can go, one place at a time: accounted for, written, read
\* and answered by pi, its answer handled.
Submits ==
    \E t \in Thread, x \in Prompt :
        /\ sending[t] = Nothing /\ sending' = [sending EXCEPT ![t] = x]
        /\ pending' = pending + 1
        /\ wire' = wire /\ Spares(events, events', Event, Response)
Sends ==
    \E t \in Thread :
        /\ sending[t] # Nothing /\ sending' = [sending EXCEPT ![t] = Nothing]
        /\ wire' = Append(wire, sending[t])
        /\ UNCHANGED <<pending, events>>
Answers ==
    /\ wire # <<>> /\ Head(wire) \in Prompt /\ wire' = Tail(wire)
    /\ \E x \in Response : events' = Append(events, x)
    /\ UNCHANGED <<pending, sending>>
Handles ==
    /\ events # <<>> /\ Head(events) \in Response /\ events' = Tail(events)
    /\ pending' = pending - 1
    /\ UNCHANGED <<wire, sending>>
Passes ==
    /\ UNCHANGED <<pending, sending>>
    /\ Spares(wire, wire', Command, Prompt)
    /\ Spares(events, events', Event, Response)

\* Every step moves at most one prompt by one place.
LEMMA PromptMoves ==
    ASSUME TypeOK, HandIsPrompt, [Next]_vars
    PROVE  Submits \/ Sends \/ Answers \/ Handles \/ Passes
<1> USE DEF activity, turn, tally, budget, flags, disk, reading, settling, piVars, bridge
<1>0. wire \in Seq(Command) /\ events \in Seq(Event)
    BY DEF TypeOK, Command
<1>h. wire # <<>> => Head(wire) \in Command
    BY <1>0
<1>1. CASE UNCHANGED vars
    BY <1>1 DEF vars, Passes, Spares
<1>2. CASE Receive \/ TakeMessage \/ TakeReaction \/ ReadBehavior \/ SettleLocally
    BY <1>2 DEF Receive, TakeMessage, TakeReaction, ReadBehavior, SettleLocally, Passes, Spares
<1>3. CASE SubmitInHand
    <2>1. sending["reader"] = Nothing /\ hand \in Kind /\ behavior \in BOOLEAN
        BY <1>3 DEF SubmitInHand, Reader, Free, HandIsPrompt, Kind, TypeOK
    <2>2. [kind |-> hand, steer |-> behavior] \in Prompt
        BY <2>1, CommandFacts
    <2> QED BY <1>3, <2>1, <2>2 DEF SubmitInHand, Submit, Submits, Spares, Thread
<1>4. CASE RequestClear \/ RequestAbort \/ Respond
    <2>1. \E x \in Control : wire' = Append(wire, x)
        BY <1>4, CommandFacts DEF RequestClear, RequestAbort, Respond
    <2>2. UNCHANGED <<pending, sending, events>>
        BY <1>4 DEF RequestClear, RequestAbort, Respond
    <2> QED BY <2>1, <2>2, CommandFacts DEF Passes, Spares, Command
<1>5. CASE HandleResponse
    BY <1>5 DEF HandleResponse, Handle, Handles
<1>6. CASE HandleStart \/ HandleWork \/ HandleCredit \/ HandleSettled
    <2>1. /\ events # <<>> /\ Head(events) \notin Response /\ events' = Tail(events)
          /\ UNCHANGED wire
        BY <1>6 DEF HandleStart, HandleWork, HandleCredit, HandleSettled, Handle, Response
    <2>2. UNCHANGED <<pending, sending>>
        BY <1>6 DEF HandleStart, HandleWork, HandleCredit, HandleSettled
    <2> QED BY <2>1, <2>2 DEF Passes, Spares
<1>7. CASE HandleSend \/ HandleHeartbeat
    <2>1. /\ events # <<>> /\ Head(events) \notin Response /\ events' = Tail(events)
          /\ UNCHANGED wire /\ sending["loop"] = Nothing
        BY <1>7 DEF HandleSend, HandleHeartbeat, Handle, Response, Relay, Misaddressed, Free
    <2>2. \/ UNCHANGED <<pending, sending>>
          \/ Submit("loop", "routing", SteerBehavior) \/ Submit("loop", "heartbeat", SteerBehavior)
        BY <1>7 DEF HandleSend, HandleHeartbeat, FireHeartbeat
    <2>3. \A k \in Kind : [kind |-> k, steer |-> SteerBehavior] \in Prompt
        BY CommandFacts DEF SteerBehavior
    <2>4. CASE UNCHANGED <<pending, sending>>
        BY <2>1, <2>4 DEF Passes, Spares
    <2>5. ASSUME NEW k \in {"routing", "heartbeat"}, Submit("loop", k, SteerBehavior)
          PROVE  Submits
        <3>1. [kind |-> k, steer |-> SteerBehavior] \in Prompt
            BY <2>3 DEF Kind
        <3> QED BY <2>1, <2>5, <3>1 DEF Submit, Submits, Spares, Thread
    <2> QED BY <2>2, <2>4, <2>5
<1>8. CASE Decide \/ FlushHeartbeat
    <2>1. UNCHANGED <<wire, events>> /\ sending["loop"] = Nothing
        BY <1>8 DEF Decide, FlushHeartbeat, Settle, Free
    <2>2. \/ UNCHANGED <<pending, sending>>
          \/ \E k \in {"recovery", "hint", "heartbeat"} : Submit("loop", k, SteerBehavior)
        BY <1>8 DEF Decide, FlushHeartbeat, FireSendRecovery, SkipSendRecovery, Nudge, NoNudge,
                    FireHeartbeat
    <2>3. \A k \in Kind : [kind |-> k, steer |-> SteerBehavior] \in Prompt
        BY CommandFacts DEF SteerBehavior
    <2>4. CASE UNCHANGED <<pending, sending>>
        BY <2>1, <2>4 DEF Passes, Spares
    <2>5. ASSUME NEW k \in {"recovery", "hint", "heartbeat"}, Submit("loop", k, SteerBehavior)
          PROVE  Submits
        <3>1. [kind |-> k, steer |-> SteerBehavior] \in Prompt
            BY <2>3 DEF Kind
        <3> QED BY <2>1, <2>5, <3>1 DEF Submit, Submits, Spares, Thread
    <2> QED BY <2>2, <2>4, <2>5
<1>9. CASE Close \/ Settled
    BY <1>9 DEF Close, Settled, Settle, Passes, Spares
<1>10. ASSUME NEW t \in Thread, WriteMarker(t) PROVE Passes
    BY <1>10 DEF WriteMarker, Passes, Spares
<1>11. ASSUME NEW t \in Thread, Send(t) PROVE Sends
    BY <1>11 DEF Send, Sends
<1>12. CASE PiAccept \/ PiSteer \/ PiReject
    <2>1. /\ wire # <<>> /\ Head(wire).kind \in Kind /\ wire' = Tail(wire)
          /\ UNCHANGED <<pending, sending>>
          /\ events' = Append(events, "accepted") \/ events' = Append(events, "rejected")
        BY <1>12 DEF PiAccept, PiSteer, PiReject, PiReads, Emit, Kind
    <2>2. Head(wire) \in Prompt
        BY <2>1, <1>h, CommandFacts
    <2> QED BY <2>1, <2>2 DEF Answers, Response
<1>13. CASE PiClear \/ PiAbort \/ PiResult
    <2>1. /\ wire # <<>> /\ Head(wire).kind \in {"clear_queue", "abort", "result"}
          /\ wire' = Tail(wire) /\ UNCHANGED <<pending, sending, events>>
        BY <1>13 DEF PiClear, PiAbort, PiResult, PiReads
    <2>2. Head(wire) \notin Prompt
        BY <2>1 DEF Prompt, Kind
    <2> QED BY <2>1, <2>2 DEF Passes, Spares
<1>14. CASE PiStart \/ PiWork \/ PiCall \/ PiSettle \/ Alarm
    <2>1. UNCHANGED <<wire, pending, sending>>
        BY <1>14 DEF PiStart, PiWork, PiCall, PiSettle, Alarm
    <2>2. \E x \in Event \ Response : events' = Append(events, x)
        BY <1>14, LifecycleAssumption DEF PiStart, PiWork, PiCall, PiSettle, Alarm, Emit, Event,
                                          Response, Relay, Misaddressed
    <2> QED BY <2>1, <2>2 DEF Passes, Spares
<1> QED BY <1>1, <1>2, <1>3, <1>4, <1>5, <1>6, <1>7, <1>8, <1>9, <1>10, <1>11, <1>12, <1>13, <1>14
        DEF Next, ReaderStep, LoopStep, PiAnswer

\* The count and its three parts move together.
LEMMA ExactStep ==
    ASSUME TypeOK, PendingIsExact, HandIsPrompt, [Next]_vars
    PROVE  /\ PendingIsExact'
           /\ pending' \in Nat /\ sending' \in [Thread -> Prompt \union {Nothing}]
           /\ wire' \in Seq(Command) /\ events' \in Seq(Event)
<1> DEFINE w == Cardinality(Hits(wire, Prompt))
           a == Cardinality(Hits(events, Response))
           s == Cardinality(Sending)
           S1 == {t \in Thread : sending'[t] # Nothing}
           w1 == Cardinality(Hits(wire', Prompt))
           a1 == Cardinality(Hits(events', Response))
           s1 == Cardinality(S1)
<1>0. wire \in Seq(Command) /\ events \in Seq(Event)
      /\ sending \in [Thread -> Prompt \union {Nothing}] /\ pending \in Nat
    BY DEF TypeOK, Command
<1>1. w \in Nat /\ a \in Nat
    BY <1>0, HitsFinite
<1>2. IsFiniteSet(Sending) /\ s \in Nat
    <2>1. IsFiniteSet({}) /\ IsFiniteSet({} \union {"reader"})
          /\ IsFiniteSet(({} \union {"reader"}) \union {"loop"})
        BY FS_EmptySet, FS_AddElement
    <2>2. Sending \subseteq ({} \union {"reader"}) \union {"loop"}
        BY DEF Sending, Thread
    <2> QED BY <2>1, <2>2, FS_Subset, FS_CardinalityType
<1>3. pending = w + a + s
    BY <1>0, ExactIsCount DEF PendingIsExact, Sending
<1>4. SUFFICES /\ wire' \in Seq(Command) /\ events' \in Seq(Event)
               /\ sending' \in [Thread -> Prompt \union {Nothing}]
               /\ s1 \in Nat /\ pending' = w1 + a1 + s1
    <2>1. w1 \in Nat /\ a1 \in Nat
        BY <1>4, HitsFinite
    <2>2. (InFlight = Hits(wire, Prompt) /\ Answered = Hits(events, Response))'
        <3>1. \A i \in DOMAIN wire' : wire'[i] \in Command
            BY <1>4
        <3> QED BY <3>1, CommandFacts DEF InFlight, Answered, Hits
    <2>3. PendingIsExact'
        BY <1>4, <2>2 DEF PendingIsExact
    <2> QED BY <1>4, <2>1, <2>3
<1>5. CASE Submits
    <2>1. PICK t \in Thread, x \in Prompt :
              /\ sending[t] = Nothing /\ sending' = [sending EXCEPT ![t] = x]
              /\ pending' = pending + 1
              /\ wire' = wire /\ Spares(events, events', Event, Response)
        BY <1>5 DEF Submits
    <2>2. events' \in Seq(Event) /\ a1 = a
        BY <1>0, <2>1, SparedHits
    <2>3. S1 = Sending \union {t} /\ t \notin Sending
        BY <1>0, <2>1, CommandFacts DEF Sending
    <2>4. s1 = s + 1
        BY <1>2, <2>3, FS_AddElement
    <2>5. sending' \in [Thread -> Prompt \union {Nothing}]
        BY <1>0, <2>1
    <2> QED BY <1>0, <1>1, <1>2, <1>3, <2>1, <2>2, <2>4, <2>5
<1>6. CASE Sends
    <2>1. PICK t \in Thread :
              /\ sending[t] # Nothing /\ sending' = [sending EXCEPT ![t] = Nothing]
              /\ wire' = Append(wire, sending[t]) /\ UNCHANGED <<pending, events>>
        BY <1>6 DEF Sends
    <2>2. sending[t] \in Prompt /\ sending[t] \in Command
        BY <1>0, <2>1 DEF Command
    <2>3. w1 = w + One(sending[t] \in Prompt) /\ wire' \in Seq(Command)
        BY <1>0, <2>1, <2>2, HitsAppend
    <2>4. S1 = Sending \ {t} /\ t \in Sending
        BY <1>0, <2>1 DEF Sending
    <2>5. IsFiniteSet(Sending \ {t}) /\ s1 = s - 1
        BY <1>2, <2>4, FS_RemoveElement
    <2>6. s1 \in Nat
        BY <2>4, <2>5, FS_CardinalityType
    <2>7. sending' \in [Thread -> Prompt \union {Nothing}]
        BY <1>0, <2>1
    <2>8. w1 = w + 1 /\ a1 = a
        BY <1>1, <2>1, <2>2, <2>3 DEF One
    <2>9. pending' = w1 + a1 + s1
        <3> HIDE DEF w, a, s, w1, a1, s1
        <3> QED BY <1>0, <1>1, <1>2, <1>3, <2>1, <2>5, <2>6, <2>8
    <2> QED BY <1>0, <2>1, <2>3, <2>6, <2>7, <2>9
<1>7. CASE Answers
    <2>1. PICK x \in Response : events' = Append(events, x)
        BY <1>7 DEF Answers
    <2>2. wire # <<>> /\ Head(wire) \in Prompt /\ wire' = Tail(wire)
          /\ UNCHANGED <<pending, sending>>
        BY <1>7 DEF Answers
    <2>3. wire' \in Seq(Command) /\ events' \in Seq(Event)
        BY <1>0, <2>1, <2>2 DEF Event
    <2>4. a1 = a + One(x \in Response)
        BY <1>0, <2>1, HitsAppend DEF Event
    <2>5. w = w1 + One(Head(wire) \in Prompt) /\ w1 \in Nat
        BY <1>0, <2>2, <2>3, HitsTail, HitsFinite
    <2>6. a1 = a + 1 /\ w = w1 + 1 /\ w1 \in Nat
        BY <1>1, <2>2, <2>4, <2>5 DEF One
    <2>7. s1 = s
        BY <2>2 DEF Sending
    <2>8. pending' = w1 + a1 + s1
        <3> HIDE DEF w, a, s, w1, a1, s1
        <3> QED BY <1>1, <1>2, <1>3, <2>2, <2>6, <2>7
    <2> QED BY <1>0, <1>2, <2>2, <2>3, <2>7, <2>8
<1>8. CASE Handles
    <2>1. events # <<>> /\ Head(events) \in Response /\ events' = Tail(events)
          /\ pending' = pending - 1 /\ UNCHANGED <<wire, sending>>
        BY <1>8 DEF Handles
    <2>2. events' \in Seq(Event)
        BY <1>0, <2>1
    <2>3. a = a1 + One(Head(events) \in Response) /\ a1 \in Nat
        BY <1>0, <2>1, <2>2, HitsTail, HitsFinite
    <2>4. a = a1 + 1 /\ w1 = w /\ a1 \in Nat
        BY <1>1, <2>1, <2>3 DEF One
    <2>5. s1 = s
        BY <2>1 DEF Sending
    <2>6. pending' = w1 + a1 + s1
        <3> HIDE DEF w, a, s, w1, a1, s1
        <3> QED BY <1>1, <1>2, <1>3, <2>1, <2>4, <2>5
    <2> QED BY <1>0, <1>2, <2>1, <2>2, <2>5, <2>6
<1>9. CASE Passes
    <2>1. UNCHANGED <<pending, sending>> /\ Spares(wire, wire', Command, Prompt)
          /\ Spares(events, events', Event, Response)
        BY <1>9 DEF Passes
    <2>2. /\ wire' \in Seq(Command) /\ w1 = w
          /\ events' \in Seq(Event) /\ a1 = a
        BY <1>0, <2>1, SparedHits
    <2>3. s1 = s
        BY <2>1 DEF Sending
    <2> QED BY <1>0, <1>1, <1>2, <1>3, <2>1, <2>2, <2>3
<1> QED BY <1>5, <1>6, <1>7, <1>8, <1>9, PromptMoves

-----------------------------------------------------------------------------
(* Heartbeats and the tally of a run.                                        *)

\* A heartbeat comes once: it is emitted, queued or fired, and delivered.
LEMMA AlarmedStep ==
    ASSUME TypeOK, Alarmed, [Next]_vars
    PROVE  Alarmed' /\ heartbeats' \in 0..MaxAlarms /\ alarms' \in 0..MaxAlarms
<1> USE DEF activity, turn, tally, budget, flags, disk, reading, settling, piVars, bridge
<1> DEFINE Beat == {"heartbeat"}
           n == Cardinality(Hits(events, Beat))
           n1 == Cardinality(Hits(events', Beat))
<1>0. events \in Seq(Event)
    BY DEF TypeOK
<1>n. heartbeats \in Nat /\ alarms \in Nat /\ MaxAlarms \in Nat
    BY LifecycleAssumption DEF TypeOK
<1>1. n \in Nat /\ heartbeats + n + alarms =< MaxAlarms
    BY <1>0, HitsFinite DEF Alarmed
<1>2. SUFFICES /\ heartbeats' \in Nat /\ alarms' \in Nat /\ n1 \in Nat
               /\ heartbeats' + n1 + alarms' =< heartbeats + n + alarms
    <2>1. \A h1, k1, l1, h, k, l, m \in Nat :
              h1 + k1 + l1 =< h + k + l /\ h + k + l =< m
                => h1 + k1 + l1 =< m /\ h1 \in 0..m /\ l1 \in 0..m
        OBVIOUS
    <2>2. heartbeats' + n1 + alarms' =< MaxAlarms
          /\ heartbeats' \in 0..MaxAlarms /\ alarms' \in 0..MaxAlarms
        BY <1>n, <1>1, <1>2, <2>1
    <2> QED BY <2>2 DEF Alarmed
<1>3. ASSUME UNCHANGED alarms, heartbeats' \in Nat, heartbeats' =< heartbeats,
             Spares(events, events', Event, Beat)
      PROVE  /\ heartbeats' \in Nat /\ alarms' \in Nat /\ n1 \in Nat
             /\ heartbeats' + n1 + alarms' =< heartbeats + n + alarms
    <2>1. n1 = n
        BY <1>0, <1>3, SparedHits
    <2>2. \A h1, h, k, l \in Nat : h1 =< h => h1 + k + l =< h + k + l
        OBVIOUS
    <2> QED BY <1>n, <1>1, <1>3, <2>1, <2>2
<1>4. CASE UNCHANGED <<events, heartbeats, alarms>>
    BY <1>n, <1>3, <1>4 DEF Spares
<1>5. UNCHANGED vars \/ ReaderStep \/ Respond \/ Decide \/ Close \/ Settled
      \/ (\E t \in Thread : WriteMarker(t) \/ Send(t)) \/ PiClear \/ PiAbort \/ PiResult
        => UNCHANGED <<events, heartbeats, alarms>>
    BY DEF vars, ReaderStep, Receive, TakeMessage, TakeReaction, ReadBehavior, SubmitInHand,
           RequestClear, RequestAbort, SettleLocally, Respond, Decide, Close, Settled, Settle,
           WriteMarker, Send, PiClear, PiAbort, PiResult, PiReads
<1>6. CASE HandleResponse \/ HandleStart \/ HandleWork \/ HandleSend \/ HandleCredit \/ HandleSettled
    <2>1. UNCHANGED <<heartbeats, alarms>>
        BY <1>6 DEF HandleResponse, HandleStart, HandleWork, HandleSend, HandleCredit,
                    HandleSettled, Handle
    <2>2. events # <<>> /\ Head(events) \notin Beat /\ events' = Tail(events)
        BY <1>6 DEF HandleResponse, HandleStart, HandleWork, HandleSend, HandleCredit,
                    HandleSettled, Handle, Response, Relay, Misaddressed
    <2> QED BY <1>n, <1>3, <2>1, <2>2 DEF Spares
<1>7. CASE HandleHeartbeat
    <2>1. /\ events # <<>> /\ Head(events) = "heartbeat" /\ events' = Tail(events)
          /\ UNCHANGED alarms /\ heartbeats' \in {heartbeats, heartbeats + 1}
        BY <1>7 DEF HandleHeartbeat, Handle
    <2>2. events' \in Seq(Event) /\ n = n1 + One(Head(events) \in Beat)
        BY <1>0, <2>1, HitsTail
    <2>3. n1 \in Nat
        BY <2>2, HitsFinite
    <2>4. n = n1 + 1
        BY <2>1, <2>2, <2>3 DEF One
    <2>5. \A h, k, l \in Nat : \A h1 \in {h, h + 1} : h1 \in Nat /\ h1 + k + l =< h + (k + 1) + l
        OBVIOUS
    <2> QED BY <1>n, <2>1, <2>3, <2>4, <2>5
<1>8. CASE FlushHeartbeat
    <2>1. UNCHANGED <<events, alarms>> /\ heartbeats > 0 /\ heartbeats' = heartbeats - 1
        BY <1>8 DEF FlushHeartbeat, Settle
    <2> QED BY <1>n, <1>3, <2>1 DEF Spares
<1>9. CASE PiAccept \/ PiSteer \/ PiReject \/ PiStart \/ PiWork \/ PiCall \/ PiSettle
    <2>1. UNCHANGED <<heartbeats, alarms>>
        BY <1>9 DEF PiAccept, PiSteer, PiReject, PiStart, PiWork, PiCall, PiSettle, PiReads
    <2>2. \E x \in Event \ Beat : events' = Append(events, x)
        BY <1>9, LifecycleAssumption DEF PiAccept, PiSteer, PiReject, PiStart, PiWork, PiCall,
            PiSettle, Emit, Event, Response, Relay, Misaddressed
    <2> QED BY <1>n, <1>3, <2>1, <2>2 DEF Spares
<1>10. CASE Alarm
    <2>1. /\ alarms > 0 /\ alarms' = alarms - 1 /\ UNCHANGED heartbeats
          /\ events' = Append(events, "heartbeat") /\ "heartbeat" \in Event
        BY <1>10 DEF Alarm, Emit, Event
    <2>2. n1 = n + One("heartbeat" \in Beat)
        BY <1>0, <2>1, HitsAppend
    <2>3. n1 = n + 1
        BY <1>1, <2>2 DEF One
    <2>4. \A h, k, l \in Nat : l > 0 => h + (k + 1) + (l - 1) =< h + k + l /\ l - 1 \in Nat
        OBVIOUS
    <2> QED BY <1>n, <1>1, <2>1, <2>3, <2>4
<1> QED BY <1>4, <1>5, <1>6, <1>7, <1>8, <1>9, <1>10 DEF Next, LoopStep, PiAnswer

\* A stanza is counted once, and the reader holds a prompt's stanza until it is
\* submitted.
LEMMA TalliedStep ==
    ASSUME TypeOK, Tallied, HandIsPrompt, [Next]_vars
    PROVE  /\ Tallied' /\ HandIsPrompt'
           /\ runInbound' \in 0..MaxInbound /\ left' \in 0..MaxInbound
<1> USE DEF activity, turn, tally, budget, flags, disk, reading, settling, piVars, bridge,
            Tallied, HandIsPrompt, One
<1>0. runInbound \in Nat /\ left \in Nat /\ MaxInbound \in Nat
    BY LifecycleAssumption DEF TypeOK
<1>1. CASE UNCHANGED <<runInbound, reader, hand, left>>
    BY <1>0, <1>1
<1>2. CASE Receive
    <2>1. /\ reader = "idle" /\ reader' = "received" /\ left > 0 /\ left' = left - 1
          /\ UNCHANGED runInbound
        BY <1>2 DEF Receive, Reader
    <2> QED BY <1>0, <2>1
<1>3. CASE TakeMessage
    <2>1. /\ hand = "user" /\ reader = "received" /\ reader' = "prompt"
          /\ runInbound' = runInbound + 1 /\ UNCHANGED <<left, hand>>
        BY <1>3 DEF TakeMessage, Reader
    <2> QED BY <1>0, <2>1
<1>4. CASE TakeReaction \/ ReadBehavior \/ SubmitInHand \/ RequestClear \/ RequestAbort
           \/ SettleLocally \/ PiClear
    <2>1. /\ UNCHANGED left /\ runInbound' \in {runInbound, 0} /\ reader' # "received"
          /\ reader' \in {"prompt", "submit"} => hand' \in {"user", "reaction"}
        BY <1>4 DEF TakeReaction, ReadBehavior, SubmitInHand, RequestClear, RequestAbort,
            SettleLocally, Reader, PiClear, PiReads
    <2>2. CASE runInbound' = runInbound
        BY <1>0, <2>1, <2>2
    <2>3. CASE runInbound' = 0
        BY <1>0, <2>1, <2>3
    <2> QED BY <2>1, <2>2, <2>3
<1>5. CASE Close
    <2>1. runInbound' = 0 /\ UNCHANGED <<reader, hand, left>>
        BY <1>5 DEF Close, Settle
    <2> QED BY <1>0, <2>1
<1>6. UNCHANGED vars \/ (LoopStep /\ ~Close) \/ (\E t \in Thread : WriteMarker(t) \/ Send(t))
      \/ (PiAnswer /\ ~PiClear) \/ PiStart \/ PiWork \/ PiCall \/ PiSettle \/ Alarm
        => UNCHANGED <<runInbound, reader, hand, left>>
    BY DEF vars, LoopStep, HandleResponse, HandleStart, HandleWork, HandleSend, Respond,
           HandleCredit, HandleHeartbeat, HandleSettled, Handle, Decide, FlushHeartbeat, Settled,
           Settle, WriteMarker, Send, PiAnswer, PiAccept, PiSteer, PiReject, PiAbort, PiResult,
           PiReads, PiStart, PiWork, PiCall, PiSettle, Alarm
<1> QED BY <1>1, <1>2, <1>3, <1>4, <1>5, <1>6 DEF Next, ReaderStep

-----------------------------------------------------------------------------
(* The run the bridge believes in.                                           *)

\* Queues of events: the entries that start or settle a run keep their order.
Calm(q, r) ==
    \/ r = q
    \/ \E x \in Event \ {"agent_start"} : r = Append(q, x)
    \/ q # <<>> /\ Head(q) \notin {"agent_start", "agent_settled"} /\ r = Tail(q)

\* After the last start in a queue comes a settle.
Closed(q) ==
    \E i \in DOMAIN q :
        q[i] = "agent_settled" /\ \A k \in DOMAIN q : k > i => q[k] # "agent_start"
Startless(q) == \A i \in DOMAIN q : q[i] # "agent_start"

\* Taking the first entry: a closed queue stays closed unless that entry was the
\* settle, after which no start is left; a queue without starts stays without.
LEMMA TailFacts ==
    ASSUME NEW q \in Seq(Event), q # <<>>
    PROVE  /\ Closed(q) => Closed(Tail(q)) \/ (Head(q) = "agent_settled" /\ Startless(Tail(q)))
           /\ Startless(q) => Startless(Tail(q)) /\ Head(q) # "agent_start"
<1>1. /\ Len(q) \in Nat \ {0} /\ Len(Tail(q)) = Len(q) - 1
      /\ \A i \in 1..(Len(q) - 1) : Tail(q)[i] = q[i + 1]
      /\ Head(q) = q[1] /\ DOMAIN q = 1..Len(q) /\ DOMAIN Tail(q) = 1..(Len(q) - 1)
    OBVIOUS
<1>2. \A k \in DOMAIN Tail(q) : k + 1 \in DOMAIN q /\ Tail(q)[k] = q[k + 1]
    BY <1>1
<1>3. Startless(q) => Startless(Tail(q)) /\ Head(q) # "agent_start"
    BY <1>1, <1>2 DEF Startless
<1>4. ASSUME Closed(q)
      PROVE  Closed(Tail(q)) \/ (Head(q) = "agent_settled" /\ Startless(Tail(q)))
    <2>1. PICK i \in DOMAIN q :
              q[i] = "agent_settled" /\ \A k \in DOMAIN q : k > i => q[k] # "agent_start"
        BY <1>4 DEF Closed
    <2>2. CASE i = 1
        BY <1>1, <1>2, <2>1, <2>2 DEF Startless
    <2>3. CASE i # 1
        <3>1. i \in 1..Len(q)
            BY <1>1
        <3>2. i - 1 \in 1..(Len(q) - 1) /\ (i - 1) + 1 = i
            BY <1>1, <2>3, <3>1
        <3>3. Tail(q)[i - 1] = "agent_settled"
            BY <1>1, <2>1, <3>2
        <3>4. ASSUME NEW k \in DOMAIN Tail(q), k > i - 1 PROVE Tail(q)[k] # "agent_start"
            <4>1. k \in 1..(Len(q) - 1) /\ k + 1 > i
                BY <1>1, <3>1, <3>4
            <4> QED BY <1>2, <2>1, <4>1
        <3> QED BY <1>1, <3>2, <3>3, <3>4 DEF Closed
    <2> QED BY <2>2, <2>3
<1> QED BY <1>3, <1>4

\* What is added behind is no start, so nothing reopens.
LEMMA CalmFacts ==
    ASSUME NEW q \in Seq(Event), NEW r, Calm(q, r)
    PROVE  (Closed(q) => Closed(r)) /\ (Startless(q) => Startless(r))
<1>1. CASE r = q
    BY <1>1
<1>2. ASSUME NEW x \in Event \ {"agent_start"}, r = Append(q, x)
      PROVE  (Closed(q) => Closed(r)) /\ (Startless(q) => Startless(r))
    <2>1. /\ DOMAIN r = 1..(Len(q) + 1) /\ DOMAIN q = 1..Len(q) /\ Len(q) \in Nat
          /\ \A i \in 1..Len(q) : r[i] = q[i]
          /\ r[Len(q) + 1] = x
        BY <1>2
    <2>2. \A k \in DOMAIN r : k \in DOMAIN q \/ r[k] # "agent_start"
        BY <1>2, <2>1
    <2>3. \A k \in DOMAIN q : k \in DOMAIN r /\ r[k] = q[k]
        BY <2>1
    <2> QED BY <2>2, <2>3 DEF Closed, Startless
<1>3. CASE q # <<>> /\ Head(q) \notin {"agent_start", "agent_settled"} /\ r = Tail(q)
    BY <1>3, TailFacts
<1> QED BY <1>1, <1>2, <1>3 DEF Calm

\* The settle of a run that has none behind it closes the queue.
LEMMA SettleCloses == ASSUME NEW q \in Seq(Event) PROVE Closed(Append(q, "agent_settled"))
<1>1. /\ DOMAIN Append(q, "agent_settled") = 1..(Len(q) + 1) /\ Len(q) \in Nat
      /\ Append(q, "agent_settled")[Len(q) + 1] = "agent_settled"
    BY DEF Event
<1>2. Len(q) + 1 \in 1..(Len(q) + 1) /\ \A k \in 1..(Len(q) + 1) : ~(k > Len(q) + 1)
    BY <1>1
<1> QED BY <1>1, <1>2 DEF Closed

\* While pi has no run and aborted none, what the bridge believes is settled by
\* what is under way.
LEMMA BackedStep ==
    ASSUME TypeOK, Backed, [Next]_vars
    PROVE  Backed'
<1> USE DEF activity, turn, tally, budget, flags, disk, reading, settling, piVars, bridge
<1> DEFINE Busy == lastEnd = "aborted" \/ piState \in {"run", "tool"}
           Busy1 == lastEnd' = "aborted" \/ piState' \in {"run", "tool"}
<1>0. events \in Seq(Event)
    BY DEF TypeOK
<1>1. Busy \/ (~streaming /\ Startless(events)) \/ Closed(events)
    BY DEF Backed, NoRunAhead, Startless, Closed
<1>2. SUFFICES Busy1 \/ (~streaming' /\ Startless(events')) \/ Closed(events')
    BY DEF Backed, NoRunAhead, Startless, Closed
<1>3. ASSUME Busy => Busy1, streaming' => streaming, Calm(events, events')
      PROVE  Busy1 \/ (~streaming' /\ Startless(events')) \/ Closed(events')
    <2> HIDE DEF Busy, Busy1
    <2> QED BY <1>0, <1>1, <1>3, CalmFacts
<1>4. CASE HandleStart
    <2>1. /\ events # <<>> /\ Head(events) = "agent_start" /\ events' = Tail(events)
          /\ UNCHANGED <<lastEnd, piState>>
        BY <1>4 DEF HandleStart, Handle
    <2> QED BY <1>0, <1>1, <2>1, TailFacts
<1>5. CASE HandleSettled
    <2>1. /\ events # <<>> /\ events' = Tail(events) /\ streaming' = FALSE
          /\ UNCHANGED <<lastEnd, piState>>
        BY <1>5 DEF HandleSettled, Handle
    <2> QED BY <1>0, <1>1, <2>1, TailFacts
<1>6. CASE PiSettle
    <2>1. events' = Append(events, "agent_settled")
        BY <1>6 DEF PiSettle, Emit
    <2> QED BY <1>0, <2>1, SettleCloses
<1>7. CASE PiStart \/ PiWork \/ PiCall
    BY <1>7 DEF PiStart, PiWork, PiCall
<1>8. CASE UNCHANGED vars \/ ReaderStep \/ \E t \in Thread : WriteMarker(t) \/ Send(t)
    <2>1. UNCHANGED <<events, lastEnd, piState>> /\ (streaming' = streaming \/ streaming' = FALSE)
        BY <1>8 DEF vars, ReaderStep, Receive, TakeMessage, TakeReaction, ReadBehavior, SubmitInHand,
            Submit, RequestClear, RequestAbort, SettleLocally, WriteMarker, Send
    <2> QED BY <1>3, <2>1 DEF Calm
<1>9. CASE HandleResponse \/ HandleWork \/ HandleSend \/ HandleCredit \/ HandleHeartbeat
    <2>1. UNCHANGED <<streaming, lastEnd, piState>>
        BY <1>9 DEF HandleResponse, HandleWork, HandleSend, HandleCredit, HandleHeartbeat, Handle,
            FireHeartbeat, Submit
    <2>2. events # <<>> /\ Head(events) \notin {"agent_start", "agent_settled"}
          /\ events' = Tail(events)
        BY <1>9 DEF HandleResponse, HandleWork, HandleSend, HandleCredit, HandleHeartbeat, Handle,
            Response, Relay, Misaddressed
    <2> QED BY <1>3, <2>1, <2>2 DEF Calm
<1>10. CASE Respond \/ Decide \/ Close \/ FlushHeartbeat \/ Settled
    <2>1. UNCHANGED <<events, streaming, lastEnd, piState>>
        BY <1>10 DEF Respond, Decide, Close, FlushHeartbeat, Settled, Settle, FireSendRecovery,
            SkipSendRecovery, Nudge, NoNudge, FireHeartbeat, Submit
    <2> QED BY <1>3, <2>1 DEF Calm
<1>11. CASE PiAccept \/ PiSteer \/ PiReject \/ PiClear \/ PiResult \/ Alarm
    <2>1. UNCHANGED <<streaming, lastEnd>> /\ (piState \in {"run", "tool"} => piState' \in {"run", "tool"})
        BY <1>11 DEF PiAccept, PiSteer, PiReject, PiClear, PiResult, Alarm, PiReads
    <2>2. Calm(events, events')
        BY <1>11 DEF PiAccept, PiSteer, PiReject, PiClear, PiResult, Alarm, PiReads, Emit, Calm,
            Event, Response
    <2> QED BY <1>3, <2>1, <2>2
<1>12. CASE PiAbort
    <2>1. UNCHANGED <<streaming, events>> /\ (UNCHANGED <<lastEnd, piState>> \/ lastEnd' = "aborted")
        BY <1>12 DEF PiAbort
    <2> QED BY <1>3, <2>1 DEF Calm
<1> QED BY <1>4, <1>5, <1>6, <1>7, <1>8, <1>9, <1>10, <1>11, <1>12 DEF Next, LoopStep, PiAnswer

-----------------------------------------------------------------------------
(* Types, and what follows.                                                  *)

\* The busy marker's bookkeeping, the run's, the two loops' and pi's, whose ranges
\* no step computes from a count.
BusyTypes ==
    /\ streaming \in BOOLEAN /\ busyMarked \in BOOLEAN /\ marker \in BOOLEAN
    /\ writing \in [Thread -> {"nothing", "present", "absent"}]
TurnTypes ==
    /\ replied \in BOOLEAN /\ finalText \in BOOLEAN /\ toolSince \in BOOLEAN
    /\ warned \subseteq Misaddressed
    /\ runDeliveries \in 0..MaxInbound
    /\ recoveryNudges \in Nat /\ hintNudges \in Nat
    /\ hintPending \in BOOLEAN /\ heartbeatRun \in BOOLEAN /\ reactionAckRun \in BOOLEAN
LoopTypes ==
    /\ reader \in {"idle", "received", "prompt", "submit", "clearing", "interrupt", "local"}
    /\ hand \in Stanza \union {"user"} /\ behavior \in BOOLEAN
    /\ loop \in {"events", "respond", "decide", "close", "flush"}
    /\ recovering \in BOOLEAN
PiTypes ==
    /\ piState \in {"idle", "starting", "run", "tool"} /\ steered \in BOOLEAN
    /\ opener \in Kind \union {"none", "steer"}
    /\ lastEnd \in {"none", "settled", "aborted"}

\* What a step does to streaming, busyMarked, marker and writing.
Syncs ==
    \E t \in Thread, b \in BOOLEAN, n \in Int :
        Sync(t, b, n) /\ streaming' = b /\ marker' = marker
Writes ==
    \E t \in Thread :
        /\ streaming' = streaming /\ busyMarked' = busyMarked
        /\ marker' = (writing[t] = "present")
        /\ writing' = [writing EXCEPT ![t] = "nothing"]

\* The busy marker is synced, written or left alone.
LEMMA BusySteps ==
    ASSUME pending \in Nat, streaming \in BOOLEAN, [Next]_vars
    PROVE  Syncs \/ Writes \/ UNCHANGED <<streaming, busyMarked, marker, writing>>
<1> USE DEF activity, turn, tally, budget, flags, disk, reading, settling, piVars, bridge
<1>0. "reader" \in Thread /\ "loop" \in Thread /\ pending \in Int /\ pending + 1 \in Int
      /\ pending - 1 \in Int /\ 0 \in Int
    BY DEF Thread
<1>1. ASSUME NEW t \in Thread, NEW k, NEW b, Submit(t, k, b) PROVE Syncs
    BY <1>0, <1>1 DEF Submit, Syncs
<1>2. CASE UNCHANGED vars \/ Receive \/ TakeMessage \/ TakeReaction \/ ReadBehavior
           \/ RequestClear \/ RequestAbort
    BY <1>2 DEF vars, Receive, TakeMessage, TakeReaction, ReadBehavior, RequestClear, RequestAbort
<1>3. CASE SubmitInHand
    BY <1>0, <1>1, <1>3 DEF SubmitInHand
<1>4. CASE SettleLocally
    BY <1>0, <1>4 DEF SettleLocally, Syncs
<1>5. CASE HandleResponse \/ HandleStart \/ HandleSettled
    <2>1. \E b \in BOOLEAN, n \in Int : Sync("loop", b, n) /\ streaming' = b
        BY <1>0, <1>5 DEF HandleResponse, HandleStart, HandleSettled
    <2>2. marker' = marker
        BY <1>5 DEF HandleResponse, HandleStart, HandleSettled
    <2> QED BY <1>0, <2>1, <2>2 DEF Syncs
<1>6. CASE HandleWork \/ Respond \/ HandleCredit \/ Close \/ Settled
    BY <1>6 DEF HandleWork, Respond, HandleCredit, Close, Settled
<1>7. CASE HandleSend \/ HandleHeartbeat \/ FlushHeartbeat \/ Decide
    <2>1. \/ UNCHANGED <<streaming, busyMarked, marker, writing>>
          \/ Submit("loop", "routing", SteerBehavior) \/ Submit("loop", "heartbeat", SteerBehavior)
          \/ Submit("loop", "recovery", SteerBehavior) \/ Submit("loop", "hint", SteerBehavior)
        BY <1>7 DEF HandleSend, HandleHeartbeat, FlushHeartbeat, FireHeartbeat, Decide,
            FireSendRecovery, SkipSendRecovery, Nudge, NoNudge
    <2> QED BY <1>0, <1>1, <2>1
<1>8. ASSUME NEW t \in Thread, WriteMarker(t) \/ Send(t)
      PROVE  Writes \/ UNCHANGED <<streaming, busyMarked, marker, writing>>
    BY <1>8 DEF WriteMarker, Send, Writes
<1>9. CASE PiAnswer \/ PiStart \/ PiWork \/ PiCall \/ PiSettle \/ Alarm
    BY <1>9 DEF PiAnswer, PiAccept, PiSteer, PiReject, PiClear, PiAbort, PiResult, PiReads, PiStart,
        PiWork, PiCall, PiSettle, Alarm
<1> QED BY <1>2, <1>3, <1>4, <1>5, <1>6, <1>7, <1>8, <1>9 DEF Next, ReaderStep, LoopStep

\* So its variables keep their types.
LEMMA BusyStep ==
    ASSUME pending \in Nat, BusyTypes, [Next]_vars
    PROVE  BusyTypes'
<1>1. CASE Syncs
    <2>1. PICK t \in Thread, b \in BOOLEAN, n \in Int :
              Sync(t, b, n) /\ streaming' = b /\ marker' = marker
        BY <1>1 DEF Syncs
    <2>2. busyMarked' \in BOOLEAN
        BY <2>1 DEF Sync
    <2>3. \/ writing' = writing
          \/ writing' = [writing EXCEPT ![t] = "present"]
          \/ writing' = [writing EXCEPT ![t] = "absent"]
        BY <2>1 DEF Sync
    <2>4. writing' \in [Thread -> {"nothing", "present", "absent"}]
        BY <2>3 DEF BusyTypes
    <2> QED BY <2>1, <2>2, <2>4 DEF BusyTypes
<1>2. CASE Writes
    <2>1. writing' \in [Thread -> {"nothing", "present", "absent"}]
        BY <1>2 DEF BusyTypes, Writes
    <2>2. marker' \in BOOLEAN /\ streaming' = streaming /\ busyMarked' = busyMarked
        BY <1>2 DEF Writes
    <2> QED BY <2>1, <2>2 DEF BusyTypes
<1>3. CASE UNCHANGED <<streaming, busyMarked, marker, writing>>
    BY <1>3 DEF BusyTypes
<1> QED BY <1>1, <1>2, <1>3, BusySteps DEF BusyTypes

\* What a run has sent and done, its budgets and its flags keep their types.
LEMMA TurnStep ==
    ASSUME TurnTypes, [Next]_vars
    PROVE  TurnTypes'
<1> USE DEF activity, turn, tally, budget, flags, disk, reading, settling, piVars, bridge, TurnTypes
<1>0. MaxInbound \in Nat
    BY LifecycleAssumption
<1>1. CASE UNCHANGED vars \/ (\E t \in Thread : WriteMarker(t) \/ Send(t)) \/ PiAnswer
           \/ PiStart \/ PiWork \/ PiCall \/ PiSettle \/ Alarm
    <2>1. UNCHANGED <<turn, budget, flags, runDeliveries>>
        BY <1>1 DEF vars, WriteMarker, Send, PiAnswer, PiAccept, PiSteer, PiReject, PiClear,
            PiAbort, PiResult, PiReads, PiStart, PiWork, PiCall, PiSettle, Alarm
    <2> QED BY <2>1
<1>2. CASE Receive \/ TakeMessage \/ TakeReaction \/ ReadBehavior \/ SubmitInHand
           \/ RequestClear \/ RequestAbort
    <2>1. UNCHANGED <<turn, runDeliveries, hintPending, heartbeatRun>>
        BY <1>2 DEF Receive, TakeMessage, TakeReaction, ReadBehavior, SubmitInHand, RequestClear,
            RequestAbort
    <2>2. /\ recoveryNudges' \in {recoveryNudges, 0} /\ hintNudges' \in {hintNudges, 0}
          /\ reactionAckRun' \in {reactionAckRun, FALSE, TRUE}
        BY <1>2 DEF Receive, TakeMessage, TakeReaction, ReadBehavior, SubmitInHand, RequestClear,
            RequestAbort
    <2>3. recoveryNudges' \in Nat /\ hintNudges' \in Nat
        BY <2>2
    <2>4. reactionAckRun' \in BOOLEAN
        BY <2>2
    <2> QED BY <2>1, <2>3, <2>4
<1>3. CASE SettleLocally
    <2>1. /\ UNCHANGED <<replied, warned, budget>> /\ runDeliveries' = 0
          /\ finalText' = FALSE /\ toolSince' = FALSE
          /\ hintPending' = FALSE /\ heartbeatRun' = FALSE /\ reactionAckRun' = FALSE
        BY <1>3 DEF SettleLocally
    <2>2. runDeliveries' \in 0..MaxInbound
        BY <1>0, <2>1
    <2> QED BY <2>1, <2>2
<1>4. CASE HandleResponse \/ HandleStart \/ HandleWork \/ HandleCredit \/ HandleHeartbeat
           \/ HandleSettled
    <2>1. UNCHANGED <<budget, runDeliveries>>
        BY <1>4 DEF HandleResponse, HandleStart, HandleWork, HandleCredit, HandleHeartbeat,
            HandleSettled, Handle
    <2>2. /\ warned' \in {warned, {}} /\ replied' \in {replied, FALSE, TRUE}
          /\ finalText' \in {finalText, FALSE, TRUE} /\ toolSince' \in {toolSince, FALSE, TRUE}
        BY <1>4 DEF HandleResponse, HandleStart, HandleWork, HandleCredit, HandleHeartbeat,
            HandleSettled, Handle
    <2>3. /\ hintPending' \in {hintPending, FALSE, TRUE}
          /\ heartbeatRun' \in {heartbeatRun, FALSE, TRUE}
          /\ reactionAckRun' \in {reactionAckRun, FALSE}
        BY <1>4 DEF HandleResponse, HandleStart, HandleWork, HandleCredit, HandleHeartbeat,
            HandleSettled, FireHeartbeat
    <2> QED BY ZenonT(60), <2>1, <2>2, <2>3
<1>5. CASE HandleSend
    <2>1. /\ UNCHANGED <<flags, budget>>
          /\ replied' = TRUE /\ finalText' = FALSE /\ toolSince' = FALSE
        BY <1>5 DEF HandleSend, Handle
    <2>2. warned' \subseteq Misaddressed
        BY <1>5 DEF HandleSend
    <2>3. runDeliveries' = IF runDeliveries < MaxInbound THEN runDeliveries + 1 ELSE MaxInbound
        BY <1>5 DEF HandleSend
    <2>4. runDeliveries' \in 0..MaxInbound
        BY <1>0, <2>3
    <2> QED BY <2>1, <2>2, <2>4
<1>6. CASE Respond \/ Settled \/ FlushHeartbeat
    <2>1. /\ UNCHANGED <<turn, budget, hintPending, runDeliveries, reactionAckRun>>
          /\ heartbeatRun' \in {heartbeatRun, TRUE}
        BY <1>6 DEF Respond, Settled, FlushHeartbeat, FireHeartbeat, Settle
    <2> QED BY <2>1
<1>7. CASE Close
    <2>1. /\ UNCHANGED <<turn, budget, hintPending>> /\ runDeliveries' = 0
          /\ heartbeatRun' = FALSE /\ reactionAckRun' = FALSE
        BY <1>7 DEF Close, Settle
    <2>2. runDeliveries' \in 0..MaxInbound
        BY <1>0, <2>1
    <2> QED BY <2>1, <2>2
<1>8. CASE Decide
    <2>1. UNCHANGED <<turn, runDeliveries, heartbeatRun, reactionAckRun>>
        BY <1>8 DEF Decide, Settle
    <2>2. /\ recoveryNudges' \in {recoveryNudges, recoveryNudges + 1, recoveryNudges + 0}
          /\ hintNudges' \in {hintNudges, hintNudges + 1}
          /\ hintPending' \in {hintPending, FALSE, TRUE}
        BY <1>8 DEF Decide, FireSendRecovery, SkipSendRecovery
    <2>3. recoveryNudges' \in Nat /\ hintNudges' \in Nat
        BY <2>2
    <2> QED BY <2>1, <2>2, <2>3
<1> QED BY <1>1, <1>2, <1>3, <1>4, <1>5, <1>6, <1>7, <1>8 DEF Next, ReaderStep, LoopStep

\* The read loop and the event loop stay at the places they have.
LEMMA LoopTypesStep ==
    ASSUME LoopTypes, [Next]_vars
    PROVE  LoopTypes'
<1> USE DEF activity, turn, tally, budget, flags, disk, reading, settling, piVars, bridge, LoopTypes
<1>1. CASE UNCHANGED vars \/ (\E t \in Thread : WriteMarker(t) \/ Send(t))
           \/ PiStart \/ PiWork \/ PiCall \/ PiSettle \/ Alarm
    <2>1. UNCHANGED <<reading, settling>>
        BY <1>1 DEF vars, WriteMarker, Send, PiStart, PiWork, PiCall, PiSettle, Alarm
    <2> QED BY <2>1
<1>2. CASE PiAnswer
    <2>1. UNCHANGED <<settling, hand, behavior>> /\ reader' \in {reader, "interrupt"}
        BY <1>2 DEF PiAnswer, PiAccept, PiSteer, PiReject, PiClear, PiAbort, PiResult, PiReads
    <2> QED BY <2>1
<1>3. CASE ReaderStep
    <2>1. UNCHANGED settling
        BY <1>3 DEF ReaderStep, Receive, TakeMessage, TakeReaction, ReadBehavior, SubmitInHand,
            RequestClear, RequestAbort, SettleLocally
    <2>2. reader' \in {"idle", "received", "prompt", "submit", "clearing", "local"}
        BY <1>3 DEF ReaderStep, Receive, TakeMessage, TakeReaction, ReadBehavior, SubmitInHand,
            RequestClear, RequestAbort, SettleLocally, Reader
    <2>3. hand' \in Stanza \union {"user"}
        BY <1>3 DEF ReaderStep, Receive, TakeMessage, TakeReaction, ReadBehavior, SubmitInHand,
            RequestClear, RequestAbort, SettleLocally
    <2>4. behavior' = behavior \/ behavior' = FALSE \/ behavior' = (streaming \/ pending > 0)
        BY <1>3 DEF ReaderStep, Receive, TakeMessage, TakeReaction, ReadBehavior, SubmitInHand,
            RequestClear, RequestAbort, SettleLocally, SteerBehavior
    <2>5. behavior' \in BOOLEAN
        BY <2>4
    <2> QED BY <2>1, <2>2, <2>3, <2>5
<1>4. CASE LoopStep
    <2>1. UNCHANGED reading
        BY <1>4 DEF LoopStep, HandleResponse, HandleStart, HandleWork, HandleSend, Respond,
            HandleCredit, HandleHeartbeat, HandleSettled, Handle, Decide, Close, FlushHeartbeat,
            Settled, Settle
    <2>2. loop' \in {loop, "respond", "events", "decide", "close", "flush"}
        BY <1>4 DEF LoopStep, HandleResponse, HandleStart, HandleWork, HandleSend, Respond,
            HandleCredit, HandleHeartbeat, HandleSettled, Decide, Close, FlushHeartbeat,
            Settled, Settle
    <2>3. recovering' \in {recovering, TRUE, FALSE}
        BY <1>4 DEF LoopStep, HandleResponse, HandleStart, HandleWork, HandleSend, Respond,
            HandleCredit, HandleHeartbeat, HandleSettled, Handle, Decide, Close, FlushHeartbeat,
            Settled, FireSendRecovery, SkipSendRecovery, Nudge, NoNudge
    <2> QED BY <2>1, <2>2, <2>3
<1> QED BY <1>1, <1>2, <1>3, <1>4 DEF Next

\* pi is in one of its states, its run opened by a prompt or a left-over steer.
LEMMA PiTypesStep ==
    ASSUME PiTypes, wire \in Seq(Command), [Next]_vars
    PROVE  PiTypes'
<1> USE DEF activity, turn, tally, budget, flags, disk, reading, settling, piVars, bridge, PiTypes
<1>1. CASE UNCHANGED vars \/ ReaderStep \/ LoopStep \/ (\E t \in Thread : WriteMarker(t) \/ Send(t))
    <2>1. UNCHANGED piVars
        BY <1>1 DEF vars, ReaderStep, Receive, TakeMessage, TakeReaction, ReadBehavior, SubmitInHand,
            RequestClear, RequestAbort, SettleLocally, LoopStep, HandleResponse, HandleStart,
            HandleWork, HandleSend, Respond, HandleCredit, HandleHeartbeat, HandleSettled, Handle,
            Decide, Close, FlushHeartbeat, Settled, Settle, WriteMarker, Send
    <2> QED BY <2>1
<1>2. CASE PiAccept
    <2>1. /\ Head(wire).kind \in Kind /\ opener' \in {opener, Head(wire).kind}
          /\ piState' \in {piState, "starting"} /\ UNCHANGED <<steered, lastEnd>>
        BY <1>2 DEF PiAccept, PiReads
    <2> QED BY <2>1
<1>3. CASE PiSteer \/ PiReject \/ PiClear \/ PiAbort \/ PiResult
    <2>1. /\ opener' \in {opener, "steer"} /\ piState' \in {piState, "starting", "idle", "run"}
          /\ steered' \in {steered, TRUE, FALSE} /\ lastEnd' \in {lastEnd, "aborted"}
        BY <1>3 DEF PiSteer, PiReject, PiClear, PiAbort, PiResult, PiReads
    <2> QED BY <2>1
<1>4. CASE PiStart \/ PiWork \/ PiCall \/ PiSettle \/ Alarm
    <2>1. /\ opener' = opener /\ piState' \in {piState, "idle", "run", "tool"}
          /\ steered' \in {steered, FALSE} /\ lastEnd' \in {lastEnd, "settled"}
        BY <1>4 DEF PiStart, PiWork, PiCall, PiSettle, Alarm
    <2> QED BY <2>1
<1> QED BY <1>1, <1>2, <1>3, <1>4 DEF Next, PiAnswer

\* Nothing has come in at the start, and everything is still to come.
LEMMA InitInv == Init => IInv
<1> SUFFICES ASSUME Init PROVE IInv
    OBVIOUS
<1>1. TypeOK
    <2>1. <<>> \in Seq(Prompt \union Control) /\ <<>> \in Seq(Event)
        OBVIOUS
    <2>2. BusyTypes /\ LoopTypes
        BY DEF Init, BusyTypes, LoopTypes
    <2>3. PiTypes
        BY DEF Init, PiTypes
    <2>4. runDeliveries \in 0..MaxInbound /\ runInbound \in 0..MaxInbound
        BY LifecycleAssumption DEF Init
    <2>5. TurnTypes
        BY <2>4 DEF Init, TurnTypes
    <2>6. pending \in Nat /\ heartbeats \in 0..MaxAlarms /\ left \in 0..MaxInbound
          /\ alarms \in 0..MaxAlarms
        BY LifecycleAssumption DEF Init
    <2>7. sending \in [Thread -> Prompt \union {Nothing}] /\ wire = <<>> /\ events = <<>>
        BY DEF Init
    <2> QED BY <2>1, <2>2, <2>5, <2>6, <2>7, <2>3, <2>4 DEF TypeOK, BusyTypes, LoopTypes, PiTypes, TurnTypes
<1>2. InFlight = {} /\ Answered = {} /\ {t \in Thread : sending[t] # Nothing} = {}
      /\ Hits(events, {"heartbeat"}) = {}
    BY DEF Init, InFlight, Answered, Hits, Thread
<1>3. PendingIsExact
    <2>1. pending = 0 /\ Cardinality({}) = 0
        BY FS_EmptySet DEF Init
    <2> QED BY <1>2, <2>1 DEF PendingIsExact
<1>4. Alarmed /\ Tallied
    BY <1>2, FS_EmptySet, LifecycleAssumption DEF Init, Alarmed, Tallied, One
<1>5. HandIsPrompt /\ Backed
    BY DEF Init, HandIsPrompt, Backed, NoRunAhead
<1> QED BY <1>1, <1>3, <1>4, <1>5 DEF IInv

\* The conjuncts keep each other: the counts keep the types, the types the counts.
LEMMA StepInv == IInv /\ [Next]_vars => IInv'
<1> SUFFICES ASSUME IInv, [Next]_vars PROVE IInv'
    OBVIOUS
<1>1. TypeOK /\ PendingIsExact /\ Alarmed /\ Tallied /\ HandIsPrompt /\ Backed
    BY DEF IInv
<1>2. BusyTypes /\ TurnTypes /\ LoopTypes /\ PiTypes /\ pending \in Nat /\ wire \in Seq(Command)
    BY <1>1 DEF TypeOK, BusyTypes, TurnTypes, LoopTypes, PiTypes, Command
<1>3. BusyTypes' /\ TurnTypes' /\ LoopTypes' /\ PiTypes'
    BY <1>2, BusyStep, TurnStep, LoopTypesStep, PiTypesStep
<1>4. /\ PendingIsExact'
      /\ pending' \in Nat /\ sending' \in [Thread -> Prompt \union {Nothing}]
      /\ wire' \in Seq(Prompt \union Control) /\ events' \in Seq(Event)
    BY <1>1, ExactStep DEF Command
<1>5. Alarmed' /\ heartbeats' \in 0..MaxAlarms /\ alarms' \in 0..MaxAlarms
    BY <1>1, AlarmedStep
<1>6. Tallied' /\ HandIsPrompt' /\ runInbound' \in 0..MaxInbound /\ left' \in 0..MaxInbound
    BY <1>1, TalliedStep
<1>7. Backed'
    BY <1>1, BackedStep
<1>8. TypeOK'
    BY <1>3, <1>4, <1>5, <1>6 DEF TypeOK, BusyTypes, TurnTypes, LoopTypes, PiTypes
<1> QED BY <1>4, <1>5, <1>6, <1>7, <1>8 DEF IInv

\* Every variable keeps its type: no counter of a run goes below zero or over
\* its bound, whatever is aborted, refused or relayed in between.
THEOREM TypeCorrect == Spec => []TypeOK
<1>1. IInv => TypeOK
    BY DEF IInv
<1> QED BY InitInv, StepInv, <1>1, PTL DEF Spec

\* pendingPrompts is exact (bridge.go:3143-3174): a prompt is counted from the
\* moment it is accounted for until its answer is handled, once.
THEOREM PendingExact == Spec => []PendingIsExact
<1>1. IInv => PendingIsExact
    BY DEF IInv
<1> QED BY InitInv, StepInv, <1>1, PTL DEF Spec

\* streamingRun is true only while pi runs or its settle is on the way
\* (bridge.go:3143-3174), unless a run was aborted.
THEOREM StreamingBacked == Spec => []StreamingIsBacked
<1>1. IInv => StreamingIsBacked
    BY DEF IInv, Backed, NoRunAhead, StreamingIsBacked
<1> QED BY InitInv, StepInv, <1>1, PTL DEF Spec

-----------------------------------------------------------------------------
(* The heartbeats that wait for a run to settle.                             *)

Settling(q) == \E i \in DOMAIN q : q[i] = "agent_settled"

\* What HeartbeatDelivered rests on: while a heartbeat is queued, the settle that
\* flushes the queue is being handled, on its way or still to come from the run pi
\* is in; unless the last run was aborted (bridge.go:1053-1058 "never lost").
HeartbeatIsAwaited ==
    heartbeats > 0 /\ lastEnd # "aborted"
        => \/ loop \in {"decide", "close", "flush"}
           \/ piState \in {"run", "tool"} \/ Settling(events)

\* A settle stays in the queue until it is taken.
LEMMA SettlingKept ==
    ASSUME NEW q \in Seq(Event), NEW r, Settling(q),
           \/ r = q
           \/ \E x \in Event : r = Append(q, x)
           \/ q # <<>> /\ Head(q) # "agent_settled" /\ r = Tail(q)
    PROVE  Settling(r)
<1>1. PICK i \in DOMAIN q : q[i] = "agent_settled"
    BY DEF Settling
<1>2. i \in 1..Len(q) /\ Len(q) \in Nat
    BY <1>1
<1>3. CASE r = q
    BY <1>3
<1>4. ASSUME NEW x \in Event, r = Append(q, x) PROVE Settling(r)
    <2>1. i \in DOMAIN r /\ r[i] = q[i]
        BY <1>2, <1>4
    <2> QED BY <1>1, <2>1 DEF Settling
<1>5. CASE q # <<>> /\ Head(q) # "agent_settled" /\ r = Tail(q)
    <2>1. Head(q) = q[1] /\ i # 1
        BY <1>1, <1>5
    <2>2. i - 1 \in DOMAIN r /\ r[i - 1] = q[i]
        BY <1>2, <1>5, <2>1
    <2> QED BY <1>1, <2>2 DEF Settling
<1> QED BY <1>3, <1>4, <1>5

\* A heartbeat is queued while the bridge believes in a run, whose settle is then
\* still to be handled; the settle handled, the loop flushes before it goes on.
LEMMA AwaitedStep ==
    ASSUME TypeOK, Backed, HeartbeatIsAwaited, [Next]_vars
    PROVE  HeartbeatIsAwaited'
<1> USE DEF activity, turn, tally, budget, flags, disk, reading, settling, piVars, bridge
<1> DEFINE Ahead == lastEnd = "aborted" \/ piState \in {"run", "tool"} \/ Settling(events)
           Ahead1 == lastEnd' = "aborted" \/ piState' \in {"run", "tool"} \/ Settling(events')
           Ends == loop \in {"decide", "close", "flush"}
           Ends1 == loop' \in {"decide", "close", "flush"}
<1>0. events \in Seq(Event) /\ heartbeats \in Nat
    BY DEF TypeOK
<1>1. heartbeats > 0 => Ends \/ Ahead
    BY DEF HeartbeatIsAwaited
<1>2. SUFFICES heartbeats' > 0 => Ends1 \/ Ahead1
    BY DEF HeartbeatIsAwaited
<1>3. streaming => Ahead
    BY DEF Backed, NoRunAhead, Settling
<1>4. ASSUME \/ events' = events
             \/ \E x \in Event : events' = Append(events, x)
             \/ events # <<>> /\ Head(events) # "agent_settled" /\ events' = Tail(events),
             lastEnd' = lastEnd, piState \in {"run", "tool"} => piState' \in {"run", "tool"}
      PROVE  Ahead => Ahead1
    BY <1>0, <1>4, SettlingKept
<1>5. CASE HandleSettled \/ Decide \/ Close \/ FlushHeartbeat
    BY <1>5 DEF HandleSettled, Decide, Close, FlushHeartbeat, Settle
<1>6. CASE Settled
    BY <1>0, <1>6 DEF Settled
<1>7. CASE PiSettle
    <2>1. events' = Append(events, "agent_settled")
        BY <1>7 DEF PiSettle, Emit
    <2>2. Closed(events')
        BY <1>0, <2>1, SettleCloses
    <2> QED BY <2>2 DEF Closed, Settling
<1>8. CASE PiStart \/ PiWork \/ PiCall
    BY <1>8 DEF PiStart, PiWork, PiCall
<1>9. CASE HandleHeartbeat
    <2>1. /\ events # <<>> /\ Head(events) = "heartbeat" /\ events' = Tail(events)
          /\ UNCHANGED <<lastEnd, piState, loop>> /\ (streaming \/ heartbeats' = heartbeats)
        BY <1>9 DEF HandleHeartbeat, Handle
    <2> QED BY <1>1, <1>3, <1>4, <2>1
<1>10. CASE HandleResponse \/ HandleStart \/ HandleWork \/ HandleSend \/ HandleCredit
    <2>1. /\ loop = "events" /\ UNCHANGED <<lastEnd, piState, heartbeats>>
          /\ events # <<>> /\ Head(events) # "agent_settled" /\ events' = Tail(events)
        BY <1>10 DEF HandleResponse, HandleStart, HandleWork, HandleSend, HandleCredit, Handle,
            Response, Relay, Misaddressed
    <2> QED BY <1>1, <1>4, <2>1
<1>11. CASE Respond
    BY <1>1, <1>4, <1>11 DEF Respond
<1>12. CASE UNCHANGED vars \/ ReaderStep \/ \E t \in Thread : WriteMarker(t) \/ Send(t)
    <2>1. UNCHANGED <<events, lastEnd, piState, loop, heartbeats>>
        BY <1>12 DEF vars, ReaderStep, Receive, TakeMessage, TakeReaction, ReadBehavior, SubmitInHand,
            RequestClear, RequestAbort, SettleLocally, WriteMarker, Send
    <2> QED BY <1>1, <1>4, <2>1
<1>13. CASE PiAccept \/ PiSteer \/ PiReject \/ PiClear \/ PiResult \/ Alarm
    <2>1. /\ UNCHANGED <<lastEnd, loop, heartbeats>>
          /\ piState \in {"run", "tool"} => piState' \in {"run", "tool"}
        BY <1>13 DEF PiAccept, PiSteer, PiReject, PiClear, PiResult, Alarm, PiReads
    <2>2. events' = events \/ \E x \in Event : events' = Append(events, x)
        BY <1>13 DEF PiAccept, PiSteer, PiReject, PiClear, PiResult, Alarm, PiReads, Emit, Event,
            Response
    <2> QED BY <1>1, <1>4, <2>1, <2>2
<1>14. CASE PiAbort
    <2>1. UNCHANGED <<events, loop, heartbeats>> /\ (UNCHANGED <<lastEnd, piState>> \/ lastEnd' = "aborted")
        BY <1>14 DEF PiAbort
    <2> QED BY <1>1, <1>4, <2>1
<1> QED BY <1>5, <1>6, <1>7, <1>8, <1>9, <1>10, <1>11, <1>12, <1>13, <1>14
        DEF Next, LoopStep, PiAnswer

\* A queued heartbeat always has a settle ahead that will flush it, unless a run
\* was aborted: no interleaving of relay, settle and flush strands it.
THEOREM HeartbeatsAwaited == Spec => []HeartbeatIsAwaited
<1>1. Init => HeartbeatIsAwaited
    BY DEF Init, HeartbeatIsAwaited
<1>2. IInv /\ HeartbeatIsAwaited /\ [Next]_vars => HeartbeatIsAwaited'
    BY AwaitedStep DEF IInv
<1> QED BY InitInv, StepInv, <1>1, <1>2, PTL DEF Spec

-----------------------------------------------------------------------------
(* The busy marker, when nothing is aborted.                                 *)

\* No abort is at hand, on its way or behind us.
Unaborted ==
    /\ lastEnd # "aborted" /\ reader \in {"idle", "received", "prompt", "submit"}
    /\ \A i \in DOMAIN wire : wire[i].kind \notin {"clear_queue", "abort"}

\* What the bridge last decided about the file is what its activity says.  The file
\* may be there against that decision only while the loop has its removal in hand;
\* the reader creates it only for a prompt that it has not sent yet.
Marks ==
    /\ busyMarked <=> streaming \/ pending > 0
    /\ writing["reader"] \in {"nothing", "present"}
    /\ writing["reader"] = "present" => sending["reader"] # Nothing
    /\ writing["loop"] = "present" => busyMarked
    /\ ~busyMarked /\ marker => writing["loop"] = "absent"

\* No step puts an aborting command on the pipe or aborts a run.
LEMMA UnabortedStep ==
    ASSUME Stanza \intersect {"abort", "interrupt"} = {}, TypeOK, Unaborted, [Next]_vars
    PROVE  Unaborted'
<1> USE DEF activity, turn, tally, budget, flags, disk, reading, settling, piVars, bridge
<1>0. wire \in Seq(Command) /\ hand \notin {"abort", "interrupt"}
    BY DEF TypeOK, Command
<1>h. wire # <<>> => Head(wire).kind \notin {"clear_queue", "abort"}
    <2>1. wire # <<>> => 1 \in DOMAIN wire /\ Head(wire) = wire[1]
        BY <1>0
    <2> QED BY <2>1 DEF Unaborted
<1>t. ASSUME wire # <<>>, wire' = Tail(wire)
      PROVE  \A i \in DOMAIN wire' : wire'[i].kind \notin {"clear_queue", "abort"}
    <2>1. \A i \in DOMAIN wire' : i + 1 \in DOMAIN wire /\ wire'[i] = wire[i + 1]
        BY <1>0, <1>t
    <2> QED BY <2>1 DEF Unaborted
<1>a. ASSUME NEW x \in Command, x.kind \notin {"clear_queue", "abort"}, wire' = Append(wire, x)
      PROVE  \A i \in DOMAIN wire' : wire'[i].kind \notin {"clear_queue", "abort"}
    <2>1. \A i \in DOMAIN wire' : (i \in DOMAIN wire /\ wire'[i] = wire[i]) \/ wire'[i] = x
        BY <1>0, <1>a
    <2> QED BY <1>a, <2>1 DEF Unaborted
<1>1. CASE UNCHANGED <<wire, lastEnd>> /\ reader' \in {reader, "idle", "received", "prompt", "submit"}
    BY <1>1 DEF Unaborted
<1>2. CASE UNCHANGED vars \/ Receive \/ TakeMessage \/ TakeReaction \/ ReadBehavior \/ SubmitInHand
           \/ SettleLocally \/ (LoopStep /\ ~Respond) \/ \E t \in Thread : WriteMarker(t)
    <2>1. UNCHANGED <<wire, lastEnd>> /\ reader' \in {reader, "idle", "received", "prompt", "submit"}
        BY <1>2 DEF vars, Receive, TakeMessage, TakeReaction, ReadBehavior, SubmitInHand, Reader,
            SettleLocally, LoopStep, HandleResponse, HandleStart, HandleWork, HandleSend,
            HandleCredit, HandleHeartbeat, HandleSettled, Handle, Decide, Close, FlushHeartbeat,
            Settled, Settle, WriteMarker
    <2> QED BY <1>1, <2>1
<1>3. CASE RequestClear \/ RequestAbort \/ PiClear \/ PiAbort
    BY <1>0, <1>h, <1>3 DEF RequestClear, RequestAbort, Reader, Unaborted, PiClear, PiReads, PiAbort
<1>4. CASE Respond
    <2>1. wire' = Append(wire, [kind |-> "result", steer |-> FALSE])
          /\ UNCHANGED <<reader, lastEnd>>
        BY <1>4 DEF Respond
    <2>2. [kind |-> "result", steer |-> FALSE] \in Command
        BY CommandFacts DEF Command
    <2> QED BY <1>a, <2>1, <2>2 DEF Unaborted
<1>5. ASSUME NEW t \in Thread, Send(t) PROVE Unaborted'
    <2>1. /\ wire' = Append(wire, sending[t]) /\ sending[t] # Nothing
          /\ UNCHANGED <<reader, lastEnd>>
        BY <1>5 DEF Send
    <2>2. sending[t] \in Prompt
        BY <2>1 DEF TypeOK
    <2>3. sending[t] \in Command /\ sending[t].kind \notin {"clear_queue", "abort"}
        BY <2>2 DEF Command, Prompt, Kind
    <2> QED BY <1>a, <2>1, <2>3 DEF Unaborted
<1>6. CASE PiAccept \/ PiSteer \/ PiReject \/ PiResult
    <2>1. wire # <<>> /\ wire' = Tail(wire) /\ UNCHANGED <<reader, lastEnd>>
        BY <1>6 DEF PiAccept, PiSteer, PiReject, PiResult, PiReads
    <2> QED BY <1>t, <2>1 DEF Unaborted
<1>7. CASE PiStart \/ PiWork \/ PiCall \/ PiSettle \/ Alarm
    <2>1. UNCHANGED <<wire, reader>> /\ lastEnd' \in {lastEnd, "settled"}
        BY <1>7 DEF PiStart, PiWork, PiCall, PiSettle, Alarm
    <2> QED BY <2>1 DEF Unaborted
<1> QED BY <1>2, <1>3, <1>4, <1>5, <1>6, <1>7 DEF Next, ReaderStep, PiAnswer

\* What a step does to the marker, when the reader never settles by itself.
ReaderPrompts ==
    /\ Free("reader") /\ Sync("reader", streaming, pending + 1)
    /\ streaming' = streaming /\ pending' = pending + 1 /\ marker' = marker
    /\ sending'["reader"] # Nothing
LoopDecides ==
    /\ Free("loop") /\ Sync("loop", streaming', pending')
    /\ UNCHANGED marker /\ sending'["reader"] = sending["reader"]
Unmarked == UNCHANGED <<streaming, pending, busyMarked, marker, writing, sending>>

\* Who may set or clear what the busy mark is decided from: the reader as it prompts,
\* the loop as it decides, or nobody.
LEMMA MarkMoves ==
    ASSUME TypeOK, HandIsPrompt, Unaborted, [Next]_vars
    PROVE  \/ ReaderPrompts \/ LoopDecides \/ Unmarked
           \/ \E t \in Thread : WriteMarker(t) \/ Send(t)
<1> USE DEF activity, turn, tally, budget, flags, disk, reading, settling, piVars, bridge
<1>0. sending \in [Thread -> Prompt \union {Nothing}]
    BY DEF TypeOK
<1>1. CASE UNCHANGED vars \/ Receive \/ TakeMessage \/ TakeReaction \/ ReadBehavior
           \/ RequestClear \/ RequestAbort \/ SettleLocally
    BY <1>1 DEF vars, Receive, TakeMessage, TakeReaction, ReadBehavior, RequestClear, RequestAbort,
        SettleLocally, Reader, Unaborted, Unmarked
<1>2. CASE SubmitInHand
    <2>1. [kind |-> hand, steer |-> behavior] # Nothing
        BY <1>2 DEF SubmitInHand, Reader, HandIsPrompt, Nothing
    <2>2. sending' = [sending EXCEPT !["reader"] = [kind |-> hand, steer |-> behavior]]
        BY <1>2 DEF SubmitInHand, Submit
    <2>3. sending'["reader"] # Nothing
        BY <1>0, <2>1, <2>2 DEF Thread
    <2> QED BY <1>2, <2>3 DEF SubmitInHand, Submit, Reader, ReaderPrompts
<1>3. ASSUME NEW k, NEW b, Submit("loop", k, b), Free("loop") PROVE LoopDecides
    BY <1>0, <1>3 DEF Submit, LoopDecides, Thread
<1>4. CASE HandleResponse \/ HandleStart \/ HandleSettled
    BY <1>4 DEF HandleResponse, HandleStart, HandleSettled, Handle, LoopDecides
<1>5. CASE HandleWork \/ Respond \/ HandleCredit \/ Close \/ Settled
    BY <1>5 DEF HandleWork, Respond, HandleCredit, Close, Settled, Unmarked
<1>6. CASE HandleSend \/ HandleHeartbeat \/ FlushHeartbeat \/ Decide
    <2>1. Free("loop")
        BY <1>6 DEF HandleSend, HandleHeartbeat, FlushHeartbeat, Decide, Settle, Handle
    <2>2. \/ Unmarked
          \/ Submit("loop", "routing", SteerBehavior) \/ Submit("loop", "heartbeat", SteerBehavior)
          \/ Submit("loop", "recovery", SteerBehavior) \/ Submit("loop", "hint", SteerBehavior)
        BY <1>6 DEF HandleSend, HandleHeartbeat, FlushHeartbeat, FireHeartbeat, Decide,
            FireSendRecovery, SkipSendRecovery, Nudge, NoNudge, Unmarked
    <2> QED BY <1>3, <2>1, <2>2
<1>7. CASE PiAnswer \/ PiStart \/ PiWork \/ PiCall \/ PiSettle \/ Alarm
    BY <1>7 DEF PiAnswer, PiAccept, PiSteer, PiReject, PiClear, PiAbort, PiResult, PiReads, PiStart,
        PiWork, PiCall, PiSettle, Alarm, Unmarked
<1> QED BY <1>1, <1>2, <1>4, <1>5, <1>6, <1>7 DEF Next, ReaderStep, LoopStep

\* A prompt that is being written is pending.
LEMMA SendingIsPending ==
    ASSUME TypeOK, PendingIsExact, NEW t \in Thread, sending[t] # Nothing
    PROVE  pending > 0
<1>1. wire \in Seq(Command) /\ events \in Seq(Event) /\ pending \in Nat
    BY DEF TypeOK, Command
<1>2. /\ Cardinality(InFlight) \in Nat /\ Cardinality(Answered) \in Nat
    BY <1>1, ExactIsCount, HitsFinite
<1>3. IsFiniteSet(Sending)
    <2>1. IsFiniteSet({}) /\ IsFiniteSet({} \union {"reader"})
          /\ IsFiniteSet(({} \union {"reader"}) \union {"loop"})
        BY FS_EmptySet, FS_AddElement
    <2>2. Sending \subseteq ({} \union {"reader"}) \union {"loop"}
        BY DEF Sending, Thread
    <2> QED BY <2>1, <2>2, FS_Subset
<1>4. Cardinality(Sending) \in Nat /\ Cardinality(Sending) # 0
    <2>1. t \in Sending
        BY DEF Sending
    <2> QED BY <1>3, <2>1, FS_CardinalityType, FS_EmptySet
<1>5. pending = Cardinality(InFlight) + Cardinality(Answered) + Cardinality(Sending)
    BY DEF PendingIsExact, Sending
<1> QED BY <1>1, <1>2, <1>4, <1>5

\* The mark and the file keep to what is streaming, pending or about to be written.
LEMMA MarksStep ==
    ASSUME TypeOK, PendingIsExact, HandIsPrompt, Unaborted, Marks, [Next]_vars
    PROVE  Marks'
<1>0. /\ writing \in [Thread -> {"nothing", "present", "absent"}] /\ pending \in Nat
      /\ sending \in [Thread -> Prompt \union {Nothing}]
      /\ "reader" \in Thread /\ "loop" \in Thread /\ "reader" # "loop"
    BY DEF TypeOK, Thread
<1>1. CASE ReaderPrompts
    <2>0. pending + 1 > 0
        BY <1>0
    <2>1. /\ busyMarked' = TRUE /\ streaming' = streaming /\ pending' = pending + 1
          /\ sending'["reader"] # Nothing
          /\ writing' = writing \/ writing' = [writing EXCEPT !["reader"] = "present"]
        BY <1>1, <2>0 DEF ReaderPrompts, Sync
    <2>2. pending' > 0
        BY <1>0, <2>1
    <2>3. writing'["reader"] \in {writing["reader"], "present"}
        BY <1>0, <2>1
    <2> QED BY <1>0, <2>1, <2>2, <2>3 DEF Marks
<1>2. CASE LoopDecides
    <2> DEFINE busy == streaming' \/ pending' > 0
    <2>1. /\ busyMarked' = busy /\ marker' = marker /\ sending'["reader"] = sending["reader"]
          /\ writing["loop"] = "nothing"
          /\ writing' = IF busy = busyMarked THEN writing
                        ELSE [writing EXCEPT !["loop"] = IF busy THEN "present" ELSE "absent"]
        BY <1>2 DEF LoopDecides, Sync, Free
    <2>2. writing'["reader"] = writing["reader"]
        BY <1>0, <2>1
    <2>3. CASE busy = busyMarked
        BY <1>0, <2>1, <2>2, <2>3 DEF Marks
    <2>4. CASE busy # busyMarked
        <3>1. writing'["loop"] = IF busy THEN "present" ELSE "absent"
            BY <1>0, <2>1, <2>4
        <3> QED BY <1>0, <2>1, <2>2, <3>1 DEF Marks
    <2> QED BY <2>3, <2>4
<1>3. ASSUME NEW t \in Thread, WriteMarker(t) PROVE Marks'
    <2>1. /\ UNCHANGED <<streaming, pending, busyMarked, sending>>
          /\ marker' = (writing[t] = "present") /\ writing[t] # "nothing"
          /\ writing' = [writing EXCEPT ![t] = "nothing"]
        BY <1>3 DEF WriteMarker, activity
    <2>2. \A s \in Thread : writing'[s] \in {"nothing", writing[s]}
        BY <1>0, <2>1
    <2>3. writing[t] = "present" => busyMarked
        <3>1. CASE t = "loop"
            BY <3>1 DEF Marks
        <3>2. CASE t = "reader"
            BY <3>2, SendingIsPending DEF Marks
        <3> QED BY <3>1, <3>2 DEF Thread
    <2> QED BY <1>0, <2>1, <2>2, <2>3 DEF Marks
<1>4. ASSUME NEW t \in Thread, Send(t) PROVE Marks'
    <2>1. /\ UNCHANGED <<streaming, pending, busyMarked, marker, writing>>
          /\ writing[t] = "nothing" /\ sending' = [sending EXCEPT ![t] = Nothing]
        BY <1>4 DEF Send, activity, disk
    <2>2. writing["reader"] = "present" => sending'["reader"] = sending["reader"]
        BY <1>0, <2>1
    <2> QED BY <1>0, <2>1, <2>2 DEF Marks
<1>5. CASE Unmarked
    BY <1>5 DEF Unmarked, Marks
<1> QED BY <1>1, <1>2, <1>3, <1>4, <1>5, MarkMoves

\* What bridge.go:4237 says of the marker file is true of everything but an abort:
\* where no stanza aborts a run, the file is gone whenever all is handled and pi is
\* idle.  The counterexample of the run `busy` needs the abort.
THEOREM MarkerGoes ==
    ASSUME Stanza \intersect {"abort", "interrupt"} = {} PROVE Spec => []IdleIsNotBusy
<1>1. Init => Unaborted /\ Marks
    BY DEF Init, Unaborted, Marks, Thread
<1>2. IInv /\ Unaborted /\ Marks /\ [Next]_vars => (Unaborted /\ Marks)'
    BY UnabortedStep, MarksStep DEF IInv
<1>3. IInv /\ Unaborted /\ Marks => IdleIsNotBusy
    <2> SUFFICES ASSUME IInv, Unaborted, Marks, Quiet, piState = "idle" PROVE ~marker
        BY DEF IdleIsNotBusy
    <2>1. ~streaming
        BY DEF IInv, Backed, NoRunAhead, Unaborted, Quiet
    <2>2. pending = 0
        <3>1. InFlight = {} /\ Answered = {} /\ {t \in Thread : sending[t] # Nothing} = {}
            BY DEF Quiet, InFlight, Answered, Free
        <3>2. pending = Cardinality({}) + Cardinality({}) + Cardinality({})
            BY <3>1 DEF IInv, PendingIsExact
        <3> QED BY <3>2, FS_EmptySet
    <2>3. writing["loop"] = "nothing"
        BY DEF Quiet, Free, Thread
    <2> QED BY <2>1, <2>2, <2>3 DEF Marks
<1> QED BY InitInv, StepInv, <1>1, <1>2, <1>3, PTL DEF Spec
===============================================================================
