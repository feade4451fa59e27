------------------------- MODULE InboundDeliveryProofs -------------------------
(***************************************************************************)
(* Proofs about InboundDelivery, for every set of messages, every cap on   *)
(* the inbox, every number of stops and every length of the event queue;   *)
(* and that InboxFile implements the ledger InboundDelivery is built on.   *)
(***************************************************************************)
EXTENDS InboundDelivery, InboxFile, QueueFacts

\* What each step leaves of the ledger's types: the operators of InboxLedger
\* keep LedgerTypeOK, whoever calls them.
LEMMA LedgerKeepsType ==
    ASSUME LedgerTypeOK, NEW m \in Msg,
           \/ AppendEntry(m) \/ MarkDelivered(m) \/ Drop(m)
           \/ NoteRunActivity \/ ClearRunActivity \/ AckSettled
           \/ Reload \/ GraceElapses \/ UNCHANGED ledger
    PROVE  LedgerTypeOK'
<1>1. CASE AppendEntry(m)
    BY <1>1 DEF LedgerTypeOK, AppendEntry
<1>2. CASE MarkDelivered(m)
    BY <1>2 DEF LedgerTypeOK, MarkDelivered, Nameable
<1>3. CASE Drop(m)
    BY <1>3 DEF LedgerTypeOK, Drop, Keep
<1>4. CASE NoteRunActivity \/ ClearRunActivity
    BY <1>4 DEF LedgerTypeOK, NoteRunActivity, ClearRunActivity
<1>5. CASE AckSettled
    BY <1>5 DEF LedgerTypeOK, AckSettled, Keep
<1>6. CASE Reload
    BY <1>6 DEF LedgerTypeOK, Reload
<1>7. CASE GraceElapses
    BY <1>7 DEF LedgerTypeOK, GraceElapses
<1>8. CASE UNCHANGED ledger
    BY <1>8 DEF LedgerTypeOK, ledger
<1> QED BY <1>1, <1>2, <1>3, <1>4, <1>5, <1>6, <1>7, <1>8

\* Nothing is stored or under way at the start.
LEMMA TypeInit == Init => TypeOK
<1> SUFFICES ASSUME Init PROVE TypeOK
    OBVIOUS
<1>1. LedgerTypeOK
    BY DEF Init, LedgerInit, LedgerTypeOK
<1>2. piQueue \in Seq(Msg) /\ events \in Seq(EventType)
    BY DEF Init
<1>3. /\ pc \in [Thread -> {"idle", "armed", "taken", "marked", "ran"}]
      /\ \A t \in Thread : pc[t] = "idle"
      /\ cur \in [Thread -> Msg \union {NoMsg}]
    BY DEF Init
<1> QED BY <1>1, <1>2, <1>3 DEF Init, TypeOK

\* TypeOK is inductive on its own.
LEMMA TypeStep == TypeOK /\ [Next]_vars => TypeOK'
<1> SUFFICES ASSUME TypeOK, [Next]_vars PROVE TypeOK'
    OBVIOUS
<1> USE DEF TypeOK, bridge, threads, pi, history
<1>1. CASE Start
    <2>1. LedgerTypeOK'
        BY <1>1, LedgerKeepsType, DeliveryAssumption DEF Start, ledger, LedgerTypeOK
    <2> QED BY <1>1, <2>1 DEF Start, ledger, LedgerTypeOK, Thread
<1>2. CASE StartPi
    BY <1>2 DEF StartPi, ledger, LedgerTypeOK
<1>3. CASE Stop
    <2>1. LedgerTypeOK'
        BY <1>3 DEF Stop, Reload, LedgerTypeOK
    <2>2. piQueue' \in Seq(Msg) /\ events' \in Seq(EventType)
        BY <1>3 DEF Stop
    <2>3. /\ pc' \in [Thread -> {"idle", "armed", "taken", "marked", "ran"}]
          /\ \A t \in Thread : pc'[t] = "idle"
          /\ cur' \in [Thread -> Msg \union {NoMsg}]
        BY <1>3 DEF Stop
    <2>4. up' \in BOOLEAN /\ piUp' \in BOOLEAN /\ piRun' \in BOOLEAN /\ aborting' \in BOOLEAN
        BY <1>3, Zenon DEF Stop
    <2>5. stops' \in Nat /\ todo' \subseteq Msg
        BY <1>3 DEF Stop
    <2> QED BY <1>3, <2>1, <2>2, <2>3, <2>4, <2>5 DEF Stop
<1>4. CASE \E m \in Msg : Receive(m)
    <2>1. PICK m \in Msg : Receive(m)
        BY <1>4
    <2>2. LedgerTypeOK'
        BY <2>1, LedgerKeepsType DEF Receive
    <2> QED BY <2>1, <2>2 DEF Receive, Thread
<1>5. CASE Snapshot
    BY <1>5 DEF Snapshot, ledger, LedgerTypeOK, Thread
<1>6. CASE ReplayNext
    <2>1. LedgerTypeOK'
        BY <1>6 DEF ReplayNext, ledger, LedgerTypeOK
    <2>2. PICK m \in todo : cur' = [cur EXCEPT !["replay"] = m] /\ todo' = todo \ {m}
        BY <1>6 DEF ReplayNext, Oldest
    <2> QED BY <1>6, <2>1, <2>2 DEF ReplayNext, Thread
<1>7. ASSUME NEW t \in Thread, Step(t) PROVE TypeOK'
    <2>1. CASE HandOver(t)
        <3>1. LedgerTypeOK'
            BY <2>1, LedgerKeepsType DEF HandOver
        <3> QED BY <2>1, <3>1 DEF HandOver
    <2>2. CASE Submit(t)
        <3>1. LedgerTypeOK' /\ piQueue' \in Seq(Msg)
            BY <2>2 DEF Submit, ledger, LedgerTypeOK
        <3> QED BY <2>2, <3>1 DEF Submit
    <2>3. CASE RunCommand(t)
        <3>1. LedgerTypeOK' /\ aborting' \in BOOLEAN
            BY <2>3 DEF RunCommand, ledger, LedgerTypeOK
        <3>2. piQueue' \in {piQueue, <<>>} /\ <<>> \in Seq(Msg)
            BY <2>3 DEF RunCommand
        <3>3. piQueue' \in Seq(Msg)
            BY <3>2
        <3> QED BY <2>3, <3>1, <3>3 DEF RunCommand
    <2>4. CASE DropCommand(t)
        <3>1. LedgerTypeOK'
            BY <2>4, LedgerKeepsType DEF DropCommand
        <3> QED BY <2>4, <3>1 DEF DropCommand
    <2> QED BY <1>7, <2>1, <2>2, <2>3, <2>4 DEF Step
<1>8. CASE Loop
    <2>1. ASSUME events # <<>>, events' = Tail(events) PROVE events' \in Seq(EventType)
        BY <2>1
    <2>2. CASE HandleStart
        BY <2>1, <2>2 DEF HandleStart, Handle, ClearRunActivity, LedgerTypeOK
    <2>3. CASE HandleMessage
        BY <2>1, <2>3 DEF HandleMessage, Handle, NoteRunActivity, LedgerTypeOK
    <2>4. CASE HandleSettled
        BY <2>1, <2>4 DEF HandleSettled, Handle, AckSettled, Keep, LedgerTypeOK
    <2> QED BY <1>8, <2>2, <2>3, <2>4 DEF Loop
<1>9. CASE PiBegin \/ PiSteer
    <2>1. LedgerTypeOK'
        BY <1>9 DEF PiBegin, PiSteer, PiReads, ledger, LedgerTypeOK
    <2>2. PiReads
        BY <1>9 DEF PiBegin, PiSteer
    <2>3. piQueue' \in Seq(Msg) /\ Head(piQueue) \in Msg
        BY <2>2 DEF PiReads
    <2>4. \E new \in Seq(EventType) : events' = events \o new
        <3>1. /\ <<"agent_start", "message_start">> \in Seq(EventType)
              /\ <<"message_start">> \in Seq(EventType)
            BY DEF EventType
        <3> QED BY <1>9, <3>1 DEF PiBegin, PiSteer, Emit
    <2>5. events' \in Seq(EventType)
        BY <2>4
    <2> QED BY <1>9, <2>1, <2>2, <2>3, <2>5 DEF PiBegin, PiSteer, PiReads
<1>10. CASE PiSpeak
    <2>1. events' \in Seq(EventType)
        BY <1>10 DEF PiSpeak, Emit, EventType
    <2> QED BY <1>10, <2>1 DEF PiSpeak, ledger, LedgerTypeOK
<1>11. CASE PiSettle
    <2>1. events' \in Seq(EventType)
        BY <1>11 DEF PiSettle, Emit, EventType
    <2> QED BY <1>11, <2>1 DEF PiSettle, ledger, LedgerTypeOK
<1>12. CASE PiAbort
    BY <1>12 DEF PiAbort, ledger, LedgerTypeOK
<1>13. CASE PiReject
    BY <1>13 DEF PiReject, ledger, LedgerTypeOK
<1>14. CASE Age
    <2>1. LedgerTypeOK'
        BY <1>14 DEF Age, GraceElapses, LedgerTypeOK
    <2> QED BY <1>14, <2>1 DEF Age
<1>15. CASE UNCHANGED vars
    BY <1>15 DEF vars, ledger, LedgerTypeOK
<1> QED BY <1>1, <1>2, <1>3, <1>4, <1>5, <1>6, <1>7, <1>8, <1>9, <1>10,
           <1>11, <1>12, <1>13, <1>14, <1>15 DEF Next

\* Every variable keeps its type: in particular only entries of the inbox are
\* marked as handed over, and only those as covered.
THEOREM TypeCorrect == Spec => []TypeOK
<1>1. Init => TypeOK
    BY TypeInit
<1>2. TypeOK /\ [Next]_vars => TypeOK'
    BY TypeStep
<1> QED BY <1>1, <1>2, PTL DEF Spec

-----------------------------------------------------------------------------

\* A message is handled only after it was appended.
LEMMA ArrivedStep == TypeOK /\ Arrived /\ [Next]_vars => Arrived'
<1> SUFFICES ASSUME TypeOK, Arrived, [Next]_vars PROVE Arrived'
    OBVIOUS
<1> USE DEF TypeOK, LedgerTypeOK, Arrived, ledger, bridge, threads, pi, history
<1>1. CASE Start \/ Stop
    BY <1>1 DEF Start, Stop, Reload, Thread
<1>2. CASE \E m \in Msg : Receive(m)
    <2>1. PICK m \in Msg : Receive(m)
        BY <1>2
    <2>2. at' = [at EXCEPT ![m] = arrivals + 1] /\ arrivals + 1 # 0
        BY <2>1 DEF Receive, AppendEntry
    <2>3. \A n \in Msg : at'[n] # 0 <=> (at[n] # 0 \/ n = m)
        BY <2>2
    <2>4. inbox' \subseteq inbox \union {m} /\ todo' = todo /\ given' = given
        BY <2>1 DEF Receive, AppendEntry
    <2>5. \A t \in Thread : pc'[t] \in {"taken", "marked", "ran"} => at'[cur'[t]] # 0
        BY <2>1, <2>3 DEF Receive, Thread
    <2> QED BY <2>3, <2>4, <2>5
<1>3. CASE Snapshot
    BY <1>3 DEF Snapshot, Thread
<1>4. CASE ReplayNext
    BY <1>4 DEF ReplayNext, Oldest, Thread
<1>5. ASSUME NEW t \in Thread, Step(t) PROVE Arrived'
    <2>1. CASE HandOver(t)
        BY <2>1 DEF HandOver, MarkDelivered
    <2>2. CASE Submit(t) \/ RunCommand(t)
        BY <2>2 DEF Submit, RunCommand
    <2>3. CASE DropCommand(t)
        BY <2>3 DEF DropCommand, Drop, Keep
    <2> QED BY <1>5, <2>1, <2>2, <2>3 DEF Step
<1>6. CASE Loop
    BY <1>6 DEF Loop, HandleStart, HandleMessage, HandleSettled, Handle,
                ClearRunActivity, NoteRunActivity, AckSettled, Keep
<1>7. CASE StartPi \/ PiBegin \/ PiSteer \/ PiSpeak
    BY <1>7 DEF StartPi, PiBegin, PiSteer, PiReads, PiSpeak
<1>8. CASE PiSettle \/ PiAbort \/ PiReject
    BY <1>8 DEF PiSettle, PiAbort, PiReject
<1>9. CASE Age \/ UNCHANGED vars
    BY <1>9 DEF Age, GraceElapses, vars
<1> QED BY <1>1, <1>2, <1>3, <1>4, <1>5, <1>6, <1>7, <1>8, <1>9 DEF Next

\* What pi holds was marked as handed over first.
LEMMA GivenStep ==
    TypeOK /\ Arrived /\ HandedIsGiven /\ [Next]_vars => HandedIsGiven'
<1> SUFFICES ASSUME TypeOK, Arrived, HandedIsGiven, [Next]_vars
             PROVE  HandedIsGiven'
    OBVIOUS
<1> USE DEF TypeOK, LedgerTypeOK, HandedIsGiven, ledger, bridge, threads, pi, history
<1>1. CASE Start \/ Stop
    BY <1>1 DEF Start, Stop, Reload, Thread
<1>2. CASE \E m \in Msg : Receive(m)
    <2>1. PICK m \in Msg : Receive(m)
        BY <1>2
    <2>2. m \notin given
        BY <2>1 DEF Receive, Arrived
    <2> QED BY <2>1, <2>2 DEF Receive, AppendEntry, Thread
<1>3. CASE Snapshot \/ ReplayNext
    BY <1>3 DEF Snapshot, ReplayNext, Thread
<1>4. ASSUME NEW t \in Thread, Step(t) PROVE HandedIsGiven'
    <2>1. CASE HandOver(t)
        BY <2>1 DEF HandOver, MarkDelivered, Nameable
    <2>2. CASE Submit(t)
        <3>1. \A i \in DOMAIN piQueue' : piQueue'[i] \in given
            BY <2>2 DEF Submit
        <3> QED BY <2>2, <3>1 DEF Submit
    <2>3. CASE RunCommand(t)
        <3>1. \A i \in DOMAIN piQueue' : piQueue'[i] \in given
            BY <2>3 DEF RunCommand
        <3> QED BY <2>3, <3>1 DEF RunCommand
    <2>4. CASE DropCommand(t)
        BY <2>4 DEF DropCommand, Drop, Keep
    <2> QED BY <1>4, <2>1, <2>2, <2>3, <2>4 DEF Step
<1>5. CASE Loop
    BY <1>5 DEF Loop, HandleStart, HandleMessage, HandleSettled, Handle,
                ClearRunActivity, NoteRunActivity, AckSettled, Keep
<1>6. CASE PiBegin \/ PiSteer
    <2>1. PiReads
        BY <1>6 DEF PiBegin, PiSteer
    <2>2. Head(piQueue) \in given /\ \A i \in DOMAIN Tail(piQueue) : Tail(piQueue)[i] \in given
        BY <2>1 DEF PiReads
    <2> QED BY <2>1, <2>2 DEF PiReads
<1>7. CASE PiReject
    <2>1. \A i \in DOMAIN Tail(piQueue) : Tail(piQueue)[i] \in given
        BY <1>7 DEF PiReject
    <2> QED BY <1>7, <2>1 DEF PiReject
<1>8. CASE StartPi \/ PiSpeak \/ PiSettle \/ PiAbort
    BY <1>8 DEF StartPi, PiSpeak, PiSettle, PiAbort
<1>9. CASE Age \/ UNCHANGED vars
    BY <1>9 DEF Age, GraceElapses, vars
<1> QED BY <1>1, <1>2, <1>3, <1>4, <1>5, <1>6, <1>7, <1>8, <1>9 DEF Next

-----------------------------------------------------------------------------
(* How the event queue carries the evidence that an entry was read.          *)

\* A step that leaves the queue alone and m covered leaves the evidence for m.
LEMMA EvidenceKept ==
    ASSUME NEW m, events' = events, m \in covered => m \in covered', WillCover(m)
    PROVE  WillCover(m)'
BY DEF WillCover

\* A message_start that pi emits will cover whatever has been handed over.
LEMMA EvidenceEmitted ==
    ASSUME NEW m, events \in Seq(EventType),
           \/ events' = events \o <<"message_start">>
           \/ events' = events \o <<"agent_start", "message_start">>
    PROVE  WillCover(m)'
<1>1. /\ Len(events') \in 1..Len(events')
      /\ events'[Len(events')] = "message_start"
    OBVIOUS
<1> QED BY <1>1 DEF WillCover

\* An agent_settled put behind it does not disturb the evidence.
LEMMA EvidenceSettled ==
    ASSUME NEW m, events \in Seq(EventType), covered' = covered,
           events' = events \o <<"agent_settled">>, WillCover(m)
    PROVE  WillCover(m)'
<1>1. /\ Len(events') = Len(events) + 1
      /\ \A i \in 1..Len(events) : events'[i] = events[i]
      /\ events'[Len(events) + 1] = "agent_settled"
    OBVIOUS
<1> QED BY <1>1 DEF WillCover

\* Handling the first event of the queue keeps the evidence for an entry that is
\* marked as handed over and that this event does not acknowledge.
LEMMA EvidenceHandled ==
    ASSUME NEW m \in handed, events \in Seq(EventType), events # <<>>,
           events' = Tail(events), WillCover(m),
           \/ Head(events) = "agent_start"
           \/ Head(events) = "message_start" /\ m \in covered'
           \/ Head(events) = "agent_settled" /\ m \notin covered
    PROVE  WillCover(m)'
<1>1. /\ Len(events') = Len(events) - 1
      /\ \A i \in 1..Len(events') : events'[i] = events[i + 1]
      /\ Head(events) = events[1]
      /\ Len(events) \in Nat \ {0}
    OBVIOUS
<1>2. CASE m \in covered /\ \A j \in 1..Len(events) : events[j] # "agent_start"
    BY <1>1, <1>2 DEF WillCover
<1>3. ASSUME NEW i \in 1..Len(events), events[i] = "message_start",
             \A j \in (i + 1)..Len(events) : events[j] # "agent_start"
      PROVE  WillCover(m)'
    <2>1. CASE i = 1
        BY <1>1, <1>3, <2>1 DEF WillCover
    <2>2. CASE i # 1
        <3>1. /\ i - 1 \in 1..Len(events')
              /\ events'[i - 1] = "message_start"
              /\ \A j \in ((i - 1) + 1)..Len(events') : events'[j] # "agent_start"
            BY <1>1, <1>3, <2>2
        <3> QED BY <3>1 DEF WillCover
    <2> QED BY <2>1, <2>2
<1> QED BY <1>2, <1>3 DEF WillCover

-----------------------------------------------------------------------------

\* The settle of a run comes behind the activity that covers what the run read.
LEMMA SettleStep ==
    TypeOK /\ Arrived /\ HandedIsGiven /\ SettleIsComing /\ [Next]_vars
        => SettleIsComing'
<1> SUFFICES ASSUME TypeOK, Arrived, HandedIsGiven, SettleIsComing, [Next]_vars,
                    NEW m \in Msg, m \in inbox', m \in readBack', m \notin Anonymous
             PROVE  /\ (piRun \/ lastEnd = "settled")' => WillCover(m)'
                    /\ (~piRun /\ lastEnd = "settled")' =>
                          events' # <<>> /\ events'[Len(events')] = "agent_settled"
    BY TypeStep DEF SettleIsComing, TypeOK, LedgerTypeOK
<1> USE DEF ledger, bridge, threads, pi, history
<1>a. events \in Seq(EventType) /\ covered \subseteq handed /\ handed \subseteq inbox
    BY DEF TypeOK, LedgerTypeOK
\* Steps that neither emit nor handle an event, and in which pi reads nothing.
<1>b. ASSUME events' = events, piRun' = piRun, lastEnd' = lastEnd,
             m \in readBack, m \in inbox, m \in covered => m \in covered'
      PROVE  /\ (piRun \/ lastEnd = "settled")' => WillCover(m)'
             /\ (~piRun /\ lastEnd = "settled")' =>
                   events' # <<>> /\ events'[Len(events')] = "agent_settled"
    BY <1>b, EvidenceKept DEF SettleIsComing
<1>1. CASE Start \/ StartPi \/ Snapshot \/ ReplayNext
    BY <1>1, <1>b DEF Start, StartPi, Snapshot, ReplayNext
<1>2. CASE Stop
    BY <1>2 DEF Stop
<1>3. CASE \E n \in Msg : Receive(n)
    <2>1. PICK n \in Msg : Receive(n)
        BY <1>3
    <2>2. n \notin readBack
        BY <2>1 DEF Receive, Arrived, HandedIsGiven
    <2>3. m \in readBack /\ m \in inbox /\ (m \in covered => m \in covered')
        BY <2>1, <2>2, <1>a DEF Receive, AppendEntry
    <2> QED BY <2>1, <2>3, <1>b DEF Receive
<1>4. ASSUME NEW t \in Thread, Step(t)
      PROVE  /\ (piRun \/ lastEnd = "settled")' => WillCover(m)'
             /\ (~piRun /\ lastEnd = "settled")' =>
                   events' # <<>> /\ events'[Len(events')] = "agent_settled"
    <2>1. CASE HandOver(t)
        <3>1. m \in readBack /\ m # cur[t]
            BY <2>1 DEF HandOver
        <3>2. m \in inbox /\ (m \in covered => m \in covered')
            BY <2>1, <3>1 DEF HandOver, MarkDelivered, Nameable
        <3> QED BY <2>1, <3>1, <3>2, <1>b DEF HandOver
    <2>2. CASE Submit(t) \/ RunCommand(t)
        BY <2>2, <1>b DEF Submit, RunCommand
    <2>3. CASE DropCommand(t)
        BY <2>3, <1>b DEF DropCommand, Drop, Keep
    <2> QED BY <1>4, <2>1, <2>2, <2>3 DEF Step
<1>5. CASE Loop
    <2>1. /\ events # <<>> /\ events' = Tail(events)
          /\ piRun' = piRun /\ lastEnd' = lastEnd /\ m \in readBack
        BY <1>5 DEF Loop, HandleStart, HandleMessage, HandleSettled, Handle
    <2>2. m \in inbox
        BY <1>5 DEF Loop, HandleStart, HandleMessage, HandleSettled, Handle,
                    ClearRunActivity, NoteRunActivity, AckSettled, Keep
    <2>3. m \in handed
        BY <2>1, <2>2 DEF HandedIsGiven
    <2>4. \/ Head(events) = "agent_start"
          \/ Head(events) = "message_start" /\ m \in covered'
          \/ Head(events) = "agent_settled" /\ m \notin covered
        BY <1>5, <2>3 DEF Loop, HandleStart, HandleMessage, HandleSettled, Handle,
                          NoteRunActivity, AckSettled, Keep, Acknowledged
    <2>5. (piRun \/ lastEnd = "settled") => WillCover(m)
        BY <2>1, <2>2 DEF SettleIsComing
    <2>6. WillCover(m) => WillCover(m)'
        BY <2>1, <2>3, <2>4, <1>a, EvidenceHandled
    <2>7. ASSUME ~piRun, lastEnd = "settled"
          PROVE  events' # <<>> /\ events'[Len(events')] = "agent_settled"
        <3>1. events[Len(events)] = "agent_settled" /\ WillCover(m)
            BY <2>1, <2>2, <2>5, <2>7 DEF SettleIsComing
        <3>2. Len(events) # 1
            BY <1>a, <2>1, <2>4, <3>1 DEF WillCover
        <3>3. /\ Len(events) \in Nat \ {0, 1}
              /\ Len(events') = Len(events) - 1
              /\ \A i \in 1..Len(events') : events'[i] = events[i + 1]
            BY <1>a, <2>1, <3>2
        <3>4. Len(events') \in 1..Len(events')
            BY <3>3
        <3>5. events' # <<>>
            BY <3>3
        <3> QED BY <3>1, <3>3, <3>4, <3>5
    <2> QED BY <2>1, <2>5, <2>6, <2>7
<1>6. CASE PiBegin \/ PiSteer \/ PiSpeak
    <2>1. piRun'
        BY <1>6 DEF PiBegin, PiSteer, PiSpeak
    <2>2. \/ events' = events \o <<"message_start">>
          \/ events' = events \o <<"agent_start", "message_start">>
        BY <1>6 DEF PiBegin, PiSteer, PiSpeak, Emit
    <2> QED BY <2>1, <2>2, <1>a, EvidenceEmitted
<1>7. CASE PiSettle
    <2>1. /\ events' = events \o <<"agent_settled">> /\ covered' = covered
          /\ m \in readBack /\ m \in inbox /\ piRun
        BY <1>7 DEF PiSettle, Emit
    <2>2. WillCover(m)'
        BY <2>1, <1>a, EvidenceSettled DEF SettleIsComing
    <2> QED BY <2>1, <2>2, <1>a
<1>8. CASE PiAbort
    <2>1. CASE piRun
        BY <1>8, <2>1 DEF PiAbort
    <2>2. CASE ~piRun
        BY <1>8, <2>2, <1>b DEF PiAbort, TypeOK
    <2> QED BY <2>1, <2>2
<1>9. CASE PiReject
    BY <1>9, <1>b DEF PiReject
<1>10. CASE Age
    BY <1>10, <1>b DEF Age, GraceElapses
<1>11. CASE UNCHANGED vars
    BY <1>11, <1>b DEF vars
<1> QED BY <1>1, <1>2, <1>3, <1>4, <1>5, <1>6, <1>7, <1>8, <1>9, <1>10, <1>11 DEF Next

\* An empty inbox has nothing to keep.
LEMMA InvInit == Init => DeliveryInv
<1> SUFFICES ASSUME Init PROVE DeliveryInv
    OBVIOUS
<1>1. TypeOK
    BY TypeInit
<1>2. inbox = {} /\ handed = {} /\ given = {} /\ todo = {} /\ readBack = {}
    BY DEF Init, LedgerInit
<1>3. Arrived /\ HandedIsGiven
    BY <1>2 DEF Init, Arrived, HandedIsGiven
<1> QED BY <1>1, <1>2, <1>3 DEF DeliveryInv, SettleIsComing

\* The inductive invariant holds: entries this process handed over are marked,
\* and the evidence that pi read them is on its way.
THEOREM Invariant == Spec => []DeliveryInv
<1>1. DeliveryInv /\ [Next]_vars => DeliveryInv'
    BY TypeStep, ArrivedStep, GivenStep, SettleStep DEF DeliveryInv
<1> QED BY InvInit, <1>1, PTL DEF Spec

\* Issue #104, for any number of messages, restarts and interleavings: once the
\* run that read an entry has settled and its events are handled, the entry is
\* gone from the inbox (unless its stanza had no id).
THEOREM NothingStranded == Spec => []NoStrandedEntry
<1>1. DeliveryInv => NoStrandedEntry
    BY DEF DeliveryInv, SettleIsComing, NoStrandedEntry
<1> QED BY <1>1, Invariant, PTL

\* A settle lets go of an entry that this process has not handed to pi only
\* because of its age.
THEOREM OnlyHandedIsEvidence == Spec => UnhandedOnlyAges
<1>1. DeliveryInv /\ [Next]_vars
        => [HandleSettled => (inbox \ inbox') \ given \subseteq aged]_vars
    BY DEF DeliveryInv, TypeOK, LedgerTypeOK, HandedIsGiven, HandleSettled, Handle,
           AckSettled, Acknowledged, Keep
<1> QED BY <1>1, Invariant, PTL DEF Spec, UnhandedOnlyAges

-----------------------------------------------------------------------------
(* What a new process found in the inbox is on its way to pi.                *)

\* The replay has not read the inbox yet, has m among the entries it is still to
\* hand over, or has m in hand; a command it runs it has in hand to the end.
InReplay(m) ==
    \/ pc["replay"] = "armed" \/ m \in todo
    \/ pc["replay"] = "taken" /\ cur["replay"] = m
    \/ pc["replay"] = "ran" /\ cur["replay"] = m /\ m \in Command

\* An entry the process found at its start and has not handed to pi is in the
\* replay as long as the inbox holds it; only a command without a stanza id,
\* whose entry cannot be named for the drop, stays behind.
CarriedIsInReplay ==
    /\ \A m \in carried : at[m] # 0
    /\ \A m \in (carried \intersect inbox) \ given : InReplay(m) \/ m \in Command \intersect Anonymous

\* No step loses an entry on its way.
LEMMA CarriedStep ==
    TypeOK /\ Arrived /\ CarriedIsInReplay /\ [Next]_vars => CarriedIsInReplay'
<1> SUFFICES ASSUME TypeOK, Arrived, CarriedIsInReplay, [Next]_vars PROVE CarriedIsInReplay'
    OBVIOUS
<1> USE DEF CarriedIsInReplay, InReplay, ledger, bridge, threads, pi, history
<1>0. /\ at \in [Msg -> Nat] /\ carried \subseteq Msg /\ inbox \subseteq Msg
      /\ pc \in [Thread -> {"idle", "armed", "taken", "marked", "ran"}]
      /\ cur \in [Thread -> Msg \union {NoMsg}]
      /\ "replay" \in Thread /\ "reader" \in Thread /\ "reader" # "replay"
    BY DEF TypeOK, LedgerTypeOK, Thread
<1>1. CASE Start
    <2>1. /\ carried' = inbox /\ UNCHANGED <<at, inbox>>
          /\ inbox # {} => pc'["replay"] = "armed"
        BY <1>0, <1>1 DEF Start
    <2> QED BY <2>1 DEF Arrived
<1>2. CASE Stop
    <2>1. carried' = {}
        BY <1>2 DEF Stop
    <2> QED BY <2>1
<1>3. ASSUME NEW m \in Msg, Receive(m) PROVE CarriedIsInReplay'
    <2>1. at[m] = 0 /\ at' = [at EXCEPT ![m] = arrivals + 1] /\ inbox' \subseteq inbox \union {m}
          /\ UNCHANGED <<carried, given, todo>>
        BY <1>3 DEF Receive, AppendEntry
    <2>2. m \notin carried
        BY <2>1
    <2>3. \A n \in carried : at'[n] = at[n]
        BY <1>0, <2>1, <2>2
    <2>4. pc'["replay"] = pc["replay"] /\ cur'["replay"] = cur["replay"]
        BY <1>0, <1>3 DEF Receive
    <2> QED BY <2>1, <2>2, <2>3, <2>4
<1>4. CASE Snapshot
    <2>1. todo' = inbox /\ UNCHANGED <<inbox, at, carried, given>>
        BY <1>4 DEF Snapshot
    <2> QED BY <2>1
<1>5. CASE ReplayNext
    <2>1. PICK m \in Oldest(todo) : todo' = todo \ {m} /\ cur' = [cur EXCEPT !["replay"] = m]
        BY <1>5 DEF ReplayNext
    <2>2. /\ pc["replay"] = "idle" /\ pc'["replay"] = "taken" /\ cur'["replay"] = m
          /\ UNCHANGED <<inbox, at, carried, given>>
        BY <1>0, <1>5, <2>1 DEF ReplayNext
    <2> QED BY <2>1, <2>2
<1>6. ASSUME NEW t \in Thread, HandOver(t) PROVE CarriedIsInReplay'
    <2>1. /\ UNCHANGED <<inbox, at, carried, todo, cur>> /\ given' = given \union {cur[t]}
          /\ pc' = [pc EXCEPT ![t] = "marked"] /\ pc[t] = "taken"
        BY <1>6 DEF HandOver, MarkDelivered
    <2>2. t = "replay" \/ pc'["replay"] = pc["replay"]
        BY <1>0, <2>1
    <2> QED BY <2>1, <2>2
<1>7. ASSUME NEW t \in Thread, Submit(t) PROVE CarriedIsInReplay'
    <2>1. /\ UNCHANGED <<inbox, at, carried, todo, cur, given>>
          /\ pc' = [pc EXCEPT ![t] = "idle"] /\ pc[t] = "marked"
        BY <1>7 DEF Submit
    <2>2. pc'["replay"] = pc["replay"] \/ pc["replay"] = "marked"
        BY <1>0, <2>1
    <2> QED BY <2>1, <2>2
<1>8. ASSUME NEW t \in Thread, RunCommand(t) PROVE CarriedIsInReplay'
    <2>1. /\ UNCHANGED <<inbox, at, carried, todo, cur, given>>
          /\ pc' = [pc EXCEPT ![t] = "ran"] /\ pc[t] = "taken"
        BY <1>8 DEF RunCommand
    <2>2. \/ pc'["replay"] = pc["replay"]
          \/ pc["replay"] = "taken" /\ pc'["replay"] = "ran" /\ cur["replay"] \in Command
        BY <1>0, <1>8, <2>1 DEF RunCommand, IsCommand
    <2> QED BY <2>1, <2>2
<1>9. ASSUME NEW t \in Thread, DropCommand(t) PROVE CarriedIsInReplay'
    <2>1. /\ UNCHANGED <<at, carried, todo, cur, given>> /\ inbox' = inbox \ Nameable(cur[t])
          /\ pc' = [pc EXCEPT ![t] = "idle"] /\ pc[t] = "ran"
        BY <1>9 DEF DropCommand, Drop, Keep
    <2>2. pc'["replay"] = pc["replay"] \/ (t = "replay" /\ pc["replay"] = "ran")
        BY <1>0, <2>1
    <2> QED BY <2>1, <2>2 DEF Nameable
<1>10. CASE Loop
    <2>1. inbox' \subseteq inbox /\ UNCHANGED <<at, threads, history>>
        BY <1>10 DEF Loop, HandleStart, HandleMessage, HandleSettled, Handle, ClearRunActivity,
            NoteRunActivity, AckSettled, Keep
    <2> QED BY <2>1
<1>11. CASE StartPi \/ PiBegin \/ PiSteer \/ PiSpeak \/ PiSettle \/ PiAbort \/ PiReject \/ Age
            \/ UNCHANGED vars
    <2>1. UNCHANGED <<inbox, at, threads, given, carried>>
        BY <1>11 DEF StartPi, PiBegin, PiSteer, PiReads, PiSpeak, PiSettle, PiAbort, PiReject, Age,
            GraceElapses, vars
    <2> QED BY <2>1
<1> QED BY <1>1, <1>2, <1>3, <1>4, <1>5, <1>6, <1>7, <1>8, <1>9, <1>10, <1>11 DEF Next, Step

\* Issue #96, what RedeliveredAtStart rests on: no entry that a process finds at
\* its start falls out of the replay before it is handed to pi, whatever arrives,
\* runs, settles or is evicted meanwhile; the scheduling of the replay does the
\* rest.
THEOREM CarriedStaysInReplay == Spec => []CarriedIsInReplay
<1>1. Init => CarriedIsInReplay
    BY DEF Init, CarriedIsInReplay
<1>2. DeliveryInv /\ CarriedIsInReplay /\ [Next]_vars => CarriedIsInReplay'
    BY CarriedStep DEF DeliveryInv
<1> QED BY <1>1, <1>2, Invariant, PTL DEF Spec

-----------------------------------------------------------------------------
(* The inbox as it is stored: InboxFile, for every clock, cap and set of     *)
(* messages.                                                                 *)

\* The place of each message in q, 0 of one that is not in it.
Place(q) == [m \in Msg |-> IF \E i \in DOMAIN q : q[i] = m
                             THEN CHOOSE i \in DOMAIN q : q[i] = m ELSE 0]

\* es holds messages of q in their order, and its readings grow with it.
Arranged(es, q) ==
    /\ \A i \in DOMAIN es : es[i].msg \in Members(q)
    /\ \A i, k \in DOMAIN es : i < k =>
          es[i].at =< es[k].at /\ Place(q)[es[i].msg] < Place(q)[es[k].msg]

\* No reading lies ahead of the clock, and one that is still to be taken at this
\* tick differs from the run's.
Past ==
    /\ \A i \in DOMAIN entries : entries[i].at =< now /\ entries[i].deliveredAt =< now
    /\ runActive =< now /\ (~stamped => runActive < now)

\* The inductive invariant of the stored inbox: entries in the order of arrival, never
\* more than the cap, all of them in the file.
FileInv ==
    /\ FileTypeOK /\ Distinct(order) /\ Arranged(entries, order) /\ Len(entries) =< InboxCap
    /\ file = Flush(entries) /\ Past

\* A message of q has one place, that of nobody else.
LEMMA PlaceFacts ==
    ASSUME NEW q \in Seq(Msg), Distinct(q)
    PROVE  /\ Place(q) \in [Msg -> 0..Len(q)]
           /\ \A i \in DOMAIN q : Place(q)[q[i]] = i
           /\ \A m \in Msg : m \notin Members(q) => Place(q)[m] = 0
<1>1. \A i \in DOMAIN q : q[i] \in Msg /\ i \in 1..Len(q)
    OBVIOUS
<1>2. ASSUME NEW m \in Msg, NEW j \in DOMAIN q, q[j] = m PROVE Place(q)[m] = j
    <2>1. Place(q)[m] = CHOOSE i \in DOMAIN q : q[i] = m
        BY <1>2 DEF Place
    <2>2. \A i \in DOMAIN q : q[i] = m => i = j
        BY <1>2 DEF Distinct
    <2> QED BY <1>2, <2>1, <2>2
<1>3. \A m \in Msg : m \notin Members(q) => Place(q)[m] = 0
    BY DEF Place, Members
<1>4. \A m \in Msg : Place(q)[m] \in 0..Len(q)
    <2> SUFFICES ASSUME NEW m \in Msg PROVE Place(q)[m] \in 0..Len(q)
        OBVIOUS
    <2>1. CASE m \in Members(q)
        <3>1. PICK j \in DOMAIN q : q[j] = m
            BY <2>1 DEF Members
        <3> QED BY <1>1, <1>2, <3>1
    <2>2. CASE m \notin Members(q)
        BY <1>3, <2>2
    <2> QED BY <2>1, <2>2
<1>5. Place(q) = [m \in Msg |-> Place(q)[m]]
    BY DEF Place
<1>6. Place(q) \in [Msg -> 0..Len(q)]
    BY <1>4, <1>5
<1> QED BY <1>1, <1>2, <1>3, <1>6

\* A message that comes in takes the next place; the others keep theirs.
LEMMA PlaceMore ==
    ASSUME NEW q \in Seq(Msg), Distinct(q), NEW m \in Msg, m \notin Members(q)
    PROVE  /\ Append(q, m) \in Seq(Msg) /\ Distinct(Append(q, m))
           /\ Members(Append(q, m)) = Members(q) \union {m}
           /\ Place(Append(q, m)) = [Place(q) EXCEPT ![m] = Len(q) + 1]
<1> DEFINE r == Append(q, m)
<1>1. /\ r \in Seq(Msg) /\ Len(r) = Len(q) + 1 /\ DOMAIN r = 1..(Len(q) + 1)
      /\ DOMAIN q = 1..Len(q) /\ Len(q) \in Nat
      /\ r[Len(q) + 1] = m /\ \A i \in DOMAIN q : r[i] = q[i] /\ i \in DOMAIN r
      /\ \A i \in DOMAIN r : i \in DOMAIN q \/ i = Len(q) + 1
    OBVIOUS
<1> HIDE DEF r
<1>2. \A i \in DOMAIN q : q[i] # m
    BY DEF Members
<1>3. Distinct(r)
    BY <1>1, <1>2 DEF Distinct
<1>4. Members(r) = Members(q) \union {m}
    BY <1>1 DEF Members
<1>5. /\ Place(q) \in [Msg -> 0..Len(q)] /\ \A i \in DOMAIN q : Place(q)[q[i]] = i
      /\ \A n \in Msg : n \notin Members(q) => Place(q)[n] = 0
    BY PlaceFacts
<1>6. /\ Place(r) \in [Msg -> 0..Len(r)] /\ \A i \in DOMAIN r : Place(r)[r[i]] = i
      /\ \A n \in Msg : n \notin Members(r) => Place(r)[n] = 0
    BY <1>1, <1>3, PlaceFacts
<1>7. \A n \in Msg : Place(r)[n] = IF n = m THEN Len(q) + 1 ELSE Place(q)[n]
    <2> SUFFICES ASSUME NEW n \in Msg
                 PROVE  Place(r)[n] = IF n = m THEN Len(q) + 1 ELSE Place(q)[n]
        OBVIOUS
    <2>1. CASE n = m
        BY <1>1, <1>6, <2>1
    <2>2. CASE n # m /\ n \in Members(q)
        <3>1. PICK i \in DOMAIN q : q[i] = n
            BY <2>2 DEF Members
        <3> QED BY <1>1, <1>5, <1>6, <2>2, <3>1
    <2>3. CASE n # m /\ n \notin Members(q)
        BY <1>4, <1>5, <1>6, <2>3
    <2> QED BY <2>1, <2>2, <2>3
<1>8. Place(r) = [Place(q) EXCEPT ![m] = Len(q) + 1]
    BY <1>5, <1>6, <1>7
<1> QED BY <1>1, <1>3, <1>4, <1>8 DEF r

\* Entries in the order of their messages are told apart by them, and one of the
\* first is older than one behind it.
LEMMA Keyed ==
    ASSUME NEW q \in Seq(Msg), Distinct(q), NEW es \in Seq(Entry), Arranged(es, q)
    PROVE  /\ \A i, k \in DOMAIN es : es[i].msg = es[k].msg => i = k
           /\ \A e, f \in Members(es) : e.msg = f.msg => e = f
<1>0. DOMAIN es = 1..Len(es) /\ Len(es) \in Nat /\ \A i \in DOMAIN es : es[i] \in Entry
    OBVIOUS
<1>1. DOMAIN es = 1..Len(es) /\ Len(es) \in Nat /\ \A i \in DOMAIN es : es[i].msg \in Msg
    BY <1>0 DEF Entry
<1>2. \A i \in DOMAIN es : Place(q)[es[i].msg] \in Nat
    BY <1>1, PlaceFacts
<1>3. ASSUME NEW i \in DOMAIN es, NEW k \in DOMAIN es, es[i].msg = es[k].msg PROVE i = k
    <2>1. ~(i < k) /\ ~(k < i)
        BY <1>2, <1>3 DEF Arranged
    <2> QED BY <1>1, <2>1
<1> QED BY <1>3 DEF Members

\* What the ledger sees of entries es when the run was last active at r, at time t.
AgedOf(es, t) == {e \in Members(es) : t - e.at >= Grace}
HandedOf(es) == {e \in Members(es) : e.deliveredAt # 0}
ConsumedOf(es, r) == {e \in HandedOf(es) : r # 0 /\ r >= e.deliveredAt}
MessagesOf(E) == {e.msg : e \in E}

\* The four sets the refinement shows, of these entries and of the next.
LEMMA Shown ==
    /\ Messages(Stored) = MessagesOf(Members(entries))
    /\ Messages(Stored)' = MessagesOf(Members(entries'))
    /\ Messages(Aged) = MessagesOf(AgedOf(entries, now))
    /\ Messages(Aged)' = MessagesOf(AgedOf(entries', now'))
    /\ Messages(Handed) = MessagesOf(HandedOf(entries))
    /\ Messages(Handed)' = MessagesOf(HandedOf(entries'))
    /\ Messages(Consumed) = MessagesOf(ConsumedOf(entries, runActive))
    /\ Messages(Consumed)' = MessagesOf(ConsumedOf(entries', runActive'))
    /\ Arrival = Place(order) /\ Arrival' = Place(order')
BY DEF Messages, Stored, Aged, Handed, Consumed, Arrival,
       Members, AgedOf, HandedOf, ConsumedOf, MessagesOf, Place

\* What the ledger sees of entries ps that are those of es in P, in their order.
PickedSpec(es, ps, q, P, r, t) ==
    /\ ps \in Seq(Entry) /\ Len(ps) =< Len(es) /\ Members(ps) = P
    /\ Arranged(ps, q)
    /\ MessagesOf(AgedOf(ps, t)) = MessagesOf(AgedOf(es, t)) \cap MessagesOf(P)
    /\ MessagesOf(HandedOf(ps)) = MessagesOf(HandedOf(es)) \cap MessagesOf(P)
    /\ MessagesOf(ConsumedOf(ps, r)) = MessagesOf(ConsumedOf(es, r)) \cap MessagesOf(P)

\* Only leaves such entries.
LEMMA Picked ==
    ASSUME NEW q \in Seq(Msg), Distinct(q), NEW es \in Seq(Entry), Arranged(es, q),
           NEW P \in SUBSET Members(es), NEW r, NEW t
    PROVE  PickedSpec(es, Only(es, P), q, P, r, t)
<1> DEFINE ps == Only(es, P)
<1>0. ps = Only(es, P)
    OBVIOUS
<1> HIDE DEF ps
<1>1. OnlySpec(es, Entry, P)
    BY OnlyKeeps
<1>2. Members(ps) = P /\ ps \in Seq(Entry) /\ Len(ps) =< Len(es)
    BY <1>0, <1>1 DEF OnlySpec
<1>3. Arranged(ps, q)
    <2>1. \A i \in DOMAIN ps : ps[i].msg \in Members(q)
        <3>1. \A e \in Members(es) : e.msg \in Members(q)
            BY DEF Arranged, Members
        <3>2. \A i \in DOMAIN ps : ps[i] \in Members(es)
            BY <1>2 DEF Members
        <3> QED BY <3>1, <3>2
    <2>2. ASSUME NEW i \in DOMAIN ps, NEW k \in DOMAIN ps, i < k
          PROVE  ps[i].at =< ps[k].at /\ Place(q)[ps[i].msg] < Place(q)[ps[k].msg]
        <3>1. PICK a \in DOMAIN es, b \in DOMAIN es : a < b /\ ps[i] = es[a] /\ ps[k] = es[b]
            BY <1>0, <1>1, <2>2 DEF OnlySpec
        <3> QED BY <3>1 DEF Arranged
    <2> QED BY <2>1, <2>2 DEF Arranged
<1>4. \A e, f \in Members(es) : e.msg = f.msg => e = f
    BY Keyed
<1>5. AgedOf(ps, t) = AgedOf(es, t) \cap P /\ AgedOf(es, t) \subseteq Members(es)
    BY <1>2 DEF AgedOf
<1>6. HandedOf(ps) = HandedOf(es) \cap P /\ HandedOf(es) \subseteq Members(es)
    BY <1>2 DEF HandedOf
<1>7. ConsumedOf(ps, r) = ConsumedOf(es, r) \cap P /\ ConsumedOf(es, r) \subseteq Members(es)
    BY <1>2 DEF HandedOf, ConsumedOf
<1>8. P \subseteq Members(es)
    OBVIOUS
<1>9. \A S \in SUBSET Members(es) : MessagesOf(S \cap P) = MessagesOf(S) \cap MessagesOf(P)
    <2> SUFFICES ASSUME NEW S \in SUBSET Members(es)
                 PROVE  MessagesOf(S \cap P) = MessagesOf(S) \cap MessagesOf(P)
        OBVIOUS
    <2> QED BY <1>4, <1>8, Zenon DEF MessagesOf
<1> QED BY <1>0, <1>2, <1>3, <1>5, <1>6, <1>7, <1>9 DEF PickedSpec

\* What is flushed is what the file may hold.
LEMMA Flushed ==
    ASSUME NEW es \in Seq(Entry)
    PROVE  /\ Flush(es) \in Seq([msg : Msg, at : 1..MaxNow])
           /\ DOMAIN Flush(es) = DOMAIN es /\ Len(Flush(es)) = Len(es)
           /\ \A i \in DOMAIN es : Flush(es)[i] = [msg |-> es[i].msg, at |-> es[i].at]
<1>1. DOMAIN es = 1..Len(es) /\ Len(es) \in Nat
    OBVIOUS
<1>2. Flush(es) = [i \in DOMAIN es |-> [msg |-> es[i].msg, at |-> es[i].at]]
    BY DEF Flush, Line
<1>3. ASSUME NEW i \in DOMAIN es
      PROVE  [msg |-> es[i].msg, at |-> es[i].at] \in [msg : Msg, at : 1..MaxNow]
    <2>1. es[i] \in Entry
        OBVIOUS
    <2> QED BY <2>1 DEF Entry
<1> QED BY <1>1, <1>2, <1>3

\* What an invariant asks of the entries, besides what is flushed and the clock.
Held(es, q) ==
    /\ es \in Seq(Entry) /\ Len(es) =< InboxCap /\ Arranged(es, q)
    /\ \A i \in DOMAIN es : es[i].at =< now /\ es[i].deliveredAt =< now

\* Every change of the entries that is written keeps the invariant.
LEMMA Rewritten ==
    ASSUME FileInv, Held(entries', order), file' = Flush(entries'),
           UNCHANGED <<runActive, now, stamped, order>>
    PROVE  FileInv'
<1>1. /\ runActive \in 0..MaxNow /\ now \in 1..MaxNow /\ stamped \in BOOLEAN /\ order \in Seq(Msg)
      /\ Distinct(order) /\ runActive =< now /\ (~stamped => runActive < now)
    BY DEF FileInv, FileTypeOK, Past
<1>2. /\ entries' \in Seq(Entry) /\ Len(entries') =< InboxCap /\ Arranged(entries', order)
      /\ \A i \in DOMAIN entries' : entries'[i].at =< now /\ entries'[i].deliveredAt =< now
    BY DEF Held
<1>3. FileTypeOK'
    BY <1>1, <1>2, Flushed DEF FileTypeOK
<1>4. Past'
    BY <1>1, <1>2 DEF Past
<1>5. Distinct(order') /\ Arranged(entries', order') /\ Len(entries') =< InboxCap
    BY <1>1, <1>2
<1> QED BY <1>3, <1>4, <1>5 DEF FileInv

\* Keeping the entries of P, and writing the file when that changes something, is
\* what the ledger calls keeping their messages.
LEMMA FileKeeps ==
    ASSUME FileInv, NEW P \in SUBSET Members(entries), entries' = Only(entries, P),
           file' = IF entries' = entries THEN file ELSE Flush(entries'),
           UNCHANGED <<runActive, now, stamped, order>>
    PROVE  FileInv' /\ Ledger!Keep(MessagesOf(P)) /\ UNCHANGED <<Arrival, Len(order)>>
<1>1. /\ entries \in Seq(Entry) /\ order \in Seq(Msg) /\ Distinct(order)
      /\ Arranged(entries, order) /\ Len(entries) =< InboxCap
      /\ file = Flush(entries) /\ Past
    BY DEF FileInv, FileTypeOK
<1>2. entries' = Only(entries, P)
    OBVIOUS
<1>3. /\ entries' \in Seq(Entry) /\ Len(entries') =< Len(entries) /\ Members(entries') = P
      /\ Arranged(entries', order)
      /\ MessagesOf(AgedOf(entries', now)) = MessagesOf(AgedOf(entries, now)) \cap MessagesOf(P)
      /\ MessagesOf(HandedOf(entries')) = MessagesOf(HandedOf(entries)) \cap MessagesOf(P)
      /\ MessagesOf(ConsumedOf(entries', runActive))
            = MessagesOf(ConsumedOf(entries, runActive)) \cap MessagesOf(P)
    <2>1. PickedSpec(entries, Only(entries, P), order, P, runActive, now)
        BY <1>1, Picked
    <2>2. PickedSpec(entries, entries', order, P, runActive, now)
        BY <1>2, <2>1
    <2> QED BY <2>2 DEF PickedSpec
<1>4. file' = Flush(entries')
    BY <1>1
<1>5. Held(entries', order)
    <2>1. \A e \in Members(entries') : e.at =< now /\ e.deliveredAt =< now
        BY <1>1, <1>3 DEF Past, Members
    <2>2. \A i \in DOMAIN entries' : entries'[i] \in Members(entries')
        BY DEF Members
    <2>3. Len(entries') =< InboxCap
        <3>1. Len(entries) \in Nat /\ Len(entries') \in Nat /\ InboxCap \in Nat
            BY <1>1, <1>3, InboxAssumption
        <3> QED BY ONLY <1>1, <1>3, <3>1
    <2> QED BY <1>3, <2>1, <2>2, <2>3 DEF Held
<1>6. FileInv'
    BY <1>4, <1>5, Rewritten
<1>7. Ledger!Keep(MessagesOf(P))
    BY <1>3, Shown DEF Ledger!Keep
<1>8. UNCHANGED <<Arrival, Len(order)>>
    BY Shown
<1> QED BY <1>6, <1>7, <1>8

\* /quit and a handled command take an entry out by its stanza id.
LEMMA DropIsLedger ==
    ASSUME FileInv, NEW m \in Msg, InboxDrop(m)
    PROVE  FileInv' /\ Ledger!Drop(m)
<1> DEFINE P == {e \in Members(entries) : e.msg # m}
<1>1. /\ entries' = Only(entries, P) /\ m \notin Anonymous
      /\ file' = IF entries' = entries THEN file ELSE Flush(entries')
      /\ UNCHANGED <<runActive, now, stamped, order>>
    BY DEF InboxDrop, Stored, Members
<1>2. MessagesOf(P) = MessagesOf(Members(entries)) \ {m}
    BY DEF MessagesOf
<1>3. P \in SUBSET Members(entries)
    OBVIOUS
<1> HIDE DEF P
<1>4. FileInv' /\ Ledger!Keep(MessagesOf(P)) /\ UNCHANGED <<Arrival, Len(order)>>
    BY <1>1, <1>3, FileKeeps
<1>5. MessagesOf(P) = Messages(Stored) \ Ledger!Nameable(m)
    BY <1>1, <1>2, Shown DEF Ledger!Nameable
<1> QED BY <1>4, <1>5 DEF Ledger!Drop

\* A settle takes out what was read and what is old.
LEMMA AckIsLedger ==
    ASSUME FileInv, AckInboxSettled
    PROVE  FileInv' /\ Ledger!AckSettled
<1> DEFINE E == Members(entries)
           C == ConsumedOf(entries, runActive)
           A == AgedOf(entries, now)
           P == E \ (C \union A)
<1>1. /\ entries' = Only(entries, P)
      /\ file' = IF entries' = entries THEN file ELSE Flush(entries')
      /\ UNCHANGED <<runActive, now, stamped, order>>
    BY DEF AckInboxSettled, Stored, Consumed, Handed, Aged, Members,
           ConsumedOf, HandedOf, AgedOf
<1>2. C \in SUBSET E /\ A \in SUBSET E /\ \A e, f \in E : e.msg = f.msg => e = f
    <2>1. C \in SUBSET E /\ A \in SUBSET E
        BY DEF ConsumedOf, HandedOf, AgedOf
    <2>2. entries \in Seq(Entry) /\ order \in Seq(Msg) /\ Distinct(order)
          /\ Arranged(entries, order)
        BY DEF FileInv, FileTypeOK
    <2> QED BY <2>1, <2>2, Keyed
<1>3. P \in SUBSET E
    OBVIOUS
<1>4. Messages(Stored) = MessagesOf(E) /\ Messages(Consumed) = MessagesOf(C)
      /\ Messages(Aged) = MessagesOf(A)
    BY Shown
<1>5. P = E \ (C \union A)
    OBVIOUS
<1> HIDE DEF P
<1>6. FileInv' /\ Ledger!Keep(MessagesOf(P)) /\ UNCHANGED <<Arrival, Len(order)>>
    BY <1>1, <1>3, FileKeeps
<1> HIDE DEF E, C, A
<1>7. MessagesOf(P) = MessagesOf(E) \ (MessagesOf(C) \union MessagesOf(A))
    BY <1>2, <1>5 DEF MessagesOf
<1> QED BY <1>4, <1>6, <1>7 DEF Ledger!AckSettled, Ledger!Acknowledged

\* An entry of es for m: any, an old one, one handed over, one that was read.
HasEntry(es, m) == \E i \in DOMAIN es : es[i].msg = m
HasAged(es, t, m) == \E i \in DOMAIN es : es[i].msg = m /\ t - es[i].at >= Grace
HasHanded(es, m) == \E i \in DOMAIN es : es[i].msg = m /\ es[i].deliveredAt # 0
HasConsumed(es, r, m) ==
    \E i \in DOMAIN es : /\ es[i].msg = m /\ es[i].deliveredAt # 0
                         /\ r # 0 /\ r >= es[i].deliveredAt

\* What the ledger sees of es, by the places of the entries.
LEMMA Seen ==
    ASSUME NEW es, NEW r, NEW t, NEW m
    PROVE  /\ m \in MessagesOf(Members(es)) <=> HasEntry(es, m)
           /\ m \in MessagesOf(AgedOf(es, t)) <=> HasAged(es, t, m)
           /\ m \in MessagesOf(HandedOf(es)) <=> HasHanded(es, m)
           /\ m \in MessagesOf(ConsumedOf(es, r)) <=> HasConsumed(es, r, m)
<1>1. m \in MessagesOf(Members(es)) <=> HasEntry(es, m)
    BY Zenon DEF MessagesOf, Members, HasEntry
<1>2. m \in MessagesOf(AgedOf(es, t)) <=> HasAged(es, t, m)
    BY Zenon DEF MessagesOf, Members, AgedOf, HasAged
<1>3. m \in MessagesOf(HandedOf(es)) <=> HasHanded(es, m)
    BY Zenon DEF MessagesOf, Members, HandedOf, HasHanded
<1>4. m \in MessagesOf(ConsumedOf(es, r)) <=> HasConsumed(es, r, m)
    BY Zenon DEF MessagesOf, Members, HandedOf, ConsumedOf, HasConsumed
<1> QED BY <1>1, <1>2, <1>3, <1>4

\* Entries with the messages and the arrivals of es, place by place.
SameLine(es, fs) ==
    /\ fs \in Seq(Entry) /\ DOMAIN fs = DOMAIN es /\ Len(fs) = Len(es)
    /\ \A i \in DOMAIN es : fs[i].msg = es[i].msg /\ fs[i].at = es[i].at

\* They are flushed alike, and the ledger sees the same messages, as old as before.
LEMMA SameLines ==
    ASSUME NEW es \in Seq(Entry), NEW fs, SameLine(es, fs), NEW q, NEW t
    PROVE  /\ Flush(fs) = Flush(es)
           /\ Arranged(es, q) => Arranged(fs, q)
           /\ MessagesOf(Members(fs)) = MessagesOf(Members(es))
           /\ MessagesOf(AgedOf(fs, t)) = MessagesOf(AgedOf(es, t))
<1>1. DOMAIN fs = DOMAIN es /\ \A i \in DOMAIN es : fs[i].msg = es[i].msg /\ fs[i].at = es[i].at
    BY DEF SameLine
<1>2. Flush(fs) = Flush(es)
    BY <1>1 DEF Flush, Line
<1>3. Arranged(es, q) => Arranged(fs, q)
    BY <1>1 DEF Arranged
<1>4. MessagesOf(Members(fs)) = MessagesOf(Members(es))
    <2>1. ASSUME NEW m PROVE HasEntry(fs, m) <=> HasEntry(es, m)
        BY <1>1, Zenon DEF HasEntry
    <2> QED BY <2>1, Seen, SameMembers
<1>5. MessagesOf(AgedOf(fs, t)) = MessagesOf(AgedOf(es, t))
    <2>1. ASSUME NEW m PROVE HasAged(fs, t, m) <=> HasAged(es, t, m)
        BY <1>1, Zenon DEF HasAged
    <2>2. ASSUME NEW m
          PROVE  m \in MessagesOf(AgedOf(fs, t)) <=> m \in MessagesOf(AgedOf(es, t))
        <3>1. m \in MessagesOf(AgedOf(fs, t)) <=> HasAged(fs, t, m)
            BY Seen
        <3>2. m \in MessagesOf(AgedOf(es, t)) <=> HasAged(es, t, m)
            BY Seen
        <3> QED BY <2>1, <3>1, <3>2
    <2> QED BY <2>2, SameMembers
<1> QED BY <1>2, <1>3, <1>4, <1>5

\* A hand-over stamps the entry of the message with a reading behind the run's.
LEMMA MarkIsLedger ==
    ASSUME FileInv, NEW m \in Msg, InboxMarkDelivered(m)
    PROVE  FileInv' /\ Ledger!MarkDelivered(m)
<1>1. /\ entries \in Seq(Entry) /\ order \in Seq(Msg) /\ Distinct(order)
      /\ Arranged(entries, order) /\ Len(entries) =< InboxCap
      /\ file = Flush(entries)
      /\ runActive \in 0..MaxNow /\ now \in 1..MaxNow
      /\ \A i \in DOMAIN entries : entries[i].at =< now /\ entries[i].deliveredAt =< now
      /\ runActive =< now /\ (~stamped => runActive < now)
    BY DEF FileInv, FileTypeOK, Past
<1>2. /\ m \notin Anonymous /\ ~stamped /\ stamped' = TRUE /\ UNCHANGED <<now, file, runActive, order>>
      /\ entries' = [i \in DOMAIN entries |-> IF entries[i].msg = m
                                                THEN [entries[i] EXCEPT !.deliveredAt = now]
                                                ELSE entries[i]]
    BY DEF InboxMarkDelivered, Stamp
<1>3. \A i \in DOMAIN entries : entries[i] \in Entry
    BY <1>1
<1>4. ASSUME NEW i \in DOMAIN entries
      PROVE  /\ entries'[i] \in Entry
             /\ entries'[i].msg = entries[i].msg /\ entries'[i].at = entries[i].at
             /\ entries[i].msg = m => entries'[i].deliveredAt = now
             /\ entries[i].msg # m => entries'[i].deliveredAt = entries[i].deliveredAt
             /\ entries[i].deliveredAt \in 0..MaxNow
    <2>1. entries[i] \in Entry /\ now \in 0..MaxNow
        BY <1>1, <1>3
    <2>2. entries'[i] = IF entries[i].msg = m THEN [entries[i] EXCEPT !.deliveredAt = now]
                                              ELSE entries[i]
        BY <1>2
    <2> QED BY <2>1, <2>2 DEF Entry
<1>5. /\ DOMAIN entries' = DOMAIN entries /\ Len(entries') = Len(entries)
      /\ entries' \in Seq(Entry)
    <2>1. entries' = [i \in DOMAIN entries |-> entries'[i]]
        BY <1>2
    <2>2. \A i \in DOMAIN entries : entries'[i] \in Entry
        BY <1>4
    <2> QED BY <1>1, <2>1, <2>2, Placewise
<1>6. SameLine(entries, entries')
    BY <1>4, <1>5 DEF SameLine
<1>7. /\ Flush(entries') = Flush(entries) /\ Arranged(entries', order)
      /\ MessagesOf(Members(entries')) = MessagesOf(Members(entries))
      /\ MessagesOf(AgedOf(entries', now)) = MessagesOf(AgedOf(entries, now))
    BY <1>1, <1>6, SameLines
<1>0. ASSUME NEW n
      PROVE  n \in Ledger!Nameable(m) <=> n = m /\ HasEntry(entries, m)
    <2>1. m \in Messages(Stored) <=> HasEntry(entries, m)
        BY Seen, Shown
    <2> QED BY <1>2, <2>1 DEF Ledger!Nameable
<1>8. FileInv'
    <2>1. Past'
        BY <1>1, <1>2, <1>4, <1>5 DEF Past
    <2>2. FileTypeOK'
        BY <1>1, <1>2, <1>5, Flushed DEF FileTypeOK
    <2> QED BY <1>1, <1>2, <1>5, <1>7, <2>1, <2>2 DEF FileInv
<1>9. MessagesOf(HandedOf(entries')) = MessagesOf(HandedOf(entries)) \union Ledger!Nameable(m)
    <2>1. ASSUME NEW n
          PROVE  HasHanded(entries', n)
                    <=> HasHanded(entries, n) \/ (n = m /\ HasEntry(entries, m))
        <3>1. \A i \in DOMAIN entries : entries'[i].deliveredAt # 0
                                           <=> entries[i].deliveredAt # 0 \/ entries[i].msg = m
            BY <1>1, <1>4
        <3> QED BY <1>4, <1>5, <3>1, Zenon DEF HasHanded, HasEntry
    <2> QED BY <1>0, <2>1, Seen
<1>10. MessagesOf(ConsumedOf(entries', runActive))
          = MessagesOf(ConsumedOf(entries, runActive)) \ Ledger!Nameable(m)
    <2>1. ASSUME NEW n
          PROVE  HasConsumed(entries', runActive, n)
                    <=> HasConsumed(entries, runActive, n) /\ ~(n = m /\ HasEntry(entries, m))
        <3>1. \A i \in DOMAIN entries : entries[i].msg = m => ~(runActive >= entries'[i].deliveredAt)
            BY <1>1, <1>2, <1>4
        <3> QED BY <1>4, <1>5, <3>1, Zenon DEF HasConsumed, HasEntry
    <2> QED BY <1>0, <2>1, Seen
<1>11. /\ UNCHANGED <<Messages(Stored), Messages(Aged), Arrival, Len(order)>>
       /\ Messages(Handed)' = Messages(Handed) \union Ledger!Nameable(m)
       /\ Messages(Consumed)' = Messages(Consumed) \ Ledger!Nameable(m)
    BY <1>2, <1>7, <1>9, <1>10, Shown
<1> QED BY <1>8, <1>11 DEF Ledger!MarkDelivered

\* A message taken in makes everything handed over so far count as read.
LEMMA StampIsLedger ==
    ASSUME FileInv, StampRunActive
    PROVE  FileInv' /\ Ledger!NoteRunActivity
<1>1. /\ entries \in Seq(Entry) /\ runActive \in 0..MaxNow /\ now \in 1..MaxNow
      /\ \A i \in DOMAIN entries : entries[i].deliveredAt =< now
    BY DEF FileInv, FileTypeOK, Past
<1>2. ~stamped /\ stamped' = TRUE /\ runActive' = now /\ UNCHANGED <<now, entries, file, order>>
    BY DEF StampRunActive, Stamp
<1>3. FileInv'
    <2>1. FileTypeOK'
        BY <1>1, <1>2 DEF FileInv, FileTypeOK
    <2>2. Past'
        BY <1>1, <1>2 DEF FileInv, Past
    <2> QED BY <1>2, <2>1, <2>2 DEF FileInv
<1>4. MessagesOf(ConsumedOf(entries, now)) = MessagesOf(HandedOf(entries))
    <2>1. now # 0 /\ \A i \in DOMAIN entries : now >= entries[i].deliveredAt
        <3>1. \A i \in DOMAIN entries : entries[i] \in Entry
            BY <1>1
        <3> QED BY <1>1, <3>1 DEF Entry
    <2>2. ASSUME NEW n PROVE HasConsumed(entries, now, n) <=> HasHanded(entries, n)
        BY <2>1, Zenon DEF HasConsumed, HasHanded
    <2> QED BY <2>2, Seen, SameMembers
<1>5. /\ UNCHANGED <<Messages(Stored), Messages(Aged), Messages(Handed),
                     Arrival, Len(order)>>
      /\ Messages(Consumed)' = Messages(Handed)
    BY <1>2, <1>4, Shown
<1> QED BY <1>3, <1>5 DEF Ledger!NoteRunActivity

\* A run that starts has read nothing.
LEMMA ResetIsLedger ==
    ASSUME FileInv, ResetRunActive
    PROVE  FileInv' /\ Ledger!ClearRunActivity
<1>1. runActive' = 0 /\ UNCHANGED <<entries, file, now, stamped, order>>
    BY DEF ResetRunActive
<1>2. now \in 1..MaxNow /\ MaxNow \in Nat
    BY ClockAssumption DEF FileInv, FileTypeOK
<1>3. FileInv'
    <2>1. FileTypeOK'
        BY <1>1, <1>2 DEF FileInv, FileTypeOK
    <2>2. Past'
        BY <1>1, <1>2 DEF FileInv, Past
    <2> QED BY <1>1, <2>1, <2>2 DEF FileInv
<1>4. MessagesOf(ConsumedOf(entries, 0)) = {}
    BY DEF ConsumedOf, MessagesOf
<1>5. /\ UNCHANGED <<Messages(Stored), Messages(Aged), Messages(Handed),
                     Arrival, Len(order)>>
      /\ Messages(Consumed)' = {}
    BY <1>1, <1>4, Shown
<1> QED BY <1>3, <1>5 DEF Ledger!ClearRunActivity

\* The file brings back every entry, unread.
LEMMA ReloadIsLedger ==
    ASSUME FileInv, NewInbox
    PROVE  FileInv' /\ Ledger!Reload
<1>1. /\ entries \in Seq(Entry) /\ order \in Seq(Msg) /\ Distinct(order)
      /\ Arranged(entries, order) /\ Len(entries) =< InboxCap
      /\ file = Flush(entries)
      /\ runActive \in 0..MaxNow /\ now \in 1..MaxNow
      /\ \A i \in DOMAIN entries : entries[i].at =< now
    BY DEF FileInv, FileTypeOK, Past
<1>2. /\ runActive' = 0 /\ UNCHANGED <<now, file, stamped, order>>
      /\ entries' = [i \in DOMAIN file |-> [msg |-> file[i].msg, at |-> file[i].at, deliveredAt |-> 0]]
    BY DEF NewInbox
<1>3. DOMAIN file = DOMAIN entries
      /\ \A i \in DOMAIN entries : file[i] = [msg |-> entries[i].msg, at |-> entries[i].at]
    BY <1>1, Flushed
<1>4. ASSUME NEW i \in DOMAIN entries
      PROVE  /\ entries'[i] \in Entry /\ entries'[i].msg = entries[i].msg
             /\ entries'[i].at = entries[i].at /\ entries'[i].deliveredAt = 0
    <2>1. entries[i] \in Entry
        BY <1>1
    <2>2. entries'[i] = [msg |-> entries[i].msg, at |-> entries[i].at, deliveredAt |-> 0]
        BY <1>2, <1>3
    <2>3. 0 \in 0..MaxNow
        BY ClockAssumption
    <2> QED BY <2>1, <2>2, <2>3 DEF Entry
<1>5. /\ DOMAIN entries' = DOMAIN entries /\ Len(entries') = Len(entries)
      /\ entries' \in Seq(Entry)
    <2>1. entries' = [i \in DOMAIN entries |-> entries'[i]]
        BY <1>2, <1>3
    <2>2. \A i \in DOMAIN entries : entries'[i] \in Entry
        BY <1>4
    <2> QED BY <1>1, <2>1, <2>2, Placewise
<1>6. SameLine(entries, entries')
    BY <1>4, <1>5 DEF SameLine
<1>7. /\ Flush(entries') = Flush(entries) /\ Arranged(entries', order)
      /\ MessagesOf(Members(entries')) = MessagesOf(Members(entries))
      /\ MessagesOf(AgedOf(entries', now)) = MessagesOf(AgedOf(entries, now))
    BY <1>1, <1>6, SameLines
<1>8. FileInv'
    <2>1. Past'
        <3>1. now \in Nat /\ 0 < now
            BY <1>1, ClockAssumption
        <3> QED BY <1>1, <1>2, <1>4, <1>5, <3>1 DEF Past
    <2>2. FileTypeOK'
        <3>1. 0 \in 0..MaxNow /\ file \in Seq([msg : Msg, at : 1..MaxNow])
            BY ClockAssumption DEF FileInv, FileTypeOK
        <3> QED BY <1>1, <1>2, <1>5, <3>1 DEF FileInv, FileTypeOK
    <2> QED BY <1>1, <1>2, <1>5, <1>7, <2>1, <2>2 DEF FileInv
<1>9. MessagesOf(HandedOf(entries')) = {} /\ MessagesOf(ConsumedOf(entries', runActive')) = {}
    <2>1. ASSUME NEW n PROVE ~HasHanded(entries', n) /\ ~HasConsumed(entries', runActive', n)
        BY <1>4, <1>5, Zenon DEF HasHanded, HasConsumed
    <2> QED BY <2>1, Seen
<1>10. /\ UNCHANGED <<Messages(Stored), Messages(Aged), Arrival, Len(order)>>
       /\ Messages(Handed)' = {} /\ Messages(Consumed)' = {}
    BY <1>2, <1>7, <1>9, Shown
<1> QED BY <1>8, <1>10 DEF Ledger!Reload

\* Time passes: the entries that reach the grace are the first ones.
LEMMA TickIsLedger ==
    ASSUME FileInv, Tick
    PROVE  FileInv' /\ (Ledger!GraceElapses \/ UNCHANGED Ledger!ledger)
<1>1. /\ entries \in Seq(Entry) /\ order \in Seq(Msg) /\ Distinct(order)
      /\ Arranged(entries, order)
      /\ runActive \in 0..MaxNow /\ now \in 1..MaxNow
      /\ \A i \in DOMAIN entries : entries[i].at =< now /\ entries[i].deliveredAt =< now
      /\ runActive =< now /\ MaxNow \in Nat
    BY ClockAssumption DEF FileInv, FileTypeOK, Past
<1>2. now < MaxNow /\ now' = now + 1 /\ stamped' = FALSE /\ UNCHANGED <<entries, file, runActive, order>>
    BY DEF Tick
<1>3. /\ DOMAIN entries = 1..Len(entries) /\ Len(entries) \in Nat
      /\ \A i \in DOMAIN entries : /\ entries[i].msg \in Msg /\ entries[i].at \in 1..MaxNow
                                   /\ entries[i].deliveredAt \in 0..MaxNow
    <2>1. \A i \in DOMAIN entries : entries[i] \in Entry
        BY <1>1
    <2> QED BY <1>1, <2>1 DEF Entry
<1>4. FileInv'
    <2>1. FileTypeOK'
        <3>1. now + 1 \in 1..MaxNow /\ FALSE \in BOOLEAN
            BY <1>1, <1>2
        <3>2. file \in Seq([msg : Msg, at : 1..MaxNow])
            BY DEF FileInv, FileTypeOK
        <3> QED BY <1>1, <1>2, <3>1, <3>2 DEF FileTypeOK
    <2>2. Past'
        BY <1>1, <1>2, <1>3 DEF Past
    <2> QED BY <1>2, <2>1, <2>2 DEF FileInv
<1>5. /\ UNCHANGED <<Messages(Stored), Arrival, Len(order), Messages(Handed),
                     Messages(Consumed)>>
      /\ Messages(Stored) = MessagesOf(Members(entries)) /\ Arrival = Place(order)
      /\ Messages(Aged) = MessagesOf(AgedOf(entries, now))
      /\ Messages(Aged)' = MessagesOf(AgedOf(entries, now + 1))
    BY <1>2, Shown
<1> DEFINE I == {i \in DOMAIN entries : (now + 1) - entries[i].at >= Grace}
<1>6. CASE \A i \in I : now - entries[i].at >= Grace
    <2>1. \A i \in DOMAIN entries : (now + 1) - entries[i].at >= Grace
                                       <=> now - entries[i].at >= Grace
        BY <1>1, <1>3, <1>6, ClockAssumption
    <2>2. AgedOf(entries, now + 1) = AgedOf(entries, now)
        BY <2>1 DEF AgedOf, Members
    <2> QED BY <1>4, <1>5, <2>2 DEF Ledger!ledger
<1>7. CASE \E i \in I : ~(now - entries[i].at >= Grace)
    <2>1. I \in SUBSET Nat /\ IsFiniteSet(I) /\ I # {}
        <3>1. IsFiniteSet(1..Len(entries))
            BY <1>3, FS_Interval
        <3> QED BY <1>3, <1>7, <3>1, FS_Subset
    <2>2. PICK k \in I : \A i \in I : i =< k
        <3> HIDE DEF I
        <3> QED BY <2>1, Greatest
    <2>3. ASSUME NEW i \in DOMAIN entries
          PROVE  /\ i =< k => entries[i].at =< entries[k].at
                 /\ i =< k <=> i \in I
                 /\ i =< k <=> Place(order)[entries[i].msg] =< Place(order)[entries[k].msg]
        <3>1. /\ i < k => entries[i].at =< entries[k].at
              /\ i < k => Place(order)[entries[i].msg] < Place(order)[entries[k].msg]
              /\ k < i => Place(order)[entries[k].msg] < Place(order)[entries[i].msg]
            BY <1>1 DEF Arranged
        <3>2. Place(order)[entries[i].msg] \in Nat /\ Place(order)[entries[k].msg] \in Nat
            BY <1>1, <1>3, PlaceFacts
        <3>3. i \in Nat /\ k \in Nat /\ entries[i].at \in Nat /\ entries[k].at \in Nat
            BY <1>3
        <3>4. i =< k <=> Place(order)[entries[i].msg] =< Place(order)[entries[k].msg]
            <4>1. i < k \/ i = k \/ k < i
                BY <3>3
            <4> QED BY <3>1, <3>2, <3>3, <4>1
        <3>5. i =< k => entries[i].at =< entries[k].at
            BY <3>1, <3>3
        <3>6. i =< k <=> i \in I
            <4>1. (now + 1) - entries[k].at >= Grace
                BY <2>2
            <4>2. i =< k => (now + 1) - entries[i].at >= Grace
                BY <1>1, <3>3, <3>5, <4>1, ClockAssumption
            <4>3. i \in I => i =< k
                BY <2>2
            <4> QED BY <4>2, <4>3
        <3> QED BY <3>4, <3>5, <3>6
    <2>4. ~(now - entries[k].at >= Grace)
        <3>1. PICK i \in I : ~(now - entries[i].at >= Grace)
            BY <1>7
        <3>2. entries[i].at =< entries[k].at
            BY <2>2, <2>3
        <3>3. now \in Int /\ entries[i].at \in Int /\ entries[k].at \in Int /\ Grace \in Int
            BY <1>1, <1>3, ClockAssumption
        <3>4. ~(now - entries[i].at >= Grace)
            BY <3>1
        <3> QED BY ONLY <3>2, <3>3, <3>4
    <2> DEFINE m == entries[k].msg
    <2>5. m \in MessagesOf(Members(entries)) /\ m \notin MessagesOf(AgedOf(entries, now))
        <3>1. HasEntry(entries, m)
            BY DEF HasEntry
        <3>2. ~HasAged(entries, now, m)
            <4>1. \A i \in DOMAIN entries : entries[i].msg = m => i = k
                BY <1>1, Keyed
            <4> QED BY <2>4, <4>1 DEF HasAged
        <3> QED BY <3>1, <3>2, Seen
    <2>6. ASSUME NEW n
          PROVE  n \in MessagesOf(AgedOf(entries, now + 1))
                    <=> \/ n \in MessagesOf(AgedOf(entries, now))
                        \/ n \in MessagesOf(Members(entries)) /\ Place(order)[n] =< Place(order)[m]
        <3>1. HasAged(entries, now + 1, n) <=> \E i \in I : entries[i].msg = n
            BY DEF HasAged
        <3>2. HasAged(entries, now, n) => \E i \in I : entries[i].msg = n
            <4>1. \A i \in DOMAIN entries : now - entries[i].at >= Grace => i \in I
                BY <1>1, <1>3, ClockAssumption
            <4> HIDE DEF I
            <4> QED BY <4>1, Zenon DEF HasAged
        <3>3. HasEntry(entries, n) /\ Place(order)[n] =< Place(order)[m]
                 <=> \E i \in I : entries[i].msg = n
            <4>1. \A i \in I : i \in DOMAIN entries
                OBVIOUS
            <4>2. \A i \in DOMAIN entries : i \in I
                                     <=> Place(order)[entries[i].msg] =< Place(order)[entries[k].msg]
                BY <2>3
            <4> HIDE DEF I
            <4> QED BY <4>1, <4>2, Zenon DEF HasEntry
        <3>4. n \in MessagesOf(AgedOf(entries, now + 1)) <=> HasAged(entries, now + 1, n)
            BY Seen
        <3>5. n \in MessagesOf(AgedOf(entries, now)) <=> HasAged(entries, now, n)
            BY Seen
        <3>6. n \in MessagesOf(Members(entries)) <=> HasEntry(entries, n)
            BY Seen
        <3> QED BY <3>1, <3>2, <3>3, <3>4, <3>5, <3>6
    <2>7. MessagesOf(AgedOf(entries, now + 1))
             = MessagesOf(AgedOf(entries, now))
               \union {n \in MessagesOf(Members(entries)) : Place(order)[n] =< Place(order)[m]}
        BY <2>6
    <2> HIDE DEF m
    <2>8. Ledger!GraceElapses
        BY <1>5, <2>5, <2>7 DEF Ledger!GraceElapses
    <2> QED BY <1>4, <2>8
<1> QED BY <1>6, <1>7

\* Every entry is of a message of its own.
LEMMA OfTheirOwn ==
    ASSUME NEW q \in Seq(Msg), Distinct(q), NEW es \in Seq(Entry), Arranged(es, q)
    PROVE  /\ Cardinality(MessagesOf(Members(es))) = Len(es)
           /\ \A S : Ledger!Cardinality(S) = Cardinality(S)
<1> DEFINE M == MessagesOf(Members(es))
           f == [i \in 1..Len(es) |-> es[i].msg]
<1>1. DOMAIN es = 1..Len(es) /\ Len(es) \in Nat
    OBVIOUS
<1>2. \A i, k \in 1..Len(es) : es[i].msg = es[k].msg => i = k
    BY <1>1, Keyed
<1>3. \A m : m \in M <=> \E i \in 1..Len(es) : es[i].msg = m
    BY <1>1 DEF MessagesOf, Members
<1> HIDE DEF M
<1>4. f \in Bijection(1..Len(es), M)
    <2>1. f \in [1..Len(es) -> M]
        BY <1>3
    <2>2. \A i, k \in 1..Len(es) : f[i] = f[k] => i = k
        BY <1>2
    <2>3. \A m \in M : \E i \in 1..Len(es) : f[i] = m
        BY <1>3
    <2> HIDE DEF f
    <2>4. f \in Injection(1..Len(es), M)
        BY <2>1, <2>2 DEF Injection, IsInjective
    <2>5. f \in Surjection(1..Len(es), M)
        BY <2>1, <2>3 DEF Surjection
    <2> QED BY <2>4, <2>5 DEF Bijection
<1>5. IsFiniteSet(1..Len(es)) /\ Cardinality(1..Len(es)) = Len(es)
    <2>1. Len(es) \in Int /\ 1 \in Int
        BY <1>1
    <2>2. IsFiniteSet(1..Len(es)) /\ Cardinality(1..Len(es))
             = IF 1 > Len(es) THEN 0 ELSE (Len(es) - 1) + 1
        BY <2>1, FS_Interval
    <2> QED BY <1>1, <2>2
<1>6. Cardinality(M) = Len(es)
    BY <1>4, <1>5, FS_Bijection DEF ExistsBijection
<1>7. \A S : Ledger!Cardinality(S) = Cardinality(S)
    BY Zenon DEF Ledger!Cardinality, Cardinality
<1> QED BY <1>6, <1>7 DEF M

\* fs are the entries of es behind the first cut ones, and e.
Grown(es, fs, cut, e) ==
    /\ fs \in Seq(Entry) /\ Len(fs) = (Len(es) - cut) + 1
    /\ \A i \in 1..(Len(es) - cut) : fs[i] = es[i + cut]
    /\ fs[(Len(es) - cut) + 1] = e

\* fs are the last InboxCap entries of g.
Capped(g, fs) ==
    fs = IF Len(g) > InboxCap THEN SubSeq(g, Len(g) - InboxCap + 1, Len(g)) ELSE g

\* Adding an entry and cutting to the cap from the front makes such entries.
LEMMA Grows ==
    ASSUME NEW es \in Seq(Entry), NEW e \in Entry, NEW fs, Len(es) =< InboxCap,
           Capped(Append(es, e), fs)
    PROVE  /\ Grown(es, fs, One(Len(es) = InboxCap), e) /\ Len(fs) =< InboxCap
           /\ One(Len(es) = InboxCap) \in 0..1 /\ One(Len(es) = InboxCap) =< Len(es)
<1> DEFINE g == Append(es, e)
           n == Len(es)
<1>1. n \in Nat /\ InboxCap \in Nat /\ InboxCap >= 1
    BY InboxAssumption
<1>2. /\ g \in Seq(Entry) /\ Len(g) = n + 1
      /\ \A i \in 1..n : g[i] = es[i]
      /\ g[n + 1] = e
    OBVIOUS
<1>3. fs = IF Len(g) > InboxCap THEN SubSeq(g, Len(g) - InboxCap + 1, Len(g)) ELSE g
    BY DEF Capped
<1> HIDE DEF g
<1>4. CASE n = InboxCap
    <2>1. fs = SubSeq(g, 2, n + 1)
        <3>1. Len(g) > InboxCap /\ Len(g) - InboxCap + 1 = 2
            BY <1>1, <1>2, <1>4
        <3> QED BY <1>2, <1>3, <3>1
    <2>2. fs \in Seq(Entry) /\ Len(fs) = n /\ \A i \in 1..n : fs[i] = g[i + 1]
        <3>1. n \in Nat /\ g \in Seq(Entry) /\ Len(g) = n + 1 /\ fs = SubSeq(g, 2, n + 1)
            BY <1>1, <1>2, <2>1
        <3>2. fs = [i \in 1..n |-> g[i + 1]]
            BY ONLY <3>1
        <3>3. \A i \in 1..n : i + 1 \in 1..(n + 1)
            BY <1>1
        <3>4. \A i \in 1..n : g[i + 1] \in Entry
            BY <3>1, <3>3
        <3>5. DOMAIN es = 1..n /\ es \in Seq(Entry)
            OBVIOUS
        <3>6. \A i \in 1..n : fs[i] = g[i + 1]
            BY <3>2
        <3>7. fs = [i \in DOMAIN es |-> fs[i]] /\ \A i \in DOMAIN es : fs[i] \in Entry
            BY <3>2, <3>4, <3>5, <3>6
        <3>8. fs \in Seq(Entry) /\ Len(fs) = Len(es)
            BY <3>5, <3>7, Placewise
        <3> QED BY <3>6, <3>8
    <2>3. One(n = InboxCap) = 1
        BY <1>4 DEF One
    <2>4. n >= 1
        BY <1>1, <1>4
    <2>5. \A i \in 1..(n - 1) : fs[i] = es[i + 1]
        <3> SUFFICES ASSUME NEW i \in 1..(n - 1) PROVE fs[i] = es[i + 1]
            OBVIOUS
        <3>1. i \in 1..n /\ i + 1 \in 1..n
            BY <1>1
        <3> QED BY <1>2, <2>2, <3>1
    <2>6. fs[(n - 1) + 1] = e
        <3>1. (n - 1) + 1 = n /\ n \in 1..n
            BY <1>1, <2>4
        <3> QED BY <1>2, <2>2, <3>1
    <2>7. (n - 1) + 1 = n /\ n =< InboxCap
        BY <1>1, <1>4
    <2>8. Grown(es, fs, 1, e)
        <3>1. fs \in Seq(Entry) /\ Len(fs) = (n - 1) + 1
            BY <2>2, <2>7
        <3> QED BY <2>5, <2>6, <3>1 DEF Grown
    <2>9. Len(fs) =< InboxCap
        <3>1. Len(fs) = n /\ n =< InboxCap
            BY <2>2, <2>7
        <3> QED BY ONLY <3>1
    <2>10. 1 \in 0..1 /\ 1 =< Len(es)
        BY <2>4
    <2> QED BY <2>3, <2>8, <2>9, <2>10
<1>5. CASE n # InboxCap
    <2>1. fs = g
        <3>1. ~(Len(g) > InboxCap)
            BY <1>1, <1>2, <1>5
        <3> QED BY <1>3, <3>1
    <2>2. One(n = InboxCap) = 0
        BY <1>5 DEF One
    <2>3. Grown(es, fs, 0, e)
        <3>1. n - 0 = n
            BY <1>1
        <3>2. \A i \in 1..n : fs[i] = es[i + 0]
            BY <1>1, <1>2, <2>1
        <3> QED BY <1>2, <2>1, <3>1, <3>2 DEF Grown
    <2>4. Len(fs) =< InboxCap
        BY <1>1, <1>2, <1>5, <2>1
    <2>5. 0 \in 0..1 /\ 0 =< Len(es)
        BY <1>1
    <2> QED BY <2>2, <2>3, <2>4, <2>5
<1> QED BY <1>4, <1>5

\* An entry that is appended comes last; the first gives way when there is no room.
LEMMA AppendIsLedger ==
    ASSUME FileInv, NEW m \in Msg, InboxAppend(m)
    PROVE  FileInv' /\ Arrival[m] = 0 /\ Ledger!AppendEntry(m)
<1> DEFINE e == [msg |-> m, at |-> now, deliveredAt |-> 0]
           n == Len(entries)
           cut == One(n = InboxCap)
<1>1. /\ entries \in Seq(Entry) /\ order \in Seq(Msg) /\ Distinct(order)
      /\ Arranged(entries, order) /\ n =< InboxCap
      /\ runActive \in 0..MaxNow /\ now \in 1..MaxNow
      /\ \A i \in DOMAIN entries : entries[i].at =< now /\ entries[i].deliveredAt =< now
      /\ runActive =< now /\ MaxNow \in Nat
    BY ClockAssumption DEF FileInv, FileTypeOK, Past
<1>2. /\ m \notin Members(order) /\ stamped' = TRUE /\ UNCHANGED <<now, runActive>>
      /\ Capped(Append(entries, e), entries')
      /\ file' = Flush(entries') /\ order' = Append(order, m)
    BY DEF InboxAppend, Stamp, Members, Capped
<1>3. /\ DOMAIN entries = 1..n /\ n \in Nat
      /\ \A i \in 1..n : /\ entries[i].msg \in Members(order) /\ entries[i].at \in 1..MaxNow
                         /\ entries[i].deliveredAt \in 0..MaxNow
                         /\ entries[i].msg \in Msg
    <2>1. \A i \in DOMAIN entries : entries[i] \in Entry
        BY <1>1
    <2>2. \A i \in DOMAIN entries : entries[i].msg \in Members(order)
        BY <1>1 DEF Arranged
    <2>3. DOMAIN entries = 1..n /\ n \in Nat
        BY <1>1
    <2> QED BY <2>1, <2>2, <2>3 DEF Entry
<1>4. e \in Entry /\ e.msg = m /\ e.at = now /\ e.deliveredAt = 0
    <2>1. 0 \in 0..MaxNow
        BY <1>1
    <2> QED BY <1>1, <2>1 DEF Entry
<1> HIDE DEF e
<1>5. Grown(entries, entries', cut, e) /\ Len(entries') =< InboxCap /\ cut \in 0..1 /\ cut =< n
    BY <1>1, <1>2, <1>4, Grows
<1>6. cut = 1 <=> n = InboxCap
    BY DEF One
<1> HIDE DEF n, cut
<1>7. /\ entries' \in Seq(Entry) /\ DOMAIN entries' = 1..((n - cut) + 1)
      /\ \A i \in 1..(n - cut) : i \in DOMAIN entries' /\ entries'[i] = entries[i + cut] /\ i + cut \in 1..n
      /\ (n - cut) + 1 \in DOMAIN entries' /\ entries'[(n - cut) + 1] = e
      /\ \A i \in DOMAIN entries' : i \in 1..(n - cut) \/ i = (n - cut) + 1
      /\ \A i \in 1..n : i > cut => i - cut \in 1..(n - cut) /\ (i - cut) + cut = i
    <2>1. /\ entries' \in Seq(Entry) /\ Len(entries') = (n - cut) + 1 /\ n - cut \in Nat
          /\ cut \in Nat
          /\ \A i \in 1..(n - cut) : entries'[i] = entries[i + cut]
          /\ entries'[(n - cut) + 1] = e
        BY <1>3, <1>5 DEF Grown, n
    <2>2. DOMAIN entries' = 1..((n - cut) + 1)
        BY <2>1
    <2>3. /\ \A i \in 1..(n - cut) : i \in 1..((n - cut) + 1) /\ i + cut \in 1..n
          /\ (n - cut) + 1 \in 1..((n - cut) + 1)
          /\ \A i \in 1..((n - cut) + 1) : i \in 1..(n - cut) \/ i = (n - cut) + 1
          /\ \A i \in 1..n : i > cut => i - cut \in 1..(n - cut) /\ (i - cut) + cut = i
        BY <1>3, <2>1
    <2> QED BY <2>1, <2>2, <2>3
<1>8. /\ order' \in Seq(Msg) /\ Distinct(order') /\ Members(order') = Members(order) \union {m}
      /\ Place(order') = [Place(order) EXCEPT ![m] = Len(order) + 1]
      /\ Place(order) \in [Msg -> 0..Len(order)] /\ Len(order) \in Nat /\ Place(order)[m] = 0
      /\ Len(order') = Len(order) + 1
    <2>1. Place(order) \in [Msg -> 0..Len(order)] /\ Place(order)[m] = 0 /\ Len(order) \in Nat
        BY <1>1, <1>2, PlaceFacts
    <2>2. Len(order') = Len(order) + 1
        BY <1>1, <1>2
    <2> QED BY <1>1, <1>2, <2>1, <2>2, PlaceMore
<1>9. \A i \in 1..n : entries[i].msg # m /\ Place(order')[entries[i].msg] = Place(order)[entries[i].msg]
    BY <1>2, <1>3, <1>8
<1>10. Arranged(entries', order')
    <2>1. \A i \in DOMAIN entries' : entries'[i].msg \in Members(order')
        BY <1>3, <1>4, <1>7, <1>8
    <2>2. ASSUME NEW i \in DOMAIN entries', NEW k \in DOMAIN entries', i < k
          PROVE  /\ entries'[i].at =< entries'[k].at
                 /\ Place(order')[entries'[i].msg] < Place(order')[entries'[k].msg]
        <3>0. n - cut \in Nat /\ cut \in Nat
            BY <1>3, <1>5
        <3>1. i \in 1..(n - cut)
            BY <1>7, <2>2, <3>0
        <3>2. entries'[i] = entries[i + cut] /\ i + cut \in 1..n
            BY <1>7, <3>1
        <3>3. CASE k \in 1..(n - cut)
            <4>1. entries'[k] = entries[k + cut] /\ k + cut \in 1..n /\ i + cut < k + cut
                BY <1>7, <2>2, <3>0, <3>1, <3>3
            <4>2. /\ entries[i + cut].at =< entries[k + cut].at
                  /\ Place(order)[entries[i + cut].msg] < Place(order)[entries[k + cut].msg]
                BY <1>1, <1>3, <3>2, <4>1 DEF Arranged
            <4> QED BY <1>9, <3>2, <4>1, <4>2
        <3>4. CASE k = (n - cut) + 1
            <4>1. entries'[k] = e
                BY <1>7, <3>4
            <4>2. entries[i + cut].at =< now
                BY <1>1, <1>3, <3>2
            <4>3. Place(order')[m] = Len(order) + 1
                BY <1>8
            <4>4. Place(order)[entries[i + cut].msg] \in 0..Len(order)
                BY <1>3, <1>8, <3>2
            <4>5. Place(order)[entries[i + cut].msg] < Len(order) + 1
                BY <1>8, <4>4
            <4> QED BY <1>4, <1>9, <3>2, <4>1, <4>2, <4>3, <4>5
        <3> QED BY <1>7, <3>3, <3>4
    <2> QED BY <2>1, <2>2 DEF Arranged
<1>11. FileInv'
    <2>1. \A i \in DOMAIN entries' : entries'[i].at =< now /\ entries'[i].deliveredAt =< now
        <3>1. now =< now /\ 0 =< now
            BY <1>1
        <3> QED BY <1>1, <1>3, <1>4, <1>7, <3>1
    <2>2. FileTypeOK'
        BY <1>1, <1>2, <1>7, <1>8, Flushed DEF FileTypeOK
    <2>3. Past'
        BY <1>1, <1>2, <2>1 DEF Past
    <2> QED BY <1>2, <1>5, <1>8, <1>10, <2>2, <2>3 DEF FileInv
\* The messages that stay.
<1> DEFINE S == {entries[i].msg : i \in {j \in 1..n : j > cut}}
           inb == MessagesOf(Members(entries))
<1>12. inb \ Ledger!Evicted = S
    <2>0. \A x : x \in inb <=> \E i \in 1..n : entries[i].msg = x
        BY <1>3, Seen DEF HasEntry
    <2>1. /\ \A i, k \in 1..n : entries[i].msg = entries[k].msg => i = k
          /\ Cardinality(inb) = n /\ \A T : Ledger!Cardinality(T) = Cardinality(T)
        BY <1>1, <1>3, Keyed, OfTheirOwn DEF n
    <2>2. Messages(Stored) = inb /\ Arrival = Place(order)
        BY Shown
    <2>3. Ledger!Evicted = IF n >= InboxCap THEN Ledger!Oldest(inb) ELSE {}
        BY <2>1, <2>2 DEF Ledger!Evicted
    <2>4. CASE n = InboxCap
        <3>1. cut = 1 /\ n >= 1 /\ 1 \in 1..n /\ n >= InboxCap
            BY <1>3, <1>6, <2>4, InboxAssumption
        <3>2. \A i \in 1..n : Place(order)[entries[1].msg] =< Place(order)[entries[i].msg]
            <4>1. \A i \in 1..n : Place(order)[entries[i].msg] \in Nat
                BY <1>3, <1>8
            <4>2. \A i \in 1..n : 1 < i => Place(order)[entries[1].msg] < Place(order)[entries[i].msg]
                BY <1>1, <1>3, <3>1 DEF Arranged
            <4>3. \A i \in 1..n : i = 1 \/ 1 < i
                BY <1>3
            <4> QED BY <3>1, <4>1, <4>2, <4>3
        <3>3. \A i \in 1..n : 1 < i => ~(Place(order)[entries[i].msg] =< Place(order)[entries[1].msg])
            <4>1. \A i \in 1..n : Place(order)[entries[i].msg] \in Nat
                BY <1>3, <1>8
            <4>2. \A i \in 1..n : 1 < i => Place(order)[entries[1].msg] < Place(order)[entries[i].msg]
                BY <1>1, <1>3, <3>1 DEF Arranged
            <4> QED BY <3>1, <4>1, <4>2
        <3>4. Ledger!Oldest(inb) = {entries[1].msg}
            <4>1. ASSUME NEW x \in inb
                  PROVE  (\A y \in inb : Place(order)[x] =< Place(order)[y]) <=> x = entries[1].msg
                <5>1. PICK i \in 1..n : entries[i].msg = x
                    BY <2>0
                <5>2. i = 1 \/ 1 < i
                    BY <1>3
                <5> QED BY <2>0, <3>1, <3>2, <3>3, <5>1, <5>2
            <4>2. entries[1].msg \in inb
                BY <2>0, <3>1
            <4> QED BY <2>2, <4>1, <4>2 DEF Ledger!Oldest
        <3>5. \A i \in 1..n : i > cut <=> i # 1
            BY <1>3, <3>1
        <3>6. inb \ {entries[1].msg} = S
            <4> HIDE DEF inb
            <4> QED BY <2>0, <2>1, <3>1, <3>5
        <3> QED BY <2>3, <3>1, <3>4, <3>6
    <2>5. CASE n # InboxCap
        <3>1. cut = 0 /\ ~(n >= InboxCap)
            <4>1. cut # 1 /\ cut \in 0..1
                BY <1>5, <1>6, <2>5
            <4>2. n \in Nat /\ InboxCap \in Nat /\ n =< InboxCap
                BY <1>1, <1>3, InboxAssumption
            <4> QED BY <2>5, <4>1, <4>2
        <3>2. \A i \in 1..n : i > cut
            BY <1>3, <3>1
        <3>3. inb = S
            <4> HIDE DEF inb
            <4> QED BY <2>0, <3>2
        <3> QED BY <2>3, <3>1, <3>3
    <2> QED BY <2>4, <2>5
<1> DEFINE K == {entries[i] : i \in {j \in 1..n : j > cut}}
           E == Members(entries)
<1>13. /\ S = MessagesOf(K) /\ K \in SUBSET E
       /\ \A f, g \in E : f.msg = g.msg => f = g
    <2>1. S = MessagesOf(K)
        BY Zenon DEF MessagesOf
    <2>2. K \in SUBSET E
        BY <1>3 DEF Members
    <2>3. \A f, g \in Members(entries) : f.msg = g.msg => f = g
        BY <1>1, Keyed
    <2> QED BY <2>1, <2>2, <2>3
<1> HIDE DEF S
<1>14. Members(entries') = K \union {e}
    <2>1. ASSUME NEW i \in DOMAIN entries' PROVE entries'[i] \in K \union {e}
        <3>1. CASE i \in 1..(n - cut)
            <4>1. i + cut \in 1..n /\ entries'[i] = entries[i + cut]
                BY <1>7, <3>1
            <4>2. i + cut > cut
                BY <1>3, <1>5, <3>1
            <4> QED BY <4>1, <4>2
        <3>2. CASE i = (n - cut) + 1
            BY <1>7, <3>2
        <3> QED BY <1>7, <3>1, <3>2
    <2>2. ASSUME NEW j \in 1..n, j > cut PROVE entries[j] \in Members(entries')
        <3>1. j - cut \in 1..(n - cut) /\ (j - cut) + cut = j
            BY <1>7, <2>2
        <3>2. j - cut \in DOMAIN entries' /\ entries'[j - cut] = entries[j]
            BY <1>7, <3>1
        <3> QED BY <3>2 DEF Members
    <2>3. e \in Members(entries')
        BY <1>7 DEF Members
    <2>4. \A x \in Members(entries') : x \in K \union {e}
        BY <2>1 DEF Members
    <2>5. \A x \in K : x \in Members(entries')
        BY <2>2
    <2> HIDE DEF K
    <2> QED BY <2>3, <2>4, <2>5
<1> HIDE DEF K
<1>15. /\ MessagesOf(Members(entries')) = S \union {m}
       /\ MessagesOf(AgedOf(entries', now)) = MessagesOf(AgedOf(entries, now)) \cap S
       /\ MessagesOf(HandedOf(entries')) = MessagesOf(HandedOf(entries)) \cap S
       /\ MessagesOf(ConsumedOf(entries', runActive)) = MessagesOf(ConsumedOf(entries, runActive)) \cap S
    <2>1. ~(e.deliveredAt # 0) /\ ~(now - e.at >= Grace)
        BY <1>1, <1>4, ClockAssumption
    <2>2. AgedOf(entries', now) = AgedOf(entries, now) \cap K
        BY <1>13, <1>14, <2>1, Zenon DEF AgedOf
    <2>3. HandedOf(entries') = HandedOf(entries) \cap K
        BY <1>13, <1>14, <2>1, Zenon DEF HandedOf
    <2>4. ConsumedOf(entries', runActive) = ConsumedOf(entries, runActive) \cap K
        BY <2>3, Zenon DEF ConsumedOf
    <2>5. ASSUME NEW X \in SUBSET E PROVE MessagesOf(X \cap K) = MessagesOf(X) \cap S
        <3> HIDE DEF E
        <3> QED BY <1>13, Zenon DEF MessagesOf
    <2>6. /\ AgedOf(entries, now) \in SUBSET E /\ HandedOf(entries) \in SUBSET E
          /\ ConsumedOf(entries, runActive) \in SUBSET E
        BY DEF AgedOf, HandedOf, ConsumedOf
    <2>7. MessagesOf(Members(entries')) = S \union {m}
        BY <1>4, <1>13, <1>14 DEF MessagesOf
    <2> QED BY <2>2, <2>3, <2>4, <2>5, <2>6, <2>7
<1>16. /\ Messages(Stored) \ Ledger!Evicted = S
       /\ Messages(Stored)' = S \union {m}
       /\ Messages(Aged)' = Messages(Aged) \cap S
       /\ Messages(Handed)' = Messages(Handed) \cap S
       /\ Messages(Consumed)' = Messages(Consumed) \cap S
       /\ Len(order)' = Len(order) + 1
       /\ Arrival' = [Arrival EXCEPT ![m] = Len(order) + 1]
       /\ Arrival[m] = 0
    BY <1>2, <1>8, <1>12, <1>15, Shown
<1> QED BY <1>11, <1>16 DEF Ledger!AppendEntry

\* The inbox starts empty in both.
LEMMA FileStarts ==
    ASSUME FileInit
    PROVE  FileInv /\ Ledger!LedgerInit
<1>1. entries = <<>> /\ file = <<>> /\ runActive = 0 /\ now = 1 /\ stamped = FALSE /\ order = <<>>
    BY DEF FileInit
<1>2. /\ entries \in Seq(Entry) /\ order \in Seq(Msg) /\ Len(entries) = 0 /\ Len(order) = 0
      /\ \A i : i \notin DOMAIN entries /\ i \notin DOMAIN order
      /\ file \in Seq([msg : Msg, at : 1..MaxNow])
    BY <1>1
<1>3. FileTypeOK
    <2>1. 0 \in 0..MaxNow /\ 1 \in 1..MaxNow /\ FALSE \in BOOLEAN
        BY ClockAssumption
    <2> QED BY <1>1, <1>2, <2>1, Zenon DEF FileTypeOK
<1>4. Distinct(order) /\ Arranged(entries, order) /\ Past
    BY <1>1, <1>2 DEF Distinct, Arranged, Past
<1>5. file = Flush(entries)
    <2>1. Flush(entries) = [i \in {} |-> Line(entries[i])]
        BY <1>2 DEF Flush
    <2>2. Flush(entries) = <<>>
        BY <2>1
    <2> QED BY <1>1, <2>2
<1>6. FileInv
    BY <1>2, <1>3, <1>4, <1>5, InboxAssumption DEF FileInv
<1>7. /\ Messages(Stored) = {} /\ Messages(Aged) = {}
      /\ Messages(Handed) = {} /\ Messages(Consumed) = {}
    BY <1>2 DEF Messages, Stored, Aged, Handed, Consumed
<1>8. Arrival = [m \in Msg |-> 0]
    BY <1>2 DEF Arrival
<1> QED BY <1>2, <1>6, <1>7, <1>8 DEF Ledger!LedgerInit

\* A step of the file is one of the ledger, or one the ledger does not see.
LEMMA FileMoves ==
    ASSUME FileInv, FileNext
    PROVE  FileInv' /\ (Ledger!LedgerNext \/ UNCHANGED Ledger!ledger)
<1>1. CASE Tick
    BY <1>1, TickIsLedger DEF Ledger!LedgerNext
<1>2. ASSUME NEW m \in Msg, InboxAppend(m)
      PROVE  FileInv' /\ Ledger!LedgerNext
    BY <1>2, AppendIsLedger DEF Ledger!LedgerNext
<1>3. ASSUME NEW m \in Msg, InboxMarkDelivered(m)
      PROVE  FileInv' /\ Ledger!LedgerNext
    BY <1>3, MarkIsLedger DEF Ledger!LedgerNext
<1>4. ASSUME NEW m \in Msg, InboxDrop(m)
      PROVE  FileInv' /\ Ledger!LedgerNext
    BY <1>4, DropIsLedger DEF Ledger!LedgerNext
<1>5. CASE StampRunActive
    BY <1>5, StampIsLedger DEF Ledger!LedgerNext
<1>6. CASE ResetRunActive
    BY <1>6, ResetIsLedger DEF Ledger!LedgerNext
<1>7. CASE AckInboxSettled
    BY <1>7, AckIsLedger DEF Ledger!LedgerNext
<1>8. CASE NewInbox
    BY <1>8, ReloadIsLedger DEF Ledger!LedgerNext
<1> QED BY <1>1, <1>2, <1>3, <1>4, <1>5, <1>6, <1>7, <1>8 DEF FileNext

\* What the inbox keeps when nothing changes.
LEMMA FileRests ==
    ASSUME FileInv, UNCHANGED fileVars
    PROVE  FileInv' /\ UNCHANGED Ledger!ledger
<1>1. UNCHANGED <<entries, file, runActive, now, stamped, order>>
    BY DEF fileVars
<1>2. FileInv'
    <2>1. FileTypeOK'
        BY <1>1 DEF FileInv, FileTypeOK
    <2>2. Past'
        BY <1>1 DEF FileInv, Past
    <2> QED BY <1>1, <2>1, <2>2 DEF FileInv
<1>3. UNCHANGED Ledger!ledger
    BY <1>1, Shown DEF Ledger!ledger
<1> QED BY <1>2, <1>3

\* The entries in memory, the lines of the file and the readings of the clock stay
\* of their types, for every cap and every clock (inbox.go 72-145).
THEOREM FileTypeCorrect == FileSpec => []FileTypeOK
<1> DEFINE Inv == FileInv
<1>1. FileInit => Inv
    BY FileStarts
<1>2. Inv /\ [FileNext]_(fileVars) => Inv'
    BY FileMoves, FileRests
<1>3. Inv => FileTypeOK
    BY DEF FileInv
<1> HIDE DEF Inv
<1> QED BY <1>1, <1>2, <1>3, PTL DEF FileSpec

\* Every append, hand-over, settle and reload of the stored inbox, every eviction at
\* the cap and every tick of the clock is a step of the ledger that
\* InboundDelivery's promises are proved from (inbox.go 104-316).
THEOREM FileIsLedger == FileSpec => ImplementsLedger
<1> DEFINE Inv == FileInv
<1>1. FileInit => Inv /\ Ledger!LedgerInit
    BY FileStarts
<1>2. Inv /\ [FileNext]_(fileVars) => Inv'
    BY FileMoves, FileRests
<1>3. Inv /\ [FileNext]_(fileVars) => [Ledger!LedgerNext]_(Ledger!ledger)
    BY FileMoves, FileRests
<1> HIDE DEF Inv
<1> QED BY <1>1, <1>2, <1>3, PTL DEF FileSpec, ImplementsLedger, Ledger!LedgerSpec
=============================================================================
