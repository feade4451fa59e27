---------------------------- MODULE InboundDelivery ----------------------------
(***************************************************************************)
(* How an inbound message travels from the XMPP read loop to pi and out of *)
(* the durable inbox (bridge.go, inbox.go).  Four parties interleave:      *)
(*                                                                         *)
(*   reader   the XMPP read loop in onInbound: append, then run a command  *)
(*            and drop the entry, or mark it delivered and submit it;      *)
(*   replay   the replayInbound goroutine of a start: hands the entries    *)
(*            it found in the inbox to pi again, without the lock that     *)
(*            serialises the reader;                                       *)
(*   loop     the RPC event loop, which sees pi's events after a queue and *)
(*            acknowledges entries when it reaches an agent_settled;       *)
(*   pi       the external agent: takes prompts in order, reads a prompt   *)
(*            that opens a run or is steered into one, emits events.       *)
(*                                                                         *)
(* The process may be stopped between any two steps.  The inbox file and   *)
(* what pi has read (its session file) survive; everything else is lost.   *)
(***************************************************************************)
EXTENDS InboxLedger, Sequences

CONSTANTS
    Command,    \* messages that handleCommand runs in-process
    Abort,      \* the commands that abort the run (/abort, /stop)
    Bare,       \* commands without an argument
    NoMsg,      \* no message in hand
    EventCap,   \* bound: events between pi and the event loop
    MaxStops    \* bound: times the process is stopped

ASSUME DeliveryAssumption ==
    /\ Command \subseteq Msg
    /\ Abort \subseteq Command
    /\ Bare \subseteq Command
    /\ NoMsg \notin Msg
    /\ EventCap \in Nat
    /\ MaxStops \in Nat

Prompt == Msg \ Command
Thread == {"reader", "replay"}

VARIABLES
    up,         \* the bridge process runs and is connected
    piUp,       \* rpc.Start has started pi
    stops,      \* how often the process has been stopped
    pc,         \* where each thread is
    cur,        \* the message each thread has in hand
    todo,       \* entries the replay has still to hand over
    piQueue,    \* prompts written to pi that it has not read, in order
    piRun,      \* pi is in a run
    aborting,   \* an abort command is on its way to pi
    lastEnd,    \* how pi's last run of this process ended
    events,     \* events pi has emitted, the loop has not handled
    read,       \* messages in pi's context (its session file)
    readBack,   \* messages read since their last hand-off in this process
    given,      \* messages marked as handed over by this process
    carried     \* entries found in the inbox when this process started

bridge == <<up, piUp, stops>>
threads == <<pc, cur, todo>>
pi == <<piQueue, piRun, aborting, lastEnd, read>>
history == <<readBack, given, carried>>
vars == <<ledger, bridge, threads, pi, events, history>>

EventType == {"agent_start", "message_start", "agent_settled"}

TypeOK ==
    /\ LedgerTypeOK
    /\ up \in BOOLEAN /\ piUp \in BOOLEAN
    /\ stops \in Nat
    /\ pc \in [Thread -> {"idle", "armed", "taken", "marked", "ran"}]
    /\ cur \in [Thread -> Msg \union {NoMsg}]
    /\ \A t \in Thread : pc[t] \in {"taken", "marked", "ran"} => cur[t] \in Msg
    /\ todo \subseteq Msg
    /\ piQueue \in Seq(Msg)
    /\ piRun \in BOOLEAN /\ aborting \in BOOLEAN
    /\ lastEnd \in {"none", "settled", "aborted"}
    /\ events \in Seq(EventType)
    /\ read \subseteq Msg
    /\ readBack \subseteq read
    /\ given \subseteq Msg
    /\ carried \subseteq Msg

Init ==
    /\ LedgerInit
    /\ up = FALSE /\ piUp = FALSE /\ stops = 0
    /\ pc = [t \in Thread |-> "idle"]
    /\ cur = [t \in Thread |-> NoMsg]
    /\ todo = {}
    /\ piQueue = <<>> /\ piRun = FALSE /\ aborting = FALSE /\ lastEnd = "none"
    /\ events = <<>>
    /\ read = {} /\ readBack = {} /\ given = {} /\ carried = {}

-----------------------------------------------------------------------------
(* The process: start, connect, stop.                                        *)

\* Mutant: the replay is started for a replay window only.
Start_WindowOnly ==
    /\ ~up
    /\ up' = TRUE
    /\ \E first \in {"idle", "armed"} : pc' = [pc EXCEPT !["replay"] = first]
    /\ carried' = inbox
    /\ UNCHANGED <<ledger, piUp, stops, cur, todo, pi, events, readBack, given>>

\* Run up to the first connect.  onXMPPConnected starts the replay goroutine
\* when the inbox holds something or a replay window was armed.
Start ==
    /\ ~up
    /\ up' = TRUE
    /\ \E first \in IF inbox = {} THEN {"idle", "armed"} ELSE {"armed"} :
          pc' = [pc EXCEPT !["replay"] = first]
    /\ carried' = inbox
    /\ UNCHANGED <<ledger, piUp, stops, cur, todo, pi, events, readBack, given>>

\* The XMPP goroutine is started before pi is.
StartPi ==
    /\ up /\ ~piUp
    /\ piUp' = TRUE
    /\ UNCHANGED <<ledger, up, stops, threads, pi, events, history>>

\* The process stops, gracefully or not, and takes pi with it.
Stop ==
    /\ up
    /\ stops < MaxStops
    /\ stops' = stops + 1
    /\ up' = FALSE /\ piUp' = FALSE
    /\ Reload
    /\ pc' = [t \in Thread |-> "idle"]
    /\ cur' = [t \in Thread |-> NoMsg]
    /\ todo' = {}
    /\ piQueue' = <<>> /\ piRun' = FALSE /\ aborting' = FALSE /\ lastEnd' = "none"
    /\ events' = <<>>
    /\ readBack' = {} /\ given' = {} /\ carried' = {}
    /\ UNCHANGED read

-----------------------------------------------------------------------------
(* The two threads that hand messages over.                                  *)

\* onInbound: the message is in the inbox before anything is done with it.
Receive(m) ==
    /\ up
    /\ pc["reader"] = "idle"
    /\ at[m] = 0
    /\ AppendEntry(m)
    /\ pc' = [pc EXCEPT !["reader"] = "taken"]
    /\ cur' = [cur EXCEPT !["reader"] = m]
    /\ UNCHANGED <<bridge, todo, pi, events, history>>

\* replayInbound: the drain is over and the inbox is read, whatever arrived in
\* the meantime included.
Snapshot ==
    /\ pc["replay"] = "armed"
    /\ todo' = inbox
    /\ pc' = [pc EXCEPT !["replay"] = "idle"]
    /\ UNCHANGED <<ledger, bridge, cur, pi, events, history>>

\* deliverRecovered hands the entries over in arrival order.
ReplayNext ==
    /\ pc["replay"] = "idle"
    /\ \E m \in Oldest(todo) :
          /\ todo' = todo \ {m}
          /\ cur' = [cur EXCEPT !["replay"] = m]
    /\ pc' = [pc EXCEPT !["replay"] = "taken"]
    /\ UNCHANGED <<ledger, bridge, pi, events, history>>

\* The re-delivery note is glued to the body, so a command that had no argument
\* is no longer recognised and goes to pi as text.
IsCommand(t, m) == IF t = "replay" THEN m \in Command \ Bare ELSE m \in Command

\* handleCanonical and dispatchCommentary: delivered first, submitted after.
HandOver(t) ==
    /\ pc[t] = "taken"
    /\ ~IsCommand(t, cur[t])
    /\ MarkDelivered(cur[t])
    /\ pc' = [pc EXCEPT ![t] = "marked"]
    /\ given' = given \union {cur[t]}
    /\ readBack' = readBack \ {cur[t]}
    /\ UNCHANGED <<bridge, cur, todo, pi, events, carried>>

\* submitPrompt: the write fails when pi has not been started.
Submit(t) ==
    /\ pc[t] = "marked"
    /\ piQueue' = IF piUp THEN Append(piQueue, cur[t]) ELSE piQueue
    /\ pc' = [pc EXCEPT ![t] = "idle"]
    /\ UNCHANGED <<ledger, bridge, cur, todo, piRun, aborting, lastEnd, read, events, history>>

\* handleCommand.  /abort first clears pi's queue (an older pi cannot) and then
\* sends the abort; the other commands leave run and queue alone.
RunCommand(t) ==
    /\ pc[t] = "taken"
    /\ IsCommand(t, cur[t])
    /\ IF cur[t] \in Abort /\ piUp
         THEN /\ piQueue' \in {piQueue, <<>>}
              /\ aborting' = TRUE
         ELSE UNCHANGED <<piQueue, aborting>>
    /\ pc' = [pc EXCEPT ![t] = "ran"]
    /\ UNCHANGED <<ledger, bridge, cur, todo, piRun, lastEnd, read, events, history>>

\* The command is over: no run will settle for it, so its entry goes.
DropCommand(t) ==
    /\ pc[t] = "ran"
    /\ Drop(cur[t])
    /\ pc' = [pc EXCEPT ![t] = "idle"]
    /\ UNCHANGED <<bridge, cur, todo, pi, events, history>>

-----------------------------------------------------------------------------
(* The RPC event loop.                                                       *)

Handle(type, effect) ==
    /\ events # <<>>
    /\ Head(events) = type
    /\ effect
    /\ events' = Tail(events)
    /\ UNCHANGED <<bridge, threads, pi, history>>

HandleStart == Handle("agent_start", ClearRunActivity)
HandleMessage == Handle("message_start", NoteRunActivity)
HandleSettled == Handle("agent_settled", AckSettled)

-----------------------------------------------------------------------------
(* pi, as the bridge relies on it.  It reads prompts in the order they were  *)
(* written; a message_start marks a prompt it reads, a turn of its own or a  *)
(* tool result; an aborted run reports no agent_settled.                     *)

Emit(new) ==
    /\ Len(events) + Len(new) <= EventCap
    /\ events' = events \o new

PiReads ==
    /\ piQueue # <<>>
    /\ ~aborting
    /\ read' = read \union {Head(piQueue)}
    /\ readBack' = readBack \union {Head(piQueue)}
    /\ piQueue' = Tail(piQueue)
    /\ UNCHANGED <<ledger, bridge, threads, aborting, lastEnd, given, carried>>

PiBegin ==
    /\ ~piRun /\ piRun' = TRUE
    /\ PiReads
    /\ Emit(<<"agent_start", "message_start">>)

PiSteer ==
    /\ piRun /\ UNCHANGED piRun
    /\ PiReads
    /\ Emit(<<"message_start">>)

PiSpeak ==
    /\ piRun
    /\ Emit(<<"message_start">>)
    /\ UNCHANGED <<ledger, bridge, threads, pi, history>>

PiSettle ==
    /\ piRun /\ piRun' = FALSE
    /\ lastEnd' = "settled"
    /\ Emit(<<"agent_settled">>)
    /\ UNCHANGED <<ledger, bridge, threads, piQueue, aborting, read, history>>

PiAbort ==
    /\ aborting /\ aborting' = FALSE
    /\ piRun' = FALSE
    /\ lastEnd' = IF piRun THEN "aborted" ELSE lastEnd
    /\ UNCHANGED <<ledger, bridge, threads, piQueue, read, events, history>>

\* A prompt pi refuses before it opens a run.
PiReject ==
    /\ ~piRun
    /\ piQueue # <<>>
    /\ piQueue' = Tail(piQueue)
    /\ UNCHANGED <<ledger, bridge, threads, piRun, aborting, lastEnd, read, events, history>>

-----------------------------------------------------------------------------

Age == GraceElapses /\ UNCHANGED <<bridge, threads, pi, events, history>>

Loop == HandleStart \/ HandleMessage \/ HandleSettled

Step(t) == HandOver(t) \/ Submit(t) \/ RunCommand(t) \/ DropCommand(t)

Next ==
    \/ Start \/ StartPi \/ Stop
    \/ \E m \in Msg : Receive(m)
    \/ Snapshot \/ ReplayNext
    \/ \E t \in Thread : Step(t)
    \/ Loop
    \/ PiBegin \/ PiSteer \/ PiSpeak \/ PiSettle \/ PiAbort \/ PiReject
    \/ Age

\* The supervisor restarts the bridge, goroutines are scheduled, and pi reads
\* and finishes what it is given: a run may speak, but not for ever.
Fairness ==
    /\ WF_vars(Start) /\ WF_vars(StartPi)
    /\ WF_vars(Snapshot) /\ WF_vars(ReplayNext)
    /\ \A t \in Thread : WF_vars(Step(t))
    /\ WF_vars(Loop)
    /\ WF_vars(PiBegin) /\ SF_vars(PiSteer) /\ SF_vars(PiSettle) /\ WF_vars(PiAbort)

Spec == Init /\ [][Next]_vars
FairSpec == Spec /\ Fairness

-----------------------------------------------------------------------------
(* Properties.                                                               *)

\* Issue #104: what pi has read since it was handed over does not linger in the
\* inbox once the run that read it has settled and the loop has caught up, or
\* every restart would deliver it again.
NoStrandedEntry ==
    (~piRun /\ lastEnd = "settled" /\ events = <<>>)
        => inbox \cap readBack \subseteq Anonymous

\* A settle acknowledges an entry that this process has not handed to pi only
\* because it is old: evidence from before a restart counts for nothing.
UnhandedOnlyAges ==
    [][HandleSettled => (inbox \ inbox') \ given \subseteq aged]_vars

\* The invariant behind both, in three parts.  A message is named by a thread,
\* the replay or the inbox only after it was appended.
Arrived ==
    /\ \A t \in Thread : pc[t] \in {"taken", "marked", "ran"} => at[cur[t]] # 0
    /\ \A m \in todo \union inbox \union given : at[m] # 0

\* What this process has handed over is still marked as such in the inbox, and
\* pi holds and reads nothing else.
HandedIsGiven ==
    /\ handed \subseteq given
    /\ (given \cap inbox) \ Anonymous \subseteq handed
    /\ \A t \in Thread : pc[t] = "marked" => cur[t] \in given
    /\ \A i \in DOMAIN piQueue : piQueue[i] \in given
    /\ readBack \subseteq given

\* The events on their way will leave m covered when the last has been handled.
WillCover(m) ==
    \/ \E i \in 1..Len(events) :
          /\ events[i] = "message_start"
          /\ \A j \in (i + 1)..Len(events) : events[j] # "agent_start"
    \/ /\ m \in covered
       /\ \A j \in 1..Len(events) : events[j] # "agent_start"

\* A read entry is covered by the time the settle of its run is handled.
SettleIsComing ==
    \A m \in (inbox \cap readBack) \ Anonymous :
        /\ (piRun \/ lastEnd = "settled") => WillCover(m)
        /\ (~piRun /\ lastEnd = "settled") =>
              events # <<>> /\ events[Len(events)] = "agent_settled"

DeliveryInv == TypeOK /\ Arrived /\ HandedIsGiven /\ SettleIsComing

\* What pi holds unread in a process that is not stopped any more is
\* acknowledged in the end, unless pi gives it back unread or the run that took
\* it in is aborted.
Holds(m) == \E i \in DOMAIN piQueue : piQueue[i] = m

EventuallyAcknowledged ==
    \A m \in Msg \ Anonymous :
        (stops = MaxStops /\ m \in inbox /\ Holds(m))
            ~> (m \notin inbox \/ lastEnd = "aborted" \/ (~Holds(m) /\ m \notin readBack))

\* Issue #96: a prompt that a stopped process left unacknowledged is handed to
\* pi again by the process that starts next, unless a settle let it go first.
RedeliveredAtStart ==
    \A m \in Prompt :
        (stops = MaxStops /\ m \in carried /\ m \in inbox)
            ~> (m \in given \/ m \notin inbox)

=============================================================================
