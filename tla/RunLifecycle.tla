------------------------------ MODULE RunLifecycle ------------------------------
(***************************************************************************)
(* A run of pi as the bridge keeps book of it (bridge.go): which prompts   *)
(* were submitted and not yet accepted, whether a run streams, what came   *)
(* in and went out during the run, and what the settle of the run decides: *)
(* ask for the missing send_message once (recovery), point out messages    *)
(* that got no reply once (hint), mark the run as unanswered, stay silent. *)
(*                                                                         *)
(* The reader (onInbound) and the RPC event loop change this state in turn *)
(* under b.mu, which neither holds from one decision to the next.  The     *)
(* busy marker is computed under b.mu and written after it is released, so *)
(* a thread carries the write it still has to do in `writing`, and in      *)
(* `sending` the prompt it has accounted for and not yet written to pi.    *)
(***************************************************************************)
EXTENDS Integers, Sequences, FiniteSets

CONSTANTS
    Stanza,         \* what the read loop delivers
    Work,           \* what pi does in a run, as far as it is told apart
    MaxInbound,     \* bound: stanzas the read loop delivers
    MaxAlarms,      \* bound: heartbeats the companion extension relays
    EventCap        \* bound: events between pi and the event loop

Misaddressed == {"unknown_handle", "untagged"}  \* what is wrong with a room message
Relay == {"send"} \union Misaddressed            \* send_message calls that go out

ASSUME LifecycleAssumption ==
    /\ Stanza \subseteq {"user", "reaction", "abort", "interrupt"}
    /\ Work \subseteq Relay \union {"text", "tool", "credit"}
    /\ MaxInbound \in Nat /\ MaxAlarms \in Nat /\ EventCap \in Nat \ {0}

Thread == {"reader", "loop"}
Kind == {"user", "reaction", "recovery", "hint", "heartbeat", "routing"}
Prompt == [kind : Kind, steer : BOOLEAN]
Control == [kind : {"clear_queue", "abort", "result"}, steer : {FALSE}]
Nothing == [kind |-> "nothing", steer |-> FALSE]
Response == {"accepted", "rejected"}
Event == Response \union Relay \union
    {"agent_start", "agent_settled", "text", "tool", "credit", "heartbeat"}

VARIABLES
    streaming, pending, busyMarked,             \* streamingRun, |pendingPrompts|
    replied, finalText, toolSince, warned,      \* what the run has sent and done
    runInbound, runDeliveries,                  \* the tally of the run
    recoveryNudges, hintNudges, hintPending,    \* the budget of the user turn
    heartbeatRun, reactionAckRun,               \* why the run may stay silent
    heartbeats,                                 \* |pendingHeartbeats|
    marker,                                     \* the busy marker is on disk
    writing, sending,                           \* what each thread has under way
    reader, hand, behavior,                     \* where the reader is, with what,
                                                \* its streamingBehavior ("steer")
    loop, recovering,                           \* where the settle is
    wire,                                       \* commands pi has not read
    piState, steered, opener, lastEnd,          \* pi: its run, accepted steers,
                                                \* what opened the run, how it ended
    events,                                     \* what pi emitted, not yet handled
    left, alarms                                \* stanzas and heartbeats to come

activity == <<streaming, pending, busyMarked>>
turn == <<replied, finalText, toolSince, warned>>
tally == <<runInbound, runDeliveries>>
budget == <<recoveryNudges, hintNudges>>
flags == <<heartbeatRun, reactionAckRun, hintPending>>
disk == <<marker, writing>>
reading == <<reader, hand, behavior, left>>
settling == <<loop, recovering>>
piVars == <<piState, steered, opener, lastEnd, alarms>>
vars == <<activity, turn, tally, budget, flags, heartbeats, disk, sending,
          reading, settling, wire, piVars, events>>

TypeOK ==
    /\ streaming \in BOOLEAN /\ pending \in Nat /\ busyMarked \in BOOLEAN
    /\ replied \in BOOLEAN /\ finalText \in BOOLEAN /\ toolSince \in BOOLEAN
    /\ warned \subseteq Misaddressed
    /\ runInbound \in 0..MaxInbound /\ runDeliveries \in 0..MaxInbound
    /\ recoveryNudges \in Nat /\ hintNudges \in Nat
    /\ hintPending \in BOOLEAN /\ heartbeatRun \in BOOLEAN /\ reactionAckRun \in BOOLEAN
    /\ heartbeats \in 0..MaxAlarms
    /\ marker \in BOOLEAN
    /\ writing \in [Thread -> {"nothing", "present", "absent"}]
    /\ sending \in [Thread -> Prompt \union {Nothing}]
    /\ reader \in {"idle", "received", "prompt", "submit", "clearing", "interrupt", "local"}
    /\ hand \in Stanza \union {"user"} /\ behavior \in BOOLEAN
    /\ left \in 0..MaxInbound /\ alarms \in 0..MaxAlarms
    /\ loop \in {"events", "respond", "decide", "close", "flush"}
    /\ recovering \in BOOLEAN
    /\ wire \in Seq(Prompt \union Control)
    /\ piState \in {"idle", "starting", "run", "tool"} /\ steered \in BOOLEAN
    /\ opener \in Kind \union {"none", "steer"}
    /\ lastEnd \in {"none", "settled", "aborted"}
    /\ events \in Seq(Event)

Init ==
    /\ streaming = FALSE /\ pending = 0 /\ busyMarked = FALSE
    /\ replied = FALSE /\ finalText = FALSE /\ toolSince = FALSE /\ warned = {}
    /\ runInbound = 0 /\ runDeliveries = 0
    /\ recoveryNudges = 0 /\ hintNudges = 0 /\ hintPending = FALSE
    /\ heartbeatRun = FALSE /\ reactionAckRun = FALSE
    /\ heartbeats = 0
    /\ marker = FALSE /\ writing = [t \in Thread |-> "nothing"]
    /\ sending = [t \in Thread |-> Nothing]
    /\ reader = "idle" /\ hand = "user" /\ behavior = FALSE
    /\ left = MaxInbound /\ alarms = MaxAlarms
    /\ loop = "events" /\ recovering = FALSE
    /\ wire = <<>>
    /\ piState = "idle" /\ steered = FALSE /\ opener = "none" /\ lastEnd = "none"
    /\ events = <<>>

-----------------------------------------------------------------------------
(* Submitting a prompt and the busy marker: submitPrompt, syncBusyMarker.    *)

\* A thread goes on once its marker write and its pipe write are done.
Free(t) == writing[t] = "nothing" /\ sending[t] = Nothing

\* syncBusyMarker under b.mu, for the activity the step leaves behind.
Sync(t, stream, prompts) ==
    LET busy == stream \/ prompts > 0 IN
    /\ busyMarked' = busy
    /\ writing' = IF busy = busyMarked
                    THEN writing
                    ELSE [writing EXCEPT ![t] = IF busy THEN "present" ELSE "absent"]

\* The marker write, after b.mu is released.
WriteMarker(t) ==
    /\ writing[t] # "nothing"
    /\ marker' = (writing[t] = "present")
    /\ writing' = [writing EXCEPT ![t] = "nothing"]
    /\ UNCHANGED <<activity, turn, tally, budget, flags, heartbeats, sending,
                   reading, settling, wire, piVars, events>>

\* The prompt counts as pending before it is written.
Submit(t, kind, steer) ==
    /\ pending' = pending + 1
    /\ UNCHANGED <<streaming, marker>>
    /\ Sync(t, streaming, pending + 1)
    /\ sending' = [sending EXCEPT ![t] = [kind |-> kind, steer |-> steer]]

\* The pipe write of submitPrompt.
Send(t) ==
    /\ writing[t] = "nothing"
    /\ sending[t] # Nothing
    /\ wire' = Append(wire, sending[t])
    /\ sending' = [sending EXCEPT ![t] = Nothing]
    /\ UNCHANGED <<activity, turn, tally, budget, flags, heartbeats, disk,
                   reading, settling, piVars, events>>

\* "steer" while a run streams or a prompt is on its way to become one.
SteerBehavior == streaming \/ pending > 0

-----------------------------------------------------------------------------
(* The XMPP read loop: onInbound.                                            *)

Reader(from, to) ==
    /\ Free("reader")
    /\ reader = from
    /\ reader' = to

\* Any stanza refills the budget of the user turn.
Receive ==
    /\ Reader("idle", "received")
    /\ left > 0 /\ left' = left - 1
    /\ recoveryNudges' = 0 /\ hintNudges' = 0
    /\ hand' \in Stanza
    /\ UNCHANGED <<activity, turn, tally, flags, heartbeats, disk, sending,
                   behavior, settling, wire, piVars, events>>

\* handleCanonical: a message supersedes a reaction-only wake and is counted.
TakeMessage ==
    /\ hand = "user" /\ Reader("received", "prompt")
    /\ reactionAckRun' = FALSE
    /\ runInbound' = runInbound + 1
    /\ UNCHANGED <<activity, turn, runDeliveries, budget, heartbeatRun, hintPending,
                   heartbeats, disk, sending, hand, behavior, left, settling, wire,
                   piVars, events>>

\* handleReaction: it wakes the agent when no run streams, and is dropped else.
TakeReaction ==
    /\ hand = "reaction"
    /\ Reader("received", IF streaming THEN "idle" ELSE "prompt")
    /\ reactionAckRun' = IF streaming THEN reactionAckRun ELSE TRUE
    /\ UNCHANGED <<activity, turn, tally, budget, heartbeatRun, hintPending,
                   heartbeats, disk, sending, hand, behavior, left, settling, wire,
                   piVars, events>>

ReadBehavior ==
    /\ Reader("prompt", "submit")
    /\ behavior' = SteerBehavior
    /\ UNCHANGED <<activity, turn, tally, budget, flags, heartbeats, disk, sending,
                   hand, left, settling, wire, piVars, events>>

SubmitInHand ==
    /\ Reader("submit", "idle")
    /\ Submit("reader", hand, behavior)
    /\ hand' = "user" /\ behavior' = FALSE
    /\ UNCHANGED <<turn, tally, budget, flags, heartbeats, left, settling,
                   wire, piVars, events>>

\* A command supersedes a reaction-only wake as well.  /abort waits for pi to
\* clear its queue first; a bare "!" does not ask it to.
RequestClear ==
    /\ hand = "abort" /\ Reader("received", "clearing")
    /\ reactionAckRun' = FALSE
    /\ wire' = Append(wire, [kind |-> "clear_queue", steer |-> FALSE])
    /\ UNCHANGED <<activity, turn, tally, budget, heartbeatRun, hintPending, heartbeats,
                   disk, sending, hand, behavior, left, settling, piVars, events>>

RequestAbort ==
    /\ \/ hand = "interrupt" /\ Reader("received", "local")
       \/ Reader("interrupt", "local")
    /\ reactionAckRun' = FALSE
    /\ wire' = Append(wire, [kind |-> "abort", steer |-> FALSE])
    /\ UNCHANGED <<activity, turn, tally, budget, heartbeatRun, hintPending, heartbeats,
                   disk, sending, hand, behavior, left, settling, piVars, events>>

\* Mutant: the abort forgets the prompts that are still on their way.
SettleLocally_ForgetsPending ==
    /\ Reader("local", "idle")
    /\ streaming' = FALSE /\ pending' = 0
    /\ Sync("reader", FALSE, 0)
    /\ heartbeatRun' = FALSE /\ reactionAckRun' = FALSE /\ hintPending' = FALSE
    /\ finalText' = FALSE /\ toolSince' = FALSE
    /\ runInbound' = 0 /\ runDeliveries' = 0
    /\ UNCHANGED <<replied, warned, budget, heartbeats, marker, sending, hand,
                   behavior, left, settling, wire, piVars, events>>

\* An aborted run reports no agent_settled, so the command settles it itself.
SettleLocally ==
    /\ Reader("local", "idle")
    /\ streaming' = FALSE
    /\ Sync("reader", FALSE, pending)
    /\ heartbeatRun' = FALSE /\ reactionAckRun' = FALSE /\ hintPending' = FALSE
    /\ finalText' = FALSE /\ toolSince' = FALSE
    /\ runInbound' = 0 /\ runDeliveries' = 0
    /\ UNCHANGED <<pending, replied, warned, budget, heartbeats, marker, sending, hand,
                   behavior, left, settling, wire, piVars, events>>

ReaderStep ==
    \/ Receive \/ TakeMessage \/ TakeReaction \/ ReadBehavior \/ SubmitInHand
    \/ RequestClear \/ RequestAbort \/ SettleLocally

-----------------------------------------------------------------------------
(* The RPC event loop: handleRPCEvent.                                       *)

Handle(type) ==
    /\ loop = "events" /\ Free("loop")
    /\ events # <<>> /\ Head(events) = type
    /\ events' = Tail(events)
    /\ UNCHANGED <<budget, reading, recovering, wire, piVars>>

\* finishPromptAcceptance: a rejected prompt opens no run that would consume the
\* one-shot flags, so they go with it unless another prompt may still need them.
HandleResponse ==
    /\ \E type \in Response :
          /\ Handle(type)
          /\ IF type = "rejected" /\ ~streaming /\ pending = 1
               THEN heartbeatRun' = FALSE /\ reactionAckRun' = FALSE /\ hintPending' = FALSE
               ELSE UNCHANGED flags
    /\ pending' = pending - 1
    /\ Sync("loop", streaming, pending - 1)
    /\ UNCHANGED <<streaming, turn, tally, heartbeats, marker, sending, loop>>

HandleStart ==
    /\ Handle("agent_start")
    /\ streaming' = TRUE
    /\ Sync("loop", TRUE, pending)
    /\ replied' = FALSE /\ finalText' = FALSE /\ toolSince' = FALSE /\ warned' = {}
    /\ UNCHANGED <<pending, tally, flags, heartbeats, marker, sending, loop>>

\* message_end with text, and a tool call: a message without text, then the tool.
HandleWork ==
    /\ \/ Handle("text") /\ finalText' = TRUE /\ UNCHANGED toolSince
       \/ Handle("tool") /\ finalText' = FALSE /\ toolSince' = TRUE
    /\ UNCHANGED <<activity, replied, warned, tally, flags, heartbeats, disk, sending, loop>>

\* The tool call was send_message and the stanza went out.  A room message that
\* reached nobody is pointed out to pi once per run, before pi gets the result.
HandleSend ==
    /\ \E type \in Relay :
          /\ Handle(type)
          /\ IF type \in Misaddressed \ warned
               THEN Submit("loop", "routing", SteerBehavior)
               ELSE UNCHANGED <<activity, disk, sending>>
          /\ warned' = warned \union ({type} \cap Misaddressed)
    /\ loop' = "respond"
    /\ replied' = TRUE /\ finalText' = FALSE /\ toolSince' = FALSE
    /\ runDeliveries' = IF runDeliveries < MaxInbound THEN runDeliveries + 1 ELSE MaxInbound
    /\ UNCHANGED <<runInbound, flags, heartbeats>>

Respond ==
    /\ loop = "respond" /\ loop' = "events"
    /\ Free("loop")
    /\ wire' = Append(wire, [kind |-> "result", steer |-> FALSE])
    /\ UNCHANGED <<activity, turn, tally, budget, flags, heartbeats, disk, sending,
                   reading, recovering, piVars, events>>

\* creditFailAlert: the owner was told why there is no answer.
HandleCredit ==
    /\ Handle("credit")
    /\ replied' = TRUE /\ finalText' = FALSE /\ toolSince' = FALSE
    /\ hintPending' = TRUE
    /\ UNCHANGED <<activity, warned, tally, heartbeatRun, reactionAckRun, heartbeats, disk,
                   sending, loop>>

\* fireHeartbeat.
FireHeartbeat ==
    /\ heartbeatRun' = TRUE
    /\ Submit("loop", "heartbeat", SteerBehavior)

\* The process_heartbeat relay: queued while a run streams.
HandleHeartbeat ==
    /\ Handle("heartbeat")
    /\ \/ /\ streaming
          /\ heartbeats' = heartbeats + 1
          /\ UNCHANGED <<activity, disk, sending, heartbeatRun>>
       \/ /\ ~streaming
          /\ FireHeartbeat
          /\ UNCHANGED heartbeats
    /\ UNCHANGED <<turn, tally, reactionAckRun, hintPending, loop>>

\* Mutant: the run is left streaming when it settles.
HandleSettled_StillStreaming ==
    /\ Handle("agent_settled")
    /\ loop' = "decide"
    /\ UNCHANGED <<activity, turn, tally, flags, heartbeats, disk, sending>>

\* agent_settled, in four steps: the run is over, the bridge decides what to ask
\* for, closes the run's book, and delivers the heartbeats it queued.
HandleSettled ==
    /\ Handle("agent_settled")
    /\ streaming' = FALSE
    /\ Sync("loop", FALSE, pending)
    /\ loop' = "decide"
    /\ UNCHANGED <<pending, turn, tally, flags, heartbeats, marker, sending>>

NeedsSendRecovery ==
    /\ ~reactionAckRun /\ ~heartbeatRun /\ ~replied
    /\ runInbound > 0 \/ finalText \/ toolSince

UnansweredRun ==
    /\ ~reactionAckRun /\ ~heartbeatRun
    /\ runInbound > 1 /\ runInbound > runDeliveries

Settle(from, to) ==
    /\ loop = from /\ loop' = to
    /\ Free("loop")
    /\ UNCHANGED <<turn, reading, wire, piVars, events>>

Nudge(kind) == recovering' = TRUE /\ Submit("loop", kind, SteerBehavior)
NoNudge == recovering' = FALSE /\ UNCHANGED <<activity, disk, sending>>

\* Mutant: the budget of the user turn is not consumed.
FireSendRecovery_Unbounded ==
    /\ NeedsSendRecovery
    /\ Nudge("recovery")
    /\ UNCHANGED <<budget, hintPending>>

FireSendRecovery ==
    /\ NeedsSendRecovery /\ recoveryNudges = 0
    /\ Nudge("recovery")
    /\ recoveryNudges' = recoveryNudges + 1
    /\ UNCHANGED <<hintNudges, hintPending>>

\* A recovery that is not due, or whose budget is spent, leaves it to the hint:
\* not for a run that answered one, and once per user turn.
SkipSendRecovery ==
    /\ ~(NeedsSendRecovery /\ recoveryNudges = 0)
    /\ recoveryNudges' = recoveryNudges + (IF NeedsSendRecovery THEN 1 ELSE 0)
    /\ \/ /\ hintPending \/ ~UnansweredRun
          /\ NoNudge
          /\ hintPending' = FALSE
          /\ UNCHANGED hintNudges
       \/ /\ ~hintPending /\ UnansweredRun
          /\ hintNudges' = hintNudges + 1
          /\ IF hintNudges = 0
               THEN Nudge("hint") /\ hintPending' = TRUE
               ELSE NoNudge /\ UNCHANGED hintPending

Decide ==
    /\ Settle("decide", "close")
    /\ FireSendRecovery \/ SkipSendRecovery
    /\ UNCHANGED <<tally, heartbeatRun, reactionAckRun, heartbeats>>

\* bannerNoReply, and the flags that held for this run only.
BannerNoReply == ~replied /\ ~reactionAckRun /\ ~heartbeatRun /\ ~recovering

Close ==
    /\ Settle("close", "flush")
    /\ runInbound' = 0 /\ runDeliveries' = 0
    /\ heartbeatRun' = FALSE /\ reactionAckRun' = FALSE
    /\ recovering' = FALSE
    /\ UNCHANGED <<activity, budget, hintPending, heartbeats, disk, sending>>

FlushHeartbeat ==
    /\ heartbeats > 0 /\ heartbeats' = heartbeats - 1
    /\ Settle("flush", "flush")
    /\ FireHeartbeat
    /\ UNCHANGED <<tally, budget, reactionAckRun, hintPending, recovering>>

\* Mutant: the queued heartbeats are not flushed before the loop goes on.
Settled_Unflushed ==
    /\ Settle("flush", "events")
    /\ UNCHANGED <<activity, tally, budget, flags, heartbeats, disk, sending,
                   recovering>>

Settled ==
    /\ heartbeats = 0
    /\ Settle("flush", "events")
    /\ UNCHANGED <<activity, tally, budget, flags, heartbeats, disk, sending,
                   recovering>>

LoopStep ==
    \/ HandleResponse \/ HandleStart \/ HandleWork \/ HandleSend \/ Respond \/ HandleCredit
    \/ HandleHeartbeat \/ HandleSettled
    \/ Decide \/ Close \/ FlushHeartbeat \/ Settled

-----------------------------------------------------------------------------
(* pi, as the bridge relies on it: it answers each prompt in order, takes a  *)
(* prompt when it is idle or the prompt is a steer, and reports a run with   *)
(* agent_start and agent_settled, the latter not when the run is aborted.    *)

bridge == <<activity, turn, tally, budget, flags, heartbeats, disk, sending, settling>>

Emit(event) == Len(events) < EventCap /\ events' = Append(events, event)

PiReads(kinds) ==
    /\ wire # <<>> /\ Head(wire).kind \in kinds
    /\ wire' = Tail(wire)
    /\ UNCHANGED <<bridge, hand, behavior, left, lastEnd, alarms>>

\* A prompt opens a run, unless an extension handles it without one.
PiAccept ==
    /\ piState = "idle"
    /\ PiReads(Kind) /\ Emit("accepted")
    /\ \/ piState' = "starting" /\ opener' = Head(wire).kind
       \/ UNCHANGED <<piState, opener>>
    /\ UNCHANGED <<reader, steered>>

PiSteer ==
    /\ piState # "idle"
    /\ PiReads(Kind) /\ Head(wire).steer /\ Emit("accepted")
    /\ steered' = TRUE
    /\ UNCHANGED <<reader, piState, opener>>

\* A busy pi refuses a prompt that is no steer; an idle one may refuse any.
PiReject ==
    /\ PiReads(Kind) /\ (piState # "idle" => ~Head(wire).steer)
    /\ Emit("rejected")
    /\ UNCHANGED <<reader, piState, steered, opener>>

\* An older pi does not know clear_queue.
PiClear ==
    /\ PiReads({"clear_queue"})
    /\ steered' \in {FALSE, steered}
    /\ reader' = "interrupt"
    /\ UNCHANGED <<piState, opener, events>>

\* A steer that was neither read nor cleared opens a run of its own.
PiAbort ==
    /\ wire # <<>> /\ Head(wire).kind = "abort" /\ wire' = Tail(wire)
    /\ IF piState = "idle"
         THEN UNCHANGED <<piState, steered, opener, lastEnd>>
         ELSE /\ lastEnd' = "aborted"
              /\ steered' = FALSE
              /\ IF steered
                   THEN piState' = "starting" /\ opener' = "steer"
                   ELSE piState' = "idle" /\ UNCHANGED opener
    /\ UNCHANGED <<bridge, reading, alarms, events>>

PiStart ==
    /\ piState = "starting" /\ piState' = "run"
    /\ Emit("agent_start")
    /\ UNCHANGED <<bridge, reading, wire, steered, opener, lastEnd, alarms>>

PiWork ==
    /\ piState = "run"
    /\ \E event \in Work \ Relay : Emit(event)
    /\ steered' \in {FALSE, steered}
    /\ UNCHANGED <<bridge, reading, wire, piState, opener, lastEnd, alarms>>

\* A send_message call holds pi up until the bridge answers it.
PiCall ==
    /\ piState = "run" /\ piState' = "tool"
    /\ loop # "respond"
    /\ \A i \in DOMAIN events : events[i] \notin Relay
    /\ \A i \in DOMAIN wire : wire[i].kind # "result"
    /\ \E event \in Work \cap Relay : Emit(event)
    /\ UNCHANGED <<bridge, reading, wire, steered, opener, lastEnd, alarms>>

\* The answer, unless the call was aborted.  pi yields: it reads its steers.
PiResult ==
    /\ PiReads({"result"})
    /\ IF piState = "tool"
         THEN piState' = "run" /\ steered' = FALSE
         ELSE UNCHANGED <<piState, steered>>
    /\ UNCHANGED <<reader, opener, events>>

PiSettle ==
    /\ piState = "run" /\ piState' = "idle"
    /\ Emit("agent_settled")
    /\ lastEnd' = "settled"
    /\ UNCHANGED <<bridge, reading, wire, steered, opener, alarms>>

\* The companion extension's tick, whatever pi is doing.
Alarm ==
    /\ alarms > 0 /\ alarms' = alarms - 1
    /\ Emit("heartbeat")
    /\ UNCHANGED <<bridge, reading, wire, piState, steered, opener, lastEnd>>

PiAnswer == PiAccept \/ PiSteer \/ PiReject \/ PiClear \/ PiAbort \/ PiResult

Next ==
    \/ ReaderStep \/ LoopStep
    \/ \E t \in Thread : WriteMarker(t) \/ Send(t)
    \/ PiAnswer \/ PiStart \/ PiWork \/ PiCall \/ PiSettle \/ Alarm

\* Both goroutines run, pi answers what it is sent and ends its runs.
Fairness ==
    /\ WF_vars(ReaderStep \/ WriteMarker("reader") \/ Send("reader"))
    /\ WF_vars(LoopStep \/ WriteMarker("loop") \/ Send("loop"))
    /\ SF_vars(PiAnswer) /\ SF_vars(PiStart) /\ SF_vars(PiSettle)

Spec == Init /\ [][Next]_vars
FairSpec == Spec /\ Fairness

-----------------------------------------------------------------------------
(* Properties.                                                               *)

InFlight == {i \in DOMAIN wire : wire[i].kind \in Kind}
Answered == {i \in DOMAIN events : events[i] \in Response}

\* What /next and the steer decision rely on: pendingPrompts holds exactly the
\* prompts that are being written, that pi has not read, or whose answer the
\* loop has not handled, whatever was aborted in between.
PendingIsExact ==
    pending = Cardinality(InFlight) + Cardinality(Answered)
                + Cardinality({t \in Thread : sending[t] # Nothing})

\* The bridge believes in a run only while pi has one or its settle is on the
\* way.  After an abort this does not hold: see IdleIsNotBusy.
StreamingIsBacked ==
    streaming /\ lastEnd # "aborted"
        => piState \in {"run", "tool"} \/ \E i \in DOMAIN events : events[i] = "agent_settled"

\* Recovery, hint and routing prompts do not keep each other alive: when no
\* stanza and no heartbeat comes any more, pi is left alone.
EventuallyQuiet == <>[](piState = "idle" /\ wire = <<>>)

\* A heartbeat queued while a run streams is delivered when that run settles.
HeartbeatDelivered == heartbeats > 0 ~> (heartbeats = 0 \/ lastEnd = "aborted")

-----------------------------------------------------------------------------
(* What comments of bridge.go say and the code does not keep.                *)

Quiet ==
    /\ events = <<>> /\ wire = <<>> /\ loop = "events" /\ reader = "idle"
    /\ \A t \in Thread : Free(t)

\* bridge.go:4237 "the file is present while a run streams [...] absent once the
\* agent is idle".
IdleIsNotBusy == Quiet /\ piState = "idle" => ~marker

\* bridge.go:541 "the flag lives only for the run it opened, so a later
\* user-initiated run is judged normally".
UserRunIsJudged ==
    [][Close /\ opener = "user" /\ piState = "idle" /\ events = <<>>
          => replied \/ recovering \/ BannerNoReply]_vars
=============================================================================
