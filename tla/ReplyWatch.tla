-------------------------------- MODULE ReplyWatch --------------------------------
(***************************************************************************)
(* Reply watches (reply_watch.go): a message sent with a time-out is       *)
(* watched for a reply in its conversation, and when none came the agent   *)
(* is told so in a prompt of its own, once it is idle.  Four threads meet  *)
(* here: the event loop, which registers a watch as it sends the message   *)
(* and delivers what expired; the timer of each watch; the read loop,      *)
(* which observes replies before it dispatches them, and which holds the   *)
(* session-transition lock while a command waits for pi; and pi, through   *)
(* the client of RpcClient.                                                *)
(*                                                                         *)
(* replyWatchMu is held within one step throughout.  `replied`,            *)
(* `nudged` and `runless` are history variables.                           *)
(***************************************************************************)
EXTENDS RpcClient

CONSTANTS
    Conv,           \* conversations; as an event, a watched send to one
    Inbound,        \* what stanzas do once they are dispatched
    MaxInbound,     \* bound: stanzas that arrive
    MaxSends,       \* bound: watched messages pi sends
    MaxStimuli      \* bound: stanzas and watched messages together

Response == {"accepted", "rejected"}
Lifecycle == {"agent_start", "agent_settled"}

ASSUME WatchAssumption ==
    /\ Event = Response \union Lifecycle \union Conv
    /\ Conv \intersect (Response \union Lifecycle) = {}
    /\ Command = {"prompt", "steer", "abort"}
    /\ Inbound \subseteq {"reply", "prompt", "ask", "new", "quit"}
    /\ MaxInbound \in Nat /\ MaxSends \in Nat /\ MaxStimuli \in Nat

Watch == 1..MaxSends
None == 0           \* no watch: watches are numbered in the order they started

VARIABLES
    streaming, prompts, heartbeatRun,   \* streamingRun, |pendingPrompts|
    recovered,                          \* the settle prompt of the user turn is spent
    shuttingDown, stopped,              \* flag; stopReplyWatches has run
    watches,                            \* the watch of each conversation
    sends, conversation,                \* watches started so far, and for whom
    timer, expired,                     \* the timers, and the watches marked expired
    wake,                               \* the wake channel, of capacity one
    lock,                               \* sessionTransitionMu
    reader, stanza, observed,           \* the read loop: where, with what, since when
    left,                               \* stanzas to come
    loop,                               \* the event loop: at its select or at a flush
    run, said,                          \* pi: its run, the watched sends it made
    runless,                            \* a prompt has ended without a settle
    replied, nudged

activity == <<streaming, prompts, heartbeatRun, recovered>>
shutdown == <<shuttingDown, stopped>>
map == <<watches, sends, conversation, timer, expired>>
reading == <<reader, stanza, observed, left>>
agent == <<run, said>>
history == <<replied, nudged, runless>>
vars == <<rpcVars, activity, shutdown, map, wake, lock, reading, loop, agent, history>>

\* A stanza: its conversation and what it does.  A reply is a prompt that answers
\* what was sent there: a live message of somebody else that, in a room, names
\* the agent's message or the agent.
Stanza == [conv : Conv, does : Inbound]
NoStanza == [conv |-> Nothing, does |-> "nothing"]

TypeOK ==
    /\ RpcTypeOK
    /\ streaming \in BOOLEAN /\ prompts \in Nat /\ heartbeatRun \in BOOLEAN
    /\ recovered \in BOOLEAN /\ shuttingDown \in BOOLEAN /\ stopped \in BOOLEAN
    /\ sends \in 0..MaxSends
    /\ watches \in [Conv -> 0..sends]
    /\ conversation \in [Watch -> Conv \union {Nothing}]
    /\ \A c \in Conv : watches[c] # None => conversation[watches[c]] = c
    /\ timer \in [Watch -> {"off", "running", "firing"}]
    /\ expired \subseteq 1..sends
    /\ wake \in BOOLEAN /\ lock \in {"free", "reader"}
    /\ reader \in {"idle", "observe", "dispatch", "handle", "wait", "quit"}
    /\ stanza \in Stanza \union {NoStanza}
    /\ observed \in 0..sends /\ left \in 0..MaxInbound
    /\ loop \in {"events", "flush"}
    /\ run \in {"idle", "starting", "run"} /\ said \in 0..MaxSends
    /\ runless \in BOOLEAN /\ replied \subseteq Watch /\ nudged \subseteq Watch

Init ==
    /\ RpcInit
    /\ streaming = FALSE /\ prompts = 0 /\ heartbeatRun = FALSE /\ recovered = FALSE
    /\ shuttingDown = FALSE /\ stopped = FALSE
    /\ watches = [c \in Conv |-> None] /\ sends = 0
    /\ conversation = [w \in Watch |-> Nothing]
    /\ timer = [w \in Watch |-> "off"] /\ expired = {}
    /\ wake = FALSE /\ lock = "free"
    /\ reader = "idle" /\ stanza = NoStanza /\ observed = 0 /\ left = MaxInbound
    /\ loop = "events" /\ run = "idle" /\ said = 0
    /\ runless = FALSE /\ replied = {} /\ nudged = {}

-----------------------------------------------------------------------------
(* The watches.                                                              *)

Due(w) == w \in expired /\ watches[conversation[w]] = w
StopTimer(w) == IF timer[w] = "running" THEN [timer EXCEPT ![w] = "off"] ELSE timer

\* armReplyWatch: a new watch of a conversation replaces the one it had.
Arm(c) ==
    /\ sends' = sends + 1
    /\ watches' = [watches EXCEPT ![c] = sends + 1]
    /\ conversation' = [conversation EXCEPT ![sends + 1] = c]
    /\ timer' = [w \in Watch |-> IF w = sends + 1 THEN "running"
                                 ELSE IF w = watches[c] THEN StopTimer(w)[w] ELSE timer[w]]
    /\ UNCHANGED expired

TimerFires(w) ==
    /\ timer[w] = "running" /\ timer' = [timer EXCEPT ![w] = "firing"]
    /\ UNCHANGED <<rpcVars, activity, shutdown, watches, sends, conversation, expired,
                   wake, lock, reading, loop, agent, history>>

\* Mutant: the watch is marked, and the loop learns of it at the next settle.
Expire_NoWake(w) ==
    /\ timer[w] = "firing" /\ timer' = [timer EXCEPT ![w] = "off"]
    /\ expired' = IF watches[conversation[w]] = w THEN expired \union {w} ELSE expired
    /\ UNCHANGED <<wake, rpcVars, activity, shutdown, watches, sends, conversation,
                   lock, reading, loop, agent, history>>

\* expireReplyWatch, on the timer's goroutine: a watch that was cancelled or
\* replaced since its timer fired is left alone.
Expire(w) ==
    /\ timer[w] = "firing" /\ timer' = [timer EXCEPT ![w] = "off"]
    /\ IF watches[conversation[w]] = w
         THEN expired' = expired \union {w} /\ wake' = TRUE
         ELSE UNCHANGED <<expired, wake>>
    /\ UNCHANGED <<rpcVars, activity, shutdown, watches, sends, conversation,
                   lock, reading, loop, agent, history>>

-----------------------------------------------------------------------------
(* The read loop: observeReplyMessage, then onInbound under the lock.        *)

InBounds == (MaxInbound - left) + said < MaxStimuli

Arrive ==
    /\ reader = "idle" /\ left > 0 /\ InBounds /\ left' = left - 1
    /\ stanza' \in Stanza
    /\ observed' = sends
    /\ reader' = "observe"
    /\ UNCHANGED <<rpcVars, activity, shutdown, map, wake, lock, loop, agent, history>>

\* The watch the stanza answers: started before the stanza was seen.
AnswersTo(w) == stanza.does = "reply" /\ conversation[w] = stanza.conv /\ w =< observed

\* Mutant: a watch whose timer has fired is left to the timer.
Observe_TooLate ==
    /\ reader = "observe" /\ reader' = "dispatch"
    /\ LET w == watches[stanza.conv] IN
         IF w # None /\ AnswersTo(w) /\ timer[w] = "running"
           THEN /\ watches' = [watches EXCEPT ![stanza.conv] = None]
                /\ timer' = StopTimer(w)
           ELSE UNCHANGED <<watches, timer>>
    /\ replied' = replied \union {w \in 1..sends : AnswersTo(w)}
    /\ observed' = 0
    /\ UNCHANGED <<rpcVars, activity, shutdown, sends, conversation, expired, wake, lock,
                   stanza, left, loop, agent, nudged, runless>>

\* observeReplyMessage: an expired watch is cancelled as well.
Observe ==
    /\ reader = "observe" /\ reader' = "dispatch"
    /\ LET w == watches[stanza.conv] IN
         IF w # None /\ AnswersTo(w)
           THEN /\ watches' = [watches EXCEPT ![stanza.conv] = None]
                /\ timer' = StopTimer(w)
           ELSE UNCHANGED <<watches, timer>>
    /\ replied' = replied \union {w \in 1..sends : AnswersTo(w)}
    /\ observed' = 0
    /\ UNCHANGED <<rpcVars, activity, shutdown, sends, conversation, expired, wake, lock,
                   stanza, left, loop, agent, nudged, runless>>

Dispatch ==
    /\ reader = "dispatch" /\ lock = "free"
    /\ lock' = "reader" /\ reader' = "handle"
    /\ recovered' = FALSE
    /\ UNCHANGED <<rpcVars, streaming, prompts, heartbeatRun, shutdown, map, wake,
                   stanza, observed, left, loop, agent, history>>

Unlock ==
    /\ lock' = "free" /\ reader' = "idle" /\ stanza' = NoStanza
    /\ UNCHANGED <<observed, left>>

\* submitPrompt: counted before it is written, and no longer when that fails.
Submit(behavior) ==
    IF pi = "up" THEN Write(behavior) /\ prompts' = prompts + 1
                 ELSE UNCHANGED <<rpcVars, prompts>>

Behavior(stream) == IF stream \/ prompts > 0 THEN "steer" ELSE "prompt"

\* A message becomes a prompt.
HandleMessage ==
    /\ reader = "handle" /\ stanza.does \in {"prompt", "reply"}
    /\ Submit(Behavior(streaming))
    /\ Unlock
    /\ UNCHANGED <<streaming, heartbeatRun, recovered, shutdown, map, wake, loop, agent, history>>

\* A command asks pi and waits, with the lock held.  /new ends pi's run first,
\* by an abort or by the session's replacement, and settles for it.  The size of
\* Request bounds the commands.
HandleCommand ==
    /\ reader = "handle" /\ stanza.does \in {"ask", "new"}
    /\ \E r \in Request : call[r] = "new"
    /\ Call(CHOOSE r \in Request : call[r] = "new",
            IF stanza.does = "new" THEN <<"abort">> ELSE <<>>)
    /\ IF stanza.does = "new"
         THEN streaming' = FALSE /\ heartbeatRun' = FALSE
         ELSE UNCHANGED <<streaming, heartbeatRun>>
    /\ reader' = "wait"
    /\ UNCHANGED <<prompts, recovered, shutdown, map, wake, lock, stanza, observed, left,
                   loop, agent, history>>

\* A run that /new ended reports no settle, so the command wakes the loop.
CommandReturns ==
    /\ reader = "wait" /\ \A r \in Request : call[r] # "waiting"
    /\ wake' = (wake \/ stanza.does = "new")
    /\ Unlock
    /\ UNCHANGED <<rpcVars, activity, shutdown, map, loop, agent, history>>

\* /quit: the flag first, then the watches.
Quit ==
    /\ reader = "handle" /\ stanza.does = "quit"
    /\ shuttingDown' = TRUE /\ reader' = "quit"
    /\ UNCHANGED <<rpcVars, activity, stopped, map, wake, lock, stanza, observed, left,
                   loop, agent, history>>

StopReplyWatches ==
    /\ reader = "quit" /\ stopped' = TRUE
    /\ watches' = [c \in Conv |-> None]
    /\ timer' = [w \in Watch |->
                    IF \E c \in Conv : w = watches[c] THEN StopTimer(w)[w] ELSE timer[w]]
    /\ Unlock
    /\ UNCHANGED <<rpcVars, activity, shuttingDown, sends, conversation, expired, wake,
                   loop, agent, history>>

ReaderStep == Observe \/ Dispatch \/ HandleMessage \/ HandleCommand \/ CommandReturns
              \/ Quit \/ StopReplyWatches

-----------------------------------------------------------------------------
(* The event loop: handleRPCEvent, flushReplyWatches.                        *)

Handle(event) ==
    /\ loop = "events" /\ Take(event)
    /\ UNCHANGED <<call, pending, answer, stdout, pi, bridge, shutdown, lock, reading,
                   agent, replied, nudged>>

HandleResponse ==
    /\ \E event \in Response :
          /\ Handle(event)
          /\ runless' = (runless \/ event = "rejected")
          /\ heartbeatRun' = (heartbeatRun
                /\ (event = "accepted" \/ streaming \/ prompts > 1))
    /\ prompts' = prompts - 1
    /\ UNCHANGED <<stdin, streaming, recovered, map, wake, loop>>

\* Mutant: any answer settles the account of a prompt.
HandleLateAnswer_Counted ==
    /\ \E r \in Request : Handle(r)
    /\ prompts' = prompts - 1
    /\ UNCHANGED <<stdin, streaming, recovered, heartbeatRun, map, wake, loop, runless>>

\* The answer of a request that has timed out concerns no prompt.
HandleLateAnswer ==
    /\ \E r \in Request : Handle(r)
    /\ UNCHANGED <<stdin, activity, map, wake, loop, runless>>

HandleStart ==
    /\ Handle("agent_start") /\ streaming' = TRUE
    /\ UNCHANGED <<stdin, prompts, heartbeatRun, recovered, map, wake, loop, runless>>

\* Mutant: a message may still be sent and watched while the bridge shuts down.
HandleSend_WhenStopped ==
    \E c \in Conv :
        /\ Handle(c)
        /\ Arm(c)
        /\ UNCHANGED <<stdin, activity, wake, loop, runless>>

\* handleSendMessageRelay: the message goes out and its watch is registered under
\* one lock, which an observed reply has to wait for.
HandleSend ==
    \E c \in Conv :
        /\ Handle(c)
        /\ IF shuttingDown THEN UNCHANGED map ELSE Arm(c)
        /\ UNCHANGED <<stdin, activity, wake, loop, runless>>

\* agent_settled: a prompt for the missing reply, once per user turn, or a flush.
HandleSettled ==
    /\ Handle("agent_settled")
    /\ streaming' = FALSE /\ heartbeatRun' = FALSE
    /\ \/ loop' = "flush" /\ UNCHANGED <<stdin, prompts, recovered>>
       \/ /\ ~recovered /\ recovered' = TRUE
          /\ pi = "up" /\ stdin' = Append(stdin, Behavior(FALSE)) /\ prompts' = prompts + 1
          /\ UNCHANGED loop
    /\ UNCHANGED <<map, wake, runless>>

Woken ==
    /\ loop = "events" /\ wake
    /\ wake' = FALSE /\ loop' = "flush"
    /\ UNCHANGED <<rpcVars, activity, shutdown, map, lock, reading, agent, history>>

Blocked == streaming \/ prompts > 0 \/ heartbeatRun \/ shuttingDown

\* flushReplyWatches under both locks: the first nudge blocks the others.  When
\* pi is gone, each one is dropped with its prompt.
Flush ==
    /\ loop = "flush" /\ lock = "free"
    /\ loop' = "events"
    /\ LET due == {c \in Conv : watches[c] \in expired} IN
         \/ /\ Blocked \/ due = {}
            /\ UNCHANGED <<rpcVars, prompts, heartbeatRun, watches, nudged>>
         \/ /\ ~Blocked /\ pi = "up"
            /\ \E c \in due :
                  /\ watches' = [watches EXCEPT ![c] = None]
                  /\ nudged' = nudged \union {watches[c]}
            /\ heartbeatRun' = TRUE
            /\ Submit("prompt")
         \/ /\ ~Blocked /\ pi # "up" /\ due # {}
            /\ watches' = [c \in Conv |-> IF c \in due THEN None ELSE watches[c]]
            /\ UNCHANGED <<rpcVars, prompts, heartbeatRun, nudged>>
    /\ UNCHANGED <<streaming, recovered, shutdown, sends, conversation, timer, expired, wake,
                   lock, reading, agent, replied, runless>>

HandleEvent == HandleResponse \/ HandleLateAnswer \/ HandleStart \/ HandleSend \/ HandleSettled

-----------------------------------------------------------------------------
(* pi, as the bridge sees it.                                                *)

Outside == <<activity, shutdown, map, wake, lock, reading, loop, replied, nudged>>
Piped == <<call, pending, answer, events, pi, bridge>>

PiReads ==
    /\ pi = "up" /\ stdin # <<>> /\ stdin' = Tail(stdin)
    /\ \/ /\ Head(stdin) \in Request /\ Say(Head(stdin)) /\ UNCHANGED <<run, runless>>
       \/ /\ Head(stdin) = "abort" /\ run' = "idle" /\ UNCHANGED stdout
          /\ runless' = (runless \/ (run # "idle" /\ (prompts > 0 \/ call[stdin[2]] # "waiting")))
       \/ /\ Head(stdin) = "steer" \/ run = "idle"
          /\ Head(stdin) \in {"prompt", "steer"}
          /\ Say("accepted") /\ run' = IF run = "idle" THEN "starting" ELSE run
          /\ UNCHANGED runless
       \/ /\ Head(stdin) \in {"prompt", "steer"} /\ Say("rejected") /\ UNCHANGED <<run, runless>>
    /\ UNCHANGED <<Piped, said, Outside>>

PiRuns ==
    /\ pi = "up"
    /\ \/ run = "starting" /\ run' = "run" /\ Say("agent_start")
       \/ run = "run" /\ run' = "idle" /\ Say("agent_settled")
    /\ UNCHANGED <<stdin, Piped, said, runless, Outside>>

PiSends ==
    /\ pi = "up" /\ run = "run" /\ said < MaxSends /\ InBounds
    /\ said' = said + 1
    /\ \E c \in Conv : Say(c)
    /\ UNCHANGED <<stdin, Piped, run, runless, Outside>>

-----------------------------------------------------------------------------
Rest == <<activity, shutdown, map, wake, lock, reading, loop, agent, history>>
Client == ClientStep /\ UNCHANGED Rest
Ends(r) == RequestStep(r) /\ UNCHANGED Rest
LoopReturns == loop = "events" /\ LoopEnds /\ UNCHANGED Rest
Exit == PiExits /\ UNCHANGED Rest

Next ==
    /\ bridge = "up"
    /\ \/ Arrive \/ ReaderStep \/ HandleEvent \/ Woken \/ Flush \/ Client \/ LoopReturns
       \/ PiReads \/ PiRuns \/ PiSends \/ Exit
       \/ \E r \in Request : Ends(r)
       \/ \E w \in Watch : TimerFires(w) \/ Expire(w)

Spec == Init /\ [][Next]_vars

\* The goroutines of the bridge run and its timers fire; nothing is assumed of
\* pi, which may hang for ever, nor of the world, which may stay silent.
FairSpec ==
    /\ Spec
    /\ WF_vars(bridge = "up" /\ ReaderStep) /\ WF_vars(bridge = "up" /\ Client)
    /\ WF_vars(bridge = "up" /\ HandleEvent) /\ WF_vars(bridge = "up" /\ LoopReturns)
    /\ WF_vars(bridge = "up" /\ Flush) /\ SF_vars(bridge = "up" /\ Woken)
    /\ \A r \in Request : WF_vars(bridge = "up" /\ Ends(r))
    /\ \A w \in Watch : WF_vars(bridge = "up" /\ Expire(w))

-----------------------------------------------------------------------------
\* The agent is told that nobody replied only when nobody did: the watch was not
\* replaced and no reply to it was seen, its timer fired or not
\* (reply_watch.go:55-57, 76-77).
NudgesAreTrue ==
    [][\A w \in nudged' \ nudged :
          /\ w \notin replied
          /\ \A v \in Watch : conversation[v] = conversation[w] => v =< w]_vars

\* Once a shutdown has stopped the watches none is registered again
\* (reply_watch.go:14, bridge.go:704-713).
StoppedForGood == stopped => \A c \in Conv : watches[c] = None

\* An expired watch does not wait beside an idle agent for ever: a run's settle
\* or a wake brings it up (reply_watch.go:60-62).  The exceptions are a prompt that
\* pi refuses and one that /new aborts before its acceptance is handled or after
\* /new has given up on pi: they end without a settle, and nothing wakes the loop.
NoForgottenWatch ==
    \A w \in Watch :
        []<>(~Due(w) \/ Blocked \/ run # "idle" \/ runless \/ pi # "up" \/ bridge # "up")
=============================================================================
