---------------------------- MODULE SessionTransition ----------------------------
(***************************************************************************)
(* Fresh sessions: /new, /next and the reset of an agent that drifts away  *)
(* (bridge.go, reconcile.go:628-699).  Three threads may be at it: the     *)
(* reader of stanzas and the ticker of the idle clock, each under          *)
(* sessionTransitionMu, and the replay of recovered messages, which takes  *)
(* no lock.  /next sets nextTransition as well, which turns away every     *)
(* prompt and which the event loop respects without waiting for the lock.  *)
(* The first message of a session carries the messaging contract, and the  *)
(* state file names the session to resume.                                 *)
(*                                                                         *)
(* pi reads its commands in order and puts a prompt through an             *)
(* asynchronous preflight.  Routing of answers is RpcClient's; the inbox   *)
(* and what settles do otherwise are InboundDelivery's and RunLifecycle's. *)
(* The account has resetSessionOnAway set; background work is not counted. *)
(***************************************************************************)
EXTENDS Naturals, Sequences

CONSTANTS
    Live,           \* what arriving stanzas may be
    Recovered,      \* what recovered messages may be
    MaxStanzas,     \* bound: stanzas and recovered messages together
    MaxBeats,       \* bound: heartbeats of the companion extension
    PipeCap         \* bound: commands pi has not read, before one more tick

ASSUME SessionAssumption ==
    /\ Live \subseteq {"message", "new", "next"}
    /\ Recovered \subseteq {"message", "new", "next"}
    /\ MaxStanzas \in Nat /\ MaxBeats \in Nat /\ PipeCap \in Nat

Thread == {"reader", "replay", "ticker"}
Nobody == "nobody"
Task == {"message", "new", "next", "away"}
Answer == {"failed", "no", "cancelled", "ok", "active", "idle", "stale"}

VARIABLES
    lock,                       \* sessionTransitionMu
    at, task, answer,           \* each thread: where, doing what, its answer
    carries,                    \* the composed prompt in hand holds the contract
    nextTransition, streaming, settling, synthetic, pending, beats,
    seeded,                     \* messagingSeeded
    clock, away,                \* the idle clock, awayAnnounced
    saved,                      \* the state file names pi's session
    loop, events,               \* the event loop and its channel
    stdin, preflight, run, contract,    \* pi; its session holds the contract
    left, alarms,               \* stanzas and heartbeats so far
    astray, unsure              \* history, see ContractKept and SavedIsCurrent

threads == <<lock, at, task, answer, carries>>
flags == <<nextTransition, streaming, settling, synthetic, pending, beats>>
session == <<seeded, saved>>
idling == <<clock, away>>
channel == <<loop, events>>
piVars == <<preflight, run, contract>>
vars == <<threads, flags, session, idling, channel, stdin, piVars, left, alarms, astray, unsure>>

Command(what, thread, for) == [what |-> what, by |-> thread, for |-> for, seed |-> FALSE]
Prompt(seed) == [what |-> "prompt", by |-> Nobody, for |-> "message", seed |-> seed]
None == [what |-> "none", by |-> Nobody, for |-> "message", seed |-> FALSE]
PiCommand == [what : {"none", "prompt", "abort", "get_state", "new_session"},
              by : Thread \union {Nobody}, for : Task, seed : BOOLEAN]

TypeOK ==
    /\ lock \in Thread \union {Nobody}
    /\ at \in [Thread -> {"rest", "compose", "submit", "settle", "next", "ask", "state", "reset", "save"}]
    /\ task \in [Thread -> Task \union {"none"}]
    /\ answer \in [Thread -> Answer \union {"none"}]
    /\ carries \in [Thread -> BOOLEAN]
    /\ nextTransition \in BOOLEAN /\ streaming \in BOOLEAN /\ settling \in BOOLEAN
    /\ synthetic \in {0, 1} /\ pending \in Nat /\ beats \in Nat
    /\ seeded \in BOOLEAN /\ saved \in BOOLEAN
    /\ clock \in {"active", "idle", "due"} /\ away \in BOOLEAN
    /\ loop \in {"events", "settle", "fire"}
    /\ events \in Seq({"accepted", "rejected", "start", "settled", "beat"})
    /\ stdin \in Seq(PiCommand) /\ preflight \in PiCommand
    /\ run \in {"idle", "starting", "run"} /\ contract \in BOOLEAN
    /\ left \in 0..MaxStanzas /\ alarms \in 0..MaxBeats
    /\ astray \in BOOLEAN /\ unsure \in BOOLEAN

Init ==
    /\ lock = Nobody /\ at = [t \in Thread |-> "rest"] /\ task = [t \in Thread |-> "none"]
    /\ answer = [t \in Thread |-> "none"] /\ carries = [t \in Thread |-> FALSE]
    /\ nextTransition = FALSE /\ streaming = FALSE /\ settling = FALSE
    /\ synthetic = 0 /\ pending = 0 /\ beats = 0
    /\ seeded = FALSE /\ saved = TRUE
    /\ clock = "idle" /\ away = FALSE
    /\ loop = "events" /\ events = <<>>
    /\ stdin = <<>> /\ preflight = None /\ run = "idle" /\ contract = FALSE
    /\ left = MaxStanzas /\ alarms = 0
    /\ astray = FALSE /\ unsure = FALSE

-----------------------------------------------------------------------------
(* Threads: one runs a task at a time, a locked one while it holds the lock. *)

Goes(t, place) == at' = [at EXCEPT ![t] = place]
Entry == [message |-> "compose", new |-> "settle", next |-> "next", away |-> "ask"]

Begins(t, what) ==
    /\ at[t] = "rest"
    /\ Goes(t, Entry[what]) /\ task' = [task EXCEPT ![t] = what]
    /\ answer' = [answer EXCEPT ![t] = "none"]
    /\ UNCHANGED carries

Ends(t) ==
    /\ Goes(t, "rest") /\ task' = [task EXCEPT ![t] = "none"]
    /\ answer' = [answer EXCEPT ![t] = "none"] /\ carries' = [carries EXCEPT ![t] = FALSE]
    /\ lock' = IF lock = t THEN Nobody ELSE lock

\* onInbound: any inbound message restarts the idle clock.
Arrive ==
    /\ lock = Nobody /\ left > 0 /\ left' = left - 1
    /\ \E what \in Live : Begins("reader", what)
    /\ lock' = "reader"
    /\ clock' = "idle" /\ away' = FALSE
    /\ UNCHANGED <<flags, session, channel, stdin, piVars, alarms, astray, unsure>>

\* deliverRecovered: the same dispatch, without the lock and the clock.
Recover ==
    /\ left > 0 /\ left' = left - 1
    /\ \E what \in Recovered : Begins("replay", what)
    /\ UNCHANGED <<lock, flags, session, idling, channel, stdin, piVars, alarms, astray, unsure>>

\* idleTick, past the threshold.
Tick ==
    /\ lock = Nobody /\ clock = "due" /\ ~streaming /\ ~away /\ Len(stdin) =< PipeCap
    /\ Begins("ticker", "away")
    /\ lock' = "ticker"
    /\ UNCHANGED <<flags, session, idling, channel, stdin, piVars, left, alarms, astray, unsure>>

-----------------------------------------------------------------------------
(* Prompts: composePrompt, submitPrompt.                                     *)

\* The first prompt of a session is given the contract, and the session counts
\* as seeded from then on.
Compose(t) ==
    /\ at[t] = "compose" /\ Goes(t, "submit")
    /\ carries' = [carries EXCEPT ![t] = ~seeded]
    /\ seeded' = TRUE
    /\ UNCHANGED <<lock, task, answer, flags, saved, idling, channel, stdin, piVars,
                   left, alarms, astray, unsure>>

\* Mutant: a prompt goes out during a /next.
Submits_Always(seed) ==
    /\ pending' = pending + 1 /\ stdin' = Append(stdin, Prompt(seed))
    /\ UNCHANGED astray

\* Counted before it is written; turned away during a /next.
Submits(seed) ==
    \/ /\ ~nextTransition
       /\ pending' = pending + 1 /\ stdin' = Append(stdin, Prompt(seed))
       /\ UNCHANGED astray
    \/ /\ nextTransition
       /\ astray' = (astray \/ seed)
       /\ UNCHANGED <<pending, stdin>>

Submit(t) ==
    /\ at[t] = "submit"
    /\ Submits(carries[t])
    /\ Ends(t)
    /\ UNCHANGED <<nextTransition, streaming, settling, synthetic, beats, session, idling,
                   channel, piVars, left, alarms, unsure>>

-----------------------------------------------------------------------------
(* Transitions: handleCommand, handleNext, idleTick, afterNewSession.        *)

Asks(t, what) ==
    /\ stdin' = Append(stdin, Command(what, t, task[t]))
    /\ answer' = [answer EXCEPT ![t] = "none"]

SettleLocally == streaming' = FALSE /\ clock' = "idle"

\* /new aborts the run it knows of.
NewBegins(t) ==
    /\ at[t] = "settle" /\ Goes(t, "ask")
    /\ stdin' = IF streaming THEN Append(stdin, Command("abort", Nobody, "new")) ELSE stdin
    /\ SettleLocally
    /\ UNCHANGED <<lock, task, answer, carries, nextTransition, settling, synthetic, pending, beats,
                   session, away, channel, piVars, left, alarms, astray, unsure>>

Busy == streaming \/ settling \/ synthetic > 0 \/ pending > 0 \/ beats > 0

\* /next refuses when the bridge knows of work, and asks pi about the rest.
NextBegins(t) ==
    /\ at[t] = "next"
    /\ \/ /\ Busy /\ Ends(t) /\ UNCHANGED <<nextTransition, stdin>>
       \/ /\ ~Busy /\ nextTransition' = TRUE
          /\ Asks(t, "get_state") /\ Goes(t, "state")
          /\ UNCHANGED <<lock, task, carries>>
    /\ UNCHANGED <<streaming, settling, synthetic, pending, beats, session, idling, channel,
                   piVars, left, alarms, astray, unsure>>

Stop(t) ==
    /\ Ends(t)
    /\ nextTransition' = (nextTransition /\ task[t] # "next")

\* pi is idle: the snapshot and its runner are Reconcile's.
StateAnswered(t) ==
    /\ at[t] = "state" /\ answer[t] # "none"
    /\ \/ /\ answer[t] = "idle" /\ Goes(t, "ask")
          /\ UNCHANGED <<lock, task, answer, carries, nextTransition>>
       \/ answer[t] # "idle" /\ Stop(t)
    /\ UNCHANGED <<streaming, settling, synthetic, pending, beats, session, idling, channel,
                   stdin, piVars, left, alarms, astray, unsure>>

AskReset(t) ==
    /\ at[t] = "ask" /\ Goes(t, "reset")
    /\ Asks(t, "new_session")
    /\ UNCHANGED <<lock, task, carries, flags, session, idling, channel, piVars,
                   left, alarms, astray, unsure>>

\* The reset on away takes a cancelled reset for a success.
Fresh(t) == answer[t] \in IF task[t] = "away" THEN {"ok", "cancelled"} ELSE {"ok"}

\* Mutant: the new session's file is not looked up.
ResetAnswered_Unsaved(t) ==
    /\ at[t] = "reset" /\ answer[t] # "none" /\ Stop(t)
    /\ seeded' = IF Fresh(t) THEN FALSE ELSE seeded
    /\ away' = (away \/ (task[t] = "away" /\ Fresh(t)))
    /\ IF task[t] = "next" /\ Fresh(t) THEN SettleLocally ELSE UNCHANGED <<streaming, clock>>
    /\ UNCHANGED <<settling, synthetic, pending, beats, saved, channel, stdin, piVars,
                   left, alarms, astray, unsure>>

\* new_session succeeded, or the session stays as it is.
ResetAnswered(t) ==
    /\ at[t] = "reset" /\ answer[t] # "none"
    /\ \/ /\ Fresh(t) /\ Goes(t, "save") /\ Asks(t, "get_state")
          /\ IF task[t] = "next" THEN SettleLocally ELSE UNCHANGED <<streaming, clock>>
          /\ UNCHANGED <<lock, task, carries, nextTransition>>
       \/ ~Fresh(t) /\ Stop(t) /\ UNCHANGED <<stdin, streaming, clock>>
    /\ UNCHANGED <<settling, synthetic, pending, beats, session, away, channel, piVars,
                   left, alarms, astray, unsure>>

\* Mutant: the contract is not due again.
AfterNewSession_Seeded(t) ==
    /\ at[t] = "save" /\ answer[t] # "none" /\ Stop(t)
    /\ saved' = (saved \/ answer[t] \in {"active", "idle"})
    /\ away' = (away \/ task[t] = "away")
    /\ UNCHANGED <<seeded, streaming, settling, synthetic, pending, beats, clock, channel, stdin,
                   piVars, left, alarms, astray, unsure>>

\* refreshSessionFile, then the contract is due again.
AfterNewSession(t) ==
    /\ at[t] = "save" /\ answer[t] # "none" /\ Stop(t)
    /\ saved' = (saved \/ answer[t] \in {"active", "idle"})
    /\ seeded' = FALSE
    /\ away' = (away \/ task[t] = "away")
    /\ UNCHANGED <<streaming, settling, synthetic, pending, beats, clock, channel, stdin, piVars,
                   left, alarms, astray, unsure>>

Waiting(t) == at[t] \in {"state", "reset", "save"} /\ answer[t] = "none"

\* Mutant: a request for a new session is waited for without a limit.
TimesOut_NotReset(t) ==
    /\ Waiting(t) /\ at[t] # "reset"
    /\ answer' = [answer EXCEPT ![t] = "failed"]
    /\ stdin' = [i \in DOMAIN stdin |->
                    IF stdin[i].by = t THEN [stdin[i] EXCEPT !.by = Nobody] ELSE stdin[i]]
    /\ unsure' = (unsure \/ at[t] # "state")
    /\ UNCHANGED <<lock, at, task, carries, flags, session, idling, channel, piVars, left, alarms,
                   astray>>

\* A request times out; pi will do what it says all the same.
TimesOut(t) ==
    /\ Waiting(t)
    /\ answer' = [answer EXCEPT ![t] = "failed"]
    /\ stdin' = [i \in DOMAIN stdin |->
                    IF stdin[i].by = t THEN [stdin[i] EXCEPT !.by = Nobody] ELSE stdin[i]]
    /\ unsure' = (unsure \/ at[t] # "state")
    /\ UNCHANGED <<lock, at, task, carries, flags, session, idling, channel, piVars, left, alarms,
                   astray>>

Step(t) == Compose(t) \/ Submit(t) \/ NewBegins(t) \/ NextBegins(t) \/ StateAnswered(t)
           \/ AskReset(t) \/ ResetAnswered(t) \/ AfterNewSession(t)

-----------------------------------------------------------------------------
(* The event loop: handleRPCEvent, fireHeartbeat, flushPendingHeartbeats.    *)

Handle(event) ==
    /\ loop = "events" /\ events # <<>> /\ Head(events) = event
    /\ events' = Tail(events)
    /\ UNCHANGED <<threads, session, stdin, piVars, left, alarms, unsure>>

HandleResponse ==
    /\ Handle("accepted") \/ Handle("rejected")
    /\ pending' = pending - 1
    /\ UNCHANGED <<nextTransition, streaming, settling, synthetic, beats, idling, loop, astray>>

HandleStart ==
    /\ Handle("start")
    /\ streaming' = TRUE /\ clock' = "active" /\ away' = FALSE
    /\ UNCHANGED <<nextTransition, settling, synthetic, pending, beats, loop, astray>>

\* Mutant: a settle takes every prompt for answered.
HandleSettled_Forgets ==
    /\ Handle("settled")
    /\ settling' = TRUE /\ streaming' = FALSE /\ clock' = "idle" /\ loop' = "settle" /\ pending' = 0
    /\ UNCHANGED <<nextTransition, synthetic, beats, away, astray>>

\* A settle during a /next is left to the /next.
HandleSettled ==
    /\ Handle("settled")
    /\ \/ /\ ~nextTransition
          /\ settling' = TRUE /\ streaming' = FALSE /\ clock' = "idle" /\ loop' = "settle"
       \/ nextTransition /\ UNCHANGED <<settling, streaming, clock, loop>>
    /\ UNCHANGED <<nextTransition, synthetic, pending, beats, away, astray>>

\* The relay of a heartbeat: dropped, queued or fired.
HandleHeartbeat ==
    /\ Handle("beat")
    /\ \/ nextTransition /\ UNCHANGED <<beats, loop, synthetic>>
       \/ ~nextTransition /\ streaming /\ beats' = beats + 1 /\ UNCHANGED <<loop, synthetic>>
       \/ /\ ~nextTransition /\ ~streaming
          /\ synthetic' = 1 /\ loop' = "fire" /\ UNCHANGED beats
    /\ UNCHANGED <<nextTransition, streaming, settling, pending, idling, astray>>

\* The settle's end: the queued heartbeats, each a turn of its own.
FlushHeartbeats ==
    /\ loop = "settle"
    /\ IF beats > 0 THEN synthetic' = 1 /\ beats' = beats - 1 /\ loop' = "fire"
                         /\ UNCHANGED settling
                    ELSE settling' = FALSE /\ loop' = "events" /\ UNCHANGED <<synthetic, beats>>
    /\ UNCHANGED <<threads, nextTransition, streaming, pending, session, idling, events, stdin,
                   piVars, left, alarms, astray, unsure>>

\* The reservation is given back once the prompt is counted.
FireHeartbeat ==
    /\ loop = "fire"
    /\ Submits(FALSE) /\ synthetic' = 0
    /\ loop' = IF settling THEN "settle" ELSE "events"
    /\ UNCHANGED <<threads, nextTransition, streaming, settling, beats, session, idling, events,
                   piVars, left, alarms, unsure>>

Loop == HandleResponse \/ HandleStart \/ HandleSettled \/ HandleHeartbeat \/ FlushHeartbeats
        \/ FireHeartbeat

-----------------------------------------------------------------------------
(* pi, and the clock.                                                        *)

PiReads ==
    /\ stdin # <<>> /\ (Head(stdin).what = "prompt" => preflight = None)
    /\ stdin' = Tail(stdin)
    /\ UNCHANGED <<lock, at, task, carries, flags, seeded, idling, loop, left, alarms, astray, unsure>>

Replies(what) ==
    answer' = [t \in Thread |->
        IF t = Head(stdin).by THEN what
        ELSE IF what = "ok" /\ answer[t] \in {"active", "idle"} THEN "stale" ELSE answer[t]]

PiTakes ==
    /\ PiReads
    /\ \/ /\ Head(stdin).what = "prompt" /\ preflight' = Head(stdin)
          /\ UNCHANGED <<run, contract, answer, saved>>
       \/ /\ Head(stdin).what = "abort" /\ run' = "idle"
          /\ UNCHANGED <<preflight, contract, answer, saved>>
       \/ /\ Head(stdin).what = "get_state" /\ Replies(IF run = "idle" THEN "idle" ELSE "active")
          /\ UNCHANGED <<preflight, run, contract, saved>>
       \/ /\ Head(stdin).what = "new_session"
          /\ \/ /\ Replies("ok") /\ run' = "idle" /\ contract' = FALSE /\ saved' = FALSE
             \/ /\ \E why \in {"no", "cancelled"} : Replies(why)
                /\ UNCHANGED <<run, contract, saved>>
          /\ UNCHANGED preflight
    /\ UNCHANGED events

\* The preflight of a prompt ends: it starts a run or steers the one there is.
PiPreflight ==
    /\ preflight # None /\ preflight' = None
    /\ \/ /\ events' = Append(events, "accepted")
          /\ run' = IF run = "idle" THEN "starting" ELSE run
          /\ contract' = (contract \/ preflight.seed) /\ UNCHANGED astray
       \/ /\ events' = Append(events, "rejected")
          /\ astray' = (astray \/ preflight.seed) /\ UNCHANGED <<run, contract>>
    /\ UNCHANGED <<threads, flags, session, idling, loop, stdin, left, alarms, unsure>>

PiRuns ==
    /\ \/ run = "starting" /\ run' = "run" /\ events' = Append(events, "start")
       \/ run = "run" /\ run' = "idle" /\ events' = Append(events, "settled")
    /\ UNCHANGED <<threads, flags, session, idling, loop, stdin, preflight, contract, left, alarms,
                   astray, unsure>>

Alarm ==
    /\ alarms < MaxBeats /\ alarms' = alarms + 1
    /\ events' = Append(events, "beat")
    /\ UNCHANGED <<threads, flags, session, idling, loop, stdin, piVars, left, astray, unsure>>

Elapse ==
    /\ clock = "idle" /\ clock' = "due"
    /\ UNCHANGED <<threads, flags, session, away, channel, stdin, piVars, left, alarms, astray, unsure>>

-----------------------------------------------------------------------------
Next ==
    \/ Arrive \/ Recover \/ Tick \/ Loop
    \/ PiTakes \/ PiPreflight \/ PiRuns \/ Alarm \/ Elapse
    \/ \E t \in Thread : Step(t) \/ TimesOut(t)

Spec == Init /\ [][Next]_vars

\* The threads of the bridge run; pi may hang for ever.
FairSpec ==
    /\ Spec /\ WF_vars(Loop)
    /\ \A t \in Thread : WF_vars(Step(t)) /\ WF_vars(TimesOut(t))

-----------------------------------------------------------------------------
\* When pi comes to the new_session of a /next, nothing of the old session is
\* under way: no run, no prompt in its preflight, none on its way there
\* (reconcile.go:640-663, bridge.go:4349-4351).
NextSparesWork ==
    \A i \in DOMAIN stdin :
        stdin[i].what = "new_session" /\ stdin[i].for = "next" =>
            /\ run = "idle" /\ preflight = None
            /\ \A k \in 1..i : stdin[k].what # "prompt"

InTransition == \E t \in Thread : task[t] \in {"new", "next", "away"}

\* A session that counts as seeded holds the contract, or the prompt that brings
\* it is on its way, unless such a prompt was turned away or rejected before, or
\* a reset was given up on (bridge.go:2283-2286).
ContractKept ==
    seeded /\ ~InTransition =>
        \/ contract \/ astray \/ unsure
        \/ preflight.seed \/ \E i \in DOMAIN stdin : stdin[i].seed
        \/ \E t \in Thread : carries[t]

\* Between transitions the state file names the session pi is in, so that a
\* restart resumes it, unless a request was given up on (bridge.go:426-428).
SavedIsCurrent == ~InTransition => saved \/ unsure

\* Nobody keeps the lock, and no /next turns prompts away, for ever.
LockIsReleased == lock # Nobody ~> lock = Nobody
=============================================================================
