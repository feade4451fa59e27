----------------------- MODULE SessionTransitionProofs -----------------------
(***************************************************************************)
(* Proofs about SessionTransition, for every number of stanzas, recovered  *)
(* messages and heartbeats.                                                *)
(***************************************************************************)
EXTENDS SessionTransition, QueueFacts

-----------------------------------------------------------------------------
(* The inductive invariant.                                                  *)

Prompts == {c \in PiCommand : c.what = "prompt"}
Responses == {"accepted", "rejected"}
AnEvent == {"accepted", "rejected", "start", "settled", "beat"}

\* A prompt counts from its submission until its answer is handled.
PendingIsExact ==
    pending = Cardinality(Hits(stdin, Prompts)) + One(preflight # None)
                + Cardinality(Hits(events, Responses))

Asking == {"state", "reset", "save"}
Replied == {"none", "failed", "active", "idle", "stale"}    \* to a get_state

\* Where a thread is tells what it does, and what its answer can be.
PlaceOf(t) ==
    /\ at[t] = "rest" => task[t] = "none"
    /\ at[t] \in {"compose", "submit"} => task[t] = "message"
    /\ at[t] \in {"next", "state"} => task[t] = "next"
    /\ at[t] = "settle" => task[t] = "new"
    /\ at[t] \in {"ask", "reset", "save"} => task[t] \in {"new", "next", "away"}
    /\ at[t] \in {"state", "save"} => answer[t] \in Replied
    /\ carries[t] => at[t] = "submit"
Places == \A t \in Thread : PlaceOf(t)

\* A command that is waited for was sent by a thread that has no answer yet, and
\* is the only one of it; a new_session nobody waits for was given up on.
EntryOK(c) ==
    /\ c.by \in Thread =>
          /\ answer[c.by] = "none" /\ c.for = task[c.by]
          /\ \/ c.what = "new_session" /\ at[c.by] = "reset"
             \/ c.what = "get_state" /\ at[c.by] \in {"state", "save"}
    /\ c.by \notin Thread /\ c.what = "new_session" => unsure
    /\ c.seed => c.what = "prompt"
Asked ==
    /\ \A i \in DOMAIN stdin : EntryOK(stdin[i])
    /\ \A i, k \in DOMAIN stdin : stdin[i].by = stdin[k].by /\ stdin[i].by \in Thread => i = k

\* The state file is behind only while a thread is about to look the session up.
WillSave(t) ==
    \/ at[t] = "reset" /\ answer[t] = "ok"
    \/ at[t] = "save" /\ answer[t] \in {"none", "active", "idle"}
Saving == saved \/ unsure \/ \E t \in Thread : WillSave(t)

\* A seeded session lacks the contract only while a prompt brings it or a thread
\* is about to make it due again.
WillReseed(t) == (at[t] = "reset" /\ answer[t] = "ok") \/ at[t] = "save"
Contracted ==
    seeded =>
        \/ contract \/ astray \/ unsure
        \/ preflight.seed \/ \E i \in DOMAIN stdin : stdin[i].seed
        \/ \E t \in Thread : carries[t] \/ WillReseed(t)

IInv == TypeOK /\ PendingIsExact /\ Places /\ Asked /\ Saving /\ Contracted

Session == <<lock, at, task, answer, carries, unsure>>

\* A command of pi is what its constructors make.
LEMMA CommandFacts ==
    /\ \A s \in BOOLEAN : Prompt(s) \in Prompts /\ Prompt(s).by = Nobody /\ Prompt(s).seed = s
    /\ \A w \in {"abort", "get_state", "new_session"}, t \in Thread \union {Nobody}, f \in Task :
          Command(w, t, f) \in PiCommand \ Prompts
    /\ None \in PiCommand \ Prompts /\ None.seed = FALSE
    /\ Nobody \notin Thread
    /\ \A c \in Prompts : c \in PiCommand /\ c # None
BY DEF Prompt, Prompts, PiCommand, Command, None, Nobody, Thread, Task

-----------------------------------------------------------------------------
(* Pending prompts and the queues.                                           *)

\* The ways a prompt can go: submitted, into its preflight, answered, handled.
Submitted ==
    /\ pending' = pending + 1 /\ UNCHANGED preflight
    /\ \E c \in Prompts : stdin' = Append(stdin, c)
    /\ events' = events
Taken ==
    /\ stdin # <<>> /\ Head(stdin) \in Prompts /\ preflight = None
    /\ stdin' = Tail(stdin) /\ preflight' = Head(stdin) /\ UNCHANGED <<pending, events>>
Preflighted ==
    /\ preflight # None /\ preflight' = None
    /\ \E x \in Responses : events' = Append(events, x)
    /\ UNCHANGED <<pending, stdin>>
Handled ==
    /\ events # <<>> /\ Head(events) \in Responses /\ events' = Tail(events)
    /\ pending' = pending - 1 /\ UNCHANGED <<stdin, preflight>>
GivenUp ==
    /\ UNCHANGED <<pending, events, preflight>>
    /\ \E t \in Thread :
          stdin' = [i \in DOMAIN stdin |->
                       IF stdin[i].by = t THEN [stdin[i] EXCEPT !.by = Nobody] ELSE stdin[i]]
Passed ==
    /\ UNCHANGED <<pending, preflight>>
    /\ Spares(stdin, stdin', PiCommand, Prompts)
    /\ Spares(events, events', AnEvent, Responses)

\* Every step moves at most one prompt by one place.
LEMMA PromptMoves ==
    ASSUME TypeOK, Places, [Next]_vars
    PROVE  Submitted \/ Taken \/ Preflighted \/ Handled \/ GivenUp \/ Passed
<1> USE DEF threads, flags, session, idling, channel, piVars
<1>0. /\ stdin \in Seq(PiCommand) /\ preflight \in PiCommand
      /\ stdin # <<>> => Head(stdin) \in PiCommand
      /\ task \in [Thread -> Task \union {"none"}] /\ carries \in [Thread -> BOOLEAN]
    BY DEF TypeOK
<1>1. CASE UNCHANGED vars \/ Arrive \/ Recover \/ Tick \/ Elapse
    <2>1. UNCHANGED <<pending, preflight, stdin, events>>
        BY <1>1 DEF vars, Arrive, Recover, Tick, Elapse
    <2> QED BY <2>1 DEF Passed, Spares
<1>2. CASE Alarm \/ PiRuns
    <2>1. UNCHANGED <<pending, preflight, stdin>>
        BY <1>2 DEF Alarm, PiRuns
    <2>2. \E x \in AnEvent \ Responses : events' = Append(events, x)
        BY <1>2 DEF Alarm, PiRuns, AnEvent, Responses
    <2> QED BY <2>1, <2>2 DEF Passed, Spares
<1>3. CASE HandleResponse
    BY <1>3 DEF HandleResponse, Handle, Handled, Responses
<1>4. CASE HandleStart \/ HandleSettled \/ HandleHeartbeat
    <2>1. UNCHANGED <<pending, preflight, stdin>>
        BY <1>4 DEF HandleStart, HandleSettled, HandleHeartbeat, Handle
    <2>2. events # <<>> /\ Head(events) \notin Responses /\ events' = Tail(events)
        BY <1>4 DEF HandleStart, HandleSettled, HandleHeartbeat, Handle, Responses
    <2> QED BY <2>1, <2>2 DEF Passed, Spares
<1>5. CASE FlushHeartbeats
    BY <1>5 DEF FlushHeartbeats, Passed, Spares
<1>6. ASSUME NEW s \in BOOLEAN, Submits(s), UNCHANGED <<preflight, events>>
      PROVE  Submitted \/ Passed
    BY <1>6, CommandFacts DEF Submits, Submitted, Passed, Spares
<1>7. CASE FireHeartbeat
    BY <1>6, <1>7 DEF FireHeartbeat
<1>8. CASE PiPreflight
    BY <1>8 DEF PiPreflight, Preflighted, Responses
<1>9. CASE PiTakes
    <2>1. /\ stdin # <<>> /\ stdin' = Tail(stdin) /\ UNCHANGED <<pending, events>>
          /\ Head(stdin).what = "prompt" => preflight = None
        BY <1>9 DEF PiTakes, PiReads
    <2>2. \/ Head(stdin).what = "prompt" /\ preflight' = Head(stdin)
          \/ Head(stdin).what # "prompt" /\ preflight' = preflight
        BY <1>9 DEF PiTakes
    <2>3. Head(stdin) \in Prompts <=> Head(stdin).what = "prompt"
        BY <1>0, <2>1 DEF Prompts
    <2> QED BY <2>1, <2>2, <2>3 DEF Taken, Passed, Spares
<1>10. ASSUME NEW t \in Thread, TimesOut(t) PROVE GivenUp
    BY <1>10 DEF TimesOut, GivenUp
<1>11. ASSUME NEW t \in Thread, Submit(t) PROVE Submitted \/ Passed
    <2>1. carries[t] \in BOOLEAN
        BY <1>0
    <2> QED BY <1>6, <1>11, <2>1 DEF Submit
<1>12. ASSUME NEW t \in Thread, Step(t), ~Submit(t) PROVE Passed
    <2>1. UNCHANGED <<pending, preflight, events>>
        BY <1>12 DEF Step, Compose, NewBegins, NextBegins, StateAnswered, AskReset, ResetAnswered,
            AfterNewSession
    <2>2. \/ stdin' = stdin
          \/ stdin' = Append(stdin, Command("abort", Nobody, "new"))
          \/ at[t] \in {"next", "ask", "reset"} /\
                \/ stdin' = Append(stdin, Command("get_state", t, task[t]))
                \/ stdin' = Append(stdin, Command("new_session", t, task[t]))
        BY <1>12 DEF Step, Compose, NewBegins, NextBegins, StateAnswered, AskReset, ResetAnswered,
            AfterNewSession, Asks
    <2>3. at[t] \in {"next", "ask", "reset"} => task[t] \in Task
        BY DEF Places, PlaceOf, Task
    <2>4. Spares(stdin, stdin', PiCommand, Prompts)
        BY <2>2, <2>3, CommandFacts DEF Spares, Task
    <2> QED BY <2>1, <2>4 DEF Passed, Spares
<1> QED BY <1>1, <1>2, <1>3, <1>4, <1>5, <1>7, <1>8, <1>9, <1>10, <1>11, <1>12 DEF Next, Loop

\* A command given up on stays where it is, what it is.
LEMMA GivenUpFacts ==
    ASSUME NEW q \in Seq(PiCommand), NEW t \in Thread, NEW r,
           r = [i \in DOMAIN q |-> IF q[i].by = t THEN [q[i] EXCEPT !.by = Nobody] ELSE q[i]]
    PROVE  /\ r \in Seq(PiCommand) /\ DOMAIN r = DOMAIN q
           /\ \A i \in DOMAIN q :
                 /\ r[i].what = q[i].what /\ r[i].for = q[i].for /\ r[i].seed = q[i].seed
                 /\ r[i].by = IF q[i].by = t THEN Nobody ELSE q[i].by
           /\ Hits(r, Prompts) = Hits(q, Prompts)
<1>1. DOMAIN q = 1..Len(q) /\ Len(q) \in Nat /\ \A i \in DOMAIN q : q[i] \in PiCommand
    OBVIOUS
<1>2. ASSUME NEW i \in DOMAIN q
      PROVE  /\ r[i] \in PiCommand
             /\ r[i].what = q[i].what /\ r[i].for = q[i].for /\ r[i].seed = q[i].seed
             /\ r[i].by = IF q[i].by = t THEN Nobody ELSE q[i].by
    <2>1. q[i] \in PiCommand
        BY <1>1
    <2>2. [q[i] EXCEPT !.by = Nobody] \in PiCommand
        BY <2>1 DEF PiCommand
    <2> QED BY <2>1, <2>2 DEF PiCommand
<1>3. DOMAIN r = DOMAIN q /\ r \in Seq(PiCommand)
    <2>1. r \in [1..Len(q) -> PiCommand]
        BY <1>1, <1>2
    <2> QED BY <1>1, <2>1
<1>4. Hits(r, Prompts) = Hits(q, Prompts)
    BY <1>1, <1>2, <1>3 DEF Hits, Prompts
<1> QED BY <1>2, <1>3, <1>4

\* The count and its three parts move together.
LEMMA ExactStep ==
    ASSUME TypeOK, Places, PendingIsExact, [Next]_vars
    PROVE  /\ PendingIsExact'
           /\ pending' \in Nat /\ stdin' \in Seq(PiCommand) /\ preflight' \in PiCommand
           /\ events' \in Seq(AnEvent)
<1> DEFINE w == Cardinality(Hits(stdin, Prompts))
           a == Cardinality(Hits(events, Responses))
           p == One(preflight # None)
           w1 == Cardinality(Hits(stdin', Prompts))
           a1 == Cardinality(Hits(events', Responses))
           p1 == One(preflight' # None)
<1>0. stdin \in Seq(PiCommand) /\ events \in Seq(AnEvent) /\ preflight \in PiCommand
    BY DEF TypeOK, AnEvent
<1>1. w \in Nat /\ a \in Nat /\ p \in {0, 1} /\ pending \in Nat /\ pending = w + p + a
    BY <1>0, HitsFinite DEF PendingIsExact, One, TypeOK
<1>2. SUFFICES /\ stdin' \in Seq(PiCommand) /\ events' \in Seq(AnEvent) /\ preflight' \in PiCommand
               /\ pending' = w1 + p1 + a1
    <2>1. w1 \in Nat /\ a1 \in Nat /\ p1 \in Nat
        BY <1>2, HitsFinite DEF One
    <2>2. \A i, k, l \in Nat : i + k + l \in Nat
        OBVIOUS
    <2> QED BY <1>2, <2>1, <2>2 DEF PendingIsExact
<1>3. CASE Submitted
    <2>1. PICK c \in Prompts : stdin' = Append(stdin, c)
        BY <1>3 DEF Submitted
    <2>2. c \in PiCommand /\ UNCHANGED <<preflight, events>> /\ pending' = pending + 1
        BY <1>3 DEF Submitted, Prompts
    <2>3. w1 = w + One(c \in Prompts)
        BY <1>0, <2>1, <2>2, HitsAppend
    <2>4. w1 = w + 1 /\ a1 = a /\ p1 = p
        BY <1>1, <2>2, <2>3 DEF One
    <2>5. stdin' \in Seq(PiCommand) /\ events' \in Seq(AnEvent) /\ preflight' \in PiCommand
        BY <1>0, <2>1, <2>2
    <2>6. pending' = w1 + p1 + a1
        <3> HIDE DEF w, a, p, w1, a1, p1
        <3>1. pending' = (w + p + a) + 1 /\ w1 = w + 1 /\ a1 = a /\ p1 = p
            BY <1>1, <2>2, <2>4
        <3>2. w \in Nat /\ a \in Nat /\ p \in Nat
            BY <1>1
        <3> QED BY ONLY <3>1, <3>2
    <2> QED BY <2>5, <2>6
<1>4. CASE Taken
    <2>1. /\ stdin # <<>> /\ Head(stdin) \in Prompts /\ preflight = None
          /\ stdin' = Tail(stdin) /\ preflight' = Head(stdin) /\ UNCHANGED <<pending, events>>
        BY <1>4 DEF Taken
    <2>2. stdin' \in Seq(PiCommand) /\ preflight' \in PiCommand
        BY <1>0, <2>1
    <2>3. w = w1 + One(Head(stdin) \in Prompts) /\ w1 \in Nat
        BY <1>0, <2>1, <2>2, HitsTail, HitsFinite
    <2>4. w = w1 + 1 /\ p = 0 /\ p1 = 1 /\ a1 = a
        BY <2>1, <2>3, CommandFacts DEF One
    <2>5. pending' = w1 + p1 + a1
        <3> HIDE DEF w, a, p, w1, a1, p1
        <3>1. pending' = w + p + a /\ w = w1 + 1 /\ p = 0 /\ p1 = 1 /\ a1 = a
            BY <1>1, <2>1, <2>4
        <3>2. w1 \in Nat /\ a \in Nat
            BY <1>1, <2>3
        <3> QED BY ONLY <3>1, <3>2
    <2> QED BY <1>0, <2>1, <2>2, <2>5
<1>5. CASE Preflighted
    <2>1. PICK x \in Responses : events' = Append(events, x)
        BY <1>5 DEF Preflighted
    <2>2. preflight # None /\ preflight' = None /\ UNCHANGED <<pending, stdin>>
        BY <1>5 DEF Preflighted
    <2>3. x \in AnEvent /\ events' \in Seq(AnEvent)
        BY <1>0, <2>1 DEF AnEvent, Responses
    <2>4. a1 = a + One(x \in Responses)
        BY <1>0, <2>1, <2>3, HitsAppend
    <2>5. a1 = a + 1 /\ p = 1 /\ p1 = 0 /\ w1 = w
        BY <1>1, <2>2, <2>4 DEF One
    <2>6. stdin' \in Seq(PiCommand) /\ events' \in Seq(AnEvent) /\ preflight' \in PiCommand
        BY <1>0, <2>2, <2>3, CommandFacts
    <2>7. pending' = w1 + p1 + a1
        <3> HIDE DEF w, a, p, w1, a1, p1
        <3>1. pending' = w + p + a /\ a1 = a + 1 /\ p = 1 /\ p1 = 0 /\ w1 = w
            BY <1>1, <2>2, <2>5
        <3>2. w \in Nat /\ a \in Nat
            BY <1>1
        <3> QED BY ONLY <3>1, <3>2
    <2> QED BY <2>6, <2>7
<1>6. CASE Handled
    <2>1. /\ events # <<>> /\ Head(events) \in Responses /\ events' = Tail(events)
          /\ pending' = pending - 1 /\ UNCHANGED <<stdin, preflight>>
        BY <1>6 DEF Handled
    <2>2. events' \in Seq(AnEvent)
        BY <1>0, <2>1
    <2>3. a = a1 + One(Head(events) \in Responses) /\ a1 \in Nat
        BY <1>0, <2>1, <2>2, HitsTail, HitsFinite
    <2>4. a = a1 + 1 /\ p1 = p /\ w1 = w
        BY <2>1, <2>3 DEF One
    <2>5. pending' = w1 + p1 + a1
        <3> HIDE DEF w, a, p, w1, a1, p1
        <3>1. pending' = (w + p + a) - 1 /\ a = a1 + 1 /\ p1 = p /\ w1 = w
            BY <1>1, <2>1, <2>4
        <3>2. w \in Nat /\ a1 \in Nat /\ p \in Nat
            BY <1>1, <2>3
        <3> QED BY ONLY <3>1, <3>2
    <2> QED BY <1>0, <2>1, <2>2, <2>5
<1>7. CASE GivenUp
    <2>1. PICK t \in Thread :
              stdin' = [i \in DOMAIN stdin |->
                           IF stdin[i].by = t THEN [stdin[i] EXCEPT !.by = Nobody] ELSE stdin[i]]
        BY <1>7 DEF GivenUp
    <2>2. UNCHANGED <<pending, events, preflight>>
        BY <1>7 DEF GivenUp
    <2>3. stdin' \in Seq(PiCommand) /\ Hits(stdin', Prompts) = Hits(stdin, Prompts)
        BY <1>0, <2>1, GivenUpFacts
    <2> QED BY <1>0, <1>1, <2>2, <2>3
<1>8. CASE Passed
    <2>1. UNCHANGED <<pending, preflight>> /\ Spares(stdin, stdin', PiCommand, Prompts)
          /\ Spares(events, events', AnEvent, Responses)
        BY <1>8 DEF Passed
    <2>2. stdin' \in Seq(PiCommand) /\ w1 = w /\ events' \in Seq(AnEvent) /\ a1 = a
        BY <1>0, <2>1, SparedHits
    <2> QED BY <1>0, <1>1, <2>1, <2>2
<1> QED BY <1>3, <1>4, <1>5, <1>6, <1>7, <1>8, PromptMoves

-----------------------------------------------------------------------------
(* Where the threads are.                                                    *)

ThreadTypes ==
    /\ lock \in Thread \union {Nobody}
    /\ at \in [Thread -> {"rest", "compose", "submit", "settle", "next", "ask", "state", "reset", "save"}]
    /\ task \in [Thread -> Task \union {"none"}]
    /\ answer \in [Thread -> Answer \union {"none"}]
    /\ carries \in [Thread -> BOOLEAN]

\* What a step does to a thread and its answer; the others stay.
Moves(t, place, what, said) ==
    /\ at' = [at EXCEPT ![t] = place] /\ task' = [task EXCEPT ![t] = what]
    /\ answer' = [answer EXCEPT ![t] = said]

\* A thread begins a task, goes on to its next place, or comes to rest.
Begin(t) ==
    /\ at[t] = "rest" /\ UNCHANGED carries
    /\ \E what \in Task : Moves(t, Entry[what], what, "none")
Go(t) ==
    \/ at[t] = "compose" /\ Moves(t, "submit", task[t], answer[t])
       /\ carries' = [carries EXCEPT ![t] = ~seeded]
    \/ /\ UNCHANGED carries
       /\ \/ at[t] = "settle" /\ Moves(t, "ask", task[t], answer[t])
          \/ at[t] = "next" /\ Moves(t, "state", task[t], "none")
          \/ at[t] = "state" /\ answer[t] = "idle" /\ Moves(t, "ask", task[t], answer[t])
          \/ at[t] = "ask" /\ Moves(t, "reset", task[t], "none")
          \/ at[t] = "reset" /\ Fresh(t) /\ Moves(t, "save", task[t], "none")
Rest(t) ==
    /\ at[t] \in {"submit", "next", "state", "reset", "save"}
    /\ at[t] \in {"state", "reset", "save"} => answer[t] # "none"
    /\ at[t] = "reset" => ~Fresh(t)
    /\ Moves(t, "rest", "none", "none") /\ carries' = [carries EXCEPT ![t] = FALSE]
Fail(t) ==
    /\ Waiting(t) /\ answer' = [answer EXCEPT ![t] = "failed"] /\ UNCHANGED <<at, task, carries>>
Hears ==
    /\ UNCHANGED <<at, task, carries>>
    /\ stdin # <<>>
    /\ \/ Head(stdin).what = "get_state" /\ (Replies("idle") \/ Replies("active"))
       \/ Head(stdin).what = "new_session" /\ (Replies("ok") \/ Replies("no") \/ Replies("cancelled"))

\* A step moves one thread, brings an answer or leaves the threads alone.
LEMMA ThreadMoves ==
    ASSUME ThreadTypes, [Next]_vars
    PROVE  \/ \E t \in Thread : Begin(t) \/ Go(t) \/ Rest(t) \/ Fail(t)
           \/ Hears
           \/ UNCHANGED <<at, task, answer, carries>>
<1> USE DEF threads, flags, session, idling, channel, piVars
<1>0. \A t \in Thread : /\ at = [at EXCEPT ![t] = at[t]] /\ task = [task EXCEPT ![t] = task[t]]
                        /\ answer = [answer EXCEPT ![t] = answer[t]]
    BY DEF ThreadTypes
<1>1. CASE UNCHANGED vars \/ Loop \/ PiPreflight \/ PiRuns \/ Alarm \/ Elapse
    BY <1>1 DEF vars, Loop, HandleResponse, HandleStart, HandleSettled, HandleHeartbeat, Handle,
        FlushHeartbeats, FireHeartbeat, PiPreflight, PiRuns, Alarm, Elapse
<1>2. CASE Arrive \/ Recover \/ Tick
    <2>1. \E t \in Thread, what \in Task : Begins(t, what)
        BY <1>2, SessionAssumption DEF Arrive, Recover, Tick, Thread, Task
    <2> QED BY <2>1 DEF Begins, Begin, Goes, Moves
<1>3. CASE PiTakes
    BY <1>3 DEF PiTakes, PiReads, Hears
<1>4. ASSUME NEW t \in Thread, TimesOut(t) PROVE Fail(t)
    BY <1>4 DEF TimesOut, Fail
<1>5. ASSUME NEW t \in Thread, Compose(t) \/ NewBegins(t) \/ AskReset(t) PROVE Go(t)
    BY <1>0, <1>5 DEF Compose, NewBegins, AskReset, Asks, Go, Goes, Moves
<1>6. ASSUME NEW t \in Thread, Submit(t) \/ AfterNewSession(t) PROVE Rest(t)
    BY <1>6 DEF Submit, AfterNewSession, Stop, Ends, Goes, Rest, Moves
<1>7. ASSUME NEW t \in Thread, NextBegins(t) PROVE Go(t) \/ Rest(t)
    <2>1. CASE Ends(t)
        BY <1>7, <2>1 DEF NextBegins, Ends, Goes, Rest, Moves
    <2>2. CASE Asks(t, "get_state") /\ Goes(t, "state") /\ UNCHANGED <<task, carries>>
        BY <1>0, <1>7, <2>2 DEF NextBegins, Asks, Goes, Go, Moves
    <2> QED BY <1>7, <2>1, <2>2 DEF NextBegins
<1>8. ASSUME NEW t \in Thread, StateAnswered(t) PROVE Go(t) \/ Rest(t)
    <2>1. CASE Stop(t)
        BY <1>8, <2>1 DEF StateAnswered, Stop, Ends, Goes, Rest, Moves
    <2>2. CASE answer[t] = "idle" /\ Goes(t, "ask") /\ UNCHANGED <<task, answer, carries>>
        BY <1>0, <1>8, <2>2 DEF StateAnswered, Goes, Go, Moves
    <2> QED BY <1>8, <2>1, <2>2 DEF StateAnswered
<1>9. ASSUME NEW t \in Thread, ResetAnswered(t) PROVE Go(t) \/ Rest(t)
    <2>1. CASE ~Fresh(t) /\ Stop(t)
        BY <1>9, <2>1 DEF ResetAnswered, Stop, Ends, Goes, Rest, Moves
    <2>2. CASE Fresh(t) /\ Goes(t, "save") /\ Asks(t, "get_state") /\ UNCHANGED <<task, carries>>
        BY <1>0, <1>9, <2>2 DEF ResetAnswered, Asks, Goes, Go, Moves
    <2> QED BY <1>9, <2>1, <2>2 DEF ResetAnswered
<1> QED BY <1>1, <1>2, <1>3, <1>4, <1>5, <1>6, <1>7, <1>8, <1>9 DEF Next, Step

\* The lock goes to a thread that begins and is given back when it rests.
LEMMA LockStep ==
    ASSUME ThreadTypes, [Next]_vars
    PROVE  lock' \in Thread \union {Nobody}
<1> USE DEF threads
<1>1. CASE UNCHANGED lock
    BY <1>1 DEF ThreadTypes
<1>2. CASE Arrive \/ Tick
    BY <1>2 DEF Arrive, Tick, Thread
<1>3. ASSUME NEW t \in Thread, Ends(t) PROVE lock' \in Thread \union {Nobody}
    BY <1>3 DEF Ends, ThreadTypes
<1>4. UNCHANGED lock \/ Arrive \/ Tick \/ \E t \in Thread : Ends(t)
    BY DEF Next, vars, Recover, Loop, HandleResponse, HandleStart, HandleSettled, HandleHeartbeat,
        Handle, FlushHeartbeats, FireHeartbeat, PiTakes, PiReads, PiPreflight, PiRuns, Alarm, Elapse,
        Step, TimesOut, Compose, Submit, NewBegins, NextBegins, StateAnswered, AskReset,
        ResetAnswered, AfterNewSession, Stop
<1> QED BY <1>1, <1>2, <1>3, <1>4

\* The commands pi has not read tell which answer a thread may get.
LEMMA PlacesStep ==
    ASSUME ThreadTypes, Places, Asked, stdin \in Seq(PiCommand), [Next]_vars
    PROVE  ThreadTypes' /\ Places'
<1> USE DEF Task
<1>1. ASSUME NEW t \in Thread, NEW place \in {"rest", "compose", "submit", "settle", "next", "ask",
                 "state", "reset", "save"}, NEW what \in Task \union {"none"},
             NEW said \in Answer \union {"none"}, Moves(t, place, what, said)
      PROVE  /\ at' \in [Thread -> {"rest", "compose", "submit", "settle", "next", "ask", "state",
                                    "reset", "save"}]
             /\ task' \in [Thread -> Task \union {"none"}]
             /\ answer' \in [Thread -> Answer \union {"none"}]
             /\ at'[t] = place /\ task'[t] = what /\ answer'[t] = said
             /\ \A u \in Thread \ {t} : at'[u] = at[u] /\ task'[u] = task[u] /\ answer'[u] = answer[u]
    BY <1>1 DEF Moves, ThreadTypes
<1>2. ASSUME NEW t \in Thread, Begin(t) PROVE ThreadTypes' /\ Places'
    <2>1. PICK what \in Task : Moves(t, Entry[what], what, "none")
        BY <1>2 DEF Begin
    <2>2. Entry[what] \in {"compose", "settle", "next", "ask"} /\ "none" \in Answer \union {"none"}
          /\ (Entry[what] = "compose" => what = "message") /\ (Entry[what] = "next" => what = "next")
          /\ (Entry[what] = "settle" => what = "new")
          /\ (Entry[what] = "ask" => what \in {"new", "next", "away"})
        BY DEF Entry
    <2>3. ThreadTypes'
        BY <1>1, <1>2, <2>1, <2>2, LockStep DEF Begin, ThreadTypes
    <2>4. /\ at'[t] = Entry[what] /\ task'[t] = what /\ ~carries[t] /\ carries' = carries
          /\ \A u \in Thread \ {t} : at'[u] = at[u] /\ task'[u] = task[u] /\ answer'[u] = answer[u]
        BY <1>1, <1>2, <2>1, <2>2 DEF Begin, Places, PlaceOf
    <2>5. PlaceOf(t)'
        BY <2>2, <2>4 DEF PlaceOf
    <2>6. ASSUME NEW u \in Thread \ {t} PROVE PlaceOf(u)'
        BY <2>4 DEF Places, PlaceOf
    <2> QED BY <2>3, <2>5, <2>6 DEF Places
<1>3. ASSUME NEW t \in Thread, Go(t) PROVE ThreadTypes' /\ Places'
    <2>1. PlaceOf(t) /\ task[t] \in Task \union {"none"} /\ answer[t] \in Answer \union {"none"}
          /\ carries \in [Thread -> BOOLEAN]
        BY DEF Places, ThreadTypes
    <2>2. PICK place \in {"submit", "ask", "state", "reset", "save"}, said \in {"none", answer[t]} :
              /\ Moves(t, place, task[t], said)
              /\ \/ at[t] = "compose" /\ place = "submit"
                 \/ at[t] = "settle" /\ place = "ask"
                 \/ at[t] = "next" /\ place = "state" /\ said = "none"
                 \/ at[t] = "state" /\ place = "ask"
                 \/ at[t] = "ask" /\ place = "reset"
                 \/ at[t] = "reset" /\ place = "save" /\ said = "none"
        BY <1>3 DEF Go
    <2>3. \/ carries' = carries /\ place # "submit"
          \/ at[t] = "compose" /\ place = "submit" /\ carries' = [carries EXCEPT ![t] = ~seeded]
        <3>1. at'[t] = place
            BY <1>1, <2>1, <2>2
        <3> QED BY <1>3, <3>1, <2>2 DEF Go, Moves, ThreadTypes
    <2>4. carries' \in [Thread -> BOOLEAN] /\ \A u \in Thread \ {t} : carries'[u] = carries[u]
        BY <2>1, <2>3
    <2>5. /\ at' \in [Thread -> {"rest", "compose", "submit", "settle", "next", "ask", "state",
                                 "reset", "save"}]
          /\ task' \in [Thread -> Task \union {"none"}]
          /\ answer' \in [Thread -> Answer \union {"none"}]
          /\ at'[t] = place /\ task'[t] = task[t] /\ answer'[t] = said
          /\ \A u \in Thread \ {t} : at'[u] = at[u] /\ task'[u] = task[u] /\ answer'[u] = answer[u]
        BY <1>1, <2>1, <2>2
    <2>6. ThreadTypes'
        BY <2>4, <2>5, LockStep DEF ThreadTypes
    <2>7. PlaceOf(t)'
        BY <2>1, <2>2, <2>3, <2>5 DEF PlaceOf, Replied
    <2>8. ASSUME NEW u \in Thread \ {t} PROVE PlaceOf(u)'
        BY <2>4, <2>5 DEF Places, PlaceOf
    <2> QED BY <2>6, <2>7, <2>8 DEF Places
<1>4. ASSUME NEW t \in Thread, Rest(t) PROVE ThreadTypes' /\ Places'
    <2>1. Moves(t, "rest", "none", "none") /\ carries' = [carries EXCEPT ![t] = FALSE]
        BY <1>4 DEF Rest
    <2>2. ThreadTypes'
        BY <1>1, <2>1, LockStep DEF ThreadTypes
    <2>3. /\ at'[t] = "rest" /\ task'[t] = "none" /\ ~carries'[t]
          /\ \A u \in Thread \ {t} : at'[u] = at[u] /\ task'[u] = task[u] /\ answer'[u] = answer[u]
                                     /\ carries'[u] = carries[u]
        BY <1>1, <2>1 DEF ThreadTypes
    <2>4. PlaceOf(t)'
        BY <2>3 DEF PlaceOf
    <2>5. ASSUME NEW u \in Thread \ {t} PROVE PlaceOf(u)'
        BY <2>3 DEF Places, PlaceOf
    <2> QED BY <2>2, <2>4, <2>5 DEF Places
<1>5. ASSUME NEW t \in Thread, Fail(t) PROVE ThreadTypes' /\ Places'
    <2>1. answer' = [answer EXCEPT ![t] = "failed"] /\ UNCHANGED <<at, task, carries>>
        BY <1>5 DEF Fail
    <2>2. ThreadTypes'
        BY <2>1, LockStep DEF ThreadTypes, Answer
    <2>3. ASSUME NEW u \in Thread PROVE PlaceOf(u)'
        BY <2>1 DEF Places, PlaceOf, ThreadTypes, Replied
    <2> QED BY <2>2, <2>3 DEF Places
<1>6. CASE Hears
    <2>1. UNCHANGED <<at, task, carries>> /\ stdin # <<>> /\ EntryOK(Head(stdin))
        BY <1>6 DEF Hears, Asked
    <2>2. PICK what \in Answer \ {"failed", "stale"} :
              /\ Replies(what)
              /\ Head(stdin).what = "get_state" => what \in {"idle", "active"}
              /\ Head(stdin).what \in {"get_state", "new_session"}
        BY <1>6 DEF Hears, Answer
    <2>3. answer' \in [Thread -> Answer \union {"none"}]
        BY <2>2 DEF Replies, ThreadTypes, Answer
    <2>4. ASSUME NEW u \in Thread
          PROVE  answer'[u] \in {answer[u], "stale"} \/ (u = Head(stdin).by /\ answer'[u] = what)
        BY <2>2 DEF Replies
    <2>5. ASSUME NEW u \in Thread PROVE PlaceOf(u)'
        <3>1. u = Head(stdin).by /\ at[u] \in {"state", "save"} => what \in {"idle", "active"}
            BY <2>1, <2>2 DEF EntryOK
        <3> QED BY <2>1, <2>4, <3>1 DEF Places, PlaceOf, Replied
    <2>6. ThreadTypes'
        BY <2>1, <2>3, LockStep DEF ThreadTypes
    <2> QED BY <2>5, <2>6 DEF Places
<1>7. CASE UNCHANGED <<at, task, answer, carries>>
    BY <1>7, LockStep DEF ThreadTypes, Places, PlaceOf
<1> QED BY <1>2, <1>3, <1>4, <1>5, <1>6, <1>7, ThreadMoves

-----------------------------------------------------------------------------
(* What pi is still to answer.                                               *)

\* A thread that waits for nothing has no command under way.
LEMMA NothingAsked ==
    ASSUME Asked, NEW t \in Thread, answer[t] # "none" \/ at[t] \notin Asking
    PROVE  \A i \in DOMAIN stdin : stdin[i].by # t
BY DEF Asked, EntryOK, Asking

\* A command may be added for a thread that has none, when the threads that have
\* one stay where they are.
LEMMA AskedGrows ==
    ASSUME Asked, stdin \in Seq(PiCommand), unsure => unsure',
           \A u \in Thread : (\E i \in DOMAIN stdin : stdin[i].by = u)
               => at'[u] = at[u] /\ task'[u] = task[u] /\ answer'[u] = answer[u],
           \/ stdin' = stdin
           \/ \E c \in PiCommand :
                 /\ stdin' = Append(stdin, c) /\ EntryOK(c)'
                 /\ c.by \in Thread => \A i \in DOMAIN stdin : stdin[i].by # c.by
    PROVE  Asked'
<1>1. ASSUME NEW i \in DOMAIN stdin, NEW e, e = stdin[i] PROVE EntryOK(e)'
    BY <1>1 DEF Asked, EntryOK
<1>2. CASE stdin' = stdin
    BY <1>1, <1>2 DEF Asked
<1>3. ASSUME NEW c \in PiCommand, stdin' = Append(stdin, c), EntryOK(c)',
             c.by \in Thread => \A i \in DOMAIN stdin : stdin[i].by # c.by
      PROVE  Asked'
    <2>1. /\ DOMAIN stdin' = 1..(Len(stdin) + 1) /\ DOMAIN stdin = 1..Len(stdin) /\ Len(stdin) \in Nat
          /\ \A i \in DOMAIN stdin : stdin'[i] = stdin[i]
          /\ stdin'[Len(stdin) + 1] = c
        BY <1>3
    <2>2. \A i \in DOMAIN stdin' : i \in DOMAIN stdin \/ (i = Len(stdin) + 1 /\ stdin'[i] = c)
        BY <2>1
    <2>3. ASSUME NEW i \in DOMAIN stdin' PROVE EntryOK(stdin[i])'
        <3>1. CASE i \in DOMAIN stdin
            <4>1. stdin'[i] = stdin[i]
                BY <2>1, <3>1
            <4> QED BY <1>1, <3>1, <4>1 DEF EntryOK
        <3>2. CASE stdin'[i] = c
            BY <1>3, <3>2 DEF EntryOK
        <3> QED BY <2>2, <3>1, <3>2
    <2>4. \A i, k \in DOMAIN stdin' : stdin'[i].by = stdin'[k].by /\ stdin'[i].by \in Thread => i = k
        <3>1. ASSUME NEW i \in DOMAIN stdin', NEW k \in DOMAIN stdin',
                     stdin'[i].by = stdin'[k].by, stdin'[i].by \in Thread
              PROVE  i = k
            BY ZenonT(60), <1>3, <2>1, <2>2, <3>1 DEF Asked
        <3> QED BY <3>1
    <2> QED BY <2>3, <2>4 DEF Asked
<1> QED BY <1>2, <1>3

\* Every step keeps who waits for what.
LEMMA AskedStep ==
    ASSUME TypeOK, Places, Asked, [Next]_vars
    PROVE  Asked'
<1> USE DEF threads, flags, session, idling, channel, piVars
<1>0. /\ stdin \in Seq(PiCommand) /\ unsure \in BOOLEAN
      /\ at \in [Thread -> {"rest", "compose", "submit", "settle", "next", "ask", "state", "reset", "save"}]
      /\ task \in [Thread -> Task \union {"none"}]
      /\ answer \in [Thread -> Answer \union {"none"}]
      /\ carries \in [Thread -> BOOLEAN]
    BY DEF TypeOK
<1>n. \A t \in Thread : answer[t] # "none" \/ at[t] \notin Asking
            => \A i \in DOMAIN stdin : stdin[i].by # t
    BY NothingAsked
<1>1. CASE UNCHANGED vars \/ HandleResponse \/ HandleStart \/ HandleSettled \/ HandleHeartbeat
           \/ FlushHeartbeats \/ PiPreflight \/ PiRuns \/ Alarm \/ Elapse
    <2>1. UNCHANGED <<at, task, answer, stdin, unsure>>
        BY <1>1 DEF vars, HandleResponse, HandleStart, HandleSettled, HandleHeartbeat, Handle,
            FlushHeartbeats, PiPreflight, PiRuns, Alarm, Elapse
    <2> QED BY <1>0, <2>1, AskedGrows
<1>2. ASSUME NEW s \in BOOLEAN, Submits(s), unsure' = unsure,
             \A u \in Thread : (\E i \in DOMAIN stdin : stdin[i].by = u)
                 => at'[u] = at[u] /\ task'[u] = task[u] /\ answer'[u] = answer[u]
      PROVE  Asked'
    <2>1. stdin' = stdin \/ stdin' = Append(stdin, Prompt(s))
        BY <1>2 DEF Submits
    <2>2. Prompt(s) \in PiCommand /\ Prompt(s).by \notin Thread /\ EntryOK(Prompt(s))'
        BY CommandFacts DEF Prompts, EntryOK, Prompt
    <2> QED BY <1>0, <1>2, <2>1, <2>2, AskedGrows
<1>3. CASE FireHeartbeat
    <2>1. Submits(FALSE) /\ UNCHANGED <<at, task, answer, unsure>>
        BY <1>3 DEF FireHeartbeat
    <2> QED BY <1>2, <2>1
<1>4. CASE Arrive \/ Recover \/ Tick
    <2>1. UNCHANGED <<stdin, unsure>> /\ \E t \in Thread, what \in Task : Begins(t, what)
        BY <1>4, SessionAssumption DEF Arrive, Recover, Tick, Thread, Task
    <2>2. PICK t \in Thread, what \in Task : Begins(t, what)
        BY <2>1
    <2>3. /\ \A i \in DOMAIN stdin : stdin[i].by # t
          /\ \A u \in Thread \ {t} : at'[u] = at[u] /\ task'[u] = task[u] /\ answer'[u] = answer[u]
        BY <1>0, <1>n, <2>2 DEF Begins, Goes, Asking
    <2> QED BY <1>0, <2>1, <2>3, AskedGrows
<1>5. CASE PiTakes
    <2>1. /\ stdin # <<>> /\ stdin' = Tail(stdin) /\ UNCHANGED <<at, task, unsure>>
          /\ answer' = answer \/ \E what \in Answer : Replies(what)
        BY <1>5 DEF PiTakes, PiReads, Answer
    <2>2. /\ DOMAIN stdin = 1..Len(stdin) /\ DOMAIN stdin' = 1..(Len(stdin) - 1) /\ Len(stdin) \in Nat \ {0}
          /\ \A i \in DOMAIN stdin' : stdin'[i] = stdin[i + 1] /\ i + 1 \in DOMAIN stdin /\ i + 1 # 1
          /\ Head(stdin) = stdin[1] /\ 1 \in DOMAIN stdin
        BY <1>0, <2>1
    <2>3. \A u \in Thread : u # Head(stdin).by /\ answer[u] = "none" => answer'[u] = "none"
        BY <2>1 DEF Replies
    <2>4. ASSUME NEW i \in DOMAIN stdin, i # 1, NEW e, e = stdin[i] PROVE EntryOK(e)'
        <3>1. EntryOK(e) /\ (e.by \in Thread => e.by # Head(stdin).by)
            BY <2>2, <2>4 DEF Asked
        <3> QED BY <2>1, <2>3, <3>1 DEF EntryOK
    <2>5. \A i \in DOMAIN stdin' : EntryOK(stdin[i])'
        BY <2>2, <2>4 DEF EntryOK
    <2>6. ASSUME NEW i \in DOMAIN stdin', NEW k \in DOMAIN stdin',
                 stdin'[i].by = stdin'[k].by, stdin'[i].by \in Thread
          PROVE  i = k
        <3>1. i + 1 = k + 1
            BY <2>2, <2>6 DEF Asked
        <3>2. i \in Nat /\ k \in Nat
            BY <2>2
        <3> QED BY <3>1, <3>2
    <2> QED BY <2>5, <2>6 DEF Asked
<1>6. ASSUME NEW t \in Thread, TimesOut(t) PROVE Asked'
    <2>1. /\ answer' = [answer EXCEPT ![t] = "failed"] /\ UNCHANGED <<at, task>>
          /\ unsure' = (unsure \/ at[t] # "state")
          /\ stdin' = [i \in DOMAIN stdin |->
                          IF stdin[i].by = t THEN [stdin[i] EXCEPT !.by = Nobody] ELSE stdin[i]]
        BY <1>6 DEF TimesOut
    <2>2. /\ DOMAIN stdin' = DOMAIN stdin
          /\ \A i \in DOMAIN stdin :
                 /\ stdin'[i].what = stdin[i].what /\ stdin'[i].for = stdin[i].for
                 /\ stdin'[i].seed = stdin[i].seed
                 /\ stdin'[i].by = IF stdin[i].by = t THEN Nobody ELSE stdin[i].by
        BY <1>0, <2>1, GivenUpFacts
    <2>3. ASSUME NEW i \in DOMAIN stdin, NEW e, e = stdin'[i] PROVE EntryOK(e)'
        <3>1. EntryOK(stdin[i])
            BY DEF Asked
        <3>2. CASE stdin[i].by = t
            <4>1. e.by = Nobody /\ e.what = stdin[i].what /\ e.seed = stdin[i].seed
                BY <2>2, <2>3, <3>2
            <4>2. e.what = "new_session" => at[t] # "state"
                BY <3>1, <3>2, <4>1 DEF EntryOK
            <4> QED BY <2>1, <3>1, <4>1, <4>2, CommandFacts DEF EntryOK
        <3>3. CASE stdin[i].by # t
            <4>1. /\ e.by = stdin[i].by /\ e.what = stdin[i].what /\ e.for = stdin[i].for
                  /\ e.seed = stdin[i].seed
                BY <2>2, <2>3, <3>3
            <4>2. e.by \in Thread => answer'[e.by] = answer[e.by]
                BY <1>0, <2>1, <3>3, <4>1
            <4> QED BY <2>1, <3>1, <4>1, <4>2 DEF EntryOK
        <3> QED BY <3>2, <3>3
    <2>4. \A i, k \in DOMAIN stdin' : stdin'[i].by = stdin'[k].by /\ stdin'[i].by \in Thread => i = k
        BY <2>2, CommandFacts DEF Asked
    <2> QED BY <2>2, <2>3, <2>4 DEF Asked
<1>7. ASSUME NEW t \in Thread, answer[t] # "none" \/ at[t] \notin Asking, unsure' = unsure,
             \A u \in Thread \ {t} : at'[u] = at[u] /\ task'[u] = task[u] /\ answer'[u] = answer[u],
             \/ stdin' = stdin
             \/ stdin' = Append(stdin, Command("abort", Nobody, "new"))
             \/ \E what \in {"get_state", "new_session"} :
                   /\ stdin' = Append(stdin, Command(what, t, task'[t])) /\ answer'[t] = "none"
                   /\ task'[t] \in Task
                   /\ what = "new_session" => at'[t] = "reset"
                   /\ what = "get_state" => at'[t] \in {"state", "save"}
      PROVE  Asked'
    <2>1. \A i \in DOMAIN stdin : stdin[i].by # t
        BY <1>n, <1>7
    <2>2. \A u \in Thread : (\E i \in DOMAIN stdin : stdin[i].by = u)
              => at'[u] = at[u] /\ task'[u] = task[u] /\ answer'[u] = answer[u]
        BY <1>7, <2>1
    <2>3. Command("abort", Nobody, "new") \in PiCommand /\ EntryOK(Command("abort", Nobody, "new"))'
          /\ Command("abort", Nobody, "new").by \notin Thread
        BY CommandFacts DEF Command, EntryOK, Task
    <2>4. ASSUME NEW what \in {"get_state", "new_session"}, NEW f \in Task, f = task'[t],
                 answer'[t] = "none",
                 what = "new_session" => at'[t] = "reset",
                 what = "get_state" => at'[t] \in {"state", "save"}
          PROVE  Command(what, t, f) \in PiCommand /\ EntryOK(Command(what, t, f))'
                 /\ Command(what, t, f).by = t
        BY <2>4, CommandFacts DEF Command, EntryOK
    <2> QED BY <1>0, <1>7, <2>1, <2>2, <2>3, <2>4, AskedGrows
<1>8. ASSUME NEW t \in Thread, Ends(t)
      PROVE  \A u \in Thread \ {t} : at'[u] = at[u] /\ task'[u] = task[u] /\ answer'[u] = answer[u]
    BY <1>0, <1>8 DEF Ends, Goes
<1>9. ASSUME NEW t \in Thread, Submit(t) PROVE Asked'
    <2>1. carries[t] \in BOOLEAN /\ at[t] = "submit" /\ Ends(t) /\ Submits(carries[t]) /\ unsure' = unsure
        BY <1>0, <1>9 DEF Submit
    <2>2. \A i \in DOMAIN stdin : stdin[i].by # t
        BY <1>n, <2>1 DEF Asking
    <2> QED BY <1>2, <1>8, <2>1, <2>2
<1>10. ASSUME NEW t \in Thread, Compose(t) \/ NewBegins(t) \/ NextBegins(t) \/ AskReset(t) PROVE Asked'
    <2>1. at[t] \notin Asking /\ unsure' = unsure
        BY <1>10 DEF Compose, NewBegins, NextBegins, AskReset, Asking
    <2>2. \A u \in Thread \ {t} : at'[u] = at[u] /\ task'[u] = task[u] /\ answer'[u] = answer[u]
        BY <1>0, <1>8, <1>10 DEF Compose, NewBegins, NextBegins, AskReset, Goes, Asks
    <2>3. \/ stdin' = stdin
          \/ stdin' = Append(stdin, Command("abort", Nobody, "new"))
          \/ /\ \/ at[t] = "next" /\ at' = [at EXCEPT ![t] = "state"]
                   /\ stdin' = Append(stdin, Command("get_state", t, task[t]))
                \/ at[t] = "ask" /\ at' = [at EXCEPT ![t] = "reset"]
                   /\ stdin' = Append(stdin, Command("new_session", t, task[t]))
             /\ answer' = [answer EXCEPT ![t] = "none"] /\ task' = task
        BY <1>10 DEF Compose, NewBegins, NextBegins, AskReset, Goes, Asks
    <2>4. at[t] \in {"next", "ask"} => task[t] \in Task
        BY DEF Places, PlaceOf, Task
    <2> QED BY <1>0, <1>7, <2>1, <2>2, <2>3, <2>4
<1>11. ASSUME NEW t \in Thread, StateAnswered(t) \/ ResetAnswered(t) \/ AfterNewSession(t) PROVE Asked'
    <2>1. answer[t] # "none" /\ unsure' = unsure
        BY <1>11 DEF StateAnswered, ResetAnswered, AfterNewSession
    <2>2. \A u \in Thread \ {t} : at'[u] = at[u] /\ task'[u] = task[u] /\ answer'[u] = answer[u]
        BY <1>0, <1>8, <1>11 DEF StateAnswered, ResetAnswered, AfterNewSession, Stop, Goes, Asks
    <2>3. \/ stdin' = stdin
          \/ /\ at[t] = "reset" /\ at' = [at EXCEPT ![t] = "save"]
             /\ stdin' = Append(stdin, Command("get_state", t, task[t]))
             /\ answer' = [answer EXCEPT ![t] = "none"] /\ task' = task
        BY <1>11 DEF StateAnswered, ResetAnswered, AfterNewSession, Goes, Asks
    <2>4. at[t] = "reset" => task[t] \in Task
        BY DEF Places, PlaceOf, Task
    <2> QED BY <1>0, <1>7, <2>1, <2>2, <2>3, <2>4
<1> QED BY <1>1, <1>3, <1>4, <1>5, <1>6, <1>9, <1>10, <1>11 DEF Next, Loop, Step

-----------------------------------------------------------------------------
(* The state file and the contract.                                          *)

\* A step of a thread that is not at a reset or behind one, and what the loop and
\* pi's runs do, leave the reset threads alone.
Aside ==
    /\ UNCHANGED <<saved, unsure>>
    /\ \A u \in Thread : at[u] \in {"reset", "save"} => at'[u] = at[u] /\ answer'[u] = answer[u]

\* The others are a reset's own steps, a time-out and pi's reading.
LEMMA AsideSteps ==
    ASSUME TypeOK, [Next]_vars
    PROVE  \/ Aside \/ PiTakes
           \/ \E t \in Thread : TimesOut(t) \/ ResetAnswered(t) \/ AfterNewSession(t)
<1> USE DEF threads, flags, session, idling, channel, piVars
<1>0. /\ at \in [Thread -> {"rest", "compose", "submit", "settle", "next", "ask", "state", "reset", "save"}]
      /\ answer \in [Thread -> Answer \union {"none"}]
    BY DEF TypeOK
<1>1. CASE UNCHANGED vars \/ Loop \/ PiPreflight \/ PiRuns \/ Alarm \/ Elapse
    <2>1. UNCHANGED <<at, answer, saved, unsure>>
        BY <1>1 DEF vars, Loop, HandleResponse, HandleStart, HandleSettled, HandleHeartbeat, Handle,
            FlushHeartbeats, FireHeartbeat, PiPreflight, PiRuns, Alarm, Elapse
    <2> QED BY <2>1 DEF Aside
<1>2. CASE Arrive \/ Recover \/ Tick
    <2>1. UNCHANGED <<saved, unsure>> /\ \E t \in Thread, what \in Task : Begins(t, what)
        BY <1>2, SessionAssumption DEF Arrive, Recover, Tick, Thread, Task
    <2> QED BY <1>0, <2>1 DEF Begins, Goes, Aside
<1>3. ASSUME NEW t \in Thread, Compose(t) \/ Submit(t) \/ NewBegins(t) \/ AskReset(t) PROVE Aside
    <2>1. UNCHANGED <<saved, unsure>> /\ at[t] \in {"compose", "submit", "settle", "ask"}
        BY <1>3 DEF Compose, Submit, NewBegins, AskReset
    <2>2. \A u \in Thread \ {t} : at'[u] = at[u] /\ answer'[u] = answer[u]
        BY <1>0, <1>3 DEF Compose, Submit, NewBegins, AskReset, Goes, Asks, Ends
    <2> QED BY <2>1, <2>2 DEF Aside
<1>4. ASSUME NEW t \in Thread, NextBegins(t) \/ StateAnswered(t) PROVE Aside
    <2>1. UNCHANGED <<saved, unsure>> /\ at[t] \in {"next", "state"}
        BY <1>4 DEF NextBegins, StateAnswered
    <2>2. \A u \in Thread \ {t} : at'[u] = at[u] /\ answer'[u] = answer[u]
        BY <1>0, <1>4 DEF NextBegins, StateAnswered, Goes, Asks, Ends, Stop
    <2> QED BY <2>1, <2>2 DEF Aside
<1> QED BY <1>1, <1>2, <1>3, <1>4 DEF Next, Step

\* What the threads at a reset see when pi reads a command: its sender learns of
\* a new session, and nobody else does.
LEMMA TakesFacts ==
    ASSUME TypeOK, Asked, PiTakes
    PROVE  /\ UNCHANGED <<at, unsure>>
           /\ \A u \in Thread : WillReseed(u) => WillReseed(u)'
           /\ \/ UNCHANGED <<saved, contract>> /\ \A u \in Thread : WillSave(u) => WillSave(u)'
              \/ saved' = FALSE /\ contract' = FALSE
                 /\ (unsure \/ \E t \in Thread : at[t] = "reset" /\ answer'[t] = "ok")
<1>1. UNCHANGED <<at, unsure>> /\ stdin # <<>> /\ EntryOK(Head(stdin))
    BY DEF PiTakes, PiReads, Asked, TypeOK
<1>2. \/ UNCHANGED <<saved, contract, answer>>
      \/ Head(stdin).what = "get_state" /\ UNCHANGED <<saved, contract>>
            /\ (Replies("idle") \/ Replies("active"))
      \/ Head(stdin).what = "new_session" /\ UNCHANGED <<saved, contract>>
            /\ (Replies("no") \/ Replies("cancelled"))
      \/ Head(stdin).what = "new_session" /\ Replies("ok") /\ saved' = FALSE /\ contract' = FALSE
    BY DEF PiTakes
<1>3. CASE UNCHANGED <<saved, contract, answer>>
    BY <1>1, <1>3 DEF WillSave, WillReseed
<1>4. CASE Head(stdin).what = "get_state" /\ UNCHANGED <<saved, contract>>
            /\ (Replies("idle") \/ Replies("active"))
    <2>1. \A u \in Thread : answer'[u] = answer[u]
              \/ (u = Head(stdin).by /\ answer[u] = "none" /\ at[u] \in {"state", "save"}
                  /\ answer'[u] \in {"idle", "active"})
        BY <1>1, <1>4 DEF Replies, EntryOK
    <2> QED BY <1>1, <1>4, <2>1 DEF WillSave, WillReseed
<1>5. CASE Head(stdin).what = "new_session" /\ UNCHANGED <<saved, contract>>
            /\ (Replies("no") \/ Replies("cancelled"))
    <2>1. \A u \in Thread : answer'[u] = answer[u]
              \/ (u = Head(stdin).by /\ answer[u] = "none" /\ at[u] = "reset")
        BY <1>1, <1>5 DEF Replies, EntryOK
    <2> QED BY <1>1, <1>5, <2>1 DEF WillSave, WillReseed
<1>6. CASE Head(stdin).what = "new_session" /\ Replies("ok") /\ saved' = FALSE /\ contract' = FALSE
    <2>1. \A u \in Thread : answer[u] = "ok" => answer'[u] = "ok"
        BY <1>6 DEF Replies
    <2>2. Head(stdin).by \in Thread
              => at[Head(stdin).by] = "reset" /\ answer'[Head(stdin).by] = "ok"
        BY <1>1, <1>6 DEF Replies, EntryOK
    <2>3. Head(stdin).by \notin Thread => unsure
        BY <1>1, <1>6 DEF EntryOK
    <2> QED BY <1>1, <1>6, <2>1, <2>2, <2>3 DEF WillReseed
<1> QED BY <1>2, <1>3, <1>4, <1>5, <1>6

\* A thread that took a new session looks it up, unless a request was given up on.
LEMMA SavingStep ==
    ASSUME TypeOK, Asked, Saving, [Next]_vars
    PROVE  Saving'
<1> USE DEF threads, flags, session, idling, channel, piVars
<1>0. /\ at \in [Thread -> {"rest", "compose", "submit", "settle", "next", "ask", "state", "reset", "save"}]
      /\ answer \in [Thread -> Answer \union {"none"}] /\ saved \in BOOLEAN /\ unsure \in BOOLEAN
    BY DEF TypeOK
<1>1. CASE Aside
    BY <1>1 DEF Aside, Saving, WillSave
<1>2. CASE PiTakes
    <2>1. \/ saved' = saved /\ \A u \in Thread : WillSave(u) => WillSave(u)'
          \/ unsure \/ \E t \in Thread : at[t] = "reset" /\ answer'[t] = "ok"
        BY <1>2, TakesFacts
    <2>2. UNCHANGED <<at, unsure>>
        BY <1>2, TakesFacts
    <2>3. CASE saved' = saved /\ \A u \in Thread : WillSave(u) => WillSave(u)'
        BY <2>2, <2>3 DEF Saving
    <2>4. CASE unsure \/ \E t \in Thread : at[t] = "reset" /\ answer'[t] = "ok"
        BY <2>2, <2>4 DEF Saving, WillSave
    <2> QED BY <2>1, <2>3, <2>4
<1>3. ASSUME NEW t \in Thread, TimesOut(t) PROVE Saving'
    <2>1. /\ UNCHANGED <<saved, at>> /\ unsure' = (unsure \/ at[t] # "state")
          /\ \A u \in Thread \ {t} : answer'[u] = answer[u]
        BY <1>0, <1>3 DEF TimesOut
    <2> QED BY <2>1 DEF Saving, WillSave
<1>4. ASSUME NEW t \in Thread, ResetAnswered(t) PROVE Saving'
    <2>1. UNCHANGED <<saved, unsure>> /\ at[t] = "reset"
        BY <1>4 DEF ResetAnswered
    <2>2. \A u \in Thread \ {t} : at'[u] = at[u] /\ answer'[u] = answer[u]
        BY <1>0, <1>4 DEF ResetAnswered, Goes, Asks, Stop, Ends
    <2>3. answer[t] = "ok" => at'[t] = "save" /\ answer'[t] = "none"
        BY <1>0, <1>4 DEF ResetAnswered, Goes, Asks, Fresh
    <2> QED BY <2>1, <2>2, <2>3 DEF Saving, WillSave
<1>5. ASSUME NEW t \in Thread, AfterNewSession(t) PROVE Saving'
    <2>1. /\ unsure' = unsure /\ at[t] = "save" /\ answer[t] # "none"
          /\ saved' = (saved \/ answer[t] \in {"active", "idle"})
        BY <1>5 DEF AfterNewSession
    <2>2. \A u \in Thread \ {t} : at'[u] = at[u] /\ answer'[u] = answer[u]
        BY <1>0, <1>5 DEF AfterNewSession, Goes, Stop, Ends
    <2> QED BY <2>1, <2>2 DEF Saving, WillSave
<1> QED BY <1>1, <1>2, <1>3, <1>4, <1>5, AsideSteps

\* The contract is brought, in a prompt that brings it, or to be made due again.
Brought ==
    \/ contract \/ astray \/ unsure \/ preflight.seed
    \/ \E i \in DOMAIN stdin : stdin[i].seed
    \/ \E t \in Thread : carries[t] \/ WillReseed(t)

\* A prompt that carries the contract is written or turned away.
LEMMA SubmitsFacts ==
    ASSUME stdin \in Seq(PiCommand), NEW s \in BOOLEAN, Submits(s)
    PROVE  /\ \A i \in DOMAIN stdin : i \in DOMAIN stdin' /\ stdin'[i] = stdin[i]
           /\ s => astray' \/ \E i \in DOMAIN stdin' : stdin'[i].seed
           /\ astray => astray'
<1>1. CASE pending' = pending + 1 /\ stdin' = Append(stdin, Prompt(s)) /\ UNCHANGED astray
    <2>1. Prompt(s) \in PiCommand /\ Prompt(s).seed = s
        BY CommandFacts DEF Prompts
    <2>2. /\ \A i \in DOMAIN stdin : i \in DOMAIN stdin' /\ stdin'[i] = stdin[i]
          /\ Len(stdin) + 1 \in DOMAIN stdin' /\ stdin'[Len(stdin) + 1] = Prompt(s)
        BY <1>1, <2>1
    <2> QED BY <1>1, <2>1, <2>2
<1>2. CASE astray' = (astray \/ s) /\ UNCHANGED stdin
    BY <1>2
<1> QED BY <1>1, <1>2 DEF Submits

\* The contract is in the session, on its way, or made due again with the reset.
LEMMA ContractedStep ==
    ASSUME TypeOK, Places, Asked, Contracted, [Next]_vars
    PROVE  Contracted'
<1> USE DEF threads, flags, session, idling, channel, piVars
<1>0. /\ at \in [Thread -> {"rest", "compose", "submit", "settle", "next", "ask", "state", "reset", "save"}]
      /\ answer \in [Thread -> Answer \union {"none"}] /\ carries \in [Thread -> BOOLEAN]
      /\ stdin \in Seq(PiCommand) /\ seeded \in BOOLEAN /\ contract \in BOOLEAN
      /\ astray \in BOOLEAN /\ unsure \in BOOLEAN
    BY DEF TypeOK
<1>1. seeded => Brought
    BY DEF Contracted, Brought
<1>2. SUFFICES seeded' => Brought'
    BY DEF Contracted, Brought
<1>3. ASSUME seeded' => seeded, contract => contract', astray => astray', unsure => unsure',
             preflight' = preflight,
             \A i \in DOMAIN stdin : i \in DOMAIN stdin' /\ stdin'[i].seed = stdin[i].seed,
             \A t \in Thread : carries[t] => carries'[t],
             \A t \in Thread : WillReseed(t) => WillReseed(t)'
      PROVE  seeded' => Brought'
    BY <1>1, <1>3 DEF Brought
<1>4. CASE UNCHANGED vars \/ HandleResponse \/ HandleStart \/ HandleSettled \/ HandleHeartbeat
           \/ FlushHeartbeats \/ PiRuns \/ Alarm \/ Elapse
    <2>1. UNCHANGED <<seeded, contract, astray, unsure, preflight, stdin, carries, at, answer>>
        BY <1>4 DEF vars, HandleResponse, HandleStart, HandleSettled, HandleHeartbeat, Handle,
            FlushHeartbeats, PiRuns, Alarm, Elapse
    <2> QED BY <1>3, <2>1 DEF WillReseed
<1>5. CASE FireHeartbeat
    <2>1. Submits(FALSE) /\ UNCHANGED <<seeded, contract, unsure, preflight, carries, at, answer>>
        BY <1>5 DEF FireHeartbeat
    <2> QED BY <1>0, <1>3, <2>1, SubmitsFacts DEF WillReseed
<1>6. CASE Arrive \/ Recover \/ Tick
    <2>1. /\ UNCHANGED <<seeded, contract, astray, unsure, preflight, stdin, carries>>
          /\ \E t \in Thread, what \in Task : Begins(t, what)
        BY <1>6, SessionAssumption DEF Arrive, Recover, Tick, Begins, Thread, Task
    <2>2. \A t \in Thread : WillReseed(t) => WillReseed(t)'
        BY <1>0, <2>1 DEF Begins, Goes, WillReseed
    <2> QED BY <1>3, <2>1, <2>2
<1>7. CASE PiPreflight
    <2>1. UNCHANGED <<seeded, unsure, stdin, carries, at, answer>>
        BY <1>7 DEF PiPreflight
    <2>2. \/ contract' = (contract \/ preflight.seed) /\ astray' = astray
          \/ astray' = (astray \/ preflight.seed) /\ contract' = contract
        BY <1>7 DEF PiPreflight
    <2>3. preflight.seed \in BOOLEAN
        BY DEF TypeOK, PiCommand
    <2>4. CASE contract \/ astray \/ preflight.seed
        <3>1. contract' \/ astray'
            BY <1>0, <2>2, <2>3, <2>4
        <3> QED BY <3>1 DEF Brought
    <2>5. CASE ~(contract \/ astray \/ preflight.seed)
        BY <1>1, <2>1, <2>5 DEF Brought, WillReseed
    <2> QED BY <2>4, <2>5
<1>8. CASE PiTakes
    <2>1. UNCHANGED <<seeded, astray, unsure, carries, at>> /\ stdin # <<>> /\ stdin' = Tail(stdin)
        BY <1>8 DEF PiTakes, PiReads
    <2>2. \/ UNCHANGED contract
          \/ unsure \/ \E t \in Thread : at[t] = "reset" /\ answer'[t] = "ok"
        BY <1>8, TakesFacts
    <2>3. \A t \in Thread : WillReseed(t) => WillReseed(t)'
        BY <1>8, TakesFacts
    <2>4. /\ \A i \in DOMAIN stdin : i = 1 \/ (i - 1 \in DOMAIN stdin' /\ stdin'[i - 1] = stdin[i])
          /\ Head(stdin) = stdin[1] /\ 1 \in DOMAIN stdin
        <3>1. /\ DOMAIN stdin = 1..Len(stdin) /\ DOMAIN stdin' = 1..(Len(stdin) - 1)
              /\ Len(stdin) \in Nat \ {0}
              /\ \A k \in 1..(Len(stdin) - 1) : stdin'[k] = stdin[k + 1]
              /\ Head(stdin) = stdin[1]
            BY <1>0, <2>1
        <3>2. ASSUME NEW i \in 1..Len(stdin), i # 1
              PROVE  i - 1 \in 1..(Len(stdin) - 1) /\ (i - 1) + 1 = i
            BY <3>1, <3>2
        <3> QED BY <3>1, <3>2
    <2>5. EntryOK(stdin[1])
        BY <2>4 DEF Asked
    <2>6. /\ stdin[1].seed => preflight'.seed
          /\ preflight.seed => preflight'.seed
        <3>1. \/ stdin[1].what = "prompt" /\ preflight = None /\ preflight' = stdin[1]
              \/ stdin[1].what # "prompt" /\ preflight' = preflight
            BY <1>8, <2>4 DEF PiTakes, PiReads
        <3> QED BY <2>5, <3>1, CommandFacts DEF EntryOK
    <2>7. CASE unsure \/ \E t \in Thread : at[t] = "reset" /\ answer'[t] = "ok"
        BY <2>1, <2>7 DEF Brought, WillReseed
    <2>8. CASE UNCHANGED contract
        BY <1>1, <2>1, <2>3, <2>4, <2>6, <2>8 DEF Brought
    <2> QED BY <2>2, <2>7, <2>8
<1>9. ASSUME NEW t \in Thread, TimesOut(t) PROVE seeded' => Brought'
    <2>1. UNCHANGED <<seeded, contract, astray, preflight, carries, at>>
          /\ unsure' = (unsure \/ at[t] # "state")
          /\ answer' = [answer EXCEPT ![t] = "failed"]
        BY <1>9 DEF TimesOut
    <2>2. \A i \in DOMAIN stdin : i \in DOMAIN stdin' /\ stdin'[i].seed = stdin[i].seed
        BY <1>0, <1>9, GivenUpFacts DEF TimesOut
    <2>3. CASE at[t] = "state"
        <3>1. \A u \in Thread : WillReseed(u) => WillReseed(u)'
            BY <1>0, <2>1, <2>3 DEF WillReseed
        <3> QED BY <1>3, <2>1, <2>2, <3>1
    <2>4. CASE at[t] # "state"
        BY <2>1, <2>4 DEF Brought
    <2> QED BY <2>3, <2>4
<1>10. ASSUME NEW t \in Thread, Compose(t) PROVE seeded' => Brought'
    <2>1. /\ at[t] = "compose" /\ at' = [at EXCEPT ![t] = "submit"]
          /\ carries' = [carries EXCEPT ![t] = ~seeded]
          /\ UNCHANGED <<contract, astray, unsure, preflight, stdin, answer>>
        BY <1>10 DEF Compose, Goes
    <2>2. CASE ~seeded
        BY <1>0, <2>1, <2>2 DEF Brought
    <2>3. CASE seeded
        <3>1. ~carries[t] /\ ~WillReseed(t)
            BY <2>1 DEF Places, PlaceOf, WillReseed
        <3>2. \A u \in Thread : /\ carries[u] => carries'[u]
                                /\ WillReseed(u) => WillReseed(u)'
            BY <1>0, <2>1, <3>1 DEF WillReseed
        <3> QED BY <1>3, <2>1, <2>3, <3>2
    <2> QED BY <2>2, <2>3
<1>11. ASSUME NEW t \in Thread, Ends(t)
       PROVE  \A u \in Thread \ {t} : carries'[u] = carries[u] /\ at'[u] = at[u] /\ answer'[u] = answer[u]
    BY <1>0, <1>11 DEF Ends, Goes
<1>12. ASSUME NEW t \in Thread, Submit(t) PROVE seeded' => Brought'
    <2>1. /\ at[t] = "submit" /\ Submits(carries[t]) /\ Ends(t)
          /\ UNCHANGED <<seeded, contract, unsure, preflight>>
        BY <1>12 DEF Submit
    <2>2. carries[t] \in BOOLEAN
        BY <1>0
    <2>3. /\ \A i \in DOMAIN stdin : i \in DOMAIN stdin' /\ stdin'[i] = stdin[i]
          /\ carries[t] => astray' \/ \E i \in DOMAIN stdin' : stdin'[i].seed
          /\ astray => astray'
        BY <1>0, <2>1, <2>2, SubmitsFacts
    <2>4. \A u \in Thread : WillReseed(u) => WillReseed(u)'
        BY <1>11, <2>1 DEF WillReseed
    <2>5. \A u \in Thread \ {t} : carries'[u] = carries[u]
        BY <1>11, <2>1
    <2> QED BY <1>1, <2>1, <2>3, <2>4, <2>5 DEF Brought
<1>13. ASSUME NEW t \in Thread,
              NewBegins(t) \/ NextBegins(t) \/ StateAnswered(t) \/ AskReset(t) \/ ResetAnswered(t)
       PROVE  seeded' => Brought'
    <2>1. /\ UNCHANGED <<seeded, contract, astray, unsure, preflight>> /\ ~carries[t]
        BY <1>13 DEF NewBegins, NextBegins, StateAnswered, AskReset, ResetAnswered, Places, PlaceOf
    <2>2. stdin' = stdin \/ \E c \in PiCommand : stdin' = Append(stdin, c)
        <3>1. \/ stdin' = stdin
              \/ stdin' = Append(stdin, Command("abort", Nobody, "new"))
              \/ at[t] \in {"next", "ask", "reset"} /\ \E what \in {"get_state", "new_session"} :
                     stdin' = Append(stdin, Command(what, t, task[t]))
            BY <1>13 DEF NewBegins, NextBegins, StateAnswered, AskReset, ResetAnswered, Asks
        <3>2. at[t] \in {"next", "ask", "reset"} => task[t] \in Task
            BY DEF Places, PlaceOf, Task
        <3> QED BY <3>1, <3>2, CommandFacts DEF Task
    <2>3. \A i \in DOMAIN stdin : i \in DOMAIN stdin' /\ stdin'[i].seed = stdin[i].seed
        BY <1>0, <2>2
    <2>4. \A u \in Thread \ {t} : carries'[u] = carries[u] /\ at'[u] = at[u] /\ answer'[u] = answer[u]
        BY <1>0, <1>11, <1>13 DEF NewBegins, NextBegins, StateAnswered, AskReset, ResetAnswered, Goes,
            Asks, Stop
    <2>5. WillReseed(t) => WillReseed(t)'
        <3>1. WillReseed(t) => ResetAnswered(t)
            BY <1>13 DEF NewBegins, NextBegins, StateAnswered, AskReset, WillReseed
        <3>2. ResetAnswered(t) => at[t] = "reset"
            BY DEF ResetAnswered
        <3>3. ResetAnswered(t) /\ answer[t] = "ok" => at' = [at EXCEPT ![t] = "save"]
            BY DEF ResetAnswered, Goes, Fresh
        <3> QED BY <1>0, <3>1, <3>2, <3>3 DEF WillReseed
    <2> QED BY <1>3, <2>1, <2>3, <2>4, <2>5 DEF WillReseed
<1>14. ASSUME NEW t \in Thread, AfterNewSession(t) PROVE seeded' => Brought'
    BY <1>14 DEF AfterNewSession
<1> QED BY <1>4, <1>5, <1>6, <1>7, <1>8, <1>9, <1>10, <1>12, <1>13, <1>14 DEF Next, Loop, Step

-----------------------------------------------------------------------------
(* Types, and what follows.                                                  *)

\* The flags of the bridge and of pi, the clock and the bounds.
FlagTypes ==
    /\ nextTransition \in BOOLEAN /\ streaming \in BOOLEAN /\ settling \in BOOLEAN
    /\ seeded \in BOOLEAN /\ saved \in BOOLEAN /\ away \in BOOLEAN
    /\ contract \in BOOLEAN /\ astray \in BOOLEAN /\ unsure \in BOOLEAN
CountTypes ==
    /\ synthetic \in {0, 1} /\ beats \in Nat /\ left \in 0..MaxStanzas /\ alarms \in 0..MaxBeats
PlaceTypes ==
    /\ clock \in {"active", "idle", "due"} /\ loop \in {"events", "settle", "fire"}
    /\ run \in {"idle", "starting", "run"}

\* A flag is set, cleared, or decided by a test.
LEMMA FlagStep ==
    ASSUME FlagTypes, [Next]_vars
    PROVE  FlagTypes'
<1> USE DEF threads, flags, session, idling, channel, piVars, FlagTypes
<1>1. CASE UNCHANGED vars \/ Arrive \/ Recover \/ Tick \/ PiRuns \/ Alarm \/ Elapse
    <2>1. /\ UNCHANGED <<nextTransition, streaming, settling, seeded, saved, contract, astray, unsure>>
          /\ away' \in {away, FALSE}
        BY <1>1 DEF vars, Arrive, Recover, Tick, PiRuns, Alarm, Elapse
    <2> QED BY <2>1
<1>2. CASE Loop
    <2>1. /\ UNCHANGED <<nextTransition, seeded, saved, contract, unsure>>
          /\ streaming' \in {streaming, TRUE, FALSE} /\ settling' \in {settling, TRUE, FALSE}
          /\ away' \in {away, FALSE} /\ (astray' = astray \/ astray' = (astray \/ FALSE))
        BY <1>2 DEF Loop, HandleResponse, HandleStart, HandleSettled, HandleHeartbeat, Handle,
            FlushHeartbeats, FireHeartbeat, Submits
    <2> QED BY <2>1
<1>3. CASE PiTakes
    <2>1. /\ UNCHANGED <<nextTransition, streaming, settling, seeded, away, astray, unsure>>
          /\ saved' \in {saved, FALSE} /\ contract' \in {contract, FALSE}
        BY <1>3 DEF PiTakes, PiReads
    <2> QED BY <2>1
<1>4. CASE PiPreflight
    <2>1. /\ UNCHANGED <<nextTransition, streaming, settling, seeded, saved, away, unsure>>
          /\ contract' = contract \/ contract' = (contract \/ preflight.seed)
          /\ astray' = astray \/ astray' = (astray \/ preflight.seed)
        BY <1>4 DEF PiPreflight
    <2> QED BY <2>1
<1>5. ASSUME NEW t \in Thread, Step(t) \/ TimesOut(t) PROVE FlagTypes'
    <2>1. UNCHANGED <<contract, settling>>
        BY <1>5 DEF Step, TimesOut, Compose, Submit, NewBegins, NextBegins, StateAnswered, AskReset,
            ResetAnswered, AfterNewSession
    <2>2. /\ streaming' \in {streaming, FALSE} /\ seeded' \in {seeded, TRUE, FALSE}
          /\ \/ nextTransition' \in {nextTransition, TRUE}
             \/ nextTransition' = (nextTransition /\ task[t] # "next")
        BY <1>5 DEF Step, TimesOut, Compose, Submit, NewBegins, NextBegins, StateAnswered, AskReset,
            ResetAnswered, AfterNewSession, SettleLocally, Stop
    <2>3. /\ saved' = saved \/ saved' = (saved \/ answer[t] \in {"active", "idle"})
          /\ away' = away \/ away' = (away \/ task[t] = "away")
          /\ astray' = astray \/ astray' = (astray \/ carries[t])
          /\ unsure' = unsure \/ unsure' = (unsure \/ at[t] # "state")
        BY <1>5 DEF Step, TimesOut, Compose, Submit, Submits, NewBegins, NextBegins, StateAnswered,
            AskReset, ResetAnswered, AfterNewSession
    <2>4. nextTransition' \in BOOLEAN
        BY <2>2
    <2>5. saved' \in BOOLEAN
        BY <2>3
    <2>6. away' \in BOOLEAN
        BY <2>3
    <2>7. astray' \in BOOLEAN
        BY <2>3
    <2>8. unsure' \in BOOLEAN
        BY <2>3
    <2>9. streaming' \in BOOLEAN /\ seeded' \in BOOLEAN /\ contract' \in BOOLEAN /\ settling' \in BOOLEAN
        BY <2>1, <2>2
    <2> QED BY <2>4, <2>5, <2>6, <2>7, <2>8, <2>9
<1> QED BY <1>1, <1>2, <1>3, <1>4, <1>5 DEF Next

\* Stanzas and heartbeats come within their bounds, and queued heartbeats are
\* taken one at a time.
LEMMA CountStep ==
    ASSUME CountTypes, [Next]_vars
    PROVE  CountTypes'
<1> USE DEF threads, flags, session, idling, channel, piVars, CountTypes
<1>0. MaxStanzas \in Nat /\ MaxBeats \in Nat
    BY SessionAssumption
<1>1. \/ UNCHANGED <<beats, left, alarms>> /\ synthetic' \in {synthetic, 0, 1}
      \/ UNCHANGED <<left, alarms, synthetic>> /\ beats' = beats + 1
      \/ UNCHANGED <<left, alarms>> /\ beats > 0 /\ beats' = beats - 1 /\ synthetic' = 1
      \/ UNCHANGED <<beats, alarms, synthetic>> /\ left > 0 /\ left' = left - 1
      \/ UNCHANGED <<beats, left, synthetic>> /\ alarms < MaxBeats /\ alarms' = alarms + 1
    <2>1. CASE UNCHANGED vars \/ Arrive \/ Recover \/ Tick \/ PiRuns \/ Alarm \/ Elapse \/ PiTakes
               \/ PiPreflight
        BY <2>1 DEF vars, Arrive, Recover, Tick, PiRuns, Alarm, Elapse, PiTakes, PiReads, PiPreflight
    <2>2. CASE Loop
        BY <2>2 DEF Loop, HandleResponse, HandleStart, HandleSettled, HandleHeartbeat, Handle,
            FlushHeartbeats, FireHeartbeat
    <2>3. ASSUME NEW t \in Thread, Step(t) \/ TimesOut(t) PROVE UNCHANGED <<synthetic, beats, left, alarms>>
        BY <2>3 DEF Step, TimesOut, Compose, Submit, NewBegins, NextBegins, StateAnswered, AskReset,
            ResetAnswered, AfterNewSession
    <2> QED BY <2>1, <2>2, <2>3 DEF Next
<1> QED BY <1>0, <1>1

\* The clock, the event loop and pi's run have their few places.
LEMMA PlaceTypesStep ==
    ASSUME PlaceTypes, [Next]_vars
    PROVE  PlaceTypes'
<1> USE DEF threads, flags, session, idling, channel, piVars, PlaceTypes
<1>1. CASE UNCHANGED vars \/ Arrive \/ Recover \/ Tick \/ PiRuns \/ Alarm \/ Elapse \/ PiTakes
           \/ PiPreflight
    <2>1. /\ loop' = loop /\ clock' \in {clock, "idle", "due"}
          /\ run' \in {run, "idle", "starting", "run"}
        BY <1>1 DEF vars, Arrive, Recover, Tick, PiRuns, Alarm, Elapse, PiTakes, PiReads, PiPreflight
    <2> QED BY <2>1
<1>2. CASE Loop
    <2>1. /\ run' = run /\ clock' \in {clock, "idle", "active"}
          /\ loop' \in {loop, "events", "settle", "fire"}
        BY <1>2 DEF Loop, HandleResponse, HandleStart, HandleSettled, HandleHeartbeat, Handle,
            FlushHeartbeats, FireHeartbeat
    <2> QED BY <2>1
<1>3. ASSUME NEW t \in Thread, Step(t) \/ TimesOut(t) PROVE PlaceTypes'
    <2>1. UNCHANGED <<loop, run>> /\ clock' \in {clock, "idle"}
        BY <1>3 DEF Step, TimesOut, Compose, Submit, NewBegins, NextBegins, StateAnswered, AskReset,
            ResetAnswered, AfterNewSession, SettleLocally
    <2> QED BY <2>1
<1> QED BY <1>1, <1>2, <1>3 DEF Next

\* Nobody is at anything at the start, and the session is the one on file.
LEMMA InitInv == Init => IInv
<1> SUFFICES ASSUME Init PROVE IInv
    OBVIOUS
<1>1. stdin = <<>> /\ events = <<>> /\ <<>> \in Seq(PiCommand) /\ <<>> \in Seq(AnEvent)
      /\ DOMAIN <<>> = {}
    BY DEF Init
<1>2. ThreadTypes /\ Places
    BY DEF Init, ThreadTypes, Places, PlaceOf
<1>3. FlagTypes /\ PlaceTypes
    BY DEF Init, FlagTypes, PlaceTypes
<1>4. CountTypes /\ pending \in Nat
    BY SessionAssumption DEF Init, CountTypes
<1>5. preflight \in PiCommand
    BY CommandFacts DEF Init
<1>6. TypeOK
    BY <1>1, <1>2, <1>3, <1>4, <1>5 DEF TypeOK, ThreadTypes, FlagTypes, PlaceTypes, CountTypes, AnEvent
<1>7. Hits(stdin, Prompts) = {} /\ Hits(events, Responses) = {}
    BY <1>1 DEF Hits
<1>8. pending = 0 /\ One(preflight # None) = 0 /\ Cardinality({}) = 0
    BY FS_EmptySet DEF Init, One
<1>9. PendingIsExact
    BY <1>7, <1>8 DEF PendingIsExact
<1>10. Asked
    BY <1>1 DEF Asked
<1>11. Saving /\ Contracted
    BY DEF Init, Saving, Contracted
<1> QED BY <1>2, <1>6, <1>9, <1>10, <1>11 DEF IInv

\* The conjuncts keep each other.
LEMMA StepInv == IInv /\ [Next]_vars => IInv'
<1> SUFFICES ASSUME IInv, [Next]_vars PROVE IInv'
    OBVIOUS
<1>1. TypeOK /\ PendingIsExact /\ Places /\ Asked /\ Saving /\ Contracted
    BY DEF IInv
<1>2. ThreadTypes /\ FlagTypes /\ CountTypes /\ PlaceTypes /\ stdin \in Seq(PiCommand)
    BY <1>1 DEF TypeOK, ThreadTypes, FlagTypes, CountTypes, PlaceTypes
<1>3. ThreadTypes' /\ Places'
    BY <1>1, <1>2, PlacesStep
<1>4. FlagTypes' /\ CountTypes' /\ PlaceTypes'
    BY <1>2, FlagStep, CountStep, PlaceTypesStep
<1>5. /\ PendingIsExact'
      /\ pending' \in Nat /\ stdin' \in Seq(PiCommand) /\ preflight' \in PiCommand
      /\ events' \in Seq(AnEvent)
    BY <1>1, ExactStep
<1>6. TypeOK'
    BY <1>3, <1>4, <1>5 DEF TypeOK, ThreadTypes, FlagTypes, CountTypes, PlaceTypes, AnEvent
<1>7. Asked' /\ Saving' /\ Contracted'
    BY <1>1, AskedStep, SavingStep, ContractedStep
<1> QED BY <1>3, <1>5, <1>6, <1>7 DEF IInv

\* Every variable keeps its type; the prompts that are pending are never counted
\* below zero, whatever is turned away, rejected or given up on.
THEOREM TypeCorrect == Spec => []TypeOK
<1>1. IInv => TypeOK
    BY DEF IInv
<1> QED BY InitInv, StepInv, <1>1, PTL DEF Spec

\* Between transitions the state file names the session pi is in, so that a
\* restart resumes it, unless a request was given up on (bridge.go:426-428).
THEOREM SavedCurrent == Spec => []SavedIsCurrent
<1>1. IInv => SavedIsCurrent
    BY DEF IInv, Places, PlaceOf, Saving, WillSave, SavedIsCurrent, InTransition
<1> QED BY InitInv, StepInv, <1>1, PTL DEF Spec

\* A session that counts as seeded holds the contract, or a prompt that brings it
\* is on its way, unless that prompt was turned away or a reset was given up on
\* (bridge.go:2283-2286).
THEOREM ContractIsKept == Spec => []ContractKept
<1>1. IInv => ContractKept
    BY DEF IInv, Places, PlaceOf, Contracted, WillReseed, ContractKept, InTransition
<1> QED BY InitInv, StepInv, <1>1, PTL DEF Spec

-----------------------------------------------------------------------------
(* What a /next spares.                                                      *)

\* No message is on its way to a run, and none in its preflight.
NoPrompt == preflight = None /\ \A i \in DOMAIN stdin : stdin[i].what # "prompt"

\* Only the reader has a /next at hand, as recovered messages hold none.
Alone == \A t \in Thread : task[t] = "next" => t = "reader"

\* From the check that the bridge is at rest to the new_session, prompts are
\* turned away; once pi has said so, it is at rest too.
Turned ==
    task["reader"] = "next" /\ at["reader"] \in {"state", "ask"} =>
        /\ nextTransition /\ NoPrompt
        /\ at["reader"] = "ask" \/ answer["reader"] = "idle" => run = "idle"

NextInv == Alone /\ Turned /\ NextSparesWork

\* The ways a step changes the pipe to pi, its preflight and its run.
Still == UNCHANGED <<stdin, preflight>> /\ (run = "idle" => run' = "idle")
Ended == preflight # None /\ preflight' = None /\ stdin' = stdin
Writes ==
    /\ UNCHANGED <<preflight, run>>
    /\ \E c \in PiCommand :
          /\ stdin' = Append(stdin, c)
          /\ c.what = "prompt" => ~nextTransition
          /\ c.what = "new_session" => \E t \in Thread : at[t] = "ask" /\ c.for = task[t]
Forgets ==
    /\ UNCHANGED <<preflight, run>>
    /\ DOMAIN stdin' = DOMAIN stdin
    /\ \A i \in DOMAIN stdin : stdin'[i].what = stdin[i].what /\ stdin'[i].for = stdin[i].for

\* Every step is one of them, or pi reads.
LEMMA PipeMoves ==
    ASSUME TypeOK, Places, [Next]_vars
    PROVE  Still \/ Ended \/ Writes \/ Forgets \/ PiTakes
<1> USE DEF threads, flags, session, idling, channel, piVars
<1>0. /\ stdin \in Seq(PiCommand) /\ carries \in [Thread -> BOOLEAN]
    BY DEF TypeOK
<1>1. CASE UNCHANGED vars \/ Arrive \/ Recover \/ Tick \/ PiRuns \/ Alarm \/ Elapse
    BY <1>1 DEF vars, Arrive, Recover, Tick, PiRuns, Alarm, Elapse, Still
<1>2. CASE HandleResponse \/ HandleStart \/ HandleSettled \/ HandleHeartbeat \/ FlushHeartbeats
    BY <1>2 DEF HandleResponse, HandleStart, HandleSettled, HandleHeartbeat, Handle, FlushHeartbeats,
        Still
<1>3. ASSUME NEW s \in BOOLEAN, Submits(s), UNCHANGED <<preflight, run>> PROVE Still \/ Writes
    <2>1. stdin' = stdin \/ (stdin' = Append(stdin, Prompt(s)) /\ ~nextTransition)
        BY <1>3 DEF Submits
    <2>2. Prompt(s) \in PiCommand /\ Prompt(s).what # "new_session"
        BY CommandFacts DEF Prompts
    <2> QED BY <1>3, <2>1, <2>2 DEF Still, Writes
<1>4. CASE FireHeartbeat
    BY <1>3, <1>4 DEF FireHeartbeat
<1>5. CASE PiPreflight
    BY <1>5 DEF PiPreflight, Ended
<1>6. ASSUME NEW t \in Thread, TimesOut(t) PROVE Forgets
    <2>1. UNCHANGED <<preflight, run>>
          /\ stdin' = [i \in DOMAIN stdin |->
                          IF stdin[i].by = t THEN [stdin[i] EXCEPT !.by = Nobody] ELSE stdin[i]]
        BY <1>6 DEF TimesOut
    <2> QED BY <1>0, <2>1, GivenUpFacts DEF Forgets
<1>7. ASSUME NEW t \in Thread, Submit(t) PROVE Still \/ Writes
    <2>1. carries[t] \in BOOLEAN
        BY <1>0
    <2> QED BY <1>3, <1>7, <2>1 DEF Submit
<1>8. ASSUME NEW t \in Thread, Step(t), ~Submit(t) PROVE Still \/ Writes
    <2>1. UNCHANGED <<preflight, run>>
        BY <1>8 DEF Step, Compose, NewBegins, NextBegins, StateAnswered, AskReset, ResetAnswered,
            AfterNewSession
    <2>2. \/ stdin' = stdin
          \/ stdin' = Append(stdin, Command("abort", Nobody, "new"))
          \/ at[t] \in {"next", "reset"} /\ stdin' = Append(stdin, Command("get_state", t, task[t]))
          \/ at[t] = "ask" /\ stdin' = Append(stdin, Command("new_session", t, task[t]))
        BY <1>8 DEF Step, Compose, NewBegins, NextBegins, StateAnswered, AskReset, ResetAnswered,
            AfterNewSession, Asks
    <2>3. at[t] \in {"next", "ask", "reset"} => task[t] \in Task
        BY DEF Places, PlaceOf, Task
    <2>4. ASSUME NEW w \in {"abort", "get_state", "new_session"}, NEW u \in Thread \union {Nobody},
                 NEW f \in Task
          PROVE  Command(w, u, f) \in PiCommand /\ Command(w, u, f).what = w /\ Command(w, u, f).for = f
        BY CommandFacts DEF Command
    <2>5. CASE stdin' = stdin
        BY <2>1, <2>5 DEF Still
    <2>6. CASE stdin' = Append(stdin, Command("abort", Nobody, "new"))
        BY <2>1, <2>4, <2>6 DEF Writes, Task
    <2>7. CASE at[t] \in {"next", "reset"} /\ stdin' = Append(stdin, Command("get_state", t, task[t]))
        BY <2>1, <2>3, <2>4, <2>7 DEF Writes
    <2>8. CASE at[t] = "ask" /\ stdin' = Append(stdin, Command("new_session", t, task[t]))
        BY <2>1, <2>3, <2>4, <2>8 DEF Writes
    <2> QED BY <2>2, <2>5, <2>6, <2>7, <2>8
<1> QED BY <1>1, <1>2, <1>4, <1>5, <1>6, <1>7, <1>8 DEF Next, Loop

\* What a longer, a shorter pipe holds.
LEMMA PipeFacts ==
    ASSUME NEW q \in Seq(PiCommand)
    PROVE  /\ DOMAIN q = 1..Len(q) /\ Len(q) \in Nat
           /\ \A c \in PiCommand :
                 /\ DOMAIN Append(q, c) = 1..(Len(q) + 1)
                 /\ \A i \in 1..Len(q) : Append(q, c)[i] = q[i]
                 /\ Append(q, c)[Len(q) + 1] = c
           /\ q # <<>> =>
                 /\ Len(q) > 0 /\ Head(q) = q[1] /\ 1 \in DOMAIN q
                 /\ DOMAIN Tail(q) = 1..(Len(q) - 1)
                 /\ \A i \in 1..(Len(q) - 1) : Tail(q)[i] = q[i + 1] /\ i + 1 \in 1..Len(q)
OBVIOUS

\* While prompts are turned away, none comes to be pending, and pi stays at rest.
LEMMA NoPromptKept ==
    ASSUME TypeOK, Places, nextTransition, NoPrompt, [Next]_vars
    PROVE  NoPrompt' /\ (run = "idle" => run' = "idle")
<1>0. stdin \in Seq(PiCommand)
    BY DEF TypeOK
<1>1. CASE Still
    BY <1>1 DEF Still, NoPrompt
<1>2. CASE Ended
    BY <1>2 DEF Ended, NoPrompt
<1>3. CASE Writes
    <2>1. PICK c \in PiCommand : stdin' = Append(stdin, c) /\ c.what # "prompt"
        BY <1>3 DEF Writes
    <2>2. UNCHANGED <<preflight, run>>
        BY <1>3 DEF Writes
    <2>3. ASSUME NEW i \in DOMAIN stdin' PROVE stdin'[i].what # "prompt"
        <3>1. i \in 1..Len(stdin) \/ i = Len(stdin) + 1
            BY <1>0, <2>1, PipeFacts
        <3> QED BY <1>0, <2>1, <3>1, PipeFacts DEF NoPrompt
    <2> QED BY <2>2, <2>3 DEF NoPrompt
<1>4. CASE Forgets
    BY <1>4 DEF Forgets, NoPrompt
<1>5. CASE PiTakes
    <2>1. stdin # <<>> /\ stdin' = Tail(stdin)
        BY <1>5 DEF PiTakes, PiReads
    <2>2. Head(stdin).what # "prompt"
        BY <1>0, <2>1, PipeFacts DEF NoPrompt
    <2>3. preflight' = preflight /\ (run = "idle" => run' = "idle")
        BY <1>5, <2>2 DEF PiTakes
    <2>4. \A i \in DOMAIN stdin' : stdin'[i].what # "prompt"
        BY <1>0, <2>1, PipeFacts DEF NoPrompt
    <2> QED BY <2>3, <2>4 DEF NoPrompt
<1> QED BY <1>1, <1>2, <1>3, <1>4, <1>5, PipeMoves

\* A task begins at its thread: the reader's, the replay's, the ticker's.
LEMMA AloneStep ==
    ASSUME TypeOK, Alone, "next" \notin Recovered, [Next]_vars
    PROVE  Alone'
<1> USE DEF threads
<1>0. task \in [Thread -> Task \union {"none"}]
    BY DEF TypeOK
<1>1. CASE UNCHANGED task
    BY <1>1 DEF Alone
<1>2. ASSUME NEW t \in Thread, task' = [task EXCEPT ![t] = "none"] PROVE Alone'
    BY <1>0, <1>2 DEF Alone
<1>3. CASE Arrive
    <2>1. \E what \in Live : task' = [task EXCEPT !["reader"] = what]
        BY <1>3 DEF Arrive, Begins
    <2> QED BY <1>0, <2>1 DEF Alone
<1>4. CASE Recover
    <2>1. PICK what \in Recovered : task' = [task EXCEPT !["replay"] = what]
        BY <1>4 DEF Recover, Begins
    <2> QED BY <1>0, <2>1 DEF Alone
<1>5. CASE Tick
    <2>1. task' = [task EXCEPT !["ticker"] = "away"]
        BY <1>5 DEF Tick, Begins
    <2> QED BY <1>0, <2>1 DEF Alone
<1>6. \/ UNCHANGED task \/ Arrive \/ Recover \/ Tick
      \/ \E t \in Thread : task' = [task EXCEPT ![t] = "none"]
    BY DEF Next, vars, Loop, HandleResponse, HandleStart, HandleSettled, HandleHeartbeat,
        Handle, FlushHeartbeats, FireHeartbeat, PiTakes, PiReads, PiPreflight, PiRuns, Alarm, Elapse,
        Step, TimesOut, Compose, Submit, NewBegins, NextBegins, StateAnswered, AskReset,
        ResetAnswered, AfterNewSession, Stop, Ends
<1> QED BY <1>1, <1>2, <1>3, <1>4, <1>5, <1>6

\* The reader came to where it is in a /next from there, or from pi's answer.
LEMMA PlacedBefore ==
    ASSUME TypeOK, Places, task'["reader"] = "next", at'["reader"] \in {"state", "ask"},
           ~NextBegins("reader"), [Next]_vars
    PROVE  /\ task["reader"] = "next" /\ at["reader"] \in {"state", "ask"}
           /\ at["reader"] # "ask" /\ at'["reader"] = "ask" => answer["reader"] = "idle"
<1> USE DEF threads
<1>0. /\ at \in [Thread -> {"rest", "compose", "submit", "settle", "next", "ask", "state", "reset", "save"}]
      /\ task \in [Thread -> Task \union {"none"}] /\ "reader" \in Thread
    BY DEF TypeOK, Thread
<1>1. CASE UNCHANGED <<at, task>>
    BY <1>1
<1>2. ASSUME NEW t \in Thread, NEW what \in Task, Begins(t, what)
      PROVE  t # "reader" /\ at'["reader"] = at["reader"] /\ task'["reader"] = task["reader"]
    BY <1>0, <1>2 DEF Begins, Goes, Entry
<1>3. ASSUME NEW t \in Thread, Ends(t)
      PROVE  t # "reader" /\ at'["reader"] = at["reader"] /\ task'["reader"] = task["reader"]
    BY <1>0, <1>3 DEF Ends, Goes
<1>4. ASSUME NEW t \in Thread, Compose(t) \/ AskReset(t) \/ NewBegins(t)
      PROVE  t # "reader" /\ at'["reader"] = at["reader"] /\ task'["reader"] = task["reader"]
    BY <1>0, <1>4 DEF Compose, AskReset, NewBegins, Goes, Places, PlaceOf
<1>5. ASSUME NEW t \in Thread, NextBegins(t)
      PROVE  t # "reader" /\ at'["reader"] = at["reader"] /\ task'["reader"] = task["reader"]
    BY <1>0, <1>3, <1>5 DEF NextBegins, Goes
<1>6. ASSUME NEW t \in Thread, ResetAnswered(t)
      PROVE  t # "reader" /\ at'["reader"] = at["reader"] /\ task'["reader"] = task["reader"]
    BY <1>0, <1>3, <1>6 DEF ResetAnswered, Goes, Stop
<1>7. ASSUME NEW t \in Thread, StateAnswered(t)
      PROVE  /\ task'["reader"] = task["reader"]
             /\ (at'["reader"] = at["reader"] \/ (at["reader"] = "state" /\ answer["reader"] = "idle"))
    <2>1. CASE answer[t] = "idle" /\ Goes(t, "ask") /\ UNCHANGED task
        BY <1>0, <1>7, <2>1 DEF StateAnswered, Goes
    <2>2. CASE Ends(t)
        BY <1>3, <2>2
    <2> QED BY <1>7, <2>1, <2>2 DEF StateAnswered, Stop
<1>8. \/ UNCHANGED <<at, task>> \/ \E t \in Thread, what \in Task : Begins(t, what)
      \/ \E t \in Thread : Step(t)
    <2>1. CASE UNCHANGED vars \/ Loop \/ PiTakes \/ PiPreflight \/ PiRuns \/ Alarm \/ Elapse
               \/ \E t \in Thread : TimesOut(t)
        BY <2>1 DEF vars, Loop, HandleResponse, HandleStart, HandleSettled, HandleHeartbeat, Handle,
            FlushHeartbeats, FireHeartbeat, PiTakes, PiReads, PiPreflight, PiRuns, Alarm, Elapse,
            TimesOut
    <2>2. CASE Arrive \/ Recover \/ Tick
        BY <2>2, SessionAssumption DEF Arrive, Recover, Tick, Thread, Task
    <2> QED BY <2>1, <2>2 DEF Next
<1>9. ASSUME NEW t \in Thread, Step(t)
      PROVE  /\ task'["reader"] = task["reader"]
             /\ (at'["reader"] = at["reader"] \/ (at["reader"] = "state" /\ answer["reader"] = "idle"))
    <2>1. CASE Submit(t) \/ AfterNewSession(t)
        BY <1>3, <2>1 DEF Submit, AfterNewSession, Stop
    <2>2. CASE Compose(t) \/ AskReset(t) \/ NewBegins(t)
        BY <1>4, <2>2
    <2> QED BY <1>5, <1>6, <1>7, <1>9, <2>1, <2>2 DEF Step
<1> QED BY <1>1, <1>2, <1>8, <1>9

\* Only the reader's own stop lets prompts through again.
LEMMA HeldOff ==
    ASSUME TypeOK, Alone, nextTransition, task'["reader"] = "next", [Next]_vars
    PROVE  nextTransition'
<1> USE DEF threads, flags
<1>1. nextTransition' = nextTransition \/ nextTransition' = TRUE \/ \E t \in Thread : Stop(t)
    BY DEF Next, vars, Arrive, Recover, Tick, Loop, HandleResponse, HandleStart, HandleSettled,
        HandleHeartbeat, Handle, FlushHeartbeats, FireHeartbeat, PiTakes, PiReads, PiPreflight, PiRuns,
        Alarm, Elapse, Step, TimesOut, Compose, Submit, NewBegins, NextBegins, StateAnswered, AskReset,
        ResetAnswered, AfterNewSession
<1>2. ASSUME NEW t \in Thread, Stop(t) PROVE nextTransition'
    <2>1. task' = [task EXCEPT ![t] = "none"] /\ nextTransition' = (nextTransition /\ task[t] # "next")
        BY <1>2 DEF Stop, Ends
    <2>2. t # "reader"
        BY <2>1 DEF TypeOK, Thread
    <2> QED BY <2>1, <2>2 DEF Alone
<1> QED BY <1>1, <1>2

\* pi says it is at rest when it is, and it still is when it has said so.
LEMMA HearsIdle ==
    ASSUME TypeOK, [Next]_vars, answer'["reader"] = "idle"
    PROVE  answer["reader"] = "idle" \/ run = "idle"
<1> USE DEF threads
<1>0. answer \in [Thread -> Answer \union {"none"}] /\ "reader" \in Thread
    BY DEF TypeOK, Thread
<1>1. \/ UNCHANGED answer
      \/ \E t \in Thread : answer' = [answer EXCEPT ![t] = "none"] \/ answer' = [answer EXCEPT ![t] = "failed"]
      \/ PiTakes
    BY DEF Next, vars, Arrive, Recover, Tick, Begins, Loop, HandleResponse, HandleStart, HandleSettled,
        HandleHeartbeat, Handle, FlushHeartbeats, FireHeartbeat, PiPreflight, PiRuns,
        Alarm, Elapse, Step, TimesOut, Compose, Submit, NewBegins, NextBegins, StateAnswered, AskReset,
        ResetAnswered, AfterNewSession, Stop, Ends, Asks, Thread
<1>2. CASE PiTakes
    BY <1>0, <1>2 DEF PiTakes, Replies
<1> QED BY <1>0, <1>1, <1>2

\* A /next begins with nothing pending, and holds prompts off until it stops.
LEMMA TurnedStep ==
    ASSUME TypeOK, PendingIsExact, Places, Asked, Alone, Turned, [Next]_vars
    PROVE  Turned'
<1> USE DEF threads, flags, session, idling, channel, piVars
<1>0. /\ at \in [Thread -> {"rest", "compose", "submit", "settle", "next", "ask", "state", "reset", "save"}]
      /\ task \in [Thread -> Task \union {"none"}]
      /\ answer \in [Thread -> Answer \union {"none"}]
      /\ stdin \in Seq(PiCommand) /\ "reader" \in Thread
    BY DEF TypeOK, Thread
<1>1. SUFFICES ASSUME task'["reader"] = "next", at'["reader"] \in {"state", "ask"}
               PROVE  /\ nextTransition' /\ NoPrompt'
                      /\ at'["reader"] = "ask" \/ answer'["reader"] = "idle" => run' = "idle"
    BY DEF Turned
<1>2. CASE NextBegins("reader")
    <2>1. /\ ~Busy /\ nextTransition' = TRUE /\ stdin' = Append(stdin, Command("get_state", "reader", task["reader"]))
          /\ UNCHANGED <<preflight, run>> /\ at' = [at EXCEPT !["reader"] = "state"]
          /\ answer' = [answer EXCEPT !["reader"] = "none"] /\ UNCHANGED task
        BY <1>0, <1>1, <1>2 DEF NextBegins, Ends, Goes, Asks
    <2>2. preflight = None /\ Hits(stdin, Prompts) = {}
        <3>1. pending = 0
            BY <2>1 DEF Busy, TypeOK
        <3>2. IsFiniteSet(Hits(stdin, Prompts)) /\ Cardinality(Hits(stdin, Prompts)) \in Nat
              /\ Cardinality(Hits(events, Responses)) \in Nat
            BY <1>0, HitsFinite DEF TypeOK
        <3>3. Cardinality(Hits(stdin, Prompts)) = 0 /\ One(preflight # None) = 0
            BY <3>1, <3>2 DEF PendingIsExact, One
        <3> QED BY <3>2, <3>3, FS_EmptySet DEF One
    <2>3. \A i \in DOMAIN stdin : stdin[i].what # "prompt"
        BY <1>0, <2>2 DEF Hits, Prompts
    <2>4. /\ Command("get_state", "reader", "next") \in PiCommand
          /\ Command("get_state", "reader", "next").what = "get_state"
        BY <1>0, CommandFacts DEF Command, Task
    <2>5. ASSUME NEW i \in DOMAIN stdin' PROVE stdin'[i].what # "prompt"
        <3>1. stdin' = Append(stdin, Command("get_state", "reader", "next"))
            BY <1>1, <2>1
        <3>2. i \in 1..Len(stdin) \/ i = Len(stdin) + 1
            BY <1>0, <2>4, <3>1, PipeFacts
        <3> QED BY <1>0, <2>3, <2>4, <3>1, <3>2, PipeFacts
    <2>6. at'["reader"] = "state" /\ answer'["reader"] = "none"
        BY <1>0, <2>1
    <2> QED BY <2>1, <2>2, <2>5, <2>6 DEF NoPrompt
<1>3. CASE ~NextBegins("reader")
    <2>1. /\ task["reader"] = "next" /\ at["reader"] \in {"state", "ask"}
          /\ at["reader"] # "ask" /\ at'["reader"] = "ask" => answer["reader"] = "idle"
        BY <1>0, <1>1, <1>3, PlacedBefore
    <2>2. nextTransition /\ NoPrompt
          /\ (at["reader"] = "ask" \/ answer["reader"] = "idle" => run = "idle")
        BY <2>1 DEF Turned
    <2>3. nextTransition'
        BY <1>1, <2>1, <2>2, HeldOff
    <2>4. NoPrompt' /\ (run = "idle" => run' = "idle")
        BY <2>2, NoPromptKept
    <2>5. answer'["reader"] = "idle" => answer["reader"] = "idle" \/ run = "idle"
        BY <1>0, HearsIdle
    <2> QED BY <2>1, <2>2, <2>3, <2>4, <2>5
<1> QED BY <1>2, <1>3

\* What a /next has asked pi for finds nothing to spare.
LEMMA SparesStep ==
    ASSUME TypeOK, Places, Alone, Turned, NextSparesWork, [Next]_vars
    PROVE  NextSparesWork'
<1>0. stdin \in Seq(PiCommand)
    BY DEF TypeOK
<1> DEFINE Reset(e) == e.what = "new_session" /\ e.for = "next"
<1>1. SUFFICES ASSUME NEW i \in DOMAIN stdin', Reset(stdin'[i])
               PROVE  /\ run' = "idle" /\ preflight' = None
                      /\ \A k \in 1..i : stdin'[k].what # "prompt"
    BY DEF NextSparesWork
<1>2. CASE Still
    BY <1>1, <1>2 DEF Still, NextSparesWork
<1>3. CASE Ended
    BY <1>1, <1>3 DEF Ended, NextSparesWork
<1>4. CASE Forgets
    <2>1. i \in DOMAIN stdin /\ Reset(stdin[i]) /\ 1..i \subseteq DOMAIN stdin
        BY <1>0, <1>1, <1>4, PipeFacts DEF Forgets
    <2> QED BY <1>4, <2>1 DEF Forgets, NextSparesWork
<1>5. CASE Writes
    <2>1. PICK c \in PiCommand :
              /\ stdin' = Append(stdin, c)
              /\ c.what = "new_session" => \E t \in Thread : at[t] = "ask" /\ c.for = task[t]
        BY <1>5 DEF Writes
    <2>2. UNCHANGED <<preflight, run>>
        BY <1>5 DEF Writes
    <2>3. i \in 1..Len(stdin) \/ i = Len(stdin) + 1
        BY <1>0, <2>1, PipeFacts
    <2>4. CASE i \in 1..Len(stdin)
        <3>1. Reset(stdin[i]) /\ i \in DOMAIN stdin
              /\ \A k \in 1..i : k \in 1..Len(stdin) /\ stdin'[k] = stdin[k]
            BY <1>0, <1>1, <2>1, <2>4, PipeFacts
        <3> QED BY <2>2, <3>1 DEF NextSparesWork
    <2>5. CASE i = Len(stdin) + 1
        <3>1. c = stdin'[i]
            BY <1>0, <2>1, <2>5, PipeFacts
        <3>2. c.what = "new_session" /\ c.for = "next"
            BY <1>1, <3>1
        <3>3. task["reader"] = "next" /\ at["reader"] = "ask"
            BY <2>1, <3>2 DEF Alone
        <3>4. NoPrompt /\ run = "idle"
            BY <3>3 DEF Turned
        <3>5. \A k \in 1..i : k = i \/ (k \in DOMAIN stdin /\ stdin'[k] = stdin[k])
            BY <1>0, <2>1, <2>5, PipeFacts
        <3> QED BY <2>2, <3>1, <3>2, <3>4, <3>5 DEF NoPrompt
    <2> QED BY <2>3, <2>4, <2>5
<1>6. CASE PiTakes
    <2>1. stdin # <<>> /\ stdin' = Tail(stdin)
        BY <1>6 DEF PiTakes, PiReads
    <2>2. /\ i \in 1..(Len(stdin) - 1) /\ i + 1 \in DOMAIN stdin /\ Reset(stdin[i + 1])
          /\ Head(stdin) = stdin[1] /\ 1 \in 1..(i + 1)
          /\ \A k \in 1..i : k + 1 \in 1..(i + 1) /\ stdin'[k] = stdin[k + 1]
        BY <1>0, <1>1, <2>1, PipeFacts
    <2>3. /\ run = "idle" /\ preflight = None
          /\ \A k \in 1..(i + 1) : stdin[k].what # "prompt"
        BY <2>2 DEF NextSparesWork
    <2>4. preflight' = None /\ run' = "idle"
        BY <1>6, <2>2, <2>3 DEF PiTakes
    <2> QED BY <2>2, <2>3, <2>4
<1> QED BY <1>2, <1>3, <1>4, <1>5, <1>6, PipeMoves

\* No recovered message is a /next, which the reader alone runs then: when pi
\* comes to the new_session of one, nothing of the old session is under way
\* (reconcile.go:640-663, bridge.go:4349-4351).
THEOREM NextIsSafe == ASSUME "next" \notin Recovered PROVE Spec => []NextSparesWork
<1>1. Init => IInv /\ NextInv
    <2> SUFFICES ASSUME Init PROVE IInv /\ NextInv
        OBVIOUS
    <2>1. \A t \in Thread : task[t] = "none"
        BY DEF Init
    <2>2. "reader" \in Thread /\ DOMAIN stdin = {}
        BY DEF Init, Thread
    <2> QED BY <2>1, <2>2, InitInv DEF NextInv, Alone, Turned, NextSparesWork
<1>2. IInv /\ NextInv /\ [Next]_vars => (IInv /\ NextInv)'
    <2> SUFFICES ASSUME IInv, NextInv, [Next]_vars PROVE IInv' /\ NextInv'
        OBVIOUS
    <2>1. TypeOK /\ PendingIsExact /\ Places /\ Asked /\ Alone /\ Turned /\ NextSparesWork
        BY DEF IInv, NextInv
    <2> QED BY <2>1, StepInv, AloneStep, TurnedStep, SparesStep DEF NextInv
<1>3. NextInv => NextSparesWork
    BY DEF NextInv
<1> QED BY <1>1, <1>2, <1>3, PTL DEF Spec

-----------------------------------------------------------------------------
(* Who holds the lock, and who turns prompts away.                           *)

\* The places of a /next from its start to the look-up of the new session.
Transit == {"state", "ask", "reset", "save"}

\* The thread that has the lock is at its task, and prompts are turned away only
\* while some thread is in a /next; one that rests has given both back.
HeldByTheBusy ==
    /\ lock # Nobody => at[lock] # "rest"
    /\ nextTransition => \E t \in Thread : task[t] = "next" /\ at[t] \in Transit

\* A thread goes on with what it has, or ends and gives back what it has.
Onward(t) ==
    /\ UNCHANGED <<lock, task>> /\ \E place \in Transit \union {"submit"} : Goes(t, place)
    /\ nextTransition' => at'[t] = "state" \/ nextTransition
    /\ at'[t] = "state" => task[t] = "next"
    /\ task[t] = "next" /\ at[t] \in Transit => at'[t] \in Transit
Leaves(t) ==
    /\ Ends(t)
    /\ nextTransition' => nextTransition /\ ~(task[t] = "next" /\ at[t] \in Transit)

\* A step of a thread is one or the other.
LEMMA StepsOnward ==
    ASSUME ThreadTypes, Places, NEW t \in Thread, Step(t)
    PROVE  Onward(t) \/ Leaves(t)
<1> USE DEF flags, threads
<1>0. at \in [Thread -> {"rest", "compose", "submit", "settle", "next", "ask", "state", "reset", "save"}]
      /\ PlaceOf(t)
    BY DEF ThreadTypes, Places
<1>1. CASE Compose(t) \/ NewBegins(t) \/ AskReset(t)
    <2>1. /\ UNCHANGED <<lock, task, nextTransition>>
          /\ \/ at[t] = "compose" /\ Goes(t, "submit")
             \/ at[t] = "settle" /\ Goes(t, "ask")
             \/ at[t] = "ask" /\ Goes(t, "reset")
        BY <1>1 DEF Compose, NewBegins, AskReset
    <2> QED BY <1>0, <2>1 DEF Onward, Goes, Transit, PlaceOf
<1>2. CASE Submit(t)
    BY <1>0, <1>2 DEF Submit, Leaves, Transit
<1>3. CASE NextBegins(t)
    <2>1. \/ Ends(t) /\ UNCHANGED nextTransition
          \/ Goes(t, "state") /\ UNCHANGED <<lock, task>>
        BY <1>3 DEF NextBegins
    <2>2. at[t] = "next" /\ task[t] = "next"
        BY <1>0, <1>3 DEF NextBegins, PlaceOf
    <2>3. CASE Ends(t) /\ UNCHANGED nextTransition
        BY <2>2, <2>3 DEF Leaves, Transit
    <2>4. CASE Goes(t, "state") /\ UNCHANGED <<lock, task>>
        BY <1>0, <2>2, <2>4 DEF Onward, Goes, Transit
    <2> QED BY <2>1, <2>3, <2>4
<1>4. ASSUME Stop(t) PROVE Leaves(t)
    BY <1>4 DEF Stop, Leaves
<1>5. CASE StateAnswered(t)
    <2>1. \/ Stop(t)
          \/ at[t] = "state" /\ Goes(t, "ask") /\ UNCHANGED <<lock, task, nextTransition>>
        BY <1>5 DEF StateAnswered
    <2>2. CASE at[t] = "state" /\ Goes(t, "ask") /\ UNCHANGED <<lock, task, nextTransition>>
        BY <1>0, <2>2 DEF Onward, Goes, Transit
    <2> QED BY <1>4, <2>1, <2>2
<1>6. CASE ResetAnswered(t)
    <2>1. \/ Stop(t)
          \/ at[t] = "reset" /\ Goes(t, "save") /\ UNCHANGED <<lock, task, nextTransition>>
        BY <1>6 DEF ResetAnswered
    <2>2. CASE at[t] = "reset" /\ Goes(t, "save") /\ UNCHANGED <<lock, task, nextTransition>>
        BY <1>0, <2>2 DEF Onward, Goes, Transit
    <2> QED BY <1>4, <2>1, <2>2
<1>7. CASE AfterNewSession(t)
    BY <1>4, <1>7 DEF AfterNewSession
<1> QED BY <1>1, <1>2, <1>3, <1>5, <1>6, <1>7 DEF Step

\* A thread begins with the lock it takes; others keep what they have.
LEMMA HeldStep ==
    ASSUME ThreadTypes, Places, HeldByTheBusy, [Next]_vars
    PROVE  HeldByTheBusy'
<1> USE DEF threads, flags
<1>0. /\ at \in [Thread -> {"rest", "compose", "submit", "settle", "next", "ask", "state", "reset", "save"}]
      /\ task \in [Thread -> Task \union {"none"}] /\ lock \in Thread \union {Nobody}
      /\ Nobody \notin Thread
    BY DEF ThreadTypes, Thread, Nobody
<1>1. CASE UNCHANGED <<lock, at, task, nextTransition>>
    BY <1>1 DEF HeldByTheBusy
<1>2. ASSUME NEW t \in Thread, NEW what \in Task, Begins(t, what), UNCHANGED nextTransition,
             lock' = lock \/ (lock = Nobody /\ lock' = t)
      PROVE  HeldByTheBusy'
    <2>1. /\ at[t] = "rest" /\ at' = [at EXCEPT ![t] = Entry[what]]
          /\ task' = [task EXCEPT ![t] = what] /\ Entry[what] # "rest"
        BY <1>2 DEF Begins, Goes, Entry, Task
    <2>2. /\ at'[t] # "rest"
          /\ \A u \in Thread \ {t} : at'[u] = at[u] /\ task'[u] = task[u]
        BY <1>0, <2>1
    <2>3. lock' # Nobody => at'[lock'] # "rest"
        BY <1>0, <1>2, <2>2 DEF HeldByTheBusy
    <2>4. ASSUME nextTransition' PROVE \E u \in Thread : task'[u] = "next" /\ at'[u] \in Transit
        <3>1. PICK u \in Thread : task[u] = "next" /\ at[u] \in Transit
            BY <1>2, <2>4 DEF HeldByTheBusy
        <3>2. u # t
            BY <2>1, <3>1 DEF Transit
        <3> QED BY <2>2, <3>1, <3>2
    <2> QED BY <2>3, <2>4 DEF HeldByTheBusy
<1>3. ASSUME NEW t \in Thread, Onward(t) PROVE HeldByTheBusy'
    <2>1. PICK place \in Transit \union {"submit"} : at' = [at EXCEPT ![t] = place]
        BY <1>3 DEF Onward, Goes
    <2>2. /\ UNCHANGED <<lock, task>> /\ at'[t] # "rest"
          /\ \A u \in Thread \ {t} : at'[u] = at[u]
        BY <1>0, <1>3, <2>1 DEF Onward, Transit
    <2>3. lock' # Nobody => at'[lock'] # "rest"
        BY <1>0, <2>2 DEF HeldByTheBusy
    <2>4. ASSUME nextTransition' PROVE \E u \in Thread : task'[u] = "next" /\ at'[u] \in Transit
        <3>1. CASE at'[t] = "state"
            BY <1>3, <2>2, <3>1 DEF Onward, Transit
        <3>2. CASE nextTransition
            <4>1. PICK u \in Thread : task[u] = "next" /\ at[u] \in Transit
                BY <3>2 DEF HeldByTheBusy
            <4> QED BY <1>3, <2>2, <4>1 DEF Onward
        <3> QED BY <1>3, <2>4, <3>1, <3>2 DEF Onward
    <2> QED BY <2>3, <2>4 DEF HeldByTheBusy
<1>4. ASSUME NEW t \in Thread, Leaves(t) PROVE HeldByTheBusy'
    <2>1. /\ \A u \in Thread \ {t} : at'[u] = at[u] /\ task'[u] = task[u]
          /\ lock' = IF lock = t THEN Nobody ELSE lock
        BY <1>0, <1>4 DEF Leaves, Ends, Goes
    <2>2. lock' # Nobody => at'[lock'] # "rest"
        BY <1>0, <2>1 DEF HeldByTheBusy
    <2>3. ASSUME nextTransition' PROVE \E u \in Thread : task'[u] = "next" /\ at'[u] \in Transit
        <3>1. PICK u \in Thread : task[u] = "next" /\ at[u] \in Transit
            BY <1>4, <2>3 DEF Leaves, HeldByTheBusy
        <3>2. u # t
            BY <1>4, <2>3, <3>1 DEF Leaves
        <3> QED BY <2>1, <3>1, <3>2
    <2> QED BY <2>2, <2>3 DEF HeldByTheBusy
<1>5. CASE Arrive \/ Tick
    <2>1. \E t \in Thread, what \in Task : Begins(t, what) /\ lock' = t
        BY <1>5, SessionAssumption DEF Arrive, Tick, Thread, Task
    <2>2. lock = Nobody /\ UNCHANGED nextTransition
        BY <1>5 DEF Arrive, Tick
    <2> QED BY <1>2, <2>1, <2>2
<1>6. CASE Recover
    <2>1. \E t \in Thread, what \in Task : Begins(t, what)
        BY <1>6, SessionAssumption DEF Recover, Thread, Task
    <2>2. UNCHANGED <<lock, nextTransition>>
        BY <1>6 DEF Recover
    <2> QED BY <1>2, <2>1, <2>2
<1>7. CASE UNCHANGED vars \/ Loop \/ PiTakes \/ PiPreflight \/ PiRuns \/ Alarm \/ Elapse
           \/ \E t \in Thread : TimesOut(t)
    <2>1. UNCHANGED <<lock, at, task, nextTransition>>
        BY <1>7 DEF vars, Loop, HandleResponse, HandleStart, HandleSettled, HandleHeartbeat, Handle,
            FlushHeartbeats, FireHeartbeat, PiTakes, PiReads, PiPreflight, PiRuns, Alarm, Elapse,
            TimesOut
    <2> QED BY <1>1, <2>1
<1>8. ASSUME NEW t \in Thread, Step(t) PROVE HeldByTheBusy'
    BY <1>3, <1>4, <1>8, StepsOnward
<1> QED BY <1>5, <1>6, <1>7, <1>8 DEF Next

\* sessionTransitionMu is never left behind by a thread that has come to rest,
\* and no /next leaves prompts turned away after it, whichever of its requests
\* pi refuses, cancels or never answers (bridge.go:4345-4352, reconcile.go:641).
\* A thread that is not at rest can always take its step or give up on the answer
\* it waits for: with the fairness of FairSpec, LockIsReleased.
THEOREM LockIsOfTheBusy == Spec => []HeldByTheBusy
<1>1. Init => IInv /\ HeldByTheBusy
    BY InitInv DEF Init, HeldByTheBusy
<1>2. IInv /\ HeldByTheBusy /\ [Next]_vars => (IInv /\ HeldByTheBusy)'
    <2> SUFFICES ASSUME IInv, HeldByTheBusy, [Next]_vars PROVE IInv' /\ HeldByTheBusy'
        OBVIOUS
    <2>1. ThreadTypes /\ Places
        BY DEF IInv, TypeOK, ThreadTypes
    <2> QED BY <2>1, StepInv, HeldStep
<1> QED BY <1>1, <1>2, PTL DEF Spec
===============================================================================
