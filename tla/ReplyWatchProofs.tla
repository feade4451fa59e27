--------------------------- MODULE ReplyWatchProofs ---------------------------
(***************************************************************************)
(* Proofs about ReplyWatch and the client it is composed with, for every   *)
(* set of requests and conversations and every bound.                      *)
(***************************************************************************)
EXTENDS ReplyWatch, QueueFacts

-----------------------------------------------------------------------------
(* Answers.                                                                  *)

\* The channel of a request holds its own answer or nothing.
AnswerInv == answer \in [Request -> Request \union {Nothing}] /\ OwnAnswer

\* An answer is moved by RouteAnswer alone, which finds its request by the id.
LEMMA AnswerStep == AnswerInv /\ [Next]_vars => AnswerInv'
<1> SUFFICES ASSUME AnswerInv, [Next]_vars PROVE AnswerInv'
    OBVIOUS
<1> USE DEF AnswerInv, OwnAnswer
<1>1. CASE RouteAnswer
    BY <1>1 DEF RouteAnswer
<1>2. CASE UNCHANGED answer
    BY <1>2
<1>3. RouteAnswer \/ UNCHANGED answer
    <2>1. CASE UNCHANGED vars
        BY <2>1 DEF vars, rpcVars
    <2>2. CASE Arrive \/ Observe \/ Dispatch \/ Quit \/ StopReplyWatches \/ CommandReturns \/ Woken
        BY <2>2 DEF Arrive, Observe, Dispatch, Quit, StopReplyWatches, CommandReturns, Woken, rpcVars
    <2>3. CASE HandleMessage \/ HandleCommand \/ Flush
        BY <2>3 DEF HandleMessage, HandleCommand, Flush, Submit, Write, Call, rpcVars
    <2>4. CASE HandleEvent
        BY <2>4 DEF HandleEvent, HandleResponse, HandleLateAnswer, HandleStart, HandleSend,
                    HandleSettled, Handle
    <2>5. CASE Client
        BY <2>5 DEF Client, ClientStep, Route, RouteEvent, RouteDropped, RoutePanics, CloseChannels
    <2>6. CASE LoopReturns \/ Exit
        BY <2>6 DEF LoopReturns, LoopEnds, Exit, PiExits
    <2>7. CASE PiReads \/ PiRuns \/ PiSends
        BY <2>7 DEF PiReads, PiRuns, PiSends, Piped
    <2>8. CASE \E r \in Request : Ends(r)
        BY <2>8 DEF Ends, RequestStep, Answered, TimesOut, PiGone
    <2>9. CASE \E w \in Watch : TimerFires(w) \/ Expire(w)
        BY <2>9 DEF TimerFires, Expire, rpcVars
    <2> QED BY <2>1, <2>2, <2>3, <2>4, <2>5, <2>6, <2>7, <2>8, <2>9 DEF Next, ReaderStep
<1> QED BY <1>1, <1>2, <1>3

\* An answer reaches the request that asked for it, whatever times out, however
\* many requests there are (rpc.go:208-223).
THEOREM AnswersAreOwn == Spec => []OwnAnswer
<1>1. Init => AnswerInv
    BY DEF Init, RpcInit, AnswerInv, OwnAnswer
<1>2. AnswerInv => OwnAnswer
    BY DEF AnswerInv
<1> QED BY <1>1, AnswerStep, <1>2, PTL DEF Spec

-----------------------------------------------------------------------------
(* Watches.                                                                  *)

WatchTypes ==
    /\ sends \in Nat
    /\ watches \in [Conv -> 0..sends]
    /\ conversation \in [Watch -> Conv \union {Nothing}]
    /\ expired \subseteq Watch
    /\ replied \subseteq 1..sends

\* A watch in the map belongs to its conversation and is the newest it has had.
MapIsCurrent ==
    /\ \A c \in Conv : watches[c] \in Watch =>
          /\ conversation[watches[c]] = c
          /\ \A v \in Watch : conversation[v] = c => v =< watches[c]
    /\ \A v \in Watch : v > sends => conversation[v] = Nothing

\* A watch that was replied to has left the map.
RepliedIsGone == \A w \in replied \intersect Watch : \A c \in Conv : watches[c] # w

WatchInv == WatchTypes /\ MapIsCurrent /\ RepliedIsGone

\* What the steps do to the map: register, observe a reply, mark, or take out.
Removes ==
    /\ UNCHANGED <<sends, conversation, expired, replied>>
    /\ watches' \in [Conv -> 0..sends]
    /\ \A c \in Conv : watches'[c] \in {watches[c], None}
Marks == \E w \in Watch : expired' = expired \union {w}
                          /\ UNCHANGED <<sends, watches, conversation, replied>>
Keeps == UNCHANGED <<sends, watches, conversation, expired, replied>>

\* Every step is one of them.
LEMMA MapSteps ==
    ASSUME WatchInv, [Next]_vars
    PROVE  \/ Observe \/ Removes \/ Marks \/ Keeps
           \/ \E c \in Conv : Arm(c) /\ UNCHANGED replied /\ ~shuttingDown
<1> USE DEF map, history
<1>1. CASE UNCHANGED vars
    BY <1>1 DEF vars, Keeps
<1>2. CASE Arrive \/ Dispatch \/ HandleMessage \/ HandleCommand \/ CommandReturns \/ Quit \/ Woken
    BY <1>2 DEF Arrive, Dispatch, HandleMessage, HandleCommand, CommandReturns, Quit, Woken, Keeps
<1>3. CASE Observe
    BY <1>3
<1>4. CASE StopReplyWatches
    BY <1>4 DEF StopReplyWatches, WatchInv, WatchTypes, Removes, None
<1>5. CASE HandleResponse \/ HandleLateAnswer \/ HandleStart \/ HandleSettled
    BY <1>5 DEF HandleResponse, HandleLateAnswer, HandleStart, HandleSettled, Handle, Keeps
<1>6. CASE HandleSend
    BY <1>6 DEF HandleSend, Handle, Keeps
<1>7. CASE Flush
    BY <1>7 DEF Flush, WatchInv, WatchTypes, Removes, None
<1>8. CASE Client \/ LoopReturns \/ Exit
    BY <1>8 DEF Client, LoopReturns, Exit, Rest, Keeps
<1>9. CASE PiReads \/ PiRuns \/ PiSends
    BY <1>9 DEF PiReads, PiRuns, PiSends, Outside, Keeps
<1>10. CASE \E r \in Request : Ends(r)
    BY <1>10 DEF Ends, Rest, Keeps
<1>11. CASE \E w \in Watch : TimerFires(w)
    BY <1>11 DEF TimerFires, Keeps
<1>12. CASE \E w \in Watch : Expire(w)
    BY <1>12 DEF Expire, Marks, Keeps
<1> QED BY <1>1, <1>2, <1>3, <1>4, <1>5, <1>6, <1>7, <1>8, <1>9, <1>10, <1>11, <1>12
        DEF Next, ReaderStep, HandleEvent

\* A new watch is the newest, and a reply takes its watch from the map.
LEMMA WatchStep == WatchInv /\ [Next]_vars => WatchInv'
<1> SUFFICES ASSUME WatchInv, [Next]_vars PROVE WatchInv'
    OBVIOUS
<1> USE DEF WatchInv, WatchTypes, MapIsCurrent, RepliedIsGone, Watch, None
<1>1. CASE Observe
    <2>1. /\ UNCHANGED <<sends, conversation, expired>>
          /\ watches' \in [Conv -> 0..sends]
          /\ \A c \in Conv : watches'[c] \in {watches[c], None}
          /\ replied' \subseteq 1..sends
        <3>1. UNCHANGED <<sends, conversation, expired>>
            BY <1>1 DEF Observe
        <3>2. watches' = watches \/ watches' = [watches EXCEPT ![stanza.conv] = 0]
            BY <1>1 DEF Observe
        <3>3. replied' \subseteq 1..sends
            BY <1>1 DEF Observe
        <3> QED BY <3>1, <3>2, <3>3
    <2>2. ASSUME NEW w \in replied' \intersect Watch, NEW c \in Conv PROVE watches'[c] # w
        <3>1. CASE w \in replied
            BY <2>1, <3>1
        <3>2. CASE w \notin replied
            <4>1. AnswersTo(w) /\ w \in 1..sends
                BY <1>1, <3>2 DEF Observe
            <4>2. CASE watches[c] # w
                BY <2>1, <4>1, <4>2
            <4>3. CASE watches[c] = w
                BY <1>1, <4>1, <4>3 DEF Observe, AnswersTo
            <4> QED BY <4>2, <4>3
        <3> QED BY <3>1, <3>2
    <2> QED BY <2>1, <2>2
<1>2. CASE Removes
    BY <1>2 DEF Removes
<1>3. CASE Marks
    BY <1>3 DEF Marks
<1>4. CASE Keeps
    BY <1>4 DEF Keeps
<1>5. ASSUME NEW c \in Conv, Arm(c), UNCHANGED replied PROVE WatchInv'
    <2>1. Nothing \notin Conv
        BY RpcAssumption, WatchAssumption
    <2>2. /\ sends' = sends + 1 /\ sends' \in Nat
          /\ watches' = [watches EXCEPT ![c] = sends + 1]
          /\ conversation' = [conversation EXCEPT ![sends + 1] = c]
          /\ expired' = expired /\ replied' = replied
        BY <1>5 DEF Arm
    <2>3. WatchTypes'
        <3>1. watches' \in [Conv -> 0..sends']
            BY <2>2
        <3>2. conversation' \in [Watch -> Conv \union {Nothing}]
            BY <2>2
        <3>3. replied' \subseteq 1..sends'
            BY <2>2
        <3> QED BY <2>2, <3>1, <3>2, <3>3
    <2>4. ASSUME NEW d \in Conv, watches'[d] \in Watch
          PROVE  /\ conversation'[watches'[d]] = d
                 /\ \A v \in Watch : conversation'[v] = d => v =< watches'[d]
        BY <2>1, <2>2, <2>4
    <2>5. \A v \in Watch : v > sends' => conversation'[v] = Nothing
        BY <2>2
    <2>6. RepliedIsGone'
        BY <2>2
    <2> QED BY <2>3, <2>4, <2>5, <2>6, <2>2
<1> QED BY <1>1, <1>2, <1>3, <1>4, <1>5, MapSteps

\* No watch is started at the start.
LEMMA WatchInit == Init => WatchInv
BY WatchAssumption DEF Init, RpcInit, WatchInv, WatchTypes, MapIsCurrent, RepliedIsGone, Watch, None

\* The agent is told that nobody replied only when nobody did and the watch was
\* not replaced, for any number of watches and conversations
\* (reply_watch.go:55-57, 76-77).
THEOREM NudgesTrue == Spec => NudgesAreTrue
<1>1. ASSUME WatchInv, [Next]_vars
      PROVE  [\A w \in nudged' \ nudged :
                /\ w \notin replied
                /\ \A v \in Watch : conversation[v] = conversation[w] => v =< w]_vars
    <2>1. Flush \/ nudged' = nudged
        <3> USE DEF history
        <3>1. CASE UNCHANGED vars
            BY <3>1 DEF vars
        <3>2. CASE Arrive \/ ReaderStep \/ Woken
            BY <3>2 DEF Arrive, ReaderStep, Observe, Dispatch, HandleMessage, HandleCommand,
                        CommandReturns, Quit, StopReplyWatches, Woken
        <3>3. CASE HandleEvent
            BY <3>3 DEF HandleEvent, HandleResponse, HandleLateAnswer, HandleStart, HandleSend,
                        HandleSettled, Handle
        <3>4. CASE Client \/ LoopReturns \/ Exit \/ \E r \in Request : Ends(r)
            BY <3>4 DEF Client, LoopReturns, Exit, Ends, Rest
        <3>5. CASE PiReads \/ PiRuns \/ PiSends
            BY <3>5 DEF PiReads, PiRuns, PiSends, Outside
        <3>6. CASE \E w \in Watch : TimerFires(w) \/ Expire(w)
            BY <3>6 DEF TimerFires, Expire
        <3> QED BY <1>1, <3>1, <3>2, <3>3, <3>4, <3>5, <3>6 DEF Next
    <2>2. ASSUME NEW w \in nudged' \ nudged, Flush
          PROVE  /\ w \notin replied
                 /\ \A v \in Watch : conversation[v] = conversation[w] => v =< w
        <3>1. PICK c \in Conv : watches[c] \in expired /\ w = watches[c]
            BY <2>2 DEF Flush
        <3> QED BY <1>1, <3>1 DEF WatchInv, WatchTypes, MapIsCurrent, RepliedIsGone
    <2> QED BY <2>1, <2>2
<1> QED BY <1>1, WatchInit, WatchStep, PTL DEF Spec, NudgesAreTrue

-----------------------------------------------------------------------------
(* The shutdown.                                                             *)

\* The flag precedes the stop, so that no send relayed later starts a watch.
ShutdownInv == (reader = "quit" \/ stopped => shuttingDown) /\ StoppedForGood

\* The flag is set before the watches are stopped, and stays.
LEMMA ShutdownStep == WatchInv /\ ShutdownInv /\ [Next]_vars => ShutdownInv'
<1> SUFFICES ASSUME WatchInv, ShutdownInv, [Next]_vars PROVE ShutdownInv'
    OBVIOUS
<1> USE DEF ShutdownInv, StoppedForGood, shutdown, reading
<1>1. CASE Quit
    BY <1>1 DEF Quit, map
<1>2. CASE StopReplyWatches
    BY <1>2 DEF StopReplyWatches
<1>3. CASE ~Quit /\ ~StopReplyWatches
    <2>1. UNCHANGED shutdown /\ (reader' = "quit" => reader = "quit")
        <3>1. CASE UNCHANGED vars
            BY <3>1 DEF vars
        <3>2. CASE Arrive \/ ReaderStep \/ Woken
            BY <3>2, <1>3 DEF Arrive, ReaderStep, Observe, Dispatch, HandleMessage, HandleCommand,
                        CommandReturns, Woken, Unlock
        <3>3. CASE HandleEvent \/ Flush
            BY <3>3 DEF HandleEvent, HandleResponse, HandleLateAnswer, HandleStart, HandleSend,
                        HandleSettled, Handle, Flush
        <3>4. CASE Client \/ LoopReturns \/ Exit \/ \E r \in Request : Ends(r)
            BY <3>4 DEF Client, LoopReturns, Exit, Ends, Rest
        <3>5. CASE PiReads \/ PiRuns \/ PiSends
            BY <3>5 DEF PiReads, PiRuns, PiSends, Outside
        <3>6. CASE \E w \in Watch : TimerFires(w) \/ Expire(w)
            BY <3>6 DEF TimerFires, Expire
        <3> QED BY <3>1, <3>2, <3>3, <3>4, <3>5, <3>6 DEF Next
    <2>2. ASSUME stopped PROVE \A c \in Conv : watches'[c] = None
        <3>1. CASE Observe
            BY <2>2, <3>1 DEF Observe, WatchInv, WatchTypes
        <3>2. CASE Removes \/ Marks \/ Keeps
            BY <2>2, <3>2 DEF Removes, Marks, Keeps
        <3> QED BY <2>2, <3>1, <3>2, MapSteps
    <2> QED BY <2>1, <2>2
<1> QED BY <1>1, <1>2, <1>3

\* After a shutdown has stopped the watches none is registered again, whatever
\* pi still sends (reply_watch.go:14, bridge.go:704-713).
THEOREM NoneAfterStop == Spec => []StoppedForGood
<1>1. Init => ShutdownInv
    BY DEF Init, ShutdownInv, StoppedForGood
<1>2. ShutdownInv => StoppedForGood
    BY DEF ShutdownInv
<1> QED BY <1>1, <1>2, WatchInit, WatchStep, ShutdownStep, PTL DEF Spec

-----------------------------------------------------------------------------
(* Types.                                                                    *)

\* Entries that pi or the event loop will answer with a change of prompts or sends.
Turn == {"prompt", "steer"}
Count(q, P) == Cardinality(Hits(q, P))

\* Every prompt on its way to pi, and every response on its way back, is counted in
\* pendingPrompts; every watched send relayed, and on its way, was made by pi.
Account ==
    /\ (Count(stdin, Turn) + Count(stdout, Response)) + Count(events, Response) =< prompts
    /\ (sends + Count(stdout, Conv)) + Count(events, Conv) =< said

\* What the client, its pipes and channels hold.
Pipes ==
    /\ call \in [Request -> {"new", "waiting", "answered", "failed"}]
    /\ pending \subseteq Request /\ stdin \in Seq(Request \union Command)
    /\ stdout \in Seq(Line) /\ Len(stdout) =< PipeCap
    /\ events \in Seq(Line) /\ Len(events) =< EventCap
    /\ pi \in {"up", "closed", "done", "over"} /\ bridge \in {"up", "over", "panicked"}

\* Where the bridge and pi are; a timer runs, and a watch is marked, only once it
\* was started.
Places ==
    /\ streaming \in BOOLEAN /\ prompts \in Int /\ heartbeatRun \in BOOLEAN
    /\ recovered \in BOOLEAN /\ shuttingDown \in BOOLEAN /\ stopped \in BOOLEAN
    /\ timer \in [Watch -> {"off", "running", "firing"}]
    /\ \A w \in Watch : timer[w] # "off" => w =< sends
    /\ expired \subseteq 1..sends
    /\ wake \in BOOLEAN /\ lock \in {"free", "reader"}
    /\ reader \in {"idle", "observe", "dispatch", "handle", "wait", "quit"}
    /\ stanza \in Stanza \union {NoStanza}
    /\ observed \in 0..sends /\ left \in 0..MaxInbound
    /\ loop \in {"events", "flush"}
    /\ run \in {"idle", "starting", "run"} /\ said \in 0..MaxSends
    /\ runless \in BOOLEAN /\ nudged \subseteq Watch

\* The types of what WatchInv and AnswerInv say nothing of.
Sorts == Pipes /\ Places

\* What is a prompt, a response or a send is nothing else.
LEMMA SortsApart ==
    /\ Turn \subseteq Command /\ "abort" \in Command \ Turn /\ Request \cap Turn = {}
    /\ Request \cap Response = {} /\ Request \cap Conv = {} /\ Response \cap Conv = {}
    /\ Lifecycle \cap Response = {} /\ Lifecycle \cap Conv = {}
    /\ Line = Request \union (Response \union Lifecycle \union Conv)
BY RpcAssumption, WatchAssumption DEF Turn, Response, Lifecycle, Line

\* A line more.
LEMMA CountMore ==
    ASSUME NEW S, NEW q \in Seq(S), NEW x \in S, NEW P
    PROVE  /\ Append(q, x) \in Seq(S) /\ Len(Append(q, x)) = Len(q) + 1 /\ Count(q, P) \in Nat
           /\ x \in P => Count(Append(q, x), P) = Count(q, P) + 1
           /\ x \notin P => Count(Append(q, x), P) = Count(q, P)
<1>1. Append(q, x) \in Seq(S) /\ Len(Append(q, x)) = Len(q) + 1
    OBVIOUS
<1>2. Count(q, P) \in Nat
    BY HitsFinite DEF Count
<1>3. Count(Append(q, x), P) = Count(q, P) + One(x \in P)
    BY HitsAppend DEF Count
<1>4. CASE x \in P
    BY <1>1, <1>2, <1>3, <1>4 DEF One
<1>5. CASE x \notin P
    <2>1. Count(Append(q, x), P) = Count(q, P) + 0
        BY <1>3, <1>5 DEF One
    <2> QED BY <1>1, <1>2, <1>5, <2>1
<1> QED BY <1>4, <1>5

\* A line less.
LEMMA CountLess ==
    ASSUME NEW S, NEW q \in Seq(S), q # <<>>, NEW P
    PROVE  /\ Tail(q) \in Seq(S) /\ Head(q) \in S /\ Len(Tail(q)) = Len(q) - 1
           /\ Count(q, P) \in Nat /\ Count(Tail(q), P) \in Nat
           /\ Head(q) \in P => Count(Tail(q), P) = Count(q, P) - 1
           /\ Head(q) \notin P => Count(Tail(q), P) = Count(q, P)
<1>1. Tail(q) \in Seq(S) /\ Head(q) \in S /\ Len(Tail(q)) = Len(q) - 1
    OBVIOUS
<1>2. Count(q, P) \in Nat /\ Count(Tail(q), P) \in Nat
    BY <1>1, HitsFinite DEF Count
<1>3. Count(q, P) = Count(Tail(q), P) + One(Head(q) \in P)
    BY HitsTail DEF Count
<1>4. CASE Head(q) \in P
    <2>1. Count(q, P) = Count(Tail(q), P) + 1
        BY <1>3, <1>4 DEF One
    <2>2. Count(Tail(q), P) = Count(q, P) - 1
        BY <1>2, <2>1
    <2> QED BY <1>1, <1>2, <1>4, <2>2
<1>5. CASE Head(q) \notin P
    <2>1. Count(q, P) = Count(Tail(q), P) + 0
        BY <1>3, <1>5 DEF One
    <2> QED BY <1>1, <1>2, <1>5, <2>1
<1> QED BY <1>4, <1>5

\* No line.
LEMMA CountNone == \A P : Count(<<>>, P) = 0
<1> SUFFICES ASSUME NEW P PROVE Count(<<>>, P) = 0
    OBVIOUS
<1>1. Hits(<<>>, P) = {}
    BY DEF Hits
<1> QED BY <1>1, FS_EmptySet DEF Count

\* What of the account a step leaves alone.
Books == <<stdin, stdout, events, prompts, sends, said>>

\* The steps that move a line, take one on, or answer one.
Moving ==
    \/ HandleMessage \/ HandleCommand \/ HandleEvent \/ Flush \/ (Client /\ Route)
    \/ PiReads \/ PiRuns \/ PiSends \/ Exit

\* The others.
LEMMA BooksKept == [Next]_vars => Moving \/ UNCHANGED Books
<1> SUFFICES ASSUME [Next]_vars, ~Moving PROVE UNCHANGED Books
    OBVIOUS
<1> USE DEF Books, rpcVars, map, activity, agent
<1>1. CASE UNCHANGED vars
    BY <1>1 DEF vars
<1>2. CASE Arrive \/ Observe \/ Dispatch \/ Quit \/ StopReplyWatches \/ CommandReturns \/ Woken
    BY <1>2 DEF Arrive, Observe, Dispatch, Quit, StopReplyWatches, CommandReturns, Woken
<1>3. CASE LoopReturns \/ \E r \in Request : Ends(r)
    BY <1>3 DEF LoopReturns, LoopEnds, Ends, RequestStep, Answered, TimesOut, PiGone, Rest
<1>4. CASE Client
    BY <1>4 DEF Moving, Client, ClientStep, CloseChannels, Rest
<1>5. CASE \E w \in Watch : TimerFires(w) \/ Expire(w)
    BY <1>5 DEF TimerFires, Expire
<1> QED BY <1>1, <1>2, <1>3, <1>4, <1>5 DEF Next, ReaderStep, Moving

\* The account of prompts and sends is kept.
LEMMA AccountStep ==
    ASSUME Sorts, WatchInv, Account, [Next]_vars
    PROVE  Account'
<1>1. /\ stdin \in Seq(Request \union Command) /\ stdout \in Seq(Line) /\ events \in Seq(Line)
      /\ prompts \in Int /\ sends \in Int /\ said \in Int
    BY DEF Sorts, Pipes, Places, WatchInv, WatchTypes
<1>0. prompts \in Int /\ sends \in Int /\ said \in Int
    BY <1>1
<1>2. /\ Count(stdin, Turn) \in Int /\ Count(stdout, Response) \in Int /\ Count(events, Response) \in Int
      /\ Count(stdout, Conv) \in Int /\ Count(events, Conv) \in Int
    BY <1>1, HitsFinite DEF Count
<1>3. CASE UNCHANGED Books
    BY <1>3 DEF Books, Account
<1>4. ASSUME NEW line \in Turn, stdin' = Append(stdin, line), prompts' = prompts + 1,
             (Count(stdout', Response) = Count(stdout, Response) /\ Count(events', Response) = Count(events, Response)),
             (Count(stdout', Conv) = Count(stdout, Conv) /\ Count(events', Conv) = Count(events, Conv)),
             UNCHANGED <<sends, said>>
      PROVE  Account'
    <2>1. line \in Request \union Command
        BY <1>4, SortsApart
    <2>2. Count(Append(stdin, line), Turn) = Count(stdin, Turn) + 1
        BY ONLY <1>1, <2>1, line \in Turn, CountMore
    <2>3. (Count(stdin', Turn) + Count(stdout', Response)) + Count(events', Response) =< prompts'
        BY ONLY Account, <1>0, <1>2, <1>4, <2>2 DEF Account
    <2>4. (sends' + Count(stdout', Conv)) + Count(events', Conv) =< said'
        BY <1>4 DEF Account
    <2> QED BY <2>3, <2>4 DEF Account
<1>5. ASSUME NEW line \in Turn, Submit(line), UNCHANGED <<sends, said>>
      PROVE  Account'
    <2>1. CASE pi = "up"
        <3>1. stdin' = Append(stdin, line) /\ prompts' = prompts + 1 /\ UNCHANGED <<stdout, events>>
            BY <1>5, <2>1 DEF Submit, Write
        <3> QED BY <1>4, <1>5, <3>1
    <2>2. CASE pi # "up"
        BY <1>3, <1>5, <2>2 DEF Submit, rpcVars, Books
    <2> QED BY <2>1, <2>2
<1>6. CASE HandleMessage
    <2>1. Behavior(streaming) \in Turn
        BY DEF Behavior, Turn
    <2> QED BY <1>5, <1>6, <2>1 DEF HandleMessage, map, agent
<1>7. CASE HandleCommand
    <2> DEFINE r == CHOOSE r \in Request : call[r] = "new"
               before == IF stanza.does = "new" THEN <<"abort">> ELSE <<>>
               q == Append(stdin, "abort")
    <2>1. r \in Request /\ UNCHANGED <<stdout, events, prompts, sends, said>>
          /\ (stdin' = stdin \/ stdin' = stdin \o Append(before, r))
        BY <1>7 DEF HandleCommand, Call, map, agent
    <2>2. "abort" \in Request \union Command /\ "abort" \notin Turn
          /\ r \in Request \union Command /\ r \notin Turn
        BY <2>1, SortsApart
    <2> HIDE DEF r
    <2>3. stdin \o Append(before, r) = Append(stdin, r) \/ stdin \o Append(before, r) = Append(q, r)
        BY <1>1, <2>2
    <2>4. q \in Seq(Request \union Command) /\ Count(q, Turn) = Count(stdin, Turn)
        BY <1>1, <2>2, CountMore
    <2> HIDE DEF q, before
    <2>5. Count(Append(stdin, r), Turn) = Count(stdin, Turn) /\ Count(Append(q, r), Turn) = Count(q, Turn)
        BY <1>1, <2>2, <2>4, CountMore
    <2>6. Count(stdin', Turn) = Count(stdin, Turn)
        BY <2>1, <2>3, <2>4, <2>5
    <2> QED BY <2>1, <2>6 DEF Account
<1>8. ASSUME NEW event, Handle(event)
      PROVE  /\ UNCHANGED <<stdout, said>> /\ event \in Line
             /\ event \in Response => Count(events', Response) = Count(events, Response) - 1
             /\ event \notin Response => Count(events', Response) = Count(events, Response)
             /\ event \in Conv => Count(events', Conv) = Count(events, Conv) - 1
             /\ event \notin Conv => Count(events', Conv) = Count(events, Conv)
    <2>1. UNCHANGED <<stdout, said>> /\ events # <<>> /\ Head(events) = event /\ events' = Tail(events)
        BY <1>8 DEF Handle, Take, agent
    <2>2. /\ event \in Line
          /\ event \in Response => Count(events', Response) = Count(events, Response) - 1
          /\ event \notin Response => Count(events', Response) = Count(events, Response)
        BY <1>1, <2>1, CountLess
    <2>3. /\ event \in Conv => Count(events', Conv) = Count(events, Conv) - 1
          /\ event \notin Conv => Count(events', Conv) = Count(events, Conv)
        BY <1>1, <2>1, CountLess
    <2> QED BY <2>1, <2>2, <2>3
<1>9. CASE HandleResponse
    <2>1. PICK event \in Response : Handle(event)
        BY <1>9 DEF HandleResponse
    <2>2. prompts' = prompts - 1 /\ UNCHANGED <<stdin, sends>>
        BY <1>9 DEF HandleResponse, map
    <2>3. event \notin Conv
        BY <2>1, SortsApart
    <2>4. /\ Count(events', Response) = Count(events, Response) - 1
          /\ Count(events', Conv) = Count(events, Conv) /\ UNCHANGED <<stdout, said>>
        BY <1>8, <2>1, <2>3
    <2> QED BY <1>1, <1>2, <2>2, <2>4 DEF Account
<1>10. CASE HandleLateAnswer \/ HandleStart
    <2>1. PICK event \in Request \union Lifecycle : Handle(event)
        BY <1>10 DEF HandleLateAnswer, HandleStart, Lifecycle
    <2>2. UNCHANGED <<stdin, sends, prompts>>
        BY <1>10 DEF HandleLateAnswer, HandleStart, map, activity
    <2>3. event \notin Conv /\ event \notin Response
        BY <2>1, SortsApart
    <2>4. /\ Count(events', Response) = Count(events, Response)
          /\ Count(events', Conv) = Count(events, Conv) /\ UNCHANGED <<stdout, said>>
        BY <1>8, <2>1, <2>3
    <2> QED BY <2>2, <2>4 DEF Account
<1>11. CASE HandleSend
    <2>1. PICK c \in Conv : Handle(c) /\ (sends' = sends \/ sends' = sends + 1)
        BY <1>11 DEF HandleSend, Arm, map
    <2>2. UNCHANGED <<stdin, prompts>>
        BY <1>11 DEF HandleSend, activity
    <2>3. c \notin Response
        BY <2>1, SortsApart
    <2>4. /\ Count(events', Response) = Count(events, Response)
          /\ Count(events', Conv) = Count(events, Conv) - 1 /\ UNCHANGED <<stdout, said>>
        BY <1>8, <2>1, <2>3
    <2>5. (sends' + Count(stdout', Conv)) + Count(events', Conv) =< said'
        BY ONLY Account, <1>0, <1>2, <2>1, <2>4 DEF Account
    <2> QED BY <2>2, <2>4, <2>5 DEF Account
<1>12. CASE HandleSettled
    <2>1. Handle("agent_settled") /\ sends' = sends
          /\ \/ UNCHANGED <<stdin, prompts>>
             \/ stdin' = Append(stdin, Behavior(FALSE)) /\ prompts' = prompts + 1
        BY <1>12 DEF HandleSettled, map
    <2>2. "agent_settled" \notin Conv /\ "agent_settled" \notin Response
        BY SortsApart DEF Lifecycle
    <2>3. Behavior(FALSE) \in Turn
        BY DEF Behavior, Turn
    <2>4. /\ Count(events', Response) = Count(events, Response)
          /\ Count(events', Conv) = Count(events, Conv) /\ UNCHANGED <<stdout, said>>
        BY <1>8, <2>1, <2>2
    <2>5. CASE UNCHANGED <<stdin, prompts>>
        BY <2>1, <2>4, <2>5 DEF Account
    <2>6. CASE stdin' = Append(stdin, Behavior(FALSE)) /\ prompts' = prompts + 1
        BY <1>4, <2>1, <2>3, <2>4, <2>6
    <2> QED BY <2>1, <2>5, <2>6
<1>13. CASE Flush
    <2>1. UNCHANGED <<sends, said>> /\ (Submit("prompt") \/ UNCHANGED <<rpcVars, prompts>>)
        BY <1>13 DEF Flush, agent
    <2>2. "prompt" \in Turn
        BY DEF Turn
    <2> QED BY <1>3, <1>5, <2>1, <2>2 DEF rpcVars, Books
<1>14. CASE Client /\ Route
    <2>1. UNCHANGED <<stdin, prompts, sends, said>>
        BY <1>14 DEF Client, ClientStep, Route, RouteAnswer, RouteEvent, RouteDropped, RoutePanics, Rest,
                     CloseChannels, activity, map, agent
    <2>2. PICK line : Routing(line) /\ (events' = events \/ events' = Append(events, line))
        BY <1>14 DEF Route, RouteAnswer, RouteEvent, RouteDropped, RoutePanics
    <2>3. stdout # <<>> /\ Head(stdout) = line /\ stdout' = Tail(stdout)
        BY <2>2 DEF Routing
    <2>4. ASSUME NEW P, Count(stdout, P) \in Int, Count(events, P) \in Int
          PROVE  /\ Count(stdout', P) + Count(events', P) =< Count(stdout, P) + Count(events, P)
                 /\ Count(stdout', P) \in Int /\ Count(events', P) \in Int
        <3>1. /\ line \in Line /\ Count(stdout', P) \in Int
              /\ line \in P => Count(stdout', P) = Count(stdout, P) - 1
              /\ line \notin P => Count(stdout', P) = Count(stdout, P)
            BY <1>1, <2>3, CountLess
        <3>2. CASE events' = events
            BY <2>4, <3>1, <3>2
        <3>3. CASE events' = Append(events, line)
            <4>1. /\ line \in P => Count(events', P) = Count(events, P) + 1
                  /\ line \notin P => Count(events', P) = Count(events, P)
                BY <1>1, <3>1, <3>3, CountMore
            <4> QED BY <2>4, <3>1, <4>1
        <3> QED BY <2>2, <3>2, <3>3
    <2>5. /\ Count(stdout', Response) + Count(events', Response) =< Count(stdout, Response) + Count(events, Response)
          /\ Count(stdout', Response) \in Int /\ Count(events', Response) \in Int
        BY <1>2, <2>4
    <2>6. /\ Count(stdout', Conv) + Count(events', Conv) =< Count(stdout, Conv) + Count(events, Conv)
          /\ Count(stdout', Conv) \in Int /\ Count(events', Conv) \in Int
        BY <1>2, <2>4
    <2>7. (Count(stdin, Turn) + Count(stdout', Response)) + Count(events', Response) =< prompts
        BY ONLY Account, <1>0, <1>2, <2>5 DEF Account
    <2>8. (sends + Count(stdout', Conv)) + Count(events', Conv) =< said
        BY ONLY Account, <1>0, <1>2, <2>6 DEF Account
    <2> QED BY <2>1, <2>7, <2>8 DEF Account
<1>15. ASSUME NEW line \in Line, Say(line)
       PROVE  /\ line \in Response => Count(stdout', Response) = Count(stdout, Response) + 1
              /\ line \notin Response => Count(stdout', Response) = Count(stdout, Response)
              /\ line \in Conv => Count(stdout', Conv) = Count(stdout, Conv) + 1
              /\ line \notin Conv => Count(stdout', Conv) = Count(stdout, Conv)
    <2>1. stdout' = Append(stdout, line)
        BY <1>15 DEF Say
    <2> QED BY <1>1, <2>1, CountMore
<1>16. CASE PiReads
    <2>1. /\ UNCHANGED <<events, prompts, sends, said>> /\ stdin # <<>> /\ stdin' = Tail(stdin)
          /\ \/ Head(stdin) \in Request /\ Say(Head(stdin))
             \/ Head(stdin) = "abort" /\ stdout' = stdout
             \/ Head(stdin) \in Turn /\ \E line \in Response : Say(line)
        BY <1>16 DEF PiReads, Piped, Outside, activity, map, Turn, Response
    <2>2. /\ Head(stdin) \in Turn => Count(stdin', Turn) = Count(stdin, Turn) - 1
          /\ Head(stdin) \notin Turn => Count(stdin', Turn) = Count(stdin, Turn)
        BY <1>1, <2>1, CountLess
    <2>3. CASE Head(stdin) \in Request /\ Say(Head(stdin))
        <3>1. /\ Head(stdin) \in Line /\ Head(stdin) \notin Turn
              /\ Head(stdin) \notin Response /\ Head(stdin) \notin Conv
            BY <2>3, SortsApart
        <3>2. /\ Count(stdout', Response) = Count(stdout, Response)
              /\ Count(stdout', Conv) = Count(stdout, Conv)
            BY <1>15, <2>3, <3>1
        <3> QED BY <2>1, <2>2, <3>1, <3>2 DEF Account
    <2>4. CASE Head(stdin) = "abort" /\ stdout' = stdout
        <3>1. Count(stdin', Turn) = Count(stdin, Turn)
            BY <2>2, <2>4, SortsApart
        <3> QED BY <2>1, <2>4, <3>1 DEF Account
    <2>5. CASE Head(stdin) \in Turn /\ \E line \in Response : Say(line)
        <3>1. PICK line \in Response : Say(line)
            BY <2>5
        <3>2. line \in Line /\ line \notin Conv
            BY <3>1, SortsApart
        <3>3. /\ Count(stdout', Response) = Count(stdout, Response) + 1
              /\ Count(stdout', Conv) = Count(stdout, Conv)
            BY <1>15, <3>1, <3>2
        <3>4. Count(stdin', Turn) = Count(stdin, Turn) - 1
            BY <2>2, <2>5
        <3> QED BY <1>1, <1>2, <2>1, <3>3, <3>4 DEF Account
    <2> QED BY <2>1, <2>3, <2>4, <2>5
<1>17. CASE PiRuns
    <2>1. PICK line \in Lifecycle : Say(line)
        BY <1>17 DEF PiRuns, Lifecycle
    <2>2. line \in Line /\ line \notin Conv /\ line \notin Response
        BY <2>1, SortsApart
    <2>3. Count(stdout', Response) = Count(stdout, Response) /\ Count(stdout', Conv) = Count(stdout, Conv)
        BY <1>15, <2>1, <2>2
    <2> QED BY <1>17, <2>3 DEF PiRuns, Piped, Outside, activity, map, Account
<1>18. CASE PiSends
    <2>1. PICK c \in Conv : Say(c)
        BY <1>18 DEF PiSends
    <2>2. c \in Line /\ c \notin Response
        BY <2>1, SortsApart
    <2>3. Count(stdout', Response) = Count(stdout, Response) /\ Count(stdout', Conv) = Count(stdout, Conv) + 1
        BY <1>15, <2>1, <2>2
    <2>4. said' = said + 1 /\ UNCHANGED <<stdin, events, prompts, sends>>
        BY <1>18 DEF PiSends, Piped, Outside, activity, map
    <2>5. (Count(stdin', Turn) + Count(stdout', Response)) + Count(events', Response) =< prompts'
        BY <2>3, <2>4 DEF Account
    <2>6. (sends' + Count(stdout', Conv)) + Count(events', Conv) =< said'
        BY ONLY Account, <1>0, <1>2, <2>3, <2>4 DEF Account
    <2> QED BY <2>5, <2>6 DEF Account
<1>19. CASE Exit
    <2>1. UNCHANGED <<stdin, events, prompts, sends, said>> /\ stdout' \in {stdout, <<>>}
        BY <1>19 DEF Exit, PiExits, Rest, activity, map, agent
    <2>2. CASE stdout' = stdout
        BY <2>1, <2>2 DEF Account
    <2>3. CASE stdout' = <<>>
        <3>1. Count(stdout', Response) = 0 /\ Count(stdout', Conv) = 0
            BY <2>3, CountNone
        <3>2. Count(stdout, Response) >= 0 /\ Count(stdout, Conv) >= 0
            BY <1>1, HitsFinite DEF Count
        <3> QED BY <1>1, <1>2, <2>1, <3>1, <3>2 DEF Account
    <2> QED BY <2>1, <2>2, <2>3
<1> QED BY <1>3, <1>6, <1>7, <1>9, <1>10, <1>11, <1>12, <1>13, <1>14, <1>16, <1>17, <1>18, <1>19,
           BooksKept DEF Moving, HandleEvent

\* No more watches were started than messages were sent, and prompts counts up from 0.
LEMMA AccountFacts ==
    ASSUME Sorts, WatchInv, Account
    PROVE  prompts \in Nat /\ sends \in 0..MaxSends
<1>1. /\ prompts \in Int /\ sends \in Nat /\ said \in 0..MaxSends /\ MaxSends \in Nat
      /\ Count(stdin, Turn) \in Nat /\ Count(stdout, Response) \in Nat /\ Count(events, Response) \in Nat
      /\ Count(stdout, Conv) \in Nat /\ Count(events, Conv) \in Nat
    BY HitsFinite, WatchAssumption DEF Sorts, Places, Pipes, WatchInv, WatchTypes, Count
<1> QED BY ONLY <1>1, Account DEF Account

\* The client's part keeps its type.
LEMMA PipesStep == Pipes /\ [Next]_vars => Pipes'
<1> SUFFICES ASSUME Pipes, [Next]_vars PROVE Pipes'
    OBVIOUS
<1>0. /\ stdin \in Seq(Request \union Command) /\ stdout \in Seq(Line) /\ events \in Seq(Line)
      /\ Len(stdout) =< PipeCap /\ Len(events) =< EventCap /\ EventCap \in Nat /\ PipeCap \in Nat
    BY RpcAssumption DEF Pipes
<1>1. CASE UNCHANGED rpcVars
    BY <1>1 DEF rpcVars, Pipes
<1>2. ASSUME NEW line \in Line, Say(line) PROVE stdout' \in Seq(Line) /\ Len(stdout') =< PipeCap
    <2>1. Len(stdout) < PipeCap /\ stdout' = Append(stdout, line)
        BY <1>2 DEF Say
    <2> QED BY <1>0, <2>1
<1>3. ASSUME NEW line, Routing(line)
      PROVE  line \in Line /\ stdout' \in Seq(Line) /\ Len(stdout') =< PipeCap
    <2>1. stdout # <<>> /\ Head(stdout) = line /\ stdout' = Tail(stdout)
        BY <1>3 DEF Routing
    <2> QED BY <1>0, <2>1
<1>4. ASSUME NEW event, Take(event) PROVE events' \in Seq(Line) /\ Len(events') =< EventCap
    <2>1. events # <<>> /\ events' = Tail(events)
        BY <1>4 DEF Take
    <2> QED BY <1>0, <2>1
<1>5. ASSUME NEW line \in Command, Write(line) PROVE Pipes'
    <2>1. Append(stdin, line) \in Seq(Request \union Command)
        BY <1>0
    <2> QED BY <1>5, <2>1 DEF Write, Pipes
<1>6. \A stream \in BOOLEAN : Behavior(stream) \in Command
    BY WatchAssumption DEF Behavior
<1>7. CASE HandleMessage
    <2>1. Behavior(streaming) \in Command
        BY WatchAssumption DEF Behavior
    <2> QED BY <1>1, <1>5, <1>7, <2>1 DEF HandleMessage, Submit
<1>8. CASE HandleCommand
    <2> DEFINE r == CHOOSE r \in Request : call[r] = "new"
               before == IF stanza.does = "new" THEN <<"abort">> ELSE <<>>
    <2>1. r \in Request /\ Call(r, before)
        BY <1>8 DEF HandleCommand
    <2>2. stdin \o Append(before, r) \in Seq(Request \union Command)
        <3>1. "abort" \in Request \union Command /\ r \in Request \union Command
            BY <2>1, WatchAssumption
        <3> HIDE DEF r
        <3>2. before \in Seq(Request \union Command)
            <4>1. <<>> \in Seq(Request \union Command) /\ <<"abort">> \in Seq(Request \union Command)
                BY <3>1
            <4> QED BY <4>1
        <3> HIDE DEF before
        <3>3. Append(before, r) \in Seq(Request \union Command)
            BY <3>1, <3>2
        <3> QED BY <1>0, <3>3
    <2> HIDE DEF r, before
    <2> QED BY <2>1, <2>2 DEF Call, Becomes, Pipes
<1>9. CASE HandleEvent
    <2>1. \E event : Take(event)
        BY <1>9 DEF HandleEvent, HandleResponse, HandleLateAnswer, HandleStart, HandleSend, HandleSettled, Handle
    <2>2. UNCHANGED <<call, pending, stdout, pi, bridge>>
        BY <1>9 DEF HandleEvent, HandleResponse, HandleLateAnswer, HandleStart, HandleSend, HandleSettled, Handle
    <2>3. stdin' = stdin \/ stdin' = Append(stdin, Behavior(FALSE))
        BY <1>9 DEF HandleEvent, HandleResponse, HandleLateAnswer, HandleStart, HandleSend, HandleSettled
    <2>4. \E c \in Command : stdin' = stdin \/ stdin' = Append(stdin, c)
        BY <1>6, <2>3
    <2>5. stdin' \in Seq(Request \union Command)
        BY <1>0, <2>4
    <2> QED BY <1>4, <2>1, <2>2, <2>5 DEF Pipes
<1>10. CASE Flush
    <2>1. "prompt" \in Command
        BY WatchAssumption
    <2>2. Submit("prompt") \/ UNCHANGED rpcVars
        BY <1>10 DEF Flush, rpcVars
    <2> QED BY <1>1, <1>5, <2>1, <2>2 DEF Submit
<1>11. CASE Client
    <2>1. CASE RouteAnswer
        BY <1>3, <2>1 DEF RouteAnswer, Pipes
    <2>2. CASE RouteEvent
        <3>1. PICK line \in Line : Routing(line) /\ events' = Append(events, line)
            BY <2>2 DEF RouteEvent
        <3>2. events' \in Seq(Line) /\ Len(events') =< EventCap
            <4>1. Len(events) < EventCap
                BY <2>2 DEF RouteEvent
            <4> QED BY <1>0, <3>1, <4>1
        <3> QED BY <1>3, <2>2, <3>1, <3>2 DEF RouteEvent, Pipes
    <2>3. CASE RouteDropped \/ RoutePanics
        BY <1>3, <2>3 DEF RouteDropped, RoutePanics, Pipes
    <2>4. CASE CloseChannels
        BY <2>4 DEF CloseChannels, Pipes
    <2> QED BY <1>11, <2>1, <2>2, <2>3, <2>4 DEF Client, ClientStep, Route
<1>12. CASE LoopReturns
    BY <1>12 DEF LoopReturns, LoopEnds, Pipes
<1>13. ASSUME NEW r \in Request, Ends(r) PROVE Pipes'
    BY <1>13 DEF Ends, RequestStep, Answered, TimesOut, PiGone, Becomes, Pipes
<1>14. CASE PiReads
    <2>1. /\ UNCHANGED Piped /\ stdin # <<>> /\ stdin' = Tail(stdin)
          /\ stdout' = stdout \/ \E line \in Request \union Event : Say(line)
        BY <1>14, WatchAssumption DEF PiReads, Response
    <2>2. stdin' \in Seq(Request \union Command)
        BY <1>0, <2>1
    <2> QED BY <1>2, <2>1, <2>2 DEF Piped, Pipes, Line
<1>15. CASE PiRuns \/ PiSends
    <2>1. UNCHANGED Piped /\ stdin' = stdin /\ \E line \in Line : Say(line)
        BY <1>15, WatchAssumption DEF PiRuns, PiSends, Line, Lifecycle
    <2> QED BY <1>2, <2>1 DEF Piped, Pipes
<1>16. CASE Exit
    <2>1. stdout' = stdout \/ stdout' = <<>>
        BY <1>16 DEF Exit, PiExits
    <2>2. <<>> \in Seq(Line) /\ Len(<<>>) =< PipeCap
        BY <1>0
    <2>3. stdout' \in Seq(Line) /\ Len(stdout') =< PipeCap
        BY <1>0, <2>1, <2>2
    <2> QED BY <1>16, <2>3 DEF Exit, PiExits, Pipes
<1>17. CASE \/ UNCHANGED vars \/ Arrive \/ Observe \/ Dispatch \/ Quit \/ StopReplyWatches
            \/ CommandReturns \/ Woken \/ \E w \in Watch : TimerFires(w) \/ Expire(w)
    <2>1. UNCHANGED rpcVars
        BY <1>17 DEF vars, Arrive, Observe, Dispatch, Quit, StopReplyWatches, CommandReturns, Woken,
                     TimerFires, Expire
    <2> QED BY <1>1, <2>1
<1> QED BY <1>7, <1>8, <1>9, <1>10, <1>11, <1>12, <1>13, <1>14, <1>15, <1>16, <1>17 DEF Next, ReaderStep

\* So does the rest: each thread takes its own steps, and a timer is started with
\* its watch.
LEMMA PlacesStep ==
    ASSUME Places, WatchInv, sends \in 0..MaxSends, [Next]_vars
    PROVE  Places'
<1> USE DEF Places, activity, shutdown, map, reading, agent, history
<1>0. MaxInbound \in Nat /\ MaxSends \in Nat /\ sends \in Nat /\ Watch = 1..MaxSends
    BY WatchAssumption DEF Watch
<1>1. CASE UNCHANGED vars
    BY <1>1 DEF vars
<1>2. CASE Arrive
    BY <1>0, <1>2 DEF Arrive
<1>3. CASE Observe
    <2>1. UNCHANGED <<activity, shutdown, sends, expired, wake, lock, stanza, left, loop, agent, nudged, runless>>
          /\ reader' = "dispatch" /\ observed' = 0
        BY <1>3 DEF Observe
    <2>2. timer' = timer \/ timer' = StopTimer(watches[stanza.conv])
        BY <1>3 DEF Observe
    <2>3. timer' \in [Watch -> {"off", "running", "firing"}]
          /\ \A w \in Watch : timer'[w] # "off" => timer[w] # "off"
        BY <2>2 DEF StopTimer
    <2> QED BY <1>0, <2>1, <2>3
<1>4. CASE Dispatch \/ CommandReturns \/ Quit
    BY <1>4 DEF Dispatch, CommandReturns, Quit, Unlock
<1>5. CASE HandleMessage \/ HandleCommand
    <2>1. CASE HandleMessage
        <3>1. prompts' \in Int
            BY <2>1 DEF HandleMessage, Submit
        <3>2. /\ UNCHANGED <<streaming, heartbeatRun, recovered, shutdown, map, wake, loop, agent, history>>
              /\ lock' = "free" /\ reader' = "idle" /\ stanza' = NoStanza
              /\ UNCHANGED <<observed, left>>
            BY <2>1 DEF HandleMessage, Unlock
        <3> QED BY <3>1, <3>2
    <2>2. CASE HandleCommand
        BY <2>2 DEF HandleCommand
    <2> QED BY <1>5, <2>1, <2>2
<1>6. CASE StopReplyWatches
    <2>1. timer' \in [Watch -> {"off", "running", "firing"}]
          /\ \A w \in Watch : timer'[w] # "off" => timer[w] # "off"
        BY <1>6 DEF StopReplyWatches, StopTimer
    <2> QED BY <1>6, <2>1 DEF StopReplyWatches, Unlock
<1>7. CASE HandleResponse \/ HandleLateAnswer \/ HandleStart
    <2>1. UNCHANGED <<recovered, shutdown, map, wake, lock, reading, loop, agent, nudged>>
        BY <1>7 DEF HandleResponse, HandleLateAnswer, HandleStart, Handle
    <2>2. streaming' \in BOOLEAN /\ heartbeatRun' \in BOOLEAN /\ runless' \in BOOLEAN
        BY <1>7 DEF HandleResponse, HandleLateAnswer, HandleStart
    <2>3. prompts' \in Int
        BY <1>7 DEF HandleResponse, HandleLateAnswer, HandleStart
    <2> QED BY <2>1, <2>2, <2>3
<1>8. CASE HandleSend
    <2>1. UNCHANGED <<activity, shutdown, expired, wake, lock, reading, loop, agent, nudged, runless>>
        BY <1>8 DEF HandleSend, Arm, Handle
    <2>2. CASE UNCHANGED map
        BY <2>1, <2>2
    <2>3. ASSUME NEW c \in Conv, Arm(c) PROVE Places'
        <3>1. sends' = sends + 1
            BY <2>3 DEF Arm
        <3>2. \A w \in Watch : StopTimer(w)[w] \in {"off", "running", "firing"}
                               /\ (StopTimer(w)[w] # "off" => timer[w] # "off")
            BY DEF StopTimer
        <3>3. timer' \in [Watch -> {"off", "running", "firing"}]
              /\ \A w \in Watch : timer'[w] # "off" => w = sends + 1 \/ timer[w] # "off"
            BY <2>3, <3>2 DEF Arm
        <3>4. \A w \in Watch : timer'[w] # "off" => w =< sends'
            BY <1>0, <3>1, <3>3
        <3>5. expired' \subseteq 1..sends' /\ observed' \in 0..sends'
            BY <1>0, <2>1, <3>1
        <3> QED BY <2>1, <3>3, <3>4, <3>5
    <2> QED BY <1>8, <2>2, <2>3 DEF HandleSend
<1>9. CASE HandleSettled
    <2>1. UNCHANGED <<shutdown, map, wake, lock, reading, agent, nudged, runless>>
        BY <1>9 DEF HandleSettled, Handle
    <2>2. streaming' \in BOOLEAN /\ heartbeatRun' \in BOOLEAN /\ recovered' \in BOOLEAN
        BY <1>9 DEF HandleSettled
    <2>3. /\ prompts' = prompts \/ prompts' = prompts + 1
          /\ loop' = "flush" \/ loop' = loop
        BY <1>9 DEF HandleSettled
    <2>4. prompts' \in Int /\ loop' \in {"events", "flush"}
        BY <2>3
    <2> QED BY <2>1, <2>2, <2>4
<1>10. CASE Woken
    <2>1. UNCHANGED <<activity, shutdown, map, lock, reading, agent, history>>
          /\ wake' \in BOOLEAN /\ loop' \in {"events", "flush"}
        BY <1>10 DEF Woken
    <2> QED BY <2>1
<1>11. CASE Flush
    <2>1. prompts' \in Int
        BY <1>11 DEF Flush, Submit
    <2>2. nudged' \subseteq Watch
        <3>1. nudged' = nudged \/ \E w \in expired : nudged' = nudged \union {w}
            BY <1>11 DEF Flush
        <3>2. expired \subseteq Watch
            BY <1>0
        <3> QED BY <3>1, <3>2
    <2>3. heartbeatRun' \in BOOLEAN
        BY <1>11 DEF Flush
    <2>4. UNCHANGED <<streaming, recovered, shutdown, sends, timer, expired, wake, lock, reading, agent, runless>>
          /\ loop' = "events"
        BY <1>11 DEF Flush
    <2> QED BY <2>1, <2>2, <2>3, <2>4
<1>12. CASE Client \/ LoopReturns \/ Exit \/ \E r \in Request : Ends(r)
    <2>1. UNCHANGED Rest
        BY <1>12 DEF Client, LoopReturns, Exit, Ends
    <2> QED BY <2>1 DEF Rest
<1>13. CASE PiReads \/ PiRuns \/ PiSends
    <2>1. UNCHANGED Outside
        BY <1>13 DEF PiReads, PiRuns, PiSends
    <2>2. run' \in {"idle", "starting", "run"} /\ said' \in 0..MaxSends
        BY <1>0, <1>13 DEF PiReads, PiRuns, PiSends
    <2>3. runless' \in BOOLEAN
        BY <1>13 DEF PiReads, PiRuns, PiSends
    <2> QED BY <2>1, <2>2, <2>3 DEF Outside
<1>14. CASE \E w \in Watch : TimerFires(w)
    <2>1. PICK w \in Watch : TimerFires(w)
        BY <1>14
    <2>2. timer' \in [Watch -> {"off", "running", "firing"}]
          /\ \A v \in Watch : timer'[v] # "off" => timer[v] # "off"
        BY <2>1 DEF TimerFires
    <2> QED BY <2>1, <2>2 DEF TimerFires
<1>15. CASE \E w \in Watch : Expire(w)
    <2>1. PICK w \in Watch : Expire(w)
        BY <1>15
    <2>2. timer' \in [Watch -> {"off", "running", "firing"}]
          /\ \A v \in Watch : timer'[v] # "off" => timer[v] # "off"
        BY <2>1 DEF Expire
    <2>3. w \in 1..sends
        BY <1>0, <2>1 DEF Expire
    <2>4. expired' \subseteq 1..sends /\ wake' \in BOOLEAN
        BY <2>1, <2>3 DEF Expire
    <2> QED BY <2>1, <2>2, <2>4 DEF Expire
<1> QED BY <1>1, <1>2, <1>3, <1>4, <1>5, <1>6, <1>7, <1>8, <1>9, <1>10, <1>11, <1>12, <1>13, <1>14, <1>15
        DEF Next, ReaderStep, HandleEvent

\* At the start nothing is on its way.
LEMMA SortsInit == Init => Sorts /\ Account
<1> SUFFICES ASSUME Init PROVE Sorts /\ Account
    OBVIOUS
<1>1. Pipes
    <2>1. <<>> \in Seq(Request \union Command) /\ <<>> \in Seq(Line) /\ Len(<<>>) = 0
        OBVIOUS
    <2> QED BY <2>1, RpcAssumption DEF Init, RpcInit, Pipes
<1>2. Places
    <2>1. timer \in [Watch -> {"off", "running", "firing"}] /\ \A w \in Watch : timer[w] = "off"
        BY DEF Init
    <2>2. sends = 0 /\ observed \in 0..sends /\ left \in 0..MaxInbound /\ said \in 0..MaxSends
        BY WatchAssumption DEF Init
    <2>3. /\ streaming \in BOOLEAN /\ heartbeatRun \in BOOLEAN /\ recovered \in BOOLEAN
          /\ shuttingDown \in BOOLEAN /\ stopped \in BOOLEAN /\ wake \in BOOLEAN /\ runless \in BOOLEAN
        BY Zenon DEF Init
    <2>6. prompts \in Int
        BY DEF Init
    <2>4. /\ \A w \in Watch : timer[w] # "off" => w =< sends
          /\ expired \subseteq 1..sends /\ nudged \subseteq Watch
          /\ stanza \in Stanza \union {NoStanza}
        BY <2>1 DEF Init
    <2>5. /\ lock \in {"free", "reader"} /\ loop \in {"events", "flush"}
          /\ reader \in {"idle", "observe", "dispatch", "handle", "wait", "quit"}
          /\ run \in {"idle", "starting", "run"}
        BY DEF Init
    <2> QED BY <2>1, <2>2, <2>3, <2>4, <2>5, <2>6 DEF Places
<1>3. Account
    BY CountNone DEF Init, RpcInit, Account
<1> QED BY <1>1, <1>2, <1>3 DEF Sorts

TypeInv == Sorts /\ Account /\ WatchInv /\ AnswerInv

\* The invariant of the types holds at the start.
LEMMA TypeInvInit == Init => TypeInv
BY SortsInit, WatchInit DEF TypeInv, Init, RpcInit, AnswerInv, OwnAnswer

\* Its parts keep each other.
LEMMA TypeInvStep == TypeInv /\ [Next]_vars => TypeInv'
<1> SUFFICES ASSUME TypeInv, [Next]_vars PROVE TypeInv'
    OBVIOUS
<1>1. sends \in 0..MaxSends
    BY AccountFacts DEF TypeInv
<1>2. Pipes' /\ Places'
    BY <1>1, PipesStep, PlacesStep DEF TypeInv, Sorts
<1> QED BY <1>2, AccountStep, WatchStep, AnswerStep DEF TypeInv, Sorts

\* Every variable keeps its type, whatever the bounds: pendingPrompts never goes
\* below zero, since pi answers each prompt once and no late answer of a request
\* is taken for one; no more watches are started than messages were sent; and a
\* watch in the map is one that was started for that conversation
\* (bridge.go:1004-1012, reply_watch.go:16-40).
THEOREM TypeCorrect == Spec => []TypeOK
<1>1. TypeInv => TypeOK
    <2> SUFFICES ASSUME TypeInv PROVE TypeOK
        OBVIOUS
    <2>1. prompts \in Nat /\ sends \in 0..MaxSends /\ sends \in Nat
        BY AccountFacts DEF TypeInv
    <2>2. RpcTypeOK
        BY DEF TypeInv, Sorts, Pipes, AnswerInv, RpcTypeOK, Line
    <2>3. watches \in [Conv -> 0..sends] /\ \A c \in Conv : watches[c] # None => conversation[watches[c]] = c
        BY <2>1, WatchAssumption DEF TypeInv, WatchInv, WatchTypes, MapIsCurrent, None, Watch
    <2>4. replied \subseteq Watch
        BY <2>1, WatchAssumption DEF TypeInv, WatchInv, WatchTypes, Watch
    <2> QED BY <2>1, <2>2, <2>3, <2>4 DEF TypeOK, TypeInv, Sorts, Places, WatchInv, WatchTypes
<1> QED BY TypeInvInit, TypeInvStep, <1>1, PTL DEF Spec
-----------------------------------------------------------------------------
(* Expired watches.                                                          *)

\* A settle is in the queue; every accepted prompt in it is followed by one.
SettledIn(q) == \E k \in DOMAIN q : q[k] = "agent_settled"
Closes(q) ==
    \A i \in DOMAIN q : q[i] = "accepted" => \E k \in DOMAIN q : k > i /\ q[k] = "agent_settled"

\* While pi is idle, the run of each prompt it accepted has settled, and the settle
\* is behind the acceptance on its way to the event loop.
AcceptedEnds ==
    ~runless /\ run = "idle" /\ pi = "up" =>
        Closes(stdout) /\ (Closes(events) \/ SettledIn(stdout))

\* Requests are the reader's, and an abort is followed by the request of its /new.
OnlyReaderWaits == \A r \in Request : call[r] = "waiting" => reader = "wait"
Aborts ==
    \A i \in DOMAIN stdin : stdin[i] = "abort" =>
        /\ i + 1 \in DOMAIN stdin /\ stdin[i + 1] \in Request
        /\ call[stdin[i + 1]] # "new"
        /\ call[stdin[i + 1]] = "waiting" => reader = "wait" /\ stanza.does = "new"

\* Something is under way that brings the event loop to its flush, or a watch is
\* lost for one of the reasons NoForgottenWatch excepts.
Awaited ==
    \/ Blocked \/ run # "idle" \/ runless \/ pi # "up" \/ bridge # "up"
    \/ wake \/ loop = "flush" \/ SettledIn(stdout) \/ SettledIn(events)
    \/ reader = "wait" /\ stanza.does = "new"

\* A watch that has expired does not wait for nothing.
ExpiredIsAwaited == \A w \in Watch : Due(w) => Awaited

\* A watch that was started has its conversation.
Started == \A w \in Watch : w =< sends => conversation[w] \in Conv

AwaitInv == AcceptedEnds /\ OnlyReaderWaits /\ Aborts /\ Started /\ ExpiredIsAwaited

\* A line is added to a queue.
LEMMA SettledMore ==
    ASSUME NEW S, NEW q \in Seq(S), NEW x \in S
    PROVE  /\ SettledIn(Append(q, x)) <=> SettledIn(q) \/ x = "agent_settled"
           /\ x = "agent_settled" => Closes(Append(q, x))
           /\ x # "accepted" /\ Closes(q) => Closes(Append(q, x))
<1>1. /\ DOMAIN q = 1..Len(q) /\ DOMAIN Append(q, x) = 1..(Len(q) + 1) /\ Len(q) \in Nat
      /\ \A i \in 1..Len(q) : Append(q, x)[i] = q[i]
      /\ Append(q, x)[Len(q) + 1] = x
    OBVIOUS
<1>2. SettledIn(Append(q, x)) <=> SettledIn(q) \/ x = "agent_settled"
    BY <1>1 DEF SettledIn
<1>3. x = "agent_settled" => Closes(Append(q, x))
    <2> SUFFICES ASSUME x = "agent_settled", NEW i \in 1..(Len(q) + 1), Append(q, x)[i] = "accepted"
                 PROVE  Len(q) + 1 > i
        BY <1>1 DEF Closes
    <2> QED BY <1>1
<1>4. x # "accepted" /\ Closes(q) => Closes(Append(q, x))
    <2> SUFFICES ASSUME x # "accepted", Closes(q), NEW i \in 1..(Len(q) + 1), Append(q, x)[i] = "accepted"
                 PROVE  \E k \in 1..(Len(q) + 1) : k > i /\ Append(q, x)[k] = "agent_settled"
        BY <1>1 DEF Closes
    <2>1. i \in 1..Len(q) /\ q[i] = "accepted"
        BY <1>1
    <2>2. PICK k \in 1..Len(q) : k > i /\ q[k] = "agent_settled"
        BY <1>1, <2>1 DEF Closes
    <2> QED BY <1>1, <2>2
<1> QED BY <1>2, <1>3, <1>4

\* A line is taken from a queue.
LEMMA SettledLess ==
    ASSUME NEW S, NEW q \in Seq(S), q # <<>>
    PROVE  /\ SettledIn(q) => Head(q) = "agent_settled" \/ SettledIn(Tail(q))
           /\ Closes(q) => Closes(Tail(q))
           /\ Closes(q) /\ Head(q) = "accepted" => SettledIn(Tail(q))
<1>1. /\ Len(q) \in Nat \ {0} /\ DOMAIN q = 1..Len(q) /\ DOMAIN Tail(q) = 1..(Len(q) - 1)
      /\ \A i \in 1..(Len(q) - 1) : Tail(q)[i] = q[i + 1]
      /\ Head(q) = q[1]
    OBVIOUS
<1>2. ASSUME NEW k \in DOMAIN q, k > 1 PROVE k - 1 \in DOMAIN Tail(q) /\ Tail(q)[k - 1] = q[k]
    BY <1>1, <1>2
<1>3. SettledIn(q) => Head(q) = "agent_settled" \/ SettledIn(Tail(q))
    <2> SUFFICES ASSUME NEW k \in DOMAIN q, q[k] = "agent_settled", k # 1
                 PROVE  SettledIn(Tail(q))
        BY <1>1 DEF SettledIn
    <2>1. k > 1
        BY <1>1
    <2> QED BY <1>2, <2>1 DEF SettledIn
<1>4. Closes(q) => Closes(Tail(q))
    <2> SUFFICES ASSUME Closes(q), NEW i \in 1..(Len(q) - 1), q[i + 1] = "accepted"
                 PROVE  \E k \in DOMAIN Tail(q) : k > i /\ Tail(q)[k] = "agent_settled"
        BY <1>1 DEF Closes
    <2>1. PICK k \in 1..Len(q) : k > i + 1 /\ q[k] = "agent_settled"
        BY <1>1 DEF Closes
    <2>2. k - 1 \in DOMAIN Tail(q) /\ Tail(q)[k - 1] = "agent_settled" /\ k - 1 > i
        BY <1>1, <1>2, <2>1
    <2> QED BY <2>2
<1>5. Closes(q) /\ Head(q) = "accepted" => SettledIn(Tail(q))
    <2> SUFFICES ASSUME Closes(q), Head(q) = "accepted" PROVE SettledIn(Tail(q))
        OBVIOUS
    <2>1. PICK k \in DOMAIN q : k > 1 /\ q[k] = "agent_settled"
        BY <1>1 DEF Closes
    <2> QED BY <1>2, <2>1 DEF SettledIn
<1> QED BY <1>3, <1>4, <1>5

\* A queue without responses holds no accepted prompt.
LEMMA NoneAccepted ==
    ASSUME NEW S, NEW q \in Seq(S), Count(q, Response) = 0
    PROVE  Closes(q)
<1>1. IsFiniteSet(Hits(q, Response)) /\ Cardinality(Hits(q, Response)) = 0
    BY HitsFinite DEF Count
<1>2. Hits(q, Response) = {}
    BY <1>1, FS_EmptySet
<1> QED BY <1>2 DEF Hits, Closes, Response

\* The steps that leave the queues, pi and its run alone.
LEMMA QueuesKept ==
    ASSUME [Next]_vars
    PROVE  \/ PiReads \/ PiRuns \/ PiSends \/ Exit \/ Client \/ HandleEvent
           \/ UNCHANGED <<stdout, events, pi, run, runless>>
<1> USE DEF rpcVars, history, agent
<1>1. CASE UNCHANGED vars
    BY <1>1 DEF vars
<1>2. CASE Arrive \/ Observe \/ Dispatch \/ Quit \/ StopReplyWatches \/ CommandReturns \/ Woken
    BY <1>2 DEF Arrive, Observe, Dispatch, Quit, StopReplyWatches, CommandReturns, Woken
<1>3. CASE HandleMessage \/ HandleCommand \/ Flush
    BY <1>3 DEF HandleMessage, HandleCommand, Flush, Submit, Write, Call
<1>4. CASE LoopReturns \/ \E r \in Request : Ends(r)
    BY <1>4 DEF LoopReturns, LoopEnds, Ends, RequestStep, Answered, TimesOut, PiGone, Rest
<1>5. CASE \E w \in Watch : TimerFires(w) \/ Expire(w)
    BY <1>5 DEF TimerFires, Expire
<1> QED BY <1>1, <1>2, <1>3, <1>4, <1>5 DEF Next, ReaderStep

\* What the event loop takes leaves the queue; the rest of the client is left.
LEMMA Takes ==
    ASSUME HandleEvent
    PROVE  \E event \in Response \union Request \union Lifecycle \union Conv :
              /\ events # <<>> /\ Head(events) = event /\ events' = Tail(events) /\ loop = "events"
              /\ UNCHANGED <<stdout, pi, run, reading, call, bridge, shuttingDown>> /\ (runless => runless')
<1>1. ASSUME NEW event, Handle(event)
      PROVE  /\ events # <<>> /\ Head(events) = event /\ events' = Tail(events) /\ loop = "events"
             /\ UNCHANGED <<stdout, pi, run, reading, call, bridge, shuttingDown>>
    BY <1>1 DEF Handle, Take, agent, shutdown
<1>2. CASE HandleResponse
    BY <1>1, <1>2 DEF HandleResponse
<1>3. CASE HandleLateAnswer
    BY <1>1, <1>3 DEF HandleLateAnswer
<1>4. CASE HandleStart
    BY <1>1, <1>4 DEF HandleStart, Lifecycle
<1>5. CASE HandleSend
    BY <1>1, <1>5 DEF HandleSend
<1>6. CASE HandleSettled
    BY <1>1, <1>6 DEF HandleSettled, Lifecycle
<1> QED BY <1>2, <1>3, <1>4, <1>5, <1>6 DEF HandleEvent

\* pi's client routes the first line of its pipe: to a request, to the event
\* channel, or nowhere once pi is gone.
LEMMA Routes ==
    ASSUME Client, pending \subseteq Request
    PROVE  /\ UNCHANGED Rest
           /\ \/ /\ stdout # <<>> /\ stdout' = Tail(stdout) /\ pi' = pi
                 /\ \/ Head(stdout) \in Line /\ events' = Append(events, Head(stdout))
                    \/ Head(stdout) \in Request /\ events' = events
                    \/ pi \in {"done", "over"}
              \/ UNCHANGED <<stdout, events>> /\ pi # "up" /\ pi' # "up"
<1>1. CASE CloseChannels /\ UNCHANGED Rest
    BY <1>1 DEF CloseChannels
<1>2. CASE RouteAnswer /\ UNCHANGED Rest
    BY <1>2 DEF RouteAnswer, Routing
<1>3. CASE RouteEvent /\ UNCHANGED Rest
    BY <1>3 DEF RouteEvent, Routing
<1>4. CASE (RouteDropped \/ RoutePanics) /\ UNCHANGED Rest
    BY <1>4 DEF RouteDropped, RoutePanics, Routing
<1> QED BY <1>1, <1>2, <1>3, <1>4 DEF Client, ClientStep, Route

\* pi ends the run of what it accepted, an abort is noted, and lines stay in order.
LEMMA EndsStep ==
    ASSUME TypeInv, AcceptedEnds, [Next]_vars
    PROVE  AcceptedEnds'
<1>0. /\ stdout \in Seq(Line) /\ events \in Seq(Line) /\ stdin \in Seq(Request \union Command)
      /\ runless \in BOOLEAN /\ run \in {"idle", "starting", "run"} /\ pending \subseteq Request
    BY DEF TypeInv, Sorts, Pipes, Places
<1>1. SUFFICES ASSUME ~runless', run' = "idle", pi' = "up"
               PROVE  Closes(stdout)' /\ (Closes(events)' \/ SettledIn(stdout)')
    BY DEF AcceptedEnds
<1>2. CASE PiReads
    <2>1. /\ stdin # <<>> /\ UNCHANGED <<events, pi>> /\ ~runless
          /\ \/ \E line \in Request \union {"rejected"} : Say(line) /\ run' = run
             \/ UNCHANGED stdout /\ (run # "idle" => ~(prompts > 0))
        <3>1. stdin # <<>> /\ UNCHANGED <<events, pi>>
            BY <1>2 DEF PiReads, Piped
        <3>2. CASE Head(stdin) \in Request /\ Say(Head(stdin)) /\ UNCHANGED <<run, runless>>
            BY <1>1, <3>1, <3>2
        <3>3. CASE /\ UNCHANGED stdout
                   /\ runless' = (runless \/ (run # "idle" /\ (prompts > 0 \/ call[stdin[2]] # "waiting")))
            BY <1>1, <3>1, <3>3
        <3>4. CASE Say("accepted") /\ run' = IF run = "idle" THEN "starting" ELSE run
            BY <1>1, <3>4
        <3>5. CASE Say("rejected") /\ UNCHANGED <<run, runless>>
            BY <1>1, <3>1, <3>5
        <3> QED BY <1>2, <3>2, <3>3, <3>4, <3>5 DEF PiReads
    <2>2. CASE \E line \in Request \union {"rejected"} : Say(line) /\ run' = run
        <3>1. PICK line \in Request \union {"rejected"} : stdout' = Append(stdout, line)
            BY <2>2 DEF Say
        <3>2. line \in Line /\ line # "accepted" /\ line # "agent_settled"
            BY SortsApart, RpcAssumption, WatchAssumption DEF Line, Response, Lifecycle
        <3>3. Closes(stdout) /\ (Closes(events) \/ SettledIn(stdout))
            BY <1>1, <2>1, <2>2 DEF AcceptedEnds
        <3>4. Closes(stdout') /\ (SettledIn(stdout) => SettledIn(stdout'))
            BY <1>0, <3>1, <3>2, <3>3, SettledMore
        <3> QED BY <2>1, <3>3, <3>4 DEF Closes, SettledIn
    <2>3. CASE UNCHANGED stdout /\ run = "idle"
        BY <1>1, <2>1, <2>3 DEF AcceptedEnds, Closes, SettledIn
    <2>4. CASE UNCHANGED stdout /\ ~(prompts > 0)
        <3>1. Count(stdout, Response) = 0 /\ Count(events, Response) = 0
            <4>1. /\ prompts \in Nat /\ Count(stdin, Turn) \in Nat /\ Count(stdout, Response) \in Nat
                  /\ Count(events, Response) \in Nat
                BY <1>0, AccountFacts, HitsFinite DEF TypeInv, Count
            <4>2. (Count(stdin, Turn) + Count(stdout, Response)) + Count(events, Response) =< prompts
                BY DEF TypeInv, Account
            <4> QED BY ONLY <2>4, <4>1, <4>2
        <3>2. Closes(stdout) /\ Closes(events)
            BY <1>0, <3>1, NoneAccepted
        <3> QED BY <2>1, <2>4, <3>2 DEF Closes
    <2> QED BY <2>1, <2>2, <2>3, <2>4
<1>3. CASE PiRuns \/ PiSends
    <2>1. run = "run" /\ stdout' = Append(stdout, "agent_settled")
        BY <1>1, <1>3 DEF PiRuns, PiSends, Say
    <2>2. "agent_settled" \in Line
        BY SortsApart DEF Line, Lifecycle
    <2>3. Closes(stdout') /\ SettledIn(stdout')
        BY <1>0, <2>1, <2>2, SettledMore
    <2> QED BY <2>3 DEF Closes, SettledIn
<1>4. CASE Exit
    BY <1>1, <1>4 DEF Exit, PiExits
<1>5. CASE Client
    <2>1. UNCHANGED <<run, runless>>
        BY <1>0, <1>5, Routes DEF Rest, agent, history
    <2>2. stdout # <<>> /\ stdout' = Tail(stdout) /\ pi = "up"
        BY <1>0, <1>1, <1>5, Routes
    <2>3. Closes(stdout) /\ (Closes(events) \/ SettledIn(stdout))
        BY <1>1, <2>1, <2>2 DEF AcceptedEnds
    <2>4. Closes(stdout')
        BY <1>0, <2>2, <2>3, SettledLess
    <2>5. CASE Head(stdout) \in Line /\ events' = Append(events, Head(stdout))
        <3>1. CASE Head(stdout) = "accepted"
            <4>1. SettledIn(stdout')
                BY <1>0, <2>2, <2>3, <3>1, SettledLess
            <4> QED BY <2>4, <4>1 DEF Closes, SettledIn
        <3>2. CASE Head(stdout) = "agent_settled"
            <4>1. Closes(events')
                BY <1>0, <2>5, <3>2, SettledMore
            <4> QED BY <2>4, <4>1 DEF Closes
        <3>3. CASE Head(stdout) # "accepted" /\ Head(stdout) # "agent_settled"
            <4>1. Closes(events') \/ SettledIn(stdout')
                BY <1>0, <2>2, <2>3, <2>5, <3>3, SettledMore, SettledLess
            <4> QED BY <2>4, <4>1 DEF Closes, SettledIn
        <3> QED BY <3>1, <3>2, <3>3
    <2>6. CASE Head(stdout) \in Request /\ events' = events
        <3>1. Head(stdout) # "agent_settled"
            BY <2>6, SortsApart, RpcAssumption, WatchAssumption DEF Lifecycle
        <3>2. Closes(events') \/ SettledIn(stdout')
            BY <1>0, <2>2, <2>3, <2>6, <3>1, SettledLess
        <3> QED BY <2>4, <3>2 DEF Closes, SettledIn
    <2> QED BY <1>0, <1>5, <2>2, <2>5, <2>6, Routes
<1>6. CASE HandleEvent
    <2>1. events # <<>> /\ events' = Tail(events) /\ UNCHANGED <<stdout, pi, run>> /\ ~runless
        BY <1>1, <1>6, Takes
    <2>2. Closes(stdout) /\ (Closes(events) \/ SettledIn(stdout))
        BY <1>1, <2>1 DEF AcceptedEnds
    <2>3. Closes(events) => Closes(events')
        BY <1>0, <2>1, SettledLess
    <2> QED BY <2>1, <2>2, <2>3 DEF Closes, SettledIn
<1>7. CASE UNCHANGED <<stdout, events, pi, run, runless>>
    BY <1>1, <1>7 DEF AcceptedEnds, Closes, SettledIn
<1> QED BY <1>2, <1>3, <1>4, <1>5, <1>6, <1>7, QueuesKept

\* What a step does to the commands for pi and to the requests that wait.
LEMMA Talks ==
    ASSUME [Next]_vars
    PROVE  \/ HandleCommand \/ PiReads \/ \E r \in Request : Ends(r)
           \/ /\ \E command \in Turn : stdin' = Append(stdin, command)
              /\ UNCHANGED call /\ (reader = "wait" => UNCHANGED <<reader, stanza>>)
           \/ /\ UNCHANGED <<stdin, call>>
              /\ \/ reader = "wait" => UNCHANGED <<reader, stanza>>
                 \/ \A r \in Request : call[r] # "waiting"
<1> USE DEF rpcVars, reading
<1>1. CASE UNCHANGED vars
    BY <1>1 DEF vars
<1>2. CASE Arrive \/ Observe \/ Dispatch \/ Quit \/ StopReplyWatches \/ CommandReturns \/ Woken
    BY <1>2 DEF Arrive, Observe, Dispatch, Quit, StopReplyWatches, CommandReturns, Woken
<1>3. \A stream : Behavior(stream) \in Turn
    BY DEF Behavior, Turn
<1>4. CASE HandleMessage
    BY <1>3, <1>4 DEF HandleMessage, Submit, Write
<1>5. CASE Flush
    <2>1. "prompt" \in Turn
        BY DEF Turn
    <2> QED BY <1>5, <2>1 DEF Flush, Submit, Write
<1>6. CASE HandleEvent
    <2>1. UNCHANGED <<reading, call>>
        BY <1>6, Takes
    <2>2. stdin' = stdin \/ \E command \in Turn : stdin' = Append(stdin, command)
        BY <1>3, <1>6 DEF HandleEvent, HandleResponse, HandleLateAnswer, HandleStart, HandleSend, HandleSettled
    <2> QED BY <2>1, <2>2
<1>7. CASE Client
    BY <1>7 DEF Client, ClientStep, Route, RouteAnswer, RouteEvent, RouteDropped, RoutePanics,
                CloseChannels, Rest
<1>8. CASE LoopReturns \/ Exit
    BY <1>8 DEF LoopReturns, LoopEnds, Exit, PiExits, Rest
<1>9. CASE PiRuns \/ PiSends
    BY <1>9 DEF PiRuns, PiSends, Piped, Outside
<1>10. CASE \E w \in Watch : TimerFires(w) \/ Expire(w)
    BY <1>10 DEF TimerFires, Expire
<1> QED BY <1>1, <1>2, <1>4, <1>5, <1>6, <1>7, <1>8, <1>9, <1>10 DEF Next, ReaderStep

\* Requests are made by the reader, one after the other, each behind its abort.
LEMMA AbortsStep ==
    ASSUME Pipes, OnlyReaderWaits, Aborts, [Next]_vars
    PROVE  OnlyReaderWaits' /\ Aborts'
<1>0. /\ stdin \in Seq(Request \union Command)
      /\ call \in [Request -> {"new", "waiting", "answered", "failed"}]
      /\ "abort" \in Command /\ "abort" \notin Request
    BY SortsApart, RpcAssumption, WatchAssumption DEF Pipes
<1>1. CASE HandleCommand
    <2> DEFINE r == CHOOSE r \in Request : call[r] = "new"
               before == IF stanza.does = "new" THEN <<"abort">> ELSE <<>>
    <2>1. /\ r \in Request /\ call[r] = "new" /\ stanza.does \in {"ask", "new"}
          /\ reader = "handle" /\ reader' = "wait" /\ stanza' = stanza
          /\ \/ call' = [call EXCEPT ![r] = "waiting"] /\ stdin' = stdin \o Append(before, r)
             \/ call' = [call EXCEPT ![r] = "failed"] /\ stdin' = stdin
        BY <1>1 DEF HandleCommand, Call, Becomes
    <2>2. \A s \in Request : call[s] # "waiting"
        BY <2>1 DEF OnlyReaderWaits
    <2> HIDE DEF r
    <2>3. ASSUME NEW i \in DOMAIN stdin, stdin[i] = "abort"
          PROVE  /\ i + 1 \in DOMAIN stdin /\ stdin[i + 1] \in Request \ {r}
                 /\ call'[stdin[i + 1]] = call[stdin[i + 1]]
                 /\ call[stdin[i + 1]] \notin {"new", "waiting"}
        BY <1>0, <2>1, <2>2, <2>3 DEF Aborts
    <2>4. CASE stdin' = stdin
        BY <2>1, <2>3, <2>4 DEF Aborts, OnlyReaderWaits
    <2>5. CASE call' = [call EXCEPT ![r] = "waiting"] /\ stdin' = stdin \o Append(before, r)
        <3>1. call'[r] = "waiting"
            BY <1>0, <2>1, <2>5
        <3>2. /\ DOMAIN stdin = 1..Len(stdin) /\ Len(stdin) \in Nat
              /\ \A i \in 1..Len(stdin) : stdin'[i] = stdin[i]
              /\ stanza.does # "new" => DOMAIN stdin' = 1..(Len(stdin) + 1) /\ stdin'[Len(stdin) + 1] = r
              /\ stanza.does = "new" => /\ DOMAIN stdin' = 1..(Len(stdin) + 2)
                                        /\ stdin'[Len(stdin) + 1] = "abort"
                                        /\ stdin'[Len(stdin) + 2] = r
            <4>1. CASE stanza.does = "new"
                <5>1. stdin' = Append(Append(stdin, "abort"), r)
                    BY <1>0, <2>1, <2>5, <4>1
                <5> QED BY <1>0, <2>1, <4>1, <5>1
            <4>2. CASE stanza.does # "new"
                <5>1. stdin' = Append(stdin, r)
                    BY <1>0, <2>1, <2>5, <4>2
                <5> QED BY <1>0, <2>1, <4>2, <5>1
            <4> QED BY <4>1, <4>2
        <3>3. ASSUME NEW i \in DOMAIN stdin', stdin'[i] = "abort"
              PROVE  /\ i + 1 \in DOMAIN stdin' /\ stdin'[i + 1] \in Request
                     /\ call'[stdin'[i + 1]] # "new"
                     /\ call'[stdin'[i + 1]] = "waiting" => stanza.does = "new"
            <4>1. CASE i \in 1..Len(stdin)
                <5>1. stdin[i] = "abort" /\ i + 1 \in 1..Len(stdin)
                    BY <2>3, <3>2, <3>3, <4>1
                <5> QED BY <2>3, <3>2, <4>1, <5>1
            <4>2. CASE i \notin 1..Len(stdin)
                <5>1. stanza.does = "new" /\ i = Len(stdin) + 1
                    BY <1>0, <2>1, <3>2, <3>3, <4>2
                <5> QED BY <2>1, <3>1, <3>2, <5>1
            <4> QED BY <4>1, <4>2
        <3> QED BY <2>1, <3>3 DEF Aborts, OnlyReaderWaits
    <2> QED BY <2>1, <2>4, <2>5
<1>2. CASE PiReads
    <2>1. stdin # <<>> /\ stdin' = Tail(stdin) /\ UNCHANGED <<call, reader, stanza>>
        BY <1>2 DEF PiReads, Piped, Outside, reading
    <2>2. /\ Len(stdin) \in Nat /\ DOMAIN stdin = 1..Len(stdin) /\ DOMAIN stdin' = 1..(Len(stdin) - 1)
          /\ \A i \in 1..(Len(stdin) - 1) : stdin'[i] = stdin[i + 1]
        BY <1>0, <2>1
    <2>3. ASSUME NEW i \in DOMAIN stdin', stdin'[i] = "abort"
          PROVE  i + 1 \in DOMAIN stdin' /\ stdin'[i + 1] = stdin[(i + 1) + 1] /\ stdin[i + 1] = "abort"
                 /\ i + 1 \in DOMAIN stdin
        <3>1. stdin[i + 1] = "abort" /\ i + 1 \in DOMAIN stdin
            BY <2>2, <2>3
        <3>2. (i + 1) + 1 \in DOMAIN stdin
            BY <3>1 DEF Aborts
        <3> QED BY <2>2, <3>1, <3>2
    <2>4. Aborts'
        BY <2>1, <2>3 DEF Aborts
    <2> QED BY <2>1, <2>4 DEF OnlyReaderWaits
<1>3. ASSUME NEW r \in Request, Ends(r) PROVE OnlyReaderWaits' /\ Aborts'
    <2>1. /\ UNCHANGED <<stdin, reader, stanza>>
          /\ call' = [call EXCEPT ![r] = "answered"] \/ call' = [call EXCEPT ![r] = "failed"]
        BY <1>3 DEF Ends, RequestStep, Answered, TimesOut, PiGone, Becomes, Rest, reading
    <2>2. \A s \in Request : call'[s] = call[s] \/ call'[s] \in {"answered", "failed"}
        BY <1>0, <2>1
    <2> QED BY <2>1, <2>2 DEF OnlyReaderWaits, Aborts
<1>4. ASSUME NEW command \in Turn, stdin' = Append(stdin, command), UNCHANGED call,
             reader = "wait" => UNCHANGED <<reader, stanza>>
      PROVE  OnlyReaderWaits' /\ Aborts'
    <2>1. command # "abort" /\ command \in Request \union Command
        BY SortsApart
    <2>2. /\ Len(stdin) \in Nat /\ DOMAIN stdin = 1..Len(stdin) /\ DOMAIN stdin' = 1..(Len(stdin) + 1)
          /\ \A i \in 1..Len(stdin) : stdin'[i] = stdin[i]
          /\ stdin'[Len(stdin) + 1] = command
        BY <1>0, <1>4, <2>1
    <2>3. ASSUME NEW i \in DOMAIN stdin', stdin'[i] = "abort"
          PROVE  i \in DOMAIN stdin /\ stdin[i] = "abort"
        BY <2>1, <2>2, <2>3
    <2>4. Aborts'
        BY <1>4, <2>2, <2>3 DEF Aborts
    <2> QED BY <1>4, <2>4 DEF OnlyReaderWaits
<1>5. ASSUME UNCHANGED <<stdin, call>>,
             (reader = "wait" => UNCHANGED <<reader, stanza>>) \/ \A r \in Request : call[r] # "waiting"
      PROVE  OnlyReaderWaits' /\ Aborts'
    BY <1>5 DEF OnlyReaderWaits, Aborts
<1> QED BY <1>1, <1>2, <1>3, <1>4, <1>5, Talks

\* A watch gets its conversation as it is started and keeps it.
LEMMA StartedStep ==
    ASSUME WatchInv, Started, [Next]_vars
    PROVE  Started'
<1>1. CASE Observe \/ Removes \/ Marks \/ Keeps
    BY <1>1 DEF Observe, Removes, Marks, Keeps, Started
<1>2. ASSUME NEW c \in Conv, Arm(c) PROVE Started'
    <2>1. /\ sends' = sends + 1 /\ conversation' = [conversation EXCEPT ![sends + 1] = c]
          /\ sends \in Nat /\ conversation \in [Watch -> Conv \union {Nothing}]
        BY <1>2 DEF Arm, WatchInv, WatchTypes
    <2>2. ASSUME NEW w \in Watch, w =< sends' PROVE conversation'[w] \in Conv
        <3>1. w \in Nat /\ (w =< sends \/ w = sends + 1)
            BY <2>1, <2>2, WatchAssumption DEF Watch
        <3> QED BY <2>1, <3>1 DEF Started
    <2> QED BY <2>2 DEF Started
<1> QED BY <1>1, <1>2, MapSteps

\* A watch is marked as the loop is woken.
LEMMA MarkWakes ==
    ASSUME [Next]_vars
    PROVE  expired' = expired \/ wake'
<1> USE DEF map
<1>1. CASE UNCHANGED vars
    BY <1>1 DEF vars
<1>2. CASE Arrive \/ ReaderStep \/ Woken \/ Flush
    BY <1>2 DEF Arrive, ReaderStep, Observe, Dispatch, HandleMessage, HandleCommand, CommandReturns,
                Quit, StopReplyWatches, Woken, Flush
<1>3. CASE HandleEvent
    BY <1>3 DEF HandleEvent, HandleResponse, HandleLateAnswer, HandleStart, HandleSend, HandleSettled, Arm
<1>4. CASE Client \/ LoopReturns \/ Exit \/ \E r \in Request : Ends(r)
    BY <1>4 DEF Client, LoopReturns, Exit, Ends, Rest
<1>5. CASE PiReads \/ PiRuns \/ PiSends
    BY <1>5 DEF PiReads, PiRuns, PiSends, Outside
<1>6. CASE \E w \in Watch : TimerFires(w) \/ Expire(w)
    BY <1>6 DEF TimerFires, Expire
<1> QED BY <1>1, <1>2, <1>3, <1>4, <1>5, <1>6 DEF Next

\* A watch that is due was due before, or wakes the loop.
LEMMA DueBefore ==
    ASSUME WatchInv, Places, Started, [Next]_vars, NEW w \in Watch, Due(w)'
    PROVE  Due(w) \/ wake'
<1>1. CASE expired' # expired
    BY <1>1, MarkWakes
<1>2. CASE expired' = expired
    <2>1. w \in expired /\ w \in 1..sends /\ sends \in Nat
        BY <1>2 DEF Due, Places, WatchInv, WatchTypes
    <2>2. CASE Removes \/ Marks \/ Keeps \/ Observe
        <3>1. conversation' = conversation
            BY <2>2 DEF Removes, Marks, Keeps, Observe
        <3>2. watches'[conversation[w]] = w
            BY <3>1 DEF Due
        <3>3. CASE Marks \/ Keeps
            BY <2>1, <3>2, <3>3 DEF Marks, Keeps, Due
        <3>4. CASE Removes \/ Observe
            <4>1. \A c \in Conv : watches'[c] \in {watches[c], None}
                BY <3>4 DEF Removes, Observe, WatchInv, WatchTypes
            <4>2. w # None /\ conversation[w] \in Conv
                BY <2>1 DEF None, Started
            <4> QED BY <2>1, <3>2, <3>4, <4>1, <4>2 DEF Due
        <3> QED BY <2>2, <3>3, <3>4
    <2>3. ASSUME NEW c \in Conv, Arm(c) PROVE Due(w)
        <3>1. /\ watches' = [watches EXCEPT ![c] = sends + 1]
              /\ conversation' = [conversation EXCEPT ![sends + 1] = c]
              /\ watches \in [Conv -> 0..sends] /\ conversation \in [Watch -> Conv \union {Nothing}]
            BY <2>3 DEF Arm, WatchInv, WatchTypes
        <3>2. conversation'[w] = conversation[w] /\ w # sends + 1
            BY <2>1, <3>1
        <3>3. watches'[conversation[w]] = w
            BY <3>2 DEF Due
        <3> QED BY <2>1, <3>1, <3>2, <3>3 DEF Due
    <2> QED BY <2>2, <2>3, MapSteps
<1> QED BY <1>1, <1>2

\* What Awaited is about, the queues aside.
Signs == <<streaming, prompts, heartbeatRun, shuttingDown, run, runless, pi, bridge, wake, loop>>

\* What brings the loop to its flush is only ever replaced by something else that
\* does, or by a flush that finds no watch due.
LEMMA AwaitedStep ==
    ASSUME TypeInv, AcceptedEnds, Aborts, Awaited, [Next]_vars
    PROVE  Awaited' \/ (UNCHANGED map /\ \A c \in Conv : watches[c] \notin expired)
<1> USE DEF Awaited, Blocked, SettledIn, rpcVars, activity, shutdown, reading, agent, history
<1>0. /\ stdout \in Seq(Line) /\ events \in Seq(Line) /\ stdin \in Seq(Request \union Command)
      /\ runless \in BOOLEAN /\ run \in {"idle", "starting", "run"} /\ pending \subseteq Request
      /\ streaming \in BOOLEAN /\ heartbeatRun \in BOOLEAN /\ wake \in BOOLEAN
      /\ shuttingDown \in BOOLEAN /\ prompts \in Nat
    BY AccountFacts DEF TypeInv, Sorts, Pipes, Places
<1>1. CASE \/ UNCHANGED vars \/ Arrive \/ Observe \/ Dispatch \/ StopReplyWatches
           \/ \E w \in Watch : TimerFires(w)
    <2>1. UNCHANGED <<Signs, stdout, events>> /\ (reader = "wait" => UNCHANGED <<reader, stanza>>)
        BY <1>1 DEF vars, Arrive, Observe, Dispatch, StopReplyWatches, TimerFires, Signs
    <2> QED BY <2>1 DEF Signs
<1>2. CASE Quit \/ \E w \in Watch : Expire(w)
    <2>1. /\ UNCHANGED <<streaming, prompts, heartbeatRun, run, runless, pi, bridge, loop, stdout, events>>
          /\ (shuttingDown => shuttingDown') /\ (wake => wake')
          /\ (reader = "wait" => UNCHANGED <<reader, stanza>>)
        BY <1>2 DEF Quit, Expire
    <2> QED BY <1>0, <2>1
<1>3. CASE HandleMessage
    <2>1. /\ UNCHANGED <<streaming, heartbeatRun, shuttingDown, run, runless, pi, bridge, wake, loop, stdout, events>>
          /\ prompts' \in {prompts, prompts + 1} /\ reader = "handle"
        BY <1>3 DEF HandleMessage, Submit, Write
    <2> QED BY <1>0, <2>1
<1>4. CASE HandleCommand
    <2>1. /\ UNCHANGED <<prompts, shuttingDown, run, runless, pi, bridge, wake, loop, stdout, events>>
          /\ \/ UNCHANGED <<streaming, heartbeatRun>>
             \/ reader' = "wait" /\ stanza' = stanza /\ stanza.does = "new"
          /\ reader = "handle"
        BY <1>4 DEF HandleCommand, Call
    <2> QED BY <2>1
<1>5. CASE CommandReturns
    BY <1>0, <1>5 DEF CommandReturns
<1>6. CASE Woken
    BY <1>6 DEF Woken
<1>7. CASE Flush
    <2>1. UNCHANGED <<streaming, shuttingDown, run, runless, pi, bridge, wake, stdout, events, sends,
                      conversation, timer, expired>>
        BY <1>7 DEF Flush, Submit, Write
    <2>2. \/ UNCHANGED <<prompts, heartbeatRun>> /\ (streaming \/ prompts > 0 \/ heartbeatRun \/ shuttingDown)
          \/ watches' = watches /\ \A c \in Conv : watches[c] \notin expired
          \/ heartbeatRun' = TRUE
          \/ pi # "up"
        BY <1>7 DEF Flush
    <2> QED BY <2>1, <2>2 DEF map
<1>8. CASE HandleEvent
    <2>1. PICK event \in Response \union Request \union Lifecycle \union Conv :
              /\ events # <<>> /\ Head(events) = event /\ events' = Tail(events) /\ loop = "events"
              /\ UNCHANGED <<stdout, pi, run, reading, call, bridge, shuttingDown>>
              /\ (runless => runless')
        BY <1>8, Takes
    <2>2. SettledIn(events) => Head(events) = "agent_settled" \/ SettledIn(events')
        BY <1>0, <2>1, SettledLess
    <2>3. CASE HandleSettled
        <3>1. loop' = "flush" \/ prompts' = prompts + 1
            BY <2>3 DEF HandleSettled
        <3> QED BY <1>0, <3>1
    <2>4. CASE HandleResponse
        <3>1. /\ UNCHANGED <<streaming, wake, loop>> /\ Head(events) \in Response
              /\ runless' = (runless \/ Head(events) = "rejected")
              /\ Head(events) # "rejected" => heartbeatRun' = heartbeatRun
            BY <1>0, <2>4 DEF HandleResponse, Handle, Take, Response
        <3>2. CASE Head(events) = "rejected"
            BY <3>1, <3>2
        <3>3. CASE Head(events) = "accepted"
            <4>1. ASSUME ~runless, run = "idle", pi = "up"
                  PROVE  SettledIn(events') \/ SettledIn(stdout')
                <5>1. Closes(events) \/ SettledIn(stdout)
                    BY <4>1 DEF AcceptedEnds
                <5>2. Closes(events) => SettledIn(events')
                    BY <1>0, <2>1, <3>3, SettledLess
                <5> QED BY <2>1, <5>1, <5>2
            <4> QED BY <2>1, <4>1
        <3> QED BY <3>1, <3>2, <3>3 DEF Response
    <2>5. CASE HandleLateAnswer \/ HandleStart \/ HandleSend
        <3>1. /\ UNCHANGED <<prompts, heartbeatRun, wake, loop, runless>> /\ (streaming => streaming')
              /\ Head(events) # "agent_settled"
            BY <2>5, SortsApart, RpcAssumption, WatchAssumption
               DEF HandleLateAnswer, HandleStart, HandleSend, Handle, Take, Lifecycle
        <3> QED BY <1>0, <2>1, <2>2, <3>1
    <2> QED BY <1>8, <2>3, <2>4, <2>5 DEF HandleEvent
<1>9. CASE Client
    <2>1. UNCHANGED <<streaming, prompts, heartbeatRun, shuttingDown, run, runless, wake, loop, reader, stanza>>
        BY <1>0, <1>9, Routes DEF Rest
    <2>2. CASE pi # "up"
        BY <1>0, <1>9, <2>2, Routes
    <2>3. CASE pi = "up"
        <3>1. /\ stdout # <<>> /\ stdout' = Tail(stdout) /\ pi' = pi
              /\ \/ Head(stdout) \in Line /\ events' = Append(events, Head(stdout))
                 \/ Head(stdout) \in Request /\ events' = events
            BY <1>0, <1>9, <2>3, Routes
        <3>2. SettledIn(stdout) => Head(stdout) = "agent_settled" \/ SettledIn(stdout')
            BY <1>0, <3>1, SettledLess
        <3>3. Head(stdout) \in Request => Head(stdout) # "agent_settled"
            BY RpcAssumption, WatchAssumption DEF Lifecycle
        <3>4. SettledIn(stdout) \/ SettledIn(events) => SettledIn(stdout') \/ SettledIn(events')
            <4>1. CASE Head(stdout) \in Line /\ events' = Append(events, Head(stdout))
                BY <1>0, <3>2, <4>1, SettledMore
            <4>2. CASE Head(stdout) \in Request /\ events' = events
                BY <3>2, <3>3, <4>2
            <4> QED BY <3>1, <4>1, <4>2
        <3>5. bridge' # "up" \/ bridge' = bridge
            BY <1>9, <2>3 DEF Client, ClientStep, Route, RouteAnswer, RouteEvent, RouteDropped, RoutePanics,
                              CloseChannels
        <3> QED BY <2>1, <3>1, <3>4, <3>5
    <2> QED BY <2>2, <2>3
<1>10. CASE LoopReturns
    BY <1>10 DEF LoopReturns, LoopEnds
<1>11. CASE Exit
    BY <1>11 DEF Exit, PiExits
<1>12. CASE PiReads
    <2>1. /\ UNCHANGED <<streaming, prompts, heartbeatRun, shuttingDown, pi, bridge, wake, loop, events, reader, stanza>>
          /\ stdin # <<>> /\ (runless => runless')
        BY <1>0, <1>12 DEF PiReads, Piped, Outside
    <2>2. stdout' = stdout \/ \E line \in Line : stdout' = Append(stdout, line)
        <3>1. {"accepted", "rejected"} \subseteq Line
            BY SortsApart DEF Response
        <3> QED BY <1>12, <3>1 DEF PiReads, Say, Line
    <2>3. SettledIn(stdout) => SettledIn(stdout')
        <3> HIDE DEF SettledIn
        <3> QED BY <1>0, <2>2, SettledMore
    <2>4. CASE run' = run \/ run' = "starting"
        BY <2>1, <2>3, <2>4
    <2>5. CASE Head(stdin) = "abort"
        <3>1. runless' = (runless \/ (run # "idle" /\ (prompts > 0 \/ call[stdin[2]] # "waiting")))
            BY <1>0, <1>12, <2>5, SortsApart, RpcAssumption DEF PiReads, Turn
        <3>2. call[stdin[2]] = "waiting" => reader = "wait" /\ stanza.does = "new"
            <4>1. 1 \in DOMAIN stdin /\ stdin[1] = "abort" /\ 1 + 1 = 2
                BY <1>0, <2>1, <2>5
            <4> QED BY <4>1 DEF Aborts
        <3>3. CASE run = "idle"
            BY <2>1, <2>3, <3>3
        <3>4. CASE run # "idle"
            BY <2>1, <3>1, <3>2, <3>4
        <3> QED BY <3>3, <3>4
    <2> QED BY <1>12, <2>4, <2>5 DEF PiReads
<1>13. CASE PiRuns
    <2>1. /\ UNCHANGED <<streaming, prompts, heartbeatRun, shuttingDown, runless, pi, bridge, wake, loop, events, reader, stanza>>
          /\ \/ run' # "idle" /\ stdout' = Append(stdout, "agent_start")
             \/ stdout' = Append(stdout, "agent_settled")
        BY <1>13 DEF PiRuns, Piped, Outside, Say
    <2>2. {"agent_start", "agent_settled"} \subseteq Line
        BY SortsApart DEF Lifecycle
    <2>3. SettledIn(Append(stdout, "agent_settled"))
        BY <1>0, <2>2, SettledMore
    <2> QED BY <2>1, <2>3
<1>14. CASE PiSends
    <2>1. /\ UNCHANGED <<streaming, prompts, heartbeatRun, shuttingDown, run, pi, bridge>> /\ run = "run"
        BY <1>14 DEF PiSends, Piped, Outside
    <2> QED BY <2>1
<1>15. CASE \E r \in Request : Ends(r)
    <2>1. UNCHANGED <<Signs, stdout, events, reader, stanza>>
        BY <1>15 DEF Ends, RequestStep, Answered, TimesOut, PiGone, Rest, Signs
    <2> QED BY <2>1 DEF Signs
<1> QED BY <1>1, <1>2, <1>3, <1>4, <1>5, <1>6, <1>7, <1>8, <1>9, <1>10, <1>11, <1>12, <1>13, <1>14, <1>15
        DEF Next, ReaderStep

\* A watch that has expired beside an idle agent is on its way to be dealt with: the
\* loop is woken, at its flush, or a settle or the end of a /new will bring it there
\* (reply_watch.go:60-62), however many requests, watches and prompts there are.
\* It is what NoForgottenWatch rests on, and shows that the exceptions there are all:
\* a prompt that pi refuses or that /new aborts early, and the end of pi.
THEOREM ExpiredAwaited == Spec => []ExpiredIsAwaited
<1>1. Init => TypeInv /\ AwaitInv
    <2> SUFFICES ASSUME Init PROVE TypeInv /\ AwaitInv
        OBVIOUS
    <2>1. TypeInv
        BY TypeInvInit
    <2>2. DOMAIN stdin = {} /\ DOMAIN stdout = {} /\ DOMAIN events = {}
        BY DEF Init, RpcInit
    <2>3. AcceptedEnds /\ OnlyReaderWaits /\ Aborts
        BY <2>2 DEF Init, RpcInit, AcceptedEnds, OnlyReaderWaits, Aborts, Closes
    <2>4. Started
        BY WatchAssumption DEF Init, Started, Watch
    <2>5. ExpiredIsAwaited
        BY DEF Init, ExpiredIsAwaited, Due
    <2> QED BY <2>1, <2>3, <2>4, <2>5 DEF AwaitInv
<1>2. TypeInv /\ AwaitInv /\ [Next]_vars => (TypeInv /\ AwaitInv)'
    <2> SUFFICES ASSUME TypeInv, AwaitInv, [Next]_vars PROVE TypeInv' /\ AwaitInv'
        OBVIOUS
    <2>0. /\ WatchInv /\ Places /\ Pipes /\ AcceptedEnds /\ OnlyReaderWaits /\ Aborts /\ Started
          /\ ExpiredIsAwaited
        BY DEF TypeInv, Sorts, AwaitInv
    <2>1. TypeInv'
        BY TypeInvStep
    <2>2. AcceptedEnds' /\ OnlyReaderWaits' /\ Aborts' /\ Started'
        BY <2>0, EndsStep, AbortsStep, StartedStep
    <2>3. ASSUME NEW w \in Watch, Due(w)' PROVE Awaited'
        <3>1. CASE wake'
            BY <3>1 DEF Awaited
        <3>2. CASE Due(w)
            <4>1. Awaited' \/ (UNCHANGED map /\ \A c \in Conv : watches[c] \notin expired)
                BY <2>0, <3>2, AwaitedStep DEF ExpiredIsAwaited
            <4>2. conversation[w] \in Conv /\ watches[conversation[w]] \in expired
                <5>1. w \in 1..sends
                    BY <2>0, <3>2 DEF Due, Places
                <5> QED BY <2>0, <3>2, <5>1 DEF Due, Started
            <4> QED BY <4>1, <4>2
        <3> QED BY <2>0, <2>3, <3>1, <3>2, DueBefore
    <2> QED BY <2>1, <2>2, <2>3 DEF AwaitInv, ExpiredIsAwaited
<1>3. AwaitInv => ExpiredIsAwaited
    BY DEF AwaitInv
<1> QED BY <1>1, <1>2, <1>3, PTL DEF Spec
=============================================================================
