-------------------------------- MODULE RpcClient --------------------------------
(***************************************************************************)
(* The connection to pi (rpc.go): commands go out on pi's standard input,  *)
(* a goroutine reads its standard output line by line and routes each      *)
(* line, an answer to the request that waits for it, anything else to the  *)
(* bounded event channel of the bridge.  A request ends with its answer,   *)
(* with its timer, or with pi; an answer that comes too late is one more   *)
(* event.  When pi exits, another goroutine closes the client, then the    *)
(* done channel, then the event channel.                                   *)
(*                                                                         *)
(* Commands are short and few: the pipe to pi never fills up.  The other   *)
(* pipe does, and then pi stands still.                                    *)
(***************************************************************************)
EXTENDS Naturals, Sequences, FiniteSets

CONSTANTS
    Request,        \* requests that wait for an answer, each made once
    Event,          \* what else pi reports
    Command,        \* what else pi is told
    Nothing,        \* no answer
    EventCap,       \* capacity of the event channel
    PipeCap         \* bound: lines pi has written that are not yet routed

ASSUME RpcAssumption ==
    /\ Request \cap (Event \union Command) = {}
    /\ Nothing \notin Request \union Event
    /\ EventCap \in Nat \ {0} /\ PipeCap \in Nat \ {0}

Line == Request \union Event

VARIABLES
    call,           \* what became of each request
    pending,        \* the requests the client would route an answer to
    answer,         \* what the channel of a request holds
    stdin, stdout,  \* the pipes, up to the line that is being routed
    events,         \* the event channel
    pi,             \* pi and, after it, how far the client is closed
    bridge          \* the bridge's own process

rpcVars == <<call, pending, answer, stdin, stdout, events, pi, bridge>>

RpcTypeOK ==
    /\ call \in [Request -> {"new", "waiting", "answered", "failed"}]
    /\ pending \in SUBSET Request
    /\ answer \in [Request -> Line \union {Nothing}]
    /\ stdin \in Seq(Request \union Command)
    /\ stdout \in Seq(Line) /\ Len(stdout) =< PipeCap
    /\ events \in Seq(Line) /\ Len(events) =< EventCap
    /\ pi \in {"up", "closed", "done", "over"}
    /\ bridge \in {"up", "over", "panicked"}

RpcInit ==
    /\ call = [r \in Request |-> "new"] /\ pending = {}
    /\ answer = [r \in Request |-> Nothing]
    /\ stdin = <<>> /\ stdout = <<>> /\ events = <<>>
    /\ pi = "up" /\ bridge = "up"

-----------------------------------------------------------------------------
(* Requests and other commands.                                              *)

Becomes(r, outcome) == call' = [call EXCEPT ![r] = outcome]

\* The commands before it (an abort, say) are written first.  A request fails at
\* once when the client is closed or the pipe is broken.
Call(r, before) ==
    /\ call[r] = "new"
    /\ \/ /\ pi = "up"
          /\ Becomes(r, "waiting")
          /\ pending' = pending \union {r}
          /\ stdin' = stdin \o Append(before, r)
       \/ /\ pi # "up"
          /\ Becomes(r, "failed")
          /\ UNCHANGED <<pending, stdin>>
    /\ UNCHANGED <<answer, stdout, events, pi, bridge>>

\* Send, promptWithID.
Write(command) ==
    /\ pi = "up" /\ stdin' = Append(stdin, command)
    /\ UNCHANGED <<call, pending, answer, stdout, events, pi, bridge>>

Answered(r) ==
    /\ call[r] = "waiting" /\ answer[r] # Nothing
    /\ Becomes(r, "answered")
    /\ UNCHANGED <<pending, answer, stdin, stdout, events, pi, bridge>>

\* Mutant: a request waits as long as it takes.
TimesOut_Never(r) ==
    /\ call[r] = "waiting" /\ pi = "done"
    /\ Becomes(r, "failed") /\ pending' = pending \ {r}
    /\ UNCHANGED <<answer, stdin, stdout, events, pi, bridge>>

\* Its timer, or the end of the context.
TimesOut(r) ==
    /\ call[r] = "waiting"
    /\ Becomes(r, "failed") /\ pending' = pending \ {r}
    /\ UNCHANGED <<answer, stdin, stdout, events, pi, bridge>>

\* The done channel; the request stays registered.
PiGone(r) ==
    /\ call[r] = "waiting" /\ pi \in {"done", "over"}
    /\ Becomes(r, "failed")
    /\ UNCHANGED <<pending, answer, stdin, stdout, events, pi, bridge>>

-----------------------------------------------------------------------------
(* Reading pi's output: readStdout, route.                                   *)

\* The reader has this line in its hand; there is no other reader.
Routing(line) == stdout # <<>> /\ Head(stdout) = line /\ stdout' = Tail(stdout)

\* Mutant: the answer goes to whoever waits.
RouteAnswer_AnyWaiter ==
    /\ \E r \in pending, line \in Request :
          /\ Routing(line)
          /\ answer' = [answer EXCEPT ![r] = line]
          /\ pending' = pending \ {r}
    /\ UNCHANGED <<call, stdin, events, pi, bridge>>

\* The waiter of an answer is found by the id and forgotten.
RouteAnswer ==
    /\ \E r \in pending :
          /\ Routing(r)
          /\ answer' = [answer EXCEPT ![r] = r]
          /\ pending' = pending \ {r}
    /\ UNCHANGED <<call, stdin, events, pi, bridge>>

\* Anything else waits for room in the event channel ...
RouteEvent ==
    /\ pi # "over" /\ Len(events) < EventCap
    /\ \E line \in Line \ pending : Routing(line) /\ events' = Append(events, line)
    /\ UNCHANGED <<call, pending, answer, stdin, pi, bridge>>

\* ... or for the end of pi.
RouteDropped ==
    /\ pi \in {"done", "over"}
    /\ \E line \in Line \ pending : Routing(line)
    /\ UNCHANGED <<call, pending, answer, stdin, events, pi, bridge>>

\* The select may as well take the send, on a channel that is closed by then.
RoutePanics ==
    /\ pi = "over"
    /\ \E line \in Line \ pending : Routing(line)
    /\ bridge' = "panicked"
    /\ UNCHANGED <<call, pending, answer, stdin, events, pi>>

Route == RouteAnswer \/ RouteEvent \/ RouteDropped \/ RoutePanics

\* The event loop takes the next event.
Take(event) ==
    /\ events # <<>> /\ Head(events) = event
    /\ events' = Tail(events)

-----------------------------------------------------------------------------
(* pi and its end: wait.                                                     *)

\* pi writes a line; without room for it pi waits.
Say(line) == Len(stdout) < PipeCap /\ stdout' = Append(stdout, line)

\* pi exits and is reaped, which closes its output: lines the reader has not
\* buffered are lost.
PiExits ==
    /\ pi = "up" /\ pi' = "closed"
    /\ stdout' \in {stdout, <<>>}
    /\ UNCHANGED <<call, pending, answer, stdin, events, bridge>>

CloseChannels ==
    /\ \/ pi = "closed" /\ pi' = "done"
       \/ pi = "done" /\ pi' = "over"
    /\ UNCHANGED <<call, pending, answer, stdin, stdout, events, bridge>>

\* The closed channel is drained before it reports its end: onPiExit.
LoopEnds ==
    /\ pi = "over" /\ events = <<>>
    /\ bridge' = "over"
    /\ UNCHANGED <<call, pending, answer, stdin, stdout, events, pi>>

\* The goroutines of the client, and the ends a request may come to.
ClientStep == Route \/ CloseChannels
RequestStep(r) == Answered(r) \/ TimesOut(r) \/ PiGone(r)

-----------------------------------------------------------------------------
\* An answer reaches the request that asked for it, however many timed out
\* before it (rpc.go:208-223).
OwnAnswer == \A r \in Request : answer[r] \in {r, Nothing}

\* Every request returns, whatever pi and the event loop do: the caller holds the
\* session-transition lock meanwhile (rpc.go:240-273).
RequestsReturn == \A r \in Request : call[r] = "waiting" ~> call[r] # "waiting" \/ bridge # "up"
=============================================================================
