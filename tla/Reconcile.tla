-------------------------------- MODULE Reconcile --------------------------------
(***************************************************************************)
(* The background reconciliation of /next (reconcile.go).  The bridge      *)
(* snapshots the session into a job directory, starts a runner behind a    *)
(* gate, lets pi reset the session, writes the authorization and opens the *)
(* gate; the runner then waits for the lock all jobs of the user share,    *)
(* starts one pi worker and records how it ended.  Bridge, runner and      *)
(* worker are three processes that die independently: what survives is the *)
(* directory, and the two file locks, which stay taken as long as any      *)
(* process that inherited them lives.  A poll of the bridge reports every  *)
(* job: queued, started, final, with a marker file after each notice.      *)
(*                                                                         *)
(* Both /next and the poll hold sessionTransitionMu throughout, so one     *)
(* program counter stands for the bridge.  A failed write of the runner's  *)
(* own record is the runner's death before that write.                     *)
(***************************************************************************)
EXTENDS Integers, Sequences, FiniteSets

CONSTANTS
    Job,            \* job directories
    NoJob,          \* no job in hand
    MaxFaults       \* bound: stops of the bridge, deaths of and signals to
                    \* runners, and lost connections, together

ASSUME ReconcileAssumption == NoJob \notin Job /\ MaxFaults \in Nat

Terminal == {"completed", "failed", "cancelled", "interrupted"}
JobState == Terminal \union {"none", "prepared", "queued", "running"}
Stage == {"queued", "started", "final"}             \* the notices of a job
Marker == [queued |-> "queued-reported", started |-> "running-reported", final |-> "reported"]
Mark == {"reset-authorized", "queued-reported", "running-reported", "reported"}
Alone == {"lock", "spawn", "note", "watch", "stop"} \* a runner past its gate
Live == {"load", "gate"} \union Alone
Owning == Alone \ {"lock"}                          \* a runner with the shared lock

VARIABLES
    state, started, marks,      \* the directory: job.json and the marker files
    runner, doomed,             \* the runner; it was signalled or timed out
    worker,                     \* the pi worker
    gate,                       \* the pipe the runner waits on
    reset,                      \* new_session, as pi sees it
    bridge, task, current,      \* the holder of sessionTransitionMu, its job
    view,                       \* what the poll found: the lock is taken, the worker ran
    sent,                       \* a notice is out, its marker not yet written
    online,
    notices,                    \* what the user was told of each job
    faults

disk == <<state, started, marks>>
processes == <<runner, doomed, worker>>
holder == <<bridge, task, current, view, sent>>
vars == <<disk, processes, gate, reset, holder, online, notices, faults>>

View == [busy : BOOLEAN, ran : BOOLEAN]
NoView == [busy |-> FALSE, ran |-> FALSE]

TypeOK ==
    /\ state \in [Job -> JobState] /\ started \in [Job -> BOOLEAN]
    /\ marks \in [Job -> SUBSET Mark]
    /\ runner \in [Job -> Live \union {"none", "exited"}]
    /\ doomed \in [Job -> BOOLEAN]
    /\ worker \in [Job -> {"none", "alive", "ended"}]
    /\ gate \in [Job -> {"empty", "run", "cancel", "eof"}]
    /\ reset \in [Job -> {"no", "asked", "done"}]
    /\ bridge \in {"down", "idle", "launch", "ready", "reset", "authorize", "open"} \union Stage
    /\ task \in {"next", "poll"} /\ current \in Job \union {NoJob}
    /\ view \in View /\ sent \in BOOLEAN /\ online \in BOOLEAN
    /\ notices \in [Job -> Seq(Stage)]
    /\ faults \in 0..MaxFaults

Init ==
    /\ state = [j \in Job |-> "none"] /\ started = [j \in Job |-> FALSE]
    /\ marks = [j \in Job |-> {}]
    /\ runner = [j \in Job |-> "none"] /\ doomed = [j \in Job |-> FALSE]
    /\ worker = [j \in Job |-> "none"]
    /\ gate = [j \in Job |-> "empty"] /\ reset = [j \in Job |-> "no"]
    /\ bridge = "idle" /\ task = "poll" /\ current = NoJob /\ view = NoView
    /\ sent = FALSE /\ online = TRUE
    /\ notices = [j \in Job |-> <<>>]
    /\ faults = 0

-----------------------------------------------------------------------------
(* The locks.  flock belongs to the open file, which the runner hands down.  *)

\* Mutant: the worker does not inherit the lock of its job.
JobLocked_RunnerOnly(j) == runner[j] \in Live

\* runner.lock: taken before the runner starts, inherited by runner and worker.
JobLocked(j) == runner[j] \in Live \/ worker[j] = "alive"

\* Mutant: the worker does not inherit the lock of all jobs.
SharedFree_RunnerOnly(j) == \A k \in Job \ {j} : runner[k] \notin Owning

\* The user's reconcile.lock is free for job j.
SharedFree(j) == \A k \in Job \ {j} : runner[k] \notin Owning /\ worker[k] # "alive"

-----------------------------------------------------------------------------
(* /next: handleNext, prepareReconcile, startReconcile, authorizeReconcile.  *)

Save(j, s) == state' = [state EXCEPT ![j] = s]

\* Where the bridge goes on; at "idle" it has let go of sessionTransitionMu.
GoTo(at) ==
    /\ bridge' = at
    /\ IF at \in {"idle", "down"}
         THEN task' = "poll" /\ current' = NoJob /\ view' = NoView
         ELSE UNCHANGED <<task, current, view>>

Return == GoTo("idle") /\ UNCHANGED sent

\* A snapshot directory of its own, with its record.
Prepare(j) ==
    /\ bridge = "idle" /\ state[j] = "none"
    /\ Save(j, "prepared")
    /\ bridge' = "launch" /\ task' = "next" /\ current' = j
    /\ UNCHANGED <<started, marks, processes, gate, reset, view, sent, online, notices, faults>>

\* The runner is started with the job lock; without one the job has failed.
Launch ==
    /\ bridge = "launch"
    /\ \/ /\ runner' = [runner EXCEPT ![current] = "load"]
          /\ bridge' = "ready"
          /\ UNCHANGED <<state, task, current, view, sent>>
       \/ /\ Save(current, "failed") /\ UNCHANGED runner
          /\ Return
    /\ UNCHANGED <<started, marks, doomed, worker, gate, reset, online, notices, faults>>

\* The ready byte arrived: pi is asked for a new session.
Ready ==
    /\ bridge = "ready" /\ runner[current] = "gate"
    /\ reset' = [reset EXCEPT ![current] = "asked"]
    /\ bridge' = "reset"
    /\ UNCHANGED <<disk, processes, gate, task, current, view, sent, online, notices, faults>>

\* No ready byte in time, or the runner died: it is killed and waited for.
NotReady ==
    /\ bridge = "ready"
    /\ runner' = [runner EXCEPT ![current] = "exited"]
    /\ gate' = [gate EXCEPT ![current] = "eof"]
    /\ Save(current, "failed")
    /\ Return
    /\ UNCHANGED <<started, marks, doomed, worker, reset, online, notices, faults>>

\* pi answers new_session, however late.
PiResets(j) ==
    /\ reset[j] = "asked"
    /\ reset' = [reset EXCEPT ![j] = "done"]
    /\ UNCHANGED <<disk, processes, gate, holder, online, notices, faults>>

\* Mutant: the command is on its way, its answer is not waited for.
ResetSucceeds_Unread ==
    /\ bridge = "reset"
    /\ bridge' = "authorize"
    /\ UNCHANGED <<disk, processes, gate, reset, task, current, view, sent, online, notices, faults>>

\* A successful, uncancelled answer.
ResetSucceeds ==
    /\ bridge = "reset" /\ reset[current] = "done"
    /\ bridge' = "authorize"
    /\ UNCHANGED <<disk, processes, gate, reset, task, current, view, sent, online, notices, faults>>

\* Rejected, cancelled by an extension, or no answer before the time-out.
ResetFails ==
    /\ bridge = "reset"
    /\ gate' = [gate EXCEPT ![current] = "cancel"]
    /\ Return
    /\ UNCHANGED <<disk, processes, reset, online, notices, faults>>

\* The marker that outlives the bridge.  A failed sync may leave it behind
\* although the caller is told that it is not there.
Authorize ==
    /\ bridge = "authorize"
    /\ \/ /\ marks' = [marks EXCEPT ![current] = @ \union {"reset-authorized"}]
          /\ bridge' = "queued"
          /\ UNCHANGED <<gate, task, current, view, sent>>
       \/ /\ \/ marks' = [marks EXCEPT ![current] = @ \union {"reset-authorized"}]
             \/ UNCHANGED marks
          /\ gate' = [gate EXCEPT ![current] = "eof"]
          /\ Return
    /\ UNCHANGED <<state, started, processes, reset, online, notices, faults>>

\* The gate opens, whether or not the queued notice went out.
OpenGate ==
    /\ bridge = "open"
    /\ gate' = [gate EXCEPT ![current] = "run"]
    /\ Return
    /\ UNCHANGED <<disk, processes, reset, online, notices, faults>>

-----------------------------------------------------------------------------
(* The poll and the notices: pollReconciles, reportReconcile...              *)

\* A job whose lock is free and whose record is not final has lost its runner.
Poll(j) ==
    /\ bridge = "idle" /\ state[j] # "none" /\ "reported" \notin marks[j]
    /\ LET lost == ~JobLocked(j) /\ state[j] \notin Terminal
       IN  Save(j, IF lost THEN "interrupted" ELSE state[j])
    /\ view' = [busy |-> JobLocked(j),
                ran |-> IF JobLocked(j) THEN state[j] = "running" ELSE started[j]]
    /\ bridge' = "queued" /\ task' = "poll" /\ current' = j
    /\ UNCHANGED <<started, marks, processes, gate, reset, sent, online, notices, faults>>

Owed(stage) ==
    CASE stage = "queued" -> "reset-authorized" \in marks[current]
      [] stage = "started" -> view.ran
      [] stage = "final" -> ~view.busy

\* Mutant: the marker is not looked for.
Due_Unmarked(stage) == Owed(stage)

\* The notice of a stage is owed and its marker is missing.
Due(stage) == Owed(stage) /\ Marker[stage] \notin marks[current]

Onward(stage) ==
    IF task = "next" THEN "open" ELSE [queued |-> "started", started |-> "final", final |-> "idle"][stage]

\* Mutant: a notice that cannot be sent is passed over.
GivenUp_GoesOn(stage) == Onward(stage)

\* A notice that cannot be sent ends the poll of the job: order before speed.
GivenUp(stage) == IF task = "next" THEN "open" ELSE "idle"

\* The notice is handed to the connection, or fails without one.
Notify(stage) ==
    /\ bridge = stage /\ ~sent
    /\ IF Due(stage) /\ online
         THEN /\ notices' = [notices EXCEPT ![current] = Append(@, stage)]
              /\ sent' = TRUE
              /\ GoTo(stage)
         ELSE /\ GoTo(IF Due(stage) THEN GivenUp(stage) ELSE Onward(stage))
              /\ UNCHANGED <<sent, notices>>
    /\ UNCHANGED <<disk, processes, gate, reset, online, faults>>

\* ... and only then its marker is written.
WriteMarker(stage) ==
    /\ bridge = stage /\ sent
    /\ marks' = [marks EXCEPT ![current] = @ \union {Marker[stage]}]
    /\ sent' = FALSE /\ GoTo(Onward(stage))
    /\ UNCHANGED <<state, started, processes, gate, reset, online, notices, faults>>

-----------------------------------------------------------------------------
(* The runner: runReconcileFor.                                              *)

\* The record's new state; where the runner goes on from there.
Goes(j, s, at) ==
    /\ Save(j, s)
    /\ runner' = [runner EXCEPT ![j] = at]

Finishes(j, s) == Goes(j, s, "exited")

RunnerReady(j) ==
    /\ runner[j] = "load"
    /\ runner' = [runner EXCEPT ![j] = "gate"]
    /\ UNCHANGED <<disk, doomed, worker, gate, reset, holder, online, notices, faults>>

\* One line from the bridge, or the end of the pipe.
ReadGate(j) ==
    /\ runner[j] = "gate" /\ gate[j] # "empty"
    /\ CASE gate[j] = "cancel" -> Finishes(j, "cancelled")
         [] gate[j] = "eof" -> Finishes(j, "interrupted")
         [] gate[j] = "run" -> IF "reset-authorized" \in marks[j]
                                 THEN Goes(j, "queued", "lock")
                                 ELSE Finishes(j, "interrupted")
    /\ UNCHANGED <<started, marks, doomed, worker, gate, reset, holder, online, notices, faults>>

\* Signalled at the gate, or in the queue for the shared lock.
GivesUp(j) ==
    /\ doomed[j]
    /\ \/ runner[j] = "gate"
       \/ runner[j] = "lock" /\ ~SharedFree(j)
    /\ Finishes(j, "cancelled")
    /\ UNCHANGED <<started, marks, doomed, worker, gate, reset, holder, online, notices, faults>>

TakeShared(j) ==
    /\ runner[j] = "lock" /\ SharedFree(j)
    /\ runner' = [runner EXCEPT ![j] = "spawn"]
    /\ UNCHANGED <<disk, doomed, worker, gate, reset, holder, online, notices, faults>>

\* The worker inherits both locks.
Spawn(j) ==
    /\ runner[j] = "spawn"
    /\ \/ /\ worker' = [worker EXCEPT ![j] = "alive"]
          /\ runner' = [runner EXCEPT ![j] = "note"]
          /\ UNCHANGED state
       \/ Finishes(j, "failed") /\ UNCHANGED worker
    /\ UNCHANGED <<started, marks, doomed, gate, reset, holder, online, notices, faults>>

NoteRunning(j) ==
    /\ runner[j] = "note"
    /\ Goes(j, "running", "watch")
    /\ started' = [started EXCEPT ![j] = TRUE]
    /\ UNCHANGED <<marks, doomed, worker, gate, reset, holder, online, notices, faults>>

\* reconcileResult: the worker's exit and its last message.
Verdict == {"completed", "failed"}

\* The worker has ended.
Collect(j) ==
    /\ runner[j] = "watch" /\ worker[j] # "alive"
    /\ \E s \in Verdict : Finishes(j, s)
    /\ UNCHANGED <<started, marks, doomed, worker, gate, reset, holder, online, notices, faults>>

\* SIGTERM, then SIGKILL, and the runner waits for the worker to be gone ...
StopWorker(j) ==
    /\ runner[j] = "watch" /\ doomed[j]
    /\ worker' = [worker EXCEPT ![j] = "ended"]
    /\ runner' = [runner EXCEPT ![j] = "stop"]
    /\ UNCHANGED <<disk, doomed, gate, reset, holder, online, notices, faults>>

\* ... before it records the cancellation.
RecordStop(j) ==
    /\ runner[j] = "stop"
    /\ Finishes(j, "cancelled")
    /\ UNCHANGED <<started, marks, doomed, worker, gate, reset, holder, online, notices, faults>>

Runner(j) == RunnerReady(j) \/ ReadGate(j) \/ GivesUp(j) \/ TakeShared(j) \/ Spawn(j)
             \/ NoteRunning(j) \/ Collect(j) \/ StopWorker(j) \/ RecordStop(j)

-----------------------------------------------------------------------------
(* The environment.                                                          *)

Fault == faults < MaxFaults /\ faults' = faults + 1

Doom(j) ==
    /\ doomed' = [doomed EXCEPT ![j] = TRUE]
    /\ UNCHANGED <<disk, runner, worker, gate, reset, holder, online, notices>>

\* SIGTERM or SIGINT, once the runner listens for them.
Signalled(j) ==
    /\ runner[j] \in Live \ {"load"} /\ ~doomed[j]
    /\ Fault
    /\ Doom(j)

\* The runner's 30 minutes are over.
TimesOut(j) == runner[j] \in Alone /\ ~doomed[j] /\ Doom(j) /\ UNCHANGED faults

WorkerEnds(j) ==
    /\ worker[j] = "alive"
    /\ worker' = [worker EXCEPT ![j] = "ended"]
    /\ UNCHANGED <<disk, runner, doomed, gate, reset, holder, online, notices, faults>>

\* The worker outlives its runner, in a process group of its own.
RunnerDies(j) ==
    /\ runner[j] \in Live
    /\ Fault
    /\ runner' = [runner EXCEPT ![j] = "exited"]
    /\ UNCHANGED <<disk, doomed, worker, gate, reset, holder, online, notices>>

\* The end of the bridge closes the gate of the job it was about to start.
BridgeStops ==
    /\ bridge # "down"
    /\ Fault
    /\ GoTo("down") /\ sent' = FALSE
    /\ gate' = IF task = "poll" THEN gate ELSE [gate EXCEPT ![current] = "eof"]
    /\ UNCHANGED <<disk, processes, reset, online, notices>>

BridgeStarts ==
    /\ bridge = "down" /\ bridge' = "idle"
    /\ UNCHANGED <<disk, processes, gate, reset, task, current, view, sent, online, notices, faults>>

GoOffline ==
    /\ online
    /\ Fault
    /\ online' = FALSE
    /\ UNCHANGED <<disk, processes, gate, reset, holder, notices>>

GoOnline ==
    /\ ~online /\ online' = TRUE
    /\ UNCHANGED <<disk, processes, gate, reset, holder, notices, faults>>

-----------------------------------------------------------------------------
Handler == Launch \/ Ready \/ NotReady \/ ResetSucceeds \/ ResetFails \/ Authorize \/ OpenGate
           \/ \E stage \in Stage : Notify(stage) \/ WriteMarker(stage)

Outside == BridgeStops \/ BridgeStarts \/ GoOffline \/ GoOnline

Next ==
    \/ Handler \/ Outside
    \/ \E j \in Job : \/ Prepare(j) \/ Poll(j) \/ Runner(j) \/ PiResets(j)
                      \/ Signalled(j) \/ TimesOut(j) \/ WorkerEnds(j) \/ RunnerDies(j)

Spec == Init /\ [][Next]_vars

\* The bridge polls every job again and again, its waits are timed, it is
\* restarted and reconnects; a runner goes on and its timer fires.  Nothing is
\* assumed of a worker but that it ends after its runner died.
Fairness ==
    /\ WF_vars(Handler) /\ WF_vars(BridgeStarts) /\ WF_vars(GoOnline)
    /\ \A j \in Job :
        /\ SF_vars(Poll(j)) /\ WF_vars(Runner(j)) /\ WF_vars(TimesOut(j))
        /\ WF_vars(runner[j] = "exited" /\ WorkerEnds(j))

FairSpec == Spec /\ Fairness

-----------------------------------------------------------------------------
\* A worker acts only after pi replaced the session the job reconciles and the
\* bridge left its authorization (reconcile.go:562-564).
OnlyAuthorizedWork ==
    \A j \in Job : worker[j] # "none" => reset[j] = "done" /\ "reset-authorized" \in marks[j]

\* While a worker may still have effects, its job has no final state on disk
\* and the user was not told of one (reconcile.go:410-411).
VerdictIsFinal ==
    \A j \in Job : worker[j] = "alive" =>
        state[j] \notin Terminal /\ \A i \in DOMAIN notices[j] : notices[j][i] # "final"

\* Whatever is lost, repeated or interrupted, the user reads of a job in the
\* order queued, started, final (reconcile.go:550).
Rank == [queued |-> 1, started |-> 2, final |-> 3]
NoticesInOrder ==
    \A j \in Job : \A a, b \in DOMAIN notices[j] :
        a < b => Rank[notices[j][a]] =< Rank[notices[j][b]]

\* The markers keep notices from being repeated: each one more takes a fault
\* between a notice and its marker (reconcile.go:602-616).
Repeats(j) == Len(notices[j]) - Cardinality({notices[j][i] : i \in DOMAIN notices[j]})
RepeatedByFaultsOnly == \A j \in Job : Repeats(j) =< faults

\* Runner and worker of a job, with or without a bridge, are what ReconcileJob
\* says of it: one worker at a time, once per job, and an outcome in the end.
ToldOf(j) == \E i \in DOMAIN notices[j] : notices[j][i] = "final"
Phase == [j \in Job |->
    IF ToldOf(j) THEN "told"
    ELSE IF worker[j] # "none" THEN (IF worker[j] = "alive" THEN "working" ELSE "worked")
    ELSE IF state[j] # "none" THEN "waiting" ELSE "absent"]
Promise == INSTANCE ReconcileJob WITH phase <- Phase
ImplementsJob == Promise!Spec
=============================================================================
