---------------------------- MODULE ReconcileProofs ----------------------------
(***************************************************************************)
(* Proofs about Reconcile, for every number of jobs and faults.            *)
(***************************************************************************)
EXTENDS Reconcile, FiniteSetTheorems, TLAPS

-----------------------------------------------------------------------------
(* The inductive invariant.                                                  *)

\* The types of what the argument reads.
JobTypes ==
    /\ state \in [Job -> JobState]
    /\ marks \in [Job -> SUBSET Mark]
    /\ runner \in [Job -> Live \union {"none", "exited"}]
    /\ worker \in [Job -> {"none", "alive", "ended"}]
    /\ gate \in [Job -> {"empty", "run", "cancel", "eof"}]
    /\ reset \in [Job -> {"no", "asked", "done"}]
    /\ notices \in [Job -> Seq(Stage)]
    /\ bridge \in {"down", "idle", "launch", "ready", "reset", "authorize", "open"} \union Stage
    /\ bridge \notin {"down", "idle"} => current \in Job
    /\ task \in {"next", "poll"}

ToldFinal(j) == \E i \in 1..Len(notices[j]) : notices[j][i] = "final"
Authorized(j) == "reset-authorized" \in marks[j]

\* A job that is not there yet, and the one /next has just put there.
Untouched(j) == /\ marks[j] = {} /\ runner[j] = "none" /\ worker[j] = "none"
                /\ reset[j] = "no" /\ ~ToldFinal(j)
FreshJobs ==
    /\ \A j \in Job : state[j] = "none" => Untouched(j)
    /\ bridge = "launch" => state[current] = "prepared" /\ Untouched(current)
    /\ bridge = "ready" => reset[current] = "no" /\ ~Authorized(current)
    /\ bridge \in {"launch", "ready", "reset", "authorize", "open"} => task = "next"
    /\ bridge \notin {"down", "idle"} => state[current] # "none"

\* The authorization follows the reset, and what acts follows the authorization.
Authority ==
    /\ bridge = "authorize" => reset[current] = "done"
    /\ \A j \in Job :
          /\ Authorized(j) => reset[j] = "done"
          /\ runner[j] \in Alone => Authorized(j)
          /\ worker[j] # "none" => Authorized(j)

\* A runner has a worker from its start on; one that stopped it has waited.
Worked == \A j \in Job :
    /\ runner[j] \in {"none", "load", "gate", "lock", "spawn"} => worker[j] = "none"
    /\ runner[j] \in {"note", "watch"} => worker[j] # "none"
    /\ runner[j] = "stop" => worker[j] = "ended"

\* A final record is a job without runner or worker, and so is a final notice:
\* what the poll saw of the lock stays true until it has told of it.
Finality ==
    /\ \A j \in Job : JobLocked(j) => state[j] \notin Terminal /\ ~ToldFinal(j)
    /\ bridge = "final" => task = "poll"
    /\ bridge \in Stage /\ task = "poll" /\ ~view.busy => ~JobLocked(current)

\* The lock all jobs of the user share has one holder.
Owns(j) == runner[j] \in Owning \/ worker[j] = "alive"
Exclusion == \A j, k \in Job : Owns(j) /\ Owns(k) => j = k

JobInv == JobTypes /\ FreshJobs /\ Authority /\ Worked /\ Finality /\ Exclusion

\* /next: Prepare to OpenGate.
LEMMA NextSteps ==
    ASSUME JobInv, NEW j \in Job, NEW s \in Stage,
           Prepare(j) \/ Launch \/ Ready \/ NotReady \/ ResetSucceeds \/ ResetFails \/ Authorize \/ OpenGate
    PROVE  JobInv'
<1> USE DEF JobInv, Save, GoTo, Return, disk, processes, holder, JobLocked
<1> USE DEF JobState, Terminal, Stage, Mark, Alone, Live, Owning
<1>1. CASE Prepare(j)
    <2>1. JobTypes'
        BY <1>1 DEF JobTypes, Prepare
    <2> QED BY <1>1, <2>1 DEF JobTypes, FreshJobs, Authority, Worked, Finality, Exclusion, Owns,
                Untouched, Authorized, ToldFinal, Prepare
<1>2. CASE Launch
    <2>0. current \in Job /\ Untouched(current) /\ state[current] = "prepared" /\ bridge = "launch"
        BY <1>2 DEF Launch, FreshJobs, JobTypes
    <2>1. CASE /\ runner' = [runner EXCEPT ![current] = "load"] /\ bridge' = "ready"
               /\ UNCHANGED <<state, task, current, view, sent>>
        <3>1. JobTypes'
            BY <1>2, <2>1, <2>0 DEF Launch, JobTypes
        <3>2. (FreshJobs /\ Authority /\ Worked /\ Finality /\ Exclusion)'
            BY <1>2, <2>1, <2>0, <3>1 DEF Launch, JobTypes, FreshJobs, Authority, Worked, Finality, Exclusion,
                Owns, Untouched, Authorized, ToldFinal
        <3> QED BY <3>1, <3>2
    <2>2. CASE Save(current, "failed") /\ UNCHANGED runner /\ Return
        <3>1. JobTypes'
            BY <1>2, <2>2, <2>0 DEF Launch, JobTypes
        <3>2. (FreshJobs /\ Authority /\ Worked /\ Finality /\ Exclusion)'
            BY <1>2, <2>2, <2>0, <3>1 DEF Launch, JobTypes, FreshJobs, Authority, Worked, Finality, Exclusion,
                Owns, Untouched, Authorized, ToldFinal
        <3> QED BY <3>1, <3>2
    <2> QED BY <1>2, <2>1, <2>2 DEF Launch
<1>3. CASE Ready
    <2>1. JobTypes'
        BY <1>3 DEF JobTypes, Ready
    <2> QED BY <1>3, <2>1 DEF JobTypes, FreshJobs, Authority, Worked, Finality, Exclusion, Owns,
                Untouched, Authorized, ToldFinal, Ready
<1>4. CASE NotReady
    <2>1. JobTypes'
        BY <1>4 DEF JobTypes, NotReady
    <2> QED BY <1>4, <2>1 DEF JobTypes, FreshJobs, Authority, Worked, Finality, Exclusion, Owns,
                Untouched, Authorized, ToldFinal, NotReady
<1>5. CASE ResetSucceeds
    <2>1. JobTypes'
        BY <1>5 DEF JobTypes, ResetSucceeds
    <2> QED BY <1>5, <2>1 DEF JobTypes, FreshJobs, Authority, Worked, Finality, Exclusion, Owns,
                Untouched, Authorized, ToldFinal, ResetSucceeds
<1>6. CASE ResetFails
    <2>1. JobTypes'
        BY <1>6 DEF JobTypes, ResetFails
    <2> QED BY <1>6, <2>1 DEF JobTypes, FreshJobs, Authority, Worked, Finality, Exclusion, Owns,
                Untouched, Authorized, ToldFinal, ResetFails
<1>7. CASE Authorize
    <2>0. current \in Job /\ reset[current] = "done" /\ bridge = "authorize" /\ state[current] # "none"
        BY <1>7 DEF Authorize, FreshJobs, JobTypes, Authority
    <2>1. /\ marks' = marks \/ marks' = [marks EXCEPT ![current] = @ \union {"reset-authorized"}]
          /\ gate' = gate \/ gate' = [gate EXCEPT ![current] = "eof"]
          /\ UNCHANGED <<state, started, processes, reset, online, notices, faults>>
        BY <1>7 DEF Authorize
    <2>a. \/ bridge' = "queued" /\ UNCHANGED <<task, current, view>>
          \/ bridge' = "idle"
        BY <1>7 DEF Authorize
    <2>b. task' \in {task, "poll"}
        BY <1>7 DEF Authorize
    <2>2. task = "next"
        BY <2>0 DEF FreshJobs
    <2>3. JobTypes'
        <3>1. marks[current] \union {"reset-authorized"} \in SUBSET Mark
            BY <2>0 DEF JobTypes
        <3>2. marks' \in [Job -> SUBSET Mark]
            BY <2>0, <2>1, <3>1 DEF JobTypes
        <3> QED BY <2>0, <2>1, <2>a, <2>b, <3>2 DEF JobTypes
    <2>4. FreshJobs'
        <3>1. \A k \in Job : state'[k] = "none" => Untouched(k)'
            <4>1. \A k \in Job \ {current} : marks'[k] = marks[k]
                BY <2>0, <2>1 DEF JobTypes
            <4> QED BY <2>0, <2>1, <4>1 DEF FreshJobs, Untouched, ToldFinal
        <3> QED BY <2>0, <2>1, <2>a, <2>2, <3>1 DEF FreshJobs
    <2>5. Authority'
        <3>1. \A k \in Job : Authorized(k)' => Authorized(k) \/ k = current
            BY <2>0, <2>1, <2>3 DEF JobTypes, Authorized
        <3>2. \A k \in Job : Authorized(k) => Authorized(k)'
            <4>1. CASE marks' = marks
                BY <4>1 DEF Authorized
            <4>2. CASE marks' = [marks EXCEPT ![current] = @ \union {"reset-authorized"}]
                BY <2>0, <4>2 DEF JobTypes, Authorized
            <4> QED BY <2>1, <4>1, <4>2
        <3> QED BY <2>0, <2>1, <2>a, <3>1, <3>2 DEF Authority
    <2>6. (Worked /\ Finality /\ Exclusion)'
        BY <2>0, <2>1, <2>a, <2>2, <2>3 DEF Worked, Finality, Exclusion, Owns, ToldFinal
    <2> QED BY <2>3, <2>4, <2>5, <2>6
<1>8. CASE OpenGate
    <2>1. JobTypes'
        BY <1>8 DEF JobTypes, OpenGate
    <2> QED BY <1>8, <2>1 DEF JobTypes, FreshJobs, Authority, Worked, Finality, Exclusion, Owns,
                Untouched, Authorized, ToldFinal, OpenGate
<1> QED BY <1>1, <1>2, <1>3, <1>4, <1>5, <1>6, <1>7, <1>8

\* The poll and its notices.
LEMMA PollSteps ==
    ASSUME JobInv, NEW j \in Job, NEW s \in Stage,
           Poll(j) \/ Notify(s) \/ WriteMarker(s)
    PROVE  JobInv'
<1> USE DEF JobInv, Save, GoTo, Return, disk, processes, holder, JobLocked
<1> USE DEF JobState, Terminal, Stage, Mark, Alone, Live, Owning
<1>1. CASE Poll(j)
    <2>1. /\ state' = [state EXCEPT ![j] = IF ~JobLocked(j) /\ state[j] \notin Terminal THEN "interrupted" ELSE state[j]]
          /\ view'.busy = JobLocked(j) /\ bridge' = "queued" /\ task' = "poll" /\ current' = j
          /\ state[j] # "none"
          /\ UNCHANGED <<started, marks, processes, gate, reset, online, notices>>
        BY <1>1 DEF Poll
    <2>3. JobTypes'
        BY <2>1 DEF JobTypes
    <2>4. (FreshJobs /\ Authority /\ Worked /\ Exclusion)'
        BY <2>1, <2>3 DEF FreshJobs, JobTypes, Untouched, Authorized, ToldFinal, Authority, Worked, Exclusion, Owns
    <2>6. Finality'
        <3>1. \A k \in Job : ToldFinal(k)' <=> ToldFinal(k)
            BY <2>1 DEF ToldFinal
        <3>2. \A k \in Job : JobLocked(k) => state'[k] = state[k]
            BY <2>1 DEF JobTypes
        <3>3. \A k \in Job : JobLocked(k)' <=> JobLocked(k)
            BY <2>1
        <3> QED BY <2>1, <3>1, <3>2, <3>3 DEF Finality
    <2> QED BY <2>3, <2>4, <2>6
<1>2. CASE Notify(s)
    <2>0. bridge = s /\ current \in Job /\ state[current] # "none"
        BY <1>2 DEF Notify, JobTypes, FreshJobs
    <2>1. /\ \/ notices' = notices
             \/ /\ notices' = [notices EXCEPT ![current] = Append(@, s)] 
                /\ (s = "final" => ~view.busy)
          /\ UNCHANGED <<disk, processes, gate, reset, online, faults>>
        BY <1>2 DEF Notify, Due, Owed
    <2>2. /\ bridge' \in {s, "idle"} \union (IF task = "next" THEN {"open"} ELSE IF s = "final" THEN {} ELSE {"started", "final"})
          /\ bridge' = "idle" \/ UNCHANGED <<task, current, view>>
          /\ task' \in {task, "poll"}
        <3>1. bridge' \in {s, Onward(s), GivenUp(s)}
            BY <1>2 DEF Notify
        <3>2. /\ bridge' = "idle" \/ UNCHANGED <<task, current, view>>
              /\ task' \in {task, "poll"}
            BY <1>2 DEF Notify, Onward, GivenUp, JobTypes
        <3>3. CASE task = "next"
            BY <3>1, <3>2, <3>3 DEF Onward, GivenUp
        <3>4. CASE task # "next"
            BY <3>1, <3>2, <3>4 DEF Onward, GivenUp
        <3> QED BY <3>3, <3>4
    <2>3. JobTypes'
        <3>1. notices' \in [Job -> Seq({"queued", "started", "final"})]
            <4>1. notices[current] \in Seq(Stage) /\ Append(notices[current], s) \in Seq(Stage)
                BY <2>0 DEF JobTypes
            <4> QED BY ZenonT(60), <2>0, <2>1, <4>1 DEF JobTypes
        <3> QED BY <2>0, <2>1, <2>2, <3>1 DEF JobTypes
    <2>4. \A k \in Job : ToldFinal(k)' => ToldFinal(k) \/ (k = current /\ s = "final" /\ ~view.busy)
        <3> SUFFICES ASSUME NEW k \in Job, ToldFinal(k)', ~ToldFinal(k)
                     PROVE  k = current /\ s = "final" /\ ~view.busy
            OBVIOUS
        <3>1. notices[k] \in Seq({"queued", "started", "final"})
            BY DEF JobTypes
        <3>2. k = current /\ notices'[k] = Append(notices[k], s)
            BY <2>0, <2>1 DEF ToldFinal, JobTypes
        <3> QED BY <2>1, <3>1, <3>2 DEF ToldFinal
    <2>5. (Authority /\ Worked /\ Exclusion)'
        BY <2>0, <2>1, <2>2, <2>3 DEF JobTypes, Authorized, Authority, Worked, Exclusion, Owns
    <2>6. FreshJobs'
        BY <2>0, <2>1, <2>2, <2>3, <2>4 DEF FreshJobs, JobTypes, Untouched, Authorized
    <2>7. Finality'
        BY <2>0, <2>1, <2>2, <2>3, <2>4 DEF Finality, JobTypes
    <2> QED BY <2>3, <2>5, <2>6, <2>7
<1>3. CASE WriteMarker(s)
    <2>1. /\ marks' = [marks EXCEPT ![current] = @ \union {Marker[s]}] /\ Marker[s] \in Mark /\ Marker[s] # "reset-authorized"
          /\ bridge' = Onward(s) /\ bridge = s
          /\ IF bridge' = "idle" THEN task' = "poll" ELSE UNCHANGED <<task, current, view>>
          /\ UNCHANGED <<state, started, processes, gate, reset, online, notices, faults>>
        BY <1>3 DEF WriteMarker, Marker, Onward
    <2>2. bridge' \in IF task = "next" THEN {"open"} ELSE IF s = "final" THEN {"idle"} ELSE {"started", "final"}
        <3>1. CASE task = "next"
            BY <2>1, <3>1 DEF Onward
        <3>2. CASE task # "next"
            BY <2>1, <3>2 DEF Onward
        <3> QED BY <3>1, <3>2
    <2>0. current \in Job /\ state[current] # "none"
        BY <2>1 DEF JobTypes, FreshJobs
    <2>3. JobTypes'
        BY <2>0, <2>1, <2>2 DEF JobTypes
    <2>4. FreshJobs'
        BY <2>0, <2>1, <2>2, <2>3 DEF FreshJobs, JobTypes, Untouched, Authorized, ToldFinal
    <2>5. (Authority /\ Worked /\ Exclusion)'
        BY <2>0, <2>1, <2>2, <2>3 DEF JobTypes, Authorized, Authority, Worked, Exclusion, Owns
    <2>6. Finality'
        BY <2>0, <2>1, <2>2, <2>3 DEF Finality, ToldFinal, JobTypes
    <2> QED BY <2>3, <2>4, <2>5, <2>6
<1> QED BY <1>1, <1>2, <1>3

\* The runner.
LEMMA RunnerSteps ==
    ASSUME JobInv, NEW j \in Job, NEW s \in Stage,
           RunnerReady(j) \/ ReadGate(j) \/ GivesUp(j) \/ TakeShared(j) \/ Spawn(j) \/ NoteRunning(j) \/ Collect(j) \/ StopWorker(j) \/ RecordStop(j)
    PROVE  JobInv'
<1> USE DEF JobInv, Save, GoTo, Return, disk, processes, holder, JobLocked
<1> USE DEF JobState, Terminal, Stage, Mark, Alone, Live, Owning
<1>1. CASE RunnerReady(j)
    <2>1. JobTypes'
        BY <1>1 DEF JobTypes, RunnerReady
    <2> QED BY <1>1, <2>1 DEF JobTypes, FreshJobs, Authority, Worked, Finality, Exclusion, Owns,
                Untouched, Authorized, ToldFinal, RunnerReady
<1>2. CASE ReadGate(j)
    <2>1. /\ runner[j] = "gate"
          /\ \/ Goes(j, "queued", "lock") /\ Authorized(j)
             \/ \E t \in {"cancelled", "interrupted"} : Goes(j, t, "exited")
          /\ UNCHANGED <<started, marks, doomed, worker, gate, reset, holder, online, notices>>
        BY <1>2 DEF ReadGate, JobTypes, Finishes, Authorized
    <2>3. JobTypes'
        <3>1. PICK t \in {"queued", "cancelled", "interrupted"}, p \in {"lock", "exited"} : Goes(j, t, p)
            BY <2>1
        <3>2. state' \in [Job -> JobState]
            BY <3>1 DEF JobTypes, Goes
        <3>3. runner' \in [Job -> Live \union {"none", "exited"}]
            BY <3>1 DEF JobTypes, Goes
        <3> QED BY <2>1, <3>2, <3>3 DEF JobTypes
    <2>4. (FreshJobs /\ Authority)'
        BY <2>1, <2>3 DEF FreshJobs, JobTypes, Untouched, Authorized, ToldFinal, Authority, Goes
    <2>5. (Worked /\ Exclusion)'
        <3>1. runner' \in {[runner EXCEPT ![j] = "lock"], [runner EXCEPT ![j] = "exited"]}
            BY <2>1 DEF Goes
        <3>2. Worked'
            BY <2>1, <2>3, <3>1 DEF JobTypes, Worked
        <3>3. Exclusion'
            <4>1. \A k \in Job : Owns(k)' => Owns(k)
                BY <2>1, <3>1 DEF JobTypes, Owns
            <4> QED BY <4>1 DEF Exclusion
        <3> QED BY <3>2, <3>3
    <2>6. Finality'
        BY <2>1, <2>3 DEF Finality, ToldFinal, JobTypes, Goes, Worked
    <2> QED BY <2>3, <2>4, <2>5, <2>6
<1>3. CASE GivesUp(j)
    <2>1. JobTypes'
        BY <1>3 DEF JobTypes, GivesUp, Goes, Finishes
    <2> QED BY <1>3, <2>1 DEF JobTypes, FreshJobs, Authority, Worked, Finality, Exclusion, Owns,
                Untouched, Authorized, ToldFinal, GivesUp, Goes, Finishes
<1>4. CASE TakeShared(j)
    <2>1. JobTypes'
        BY <1>4 DEF JobTypes, TakeShared, SharedFree
    <2> QED BY <1>4, <2>1 DEF JobTypes, FreshJobs, Authority, Worked, Finality, Exclusion, Owns,
                Untouched, Authorized, ToldFinal, TakeShared, SharedFree
<1>5. CASE Spawn(j)
    <2>1. CASE worker' = [worker EXCEPT ![j] = "alive"] /\ runner' = [runner EXCEPT ![j] = "note"] /\ UNCHANGED state
        <3>1. JobTypes'
            BY <1>5, <2>1 DEF Spawn, JobTypes
        <3>2. (FreshJobs /\ Authority /\ Worked /\ Finality /\ Exclusion)'
            BY <1>5, <2>1, <3>1 DEF Spawn, JobTypes, FreshJobs, Authority, Worked, Finality, Exclusion,
                Owns, Untouched, Authorized, ToldFinal
        <3> QED BY <3>1, <3>2
    <2>2. CASE Finishes(j, "failed") /\ UNCHANGED worker
        <3>1. JobTypes'
            BY <1>5, <2>2 DEF Spawn, JobTypes, Finishes, Goes
        <3>2. (FreshJobs /\ Authority /\ Worked /\ Finality /\ Exclusion)'
            BY <1>5, <2>2, <3>1 DEF Spawn, JobTypes, FreshJobs, Authority, Worked, Finality, Exclusion, Owns, Untouched, Authorized, ToldFinal, Finishes, Goes
        <3> QED BY <3>1, <3>2
    <2> QED BY <1>5, <2>1, <2>2 DEF Spawn
<1>6. CASE NoteRunning(j)
    <2>1. JobTypes'
        BY <1>6 DEF JobTypes, NoteRunning, Goes
    <2> QED BY <1>6, <2>1 DEF JobTypes, FreshJobs, Authority, Worked, Finality, Exclusion, Owns,
                Untouched, Authorized, ToldFinal, NoteRunning, Goes
<1>7. CASE Collect(j)
    <2>1. JobTypes'
        BY <1>7 DEF JobTypes, Collect, Goes, Finishes, Verdict
    <2> QED BY <1>7, <2>1 DEF JobTypes, FreshJobs, Authority, Worked, Finality, Exclusion, Owns,
                Untouched, Authorized, ToldFinal, Collect, Goes, Finishes, Verdict
<1>8. CASE StopWorker(j)
    <2>1. JobTypes'
        BY <1>8 DEF JobTypes, StopWorker
    <2> QED BY <1>8, <2>1 DEF JobTypes, FreshJobs, Authority, Worked, Finality, Exclusion, Owns,
                Untouched, Authorized, ToldFinal, StopWorker
<1>9. CASE RecordStop(j)
    <2>1. JobTypes'
        BY <1>9 DEF JobTypes, RecordStop, Goes, Finishes
    <2> QED BY <1>9, <2>1 DEF JobTypes, FreshJobs, Authority, Worked, Finality, Exclusion, Owns,
                Untouched, Authorized, ToldFinal, RecordStop, Goes, Finishes
<1> QED BY <1>1, <1>2, <1>3, <1>4, <1>5, <1>6, <1>7, <1>8, <1>9

\* pi, signals, deaths and the network.
LEMMA OutsideSteps ==
    ASSUME JobInv, NEW j \in Job, NEW s \in Stage,
           PiResets(j) \/ Signalled(j) \/ TimesOut(j) \/ WorkerEnds(j) \/ RunnerDies(j) \/ BridgeStops \/ BridgeStarts \/ GoOffline \/ GoOnline \/ UNCHANGED vars
    PROVE  JobInv'
<1> USE DEF JobInv, Save, GoTo, Return, disk, processes, holder, JobLocked
<1> USE DEF JobState, Terminal, Stage, Mark, Alone, Live, Owning
<1>1. CASE PiResets(j)
    <2>1. JobTypes'
        BY <1>1 DEF JobTypes, PiResets
    <2> QED BY <1>1, <2>1 DEF JobTypes, FreshJobs, Authority, Worked, Finality, Exclusion, Owns,
                Untouched, Authorized, ToldFinal, PiResets
<1>2. CASE Signalled(j)
    <2>1. JobTypes'
        BY <1>2 DEF JobTypes, Signalled, Doom
    <2> QED BY <1>2, <2>1 DEF JobTypes, FreshJobs, Authority, Worked, Finality, Exclusion, Owns,
                Untouched, Authorized, ToldFinal, Signalled, Doom
<1>3. CASE TimesOut(j)
    <2>1. JobTypes'
        BY <1>3 DEF JobTypes, TimesOut, Doom
    <2> QED BY <1>3, <2>1 DEF JobTypes, FreshJobs, Authority, Worked, Finality, Exclusion, Owns,
                Untouched, Authorized, ToldFinal, TimesOut, Doom
<1>4. CASE WorkerEnds(j)
    <2>1. JobTypes'
        BY <1>4 DEF JobTypes, WorkerEnds
    <2> QED BY <1>4, <2>1 DEF JobTypes, FreshJobs, Authority, Worked, Finality, Exclusion, Owns,
                Untouched, Authorized, ToldFinal, WorkerEnds
<1>5. CASE RunnerDies(j)
    <2>1. JobTypes'
        BY <1>5 DEF JobTypes, RunnerDies
    <2> QED BY <1>5, <2>1 DEF JobTypes, FreshJobs, Authority, Worked, Finality, Exclusion, Owns,
                Untouched, Authorized, ToldFinal, RunnerDies
<1>6. CASE BridgeStops
    <2>1. JobTypes'
        BY <1>6 DEF JobTypes, BridgeStops
    <2> QED BY <1>6, <2>1 DEF JobTypes, FreshJobs, Authority, Worked, Finality, Exclusion, Owns,
                Untouched, Authorized, ToldFinal, BridgeStops
<1>7. CASE BridgeStarts
    <2>1. JobTypes'
        BY <1>7 DEF JobTypes, BridgeStarts
    <2> QED BY <1>7, <2>1 DEF JobTypes, FreshJobs, Authority, Worked, Finality, Exclusion, Owns,
                Untouched, Authorized, ToldFinal, BridgeStarts
<1>8. CASE GoOffline
    <2>1. JobTypes'
        BY <1>8 DEF JobTypes, GoOffline
    <2> QED BY <1>8, <2>1 DEF JobTypes, FreshJobs, Authority, Worked, Finality, Exclusion, Owns,
                Untouched, Authorized, ToldFinal, GoOffline
<1>9. CASE GoOnline
    <2>1. JobTypes'
        BY <1>9 DEF JobTypes, GoOnline
    <2> QED BY <1>9, <2>1 DEF JobTypes, FreshJobs, Authority, Worked, Finality, Exclusion, Owns,
                Untouched, Authorized, ToldFinal, GoOnline
<1>10. CASE UNCHANGED vars
    <2>1. JobTypes'
        BY <1>10 DEF JobTypes, vars
    <2> QED BY <1>10, <2>1 DEF JobTypes, FreshJobs, Authority, Worked, Finality, Exclusion, Owns,
                Untouched, Authorized, ToldFinal, vars
<1> QED BY <1>1, <1>2, <1>3, <1>4, <1>5, <1>6, <1>7, <1>8, <1>9, <1>10

\* The invariant holds at the start ...
LEMMA JobInit == Init => JobInv
<1> SUFFICES ASSUME Init PROVE JobInv
    OBVIOUS
<1> USE DEF Init
<1>1. JobTypes
    BY DEF JobTypes, JobState, Live, Alone, Stage
<1>2. FreshJobs /\ Authority /\ Worked
    BY DEF FreshJobs, Untouched, ToldFinal, Authority, Authorized, Alone, Worked
<1>3. Finality /\ Exclusion
    BY DEF Finality, JobLocked, Live, Alone, Stage, Exclusion, Owns, Owning
<1> QED BY <1>1, <1>2, <1>3 DEF JobInv

\* ... and every step keeps it.
LEMMA JobStep == JobInv /\ [Next]_vars => JobInv'
<1> SUFFICES ASSUME JobInv, [Next]_vars PROVE JobInv'
    OBVIOUS
<1>1. CASE Handler
    <2>1. CASE \E s \in Stage : Notify(s) \/ WriteMarker(s)
        <3>1. PICK s \in Stage : Notify(s) \/ WriteMarker(s)
            BY <2>1
        <3>2. current \in Job
            BY <3>1 DEF Notify, WriteMarker, JobInv, JobTypes, Stage
        <3> QED BY <3>1, <3>2, PollSteps
    <2>2. CASE ~\E s \in Stage : Notify(s) \/ WriteMarker(s)
        <3>1. current \in Job /\ "final" \in Stage
            BY <1>1, <2>2 DEF Handler, Launch, Ready, NotReady, ResetSucceeds, ResetFails, Authorize,
                              OpenGate, JobInv, JobTypes, Stage
        <3> QED BY <1>1, <2>2, <3>1, NextSteps DEF Handler
    <2> QED BY <2>1, <2>2
<1>2. CASE \E j \in Job : Prepare(j)
    BY <1>2, NextSteps DEF Stage
<1>3. CASE \E j \in Job : Poll(j)
    BY <1>3, PollSteps DEF Stage
<1>4. CASE \E j \in Job : Runner(j)
    BY <1>4, RunnerSteps DEF Runner, Stage
<1>5. CASE \E j \in Job : PiResets(j) \/ Signalled(j) \/ TimesOut(j) \/ WorkerEnds(j) \/ RunnerDies(j)
    BY <1>5, OutsideSteps DEF Stage
<1>6. CASE Outside \/ UNCHANGED vars
    <2>1. CASE Job = {}
        BY <1>6, <2>1 DEF Outside, BridgeStops, BridgeStarts, GoOffline, GoOnline, vars, disk, processes,
              holder, GoTo, JobInv, JobTypes, FreshJobs, Authority, Worked, Finality, Exclusion, Stage
    <2>2. CASE \E j \in Job : TRUE
        BY <1>6, <2>2, OutsideSteps DEF Outside, Stage
    <2> QED BY <2>1, <2>2
<1> QED BY <1>1, <1>2, <1>3, <1>4, <1>5, <1>6 DEF Next

-----------------------------------------------------------------------------
(* What follows.                                                             *)

\* The inductive invariant holds for every number of jobs and faults.
THEOREM Invariant == Spec => []JobInv
BY JobInit, JobStep, PTL DEF Spec

\* A worker acts only on a reset that pi performed and on the durable
\* authorization, whichever process dies when (reconcile.go:562-564).
THEOREM AuthorizedWork == Spec => []OnlyAuthorizedWork
<1>1. JobInv => OnlyAuthorizedWork
    BY DEF JobInv, Authority, Authorized, OnlyAuthorizedWork
<1> QED BY <1>1, Invariant, PTL

\* No final record and no final notice while the worker may still act
\* (reconcile.go:410-411).
THEOREM FinalVerdict == Spec => []VerdictIsFinal
<1>1. ASSUME JobInv PROVE VerdictIsFinal
    <2> SUFFICES ASSUME NEW j \in Job, worker[j] = "alive"
                 PROVE  /\ state[j] \notin Terminal
                        /\ \A i \in DOMAIN notices[j] : notices[j][i] # "final"
        BY DEF VerdictIsFinal
    <2>1. state[j] \notin Terminal /\ ~ToldFinal(j)
        BY <1>1 DEF JobInv, Finality, JobLocked
    <2>2. DOMAIN notices[j] = 1..Len(notices[j])
        BY <1>1 DEF JobInv, JobTypes
    <2> QED BY <2>1, <2>2 DEF ToldFinal
<1> QED BY <1>1, Invariant, PTL

\* One worker of the user at a time.
THEOREM OneWorker == Spec => [](\A j, k \in Job : worker[j] = "alive" /\ worker[k] = "alive" => j = k)
<1>1. JobInv => \A j, k \in Job : worker[j] = "alive" /\ worker[k] = "alive" => j = k
    BY DEF JobInv, Exclusion, Owns
<1> QED BY <1>1, Invariant, PTL

-----------------------------------------------------------------------------
(* The refinement of ReconcileJob, but for its fairness.                     *)

\* The two ways to say that the outcome was told.
LEMMA ToldIs == JobInv => \A j \in Job : ToldOf(j) <=> ToldFinal(j)
<1> SUFFICES ASSUME JobInv, NEW j \in Job PROVE ToldOf(j) <=> ToldFinal(j)
    OBVIOUS
<1>1. DOMAIN notices[j] = 1..Len(notices[j])
    BY DEF JobInv, JobTypes
<1> QED BY <1>1 DEF ToldOf, ToldFinal

\* A step that starts or ends no worker, tells nobody and prepares no job shows
\* nothing outside.
LEMMA SilentStep ==
    ASSUME worker' = worker, notices' = notices,
           \A j \in Job : state'[j] = "none" <=> state[j] = "none"
    PROVE  UNCHANGED Phase
BY DEF Phase, ToldOf

\* One that touches a single job shows that job's new phase.
LEMMA JobStepShows ==
    ASSUME NEW j \in Job,
           \A k \in Job \ {j} : /\ worker'[k] = worker[k] /\ notices'[k] = notices[k]
                                /\ state'[k] = state[k]
    PROVE  Phase' = [Phase EXCEPT ![j] = Phase'[j]]
<1>1. ASSUME NEW k \in Job \ {j} PROVE Phase'[k] = Phase[k]
    BY DEF Phase, ToldOf
<1>2. Phase = [k \in Job |-> Phase[k]] /\ Phase' = [k \in Job |-> Phase'[k]]
    BY DEF Phase
<1> QED BY <1>1, <1>2

\* Every step of the processes is a step of the promise or a stutter.
LEMMA PromiseStep == JobInv /\ JobInv' /\ [Next]_vars => [Promise!Next]_Phase
<1> SUFFICES ASSUME JobInv, JobInv', [Next]_vars PROVE Promise!Next \/ UNCHANGED Phase
    OBVIOUS
<1> USE DEF Save, disk, processes, holder
<1>1. CASE \E j \in Job : Prepare(j)
    <2>1. PICK j \in Job : Prepare(j)
        BY <1>1
    <2>2. ~ToldOf(j) /\ worker[j] = "none" /\ state[j] = "none"
        BY <2>1, ToldIs DEF Prepare, JobInv, FreshJobs, Untouched
    <2>3. Phase[j] = "absent" /\ Phase'[j] = "waiting"
        BY <2>1, <2>2 DEF Prepare, Phase, ToldOf, JobInv, JobTypes
    <2>4. Phase' = [Phase EXCEPT ![j] = "waiting"]
        BY <2>1, <2>3, JobStepShows DEF Prepare, JobInv, JobTypes
    <2> QED BY <2>3, <2>4 DEF Promise!Next, Promise!Prepare, Promise!Become
<1>2. CASE \E j \in Job : Spawn(j)
    <2>1. PICK j \in Job : Spawn(j)
        BY <1>2
    <2>2. /\ JobLocked(j) /\ Owns(j) /\ worker[j] = "none" /\ state[j] # "none" /\ ~ToldOf(j)
        BY <2>1, ToldIs DEF Spawn, JobInv, JobLocked, Live, Alone, Owns, Owning, Worked, FreshJobs,
           Untouched, Finality
    <2>3. CASE worker' = [worker EXCEPT ![j] = "alive"] /\ UNCHANGED state
        <3>1. Phase[j] = "waiting" /\ Phase'[j] = "working"
            BY <2>1, <2>2, <2>3 DEF Spawn, Phase, ToldOf, JobInv, JobTypes
        <3>2. \A k \in Job : Phase[k] # "working"
            BY <2>2 DEF Phase, JobInv, Exclusion, Owns
        <3>3. Phase' = [Phase EXCEPT ![j] = "working"]
            BY <2>1, <2>3, <3>1, JobStepShows DEF Spawn, JobInv, JobTypes
        <3> QED BY <3>1, <3>2, <3>3 DEF Promise!Next, Promise!Work, Promise!Become
    <2>4. CASE Finishes(j, "failed") /\ UNCHANGED worker
        BY <2>1, <2>2, <2>4, SilentStep DEF Spawn, Finishes, Goes, JobInv, JobTypes
    <2> QED BY <2>1, <2>3, <2>4 DEF Spawn
<1>3. CASE \E j \in Job : WorkerEnds(j) \/ StopWorker(j)
    <2>1. PICK j \in Job : WorkerEnds(j) \/ StopWorker(j)
        BY <1>3
    <2>2. /\ worker' = [worker EXCEPT ![j] = "ended"] /\ notices' = notices /\ state' = state
          /\ worker[j] \in {"alive", "ended"}
        BY <2>1 DEF WorkerEnds, StopWorker, JobInv, JobTypes, Worked
    <2>3. CASE worker[j] = "ended"
        BY <2>2, <2>3, SilentStep DEF JobInv, JobTypes
    <2>4. CASE worker[j] = "alive"
        <3>1. ~ToldOf(j)
            BY <2>4, ToldIs DEF JobInv, Finality, JobLocked
        <3>2. Phase[j] = "working" /\ Phase'[j] = "worked"
            BY <2>2, <2>4, <3>1 DEF Phase, ToldOf, JobInv, JobTypes
        <3>3. Phase' = [Phase EXCEPT ![j] = "worked"]
            BY <2>2, <3>2, JobStepShows DEF JobInv, JobTypes
        <3> QED BY <3>2, <3>3 DEF Promise!Next, Promise!Finish, Promise!Become
    <2> QED BY <2>2, <2>3, <2>4
<1>4. CASE \E s \in Stage : Notify(s)
    <2>1. PICK s \in Stage : Notify(s)
        BY <1>4
    <2>2. current \in Job /\ bridge = s /\ state[current] # "none" /\ UNCHANGED <<state, worker>>
        BY <2>1 DEF Notify, Stage, JobInv, JobTypes, FreshJobs
    <2>3. CASE notices' = notices
        BY <2>2, <2>3, SilentStep
    <2>4. CASE notices' # notices
        <3>1. notices' = [notices EXCEPT ![current] = Append(@, s)] /\ Due(s)
            BY <2>1, <2>4 DEF Notify
        <3>2. \A k \in Job \ {current} : notices'[k] = notices[k]
            BY <3>1 DEF JobInv, JobTypes
        <3>3. Phase' = [Phase EXCEPT ![current] = Phase'[current]]
            BY <2>2, <3>2, JobStepShows
        <3>4. (\E i \in DOMAIN notices'[current] : notices'[current][i] = "final") <=> ToldOf(current) \/ s = "final"
            <4>1. notices[current] \in Seq(Stage) /\ notices'[current] = Append(notices[current], s)
                BY <2>2, <3>1 DEF JobInv, JobTypes
            <4>2. /\ DOMAIN notices[current] = 1..Len(notices[current])
                  /\ DOMAIN notices'[current] = 1..(Len(notices[current]) + 1)
                  /\ Len(notices[current]) \in Nat
                  /\ \A i \in 1..Len(notices[current]) : notices'[current][i] = notices[current][i]
                  /\ notices'[current][Len(notices[current]) + 1] = s
                BY <4>1
            <4> DEFINE n == notices[current]
                       m == notices'[current]
            <4> HIDE DEF n, m
            <4>a. /\ DOMAIN n = 1..Len(n) /\ DOMAIN m = 1..(Len(n) + 1) /\ Len(n) \in Nat
                  /\ \A i \in 1..Len(n) : m[i] = n[i]
                  /\ m[Len(n) + 1] = s
                BY <4>2 DEF n, m
            <4>b. (\E i \in DOMAIN m : m[i] = "final") <=> (\E i \in DOMAIN n : n[i] = "final") \/ s = "final"
                BY <4>a
            <4>3. ToldOf(current) <=> \E i \in DOMAIN n : n[i] = "final"
                BY DEF ToldOf, n
            <4>4. (\E i \in DOMAIN notices'[current] : notices'[current][i] = "final") <=> \E i \in DOMAIN m : m[i] = "final"
                BY DEF m
            <4> QED BY <4>b, <4>3, <4>4
        <3>a. Phase[current] = IF ToldOf(current) THEN "told"
                               ELSE IF worker[current] # "none"
                               THEN (IF worker[current] = "alive" THEN "working" ELSE "worked")
                               ELSE IF state[current] # "none" THEN "waiting" ELSE "absent"
            BY <2>2 DEF Phase, ToldOf
        <3>b. Phase'[current] = IF (\E i \in DOMAIN notices'[current] : notices'[current][i] = "final") THEN "told"
                               ELSE IF worker'[current] # "none"
                               THEN (IF worker'[current] = "alive" THEN "working" ELSE "worked")
                               ELSE IF state'[current] # "none" THEN "waiting" ELSE "absent"
            BY <2>2 DEF Phase, ToldOf
        <3>5. CASE s = "final"
            <4>1. worker[current] # "alive"
                BY <2>1, <2>2, <3>1, <3>5 DEF Due, Owed, JobInv, Finality, JobLocked
            <4>2. Phase[current] \in {"told", "waiting", "worked"} /\ Phase'[current] = "told"
                BY <2>2, <3>4, <3>5, <3>a, <3>b, <4>1
            <4>3. CASE Phase[current] = "told"
                BY <3>3, <4>2, <4>3 DEF Phase
            <4>4. CASE Phase[current] \in {"waiting", "worked"}
                BY <2>2, <3>3, <4>2, <4>4 DEF Promise!Next, Promise!Tell, Promise!Become
            <4> QED BY <4>2, <4>3, <4>4
        <3>6. CASE s # "final"
            <4>1. Phase'[current] = Phase[current]
                BY <2>2, <3>4, <3>6, <3>a, <3>b
            <4> QED BY <3>3, <4>1 DEF Phase
        <3> QED BY <3>5, <3>6
    <2> QED BY <2>3, <2>4
<1>5. CASE Handler /\ ~\E s \in Stage : Notify(s)
    <2>1. /\ worker' = worker /\ notices' = notices
          /\ \E s \in JobState \ {"none"} : state' \in {state, [state EXCEPT ![current] = s]}
        BY <1>5 DEF Handler, Launch, Ready, NotReady, ResetSucceeds, ResetFails, Authorize, OpenGate,
           WriteMarker, JobState, Terminal
    <2>2. state[current] # "none"
        BY <1>5 DEF Handler, Launch, Ready, NotReady, ResetSucceeds, ResetFails, Authorize, OpenGate,
           WriteMarker, Stage, JobInv, FreshJobs
    <2> QED BY <2>1, <2>2, SilentStep DEF JobInv, JobTypes
<1>6. CASE \E j \in Job : \/ Poll(j) \/ RunnerReady(j) \/ ReadGate(j) \/ GivesUp(j) \/ TakeShared(j)
                          \/ NoteRunning(j) \/ Collect(j) \/ RecordStop(j)
    <2>1. PICK j \in Job : \/ Poll(j) \/ RunnerReady(j) \/ ReadGate(j) \/ GivesUp(j) \/ TakeShared(j)
                           \/ NoteRunning(j) \/ Collect(j) \/ RecordStop(j)
        BY <1>6
    <2>2. state[j] # "none"
        BY <2>1 DEF Poll, RunnerReady, ReadGate, GivesUp, TakeShared, NoteRunning, Collect, RecordStop,
           JobInv, FreshJobs, Untouched
    <2>3. /\ worker' = worker /\ notices' = notices
          /\ \E s \in JobState \ {"none"} : state' \in {state, [state EXCEPT ![j] = s]}
        <3>1. gate[j] \in {"empty", "run", "cancel", "eof"} /\ state[j] \in JobState
            BY DEF JobInv, JobTypes
        <3> QED BY <2>1, <2>2, <3>1
                DEF Poll, RunnerReady, ReadGate, GivesUp, TakeShared, NoteRunning, Collect, RecordStop,
                    Goes, Finishes, Verdict, JobState, Terminal
    <2> QED BY <2>2, <2>3, SilentStep DEF JobInv, JobTypes
<1>7. CASE \E j \in Job : PiResets(j) \/ Signalled(j) \/ TimesOut(j) \/ RunnerDies(j)
    BY <1>7, SilentStep DEF PiResets, Signalled, TimesOut, RunnerDies, Doom
<1>8. CASE Outside \/ UNCHANGED vars
    BY <1>8, SilentStep DEF Outside, BridgeStops, BridgeStarts, GoOffline, GoOnline, vars
<1> QED BY <1>1, <1>2, <1>3, <1>4, <1>5, <1>6, <1>7, <1>8 DEF Next, Handler, Runner

\* Bridge, runner and worker, with all their deaths, implement what ReconcileJob
\* promises of each job: one worker at a time, once per job, the outcome told
\* after it.  Its fairness is left to the model checker.
THEOREM ImplementsPromise == Spec => Promise!Init /\ [][Promise!Next]_Phase
<1>1. Init => Promise!Init
    BY DEF Init, Promise!Init, Phase, ToldOf
<1> QED BY <1>1, Invariant, PromiseStep, PTL DEF Spec

-----------------------------------------------------------------------------
(* The notices.                                                              *)

\* What the argument for the types lacks.
LEMMA TypeStep == JobInv' /\ TypeOK /\ [Next]_vars => TypeOK'
<1> SUFFICES ASSUME JobInv', TypeOK, [Next]_vars PROVE TypeOK'
    OBVIOUS
<1> USE DEF TypeOK, disk, processes, holder
<1>1. started' \in [Job -> BOOLEAN] /\ doomed' \in [Job -> BOOLEAN] /\ online' \in BOOLEAN
    <2>1. CASE Handler
        BY <2>1 DEF Handler, Launch, Ready, NotReady, ResetSucceeds, ResetFails, Authorize, OpenGate,
                    Notify, WriteMarker
    <2>2. CASE Outside \/ UNCHANGED vars
        BY <2>2 DEF Outside, BridgeStops, BridgeStarts, GoOffline, GoOnline, vars
    <2>3. CASE \E j \in Job : Prepare(j) \/ Poll(j) \/ PiResets(j) \/ WorkerEnds(j)
        BY <2>3 DEF Prepare, Poll, PiResets, WorkerEnds
    <2>4. CASE \E j \in Job : Runner(j)
        BY <2>4 DEF Runner, RunnerReady, ReadGate, GivesUp, TakeShared, Spawn, NoteRunning, Collect,
                    StopWorker, RecordStop
    <2>5. CASE \E j \in Job : Signalled(j) \/ TimesOut(j) \/ RunnerDies(j)
        BY <2>5 DEF Signalled, TimesOut, RunnerDies, Doom
    <2> QED BY <2>1, <2>2, <2>3, <2>4, <2>5 DEF Next
<1>2. faults' \in 0..MaxFaults
    <2>1. faults' = faults \/ Fault
        <3> USE DEF Fault
        <3>1. CASE Handler
            BY <3>1 DEF Handler, Launch, Ready, NotReady, ResetSucceeds, ResetFails, Authorize, OpenGate,
                        Notify, WriteMarker
        <3>2. CASE Outside \/ UNCHANGED vars
            BY <3>2 DEF Outside, BridgeStops, BridgeStarts, GoOffline, GoOnline, vars
        <3>3. CASE \E j \in Job : Prepare(j) \/ Poll(j) \/ PiResets(j) \/ WorkerEnds(j)
            BY <3>3 DEF Prepare, Poll, PiResets, WorkerEnds
        <3>4. CASE \E j \in Job : Runner(j)
            BY <3>4 DEF Runner, RunnerReady, ReadGate, GivesUp, TakeShared, Spawn, NoteRunning, Collect,
                        StopWorker, RecordStop
        <3>5. CASE \E j \in Job : Signalled(j) \/ TimesOut(j) \/ RunnerDies(j)
            BY <3>5 DEF Signalled, TimesOut, RunnerDies
        <3> QED BY <3>1, <3>2, <3>3, <3>4, <3>5 DEF Next
    <2>2. faults \in 0..MaxFaults /\ MaxFaults \in Nat
        BY ReconcileAssumption
    <2> QED BY ONLY <2>1, <2>2 DEF Fault
<1>3. view' \in View /\ sent' \in BOOLEAN /\ current' \in Job \union {NoJob}
    <2>1. CASE \E j \in Job : Poll(j)
        <3>1. PICK j \in Job : Poll(j)
            BY <2>1
        <3>2. JobLocked(j) \in BOOLEAN /\ started[j] \in BOOLEAN
            BY DEF JobLocked
        <3> QED BY <3>1, <3>2 DEF Poll, View
    <2>2. CASE ~\E j \in Job : Poll(j)
        <3>1. view' \in {view, NoView}
            <4> USE DEF GoTo, Return
            <4>1. CASE Handler
                BY <4>1 DEF Handler, Launch, Ready, NotReady, ResetSucceeds, ResetFails, Authorize, OpenGate,
                            Notify, WriteMarker
            <4>2. CASE Outside \/ UNCHANGED vars
                BY <4>2 DEF Outside, BridgeStops, BridgeStarts, GoOffline, GoOnline, vars
            <4>3. CASE \E j \in Job : Prepare(j) \/ PiResets(j) \/ WorkerEnds(j)
                BY <4>3 DEF Prepare, PiResets, WorkerEnds
            <4>4. CASE \E j \in Job : Runner(j)
                BY <4>4 DEF Runner, RunnerReady, ReadGate, GivesUp, TakeShared, Spawn, NoteRunning, Collect,
                            StopWorker, RecordStop
            <4>5. CASE \E j \in Job : Signalled(j) \/ TimesOut(j) \/ RunnerDies(j)
                BY <4>5 DEF Signalled, TimesOut, RunnerDies, Doom
            <4> QED BY <2>2, <4>1, <4>2, <4>3, <4>4, <4>5 DEF Next
        <3>2. sent' \in {sent, TRUE, FALSE}
            <4> USE DEF GoTo, Return
            <4>1. CASE Handler
                BY <4>1 DEF Handler, Launch, Ready, NotReady, ResetSucceeds, ResetFails, Authorize, OpenGate,
                            Notify, WriteMarker
            <4>2. CASE Outside \/ UNCHANGED vars
                BY <4>2 DEF Outside, BridgeStops, BridgeStarts, GoOffline, GoOnline, vars
            <4>3. CASE \E j \in Job : Prepare(j) \/ PiResets(j) \/ WorkerEnds(j)
                BY <4>3 DEF Prepare, PiResets, WorkerEnds
            <4>4. CASE \E j \in Job : Runner(j)
                BY <4>4 DEF Runner, RunnerReady, ReadGate, GivesUp, TakeShared, Spawn, NoteRunning, Collect,
                            StopWorker, RecordStop
            <4>5. CASE \E j \in Job : Signalled(j) \/ TimesOut(j) \/ RunnerDies(j)
                BY <4>5 DEF Signalled, TimesOut, RunnerDies, Doom
            <4> QED BY <2>2, <4>1, <4>2, <4>3, <4>4, <4>5 DEF Next
        <3>3. current' \in {current, NoJob} \/ \E j \in Job : Prepare(j)
            <4> USE DEF GoTo, Return
            <4>1. CASE Handler
                BY <4>1 DEF Handler, Launch, Ready, NotReady, ResetSucceeds, ResetFails, Authorize, OpenGate,
                            Notify, WriteMarker
            <4>2. CASE Outside \/ UNCHANGED vars
                BY <4>2 DEF Outside, BridgeStops, BridgeStarts, GoOffline, GoOnline, vars
            <4>3. CASE \E j \in Job : Prepare(j) \/ PiResets(j) \/ WorkerEnds(j)
                BY <4>3 DEF Prepare, PiResets, WorkerEnds
            <4>4. CASE \E j \in Job : Runner(j)
                BY <4>4 DEF Runner, RunnerReady, ReadGate, GivesUp, TakeShared, Spawn, NoteRunning, Collect,
                            StopWorker, RecordStop
            <4>5. CASE \E j \in Job : Signalled(j) \/ TimesOut(j) \/ RunnerDies(j)
                BY <4>5 DEF Signalled, TimesOut, RunnerDies, Doom
            <4> QED BY <2>2, <4>1, <4>2, <4>3, <4>4, <4>5 DEF Next
        <3>4. view' \in View
            <4>1. view \in View
                OBVIOUS
            <4>2. NoView \in View
                BY DEF NoView, View
            <4> QED BY ONLY <3>1, <4>1, <4>2
        <3>5. current' \in Job \union {NoJob}
            BY <3>3 DEF Prepare
        <3> QED BY <3>2, <3>4, <3>5
    <2> QED BY <2>1, <2>2
<1> QED BY <1>1, <1>2, <1>3 DEF JobInv, JobTypes

\* The user was told of a stage of a job.
Said(j, s) == \E i \in 1..Len(notices[j]) : notices[j][i] = s

\* What job.json says of the worker, and of a job that is not there.
Recorded == \A j \in Job :
    /\ state[j] = "running" => started[j]
    /\ started[j] => worker[j] # "none"
    /\ state[j] = "none" => \A s \in Stage : ~Said(j, s)

\* What the poll found holds until it has told of it.
Seen == bridge \in Stage /\ task = "poll" =>
    /\ view.ran => started[current]
    /\ ~view.busy => view.ran = started[current]

\* /next tells of no stage but the first.
Fresh ==
    /\ bridge \in {"started", "final"} => task = "poll"
    /\ \A j \in Job :
          /\ j = current
          /\ bridge \in {"launch", "ready", "reset", "authorize"} \/ (bridge = "queued" /\ task = "next")
          => ~Said(j, "started") /\ ~Said(j, "final")

\* No stage is told before the markers of the earlier ones it owes are written.
Passed(j) == Authorized(j) => "queued-reported" \in marks[j]
Ladder == \A j \in Job :
    /\ Said(j, "started") \/ Said(j, "final") => Passed(j)
    /\ Said(j, "final") /\ started[j] => "running-reported" \in marks[j]
    /\ j = current /\ bridge \in {"started", "final"} => Passed(j)
    /\ j = current /\ bridge = "final" /\ view.ran => "running-reported" \in marks[j]

\* A notice without a marker is the one in hand ...
Pending == sent =>
    /\ bridge \in Stage
    /\ \A j \in Job, s \in Stage : j = current /\ s = bridge => Said(j, s) /\ Marker[s] \notin marks[j]

\* ... or a fault came in between, and it may be told once more.
Loose(j) == {s \in Stage : /\ Said(j, s) /\ Marker[s] \notin marks[j]
                           /\ ~(sent /\ bridge = s /\ current = j)}
Budget == \A j \in Job : Repeats(j) + Cardinality(Loose(j)) =< faults

TellInv == TypeOK /\ Recorded /\ Seen /\ Fresh /\ Ladder /\ NoticesInOrder /\ Pending /\ Budget

-----------------------------------------------------------------------------
(* The steps, by what they do to the notices.                                *)

\* Nothing about notices; a step of /next; back to idle; the poll and its notices.
Told == <<marks, notices>>
Keeps == UNCHANGED <<Told, holder>> /\ faults' >= faults
Prepares == /\ UNCHANGED <<Told, started, sent, faults>> /\ bridge = "idle" /\ bridge' = "launch" /\ task' = "next"
            /\ current' \in Job /\ state[current'] = "none"
Proceeds == /\ UNCHANGED <<Told, started, faults, task, current, view, sent>>
            /\ bridge \in {"launch", "ready", "reset"} /\ bridge' \in {"ready", "reset", "authorize"}
Lets == /\ UNCHANGED <<Told, started>> /\ bridge' \in {"idle", "down"}
        /\ \/ bridge \notin Stage /\ sent' = sent /\ faults' = faults
           \/ sent' = FALSE /\ faults' = faults + 1
Tells(s) ==
    /\ bridge = s /\ ~sent /\ Due(s) /\ sent' = TRUE
    /\ notices' = [notices EXCEPT ![current] = Append(@, s)]
    /\ UNCHANGED <<disk, processes, bridge, task, current, view, faults>>
Skips(s) ==
    /\ bridge = s /\ ~sent /\ UNCHANGED <<disk, processes, notices, faults, sent>>
    /\ \/ bridge' = "idle"
       \/ bridge' = "open" /\ task = "next" /\ UNCHANGED <<task, current, view>>
       \/ /\ ~Due(s) /\ task # "next" /\ UNCHANGED <<task, current, view>>
          /\ <<s, bridge'>> \in {<<"queued", "started">>, <<"started", "final">>}

\* Every step is of one kind.
LEMMA Kinds ==
    ASSUME JobInv, TypeOK, [Next]_vars
    PROVE  \/ Keeps \/ Prepares \/ Proceeds \/ Lets \/ Authorize
           \/ \E s \in Stage : Tells(s) \/ Skips(s) \/ WriteMarker(s)
           \/ \E j \in Job : Poll(j)
<1> USE DEF holder, Told, disk, processes
<1>0. faults \in Nat
    BY DEF TypeOK
<1>1. CASE Launch \/ Ready \/ NotReady \/ ResetSucceeds \/ ResetFails \/ Authorize \/ OpenGate
    BY <1>1 DEF Launch, Ready, NotReady, ResetSucceeds, ResetFails, OpenGate, Return, GoTo, Proceeds, Lets, Stage
<1>2. ASSUME NEW s \in Stage, Notify(s) PROVE Tells(s) \/ Skips(s)
    <2>1. CASE Due(s) /\ online
        BY <1>2, <2>1 DEF Notify, Tells, GoTo, Stage
    <2>2. CASE ~(Due(s) /\ online)
        <3>1. /\ bridge = s /\ ~sent /\ UNCHANGED <<disk, processes, notices, faults, sent>>
              /\ GoTo(IF Due(s) THEN GivenUp(s) ELSE Onward(s))
            BY <1>2, <2>2 DEF Notify
        <3>2. CASE task = "next"
            BY <3>1, <3>2 DEF GoTo, GivenUp, Onward, Skips
        <3>3. CASE task # "next"
            BY <3>1, <3>3 DEF GoTo, GivenUp, Onward, Skips, Stage
        <3> QED BY <3>2, <3>3
    <2> QED BY <2>1, <2>2
<1>3. CASE Outside \/ UNCHANGED vars
    <2>1. CASE BridgeStops
        BY <2>1 DEF BridgeStops, GoTo, Fault, Lets
    <2>2. CASE BridgeStarts
        BY <2>2 DEF BridgeStarts, Lets, Stage
    <2>3. CASE GoOffline \/ GoOnline \/ UNCHANGED vars
        BY <1>0, <2>3 DEF GoOffline, GoOnline, Fault, vars, Keeps
    <2> QED BY <1>3, <2>1, <2>2, <2>3 DEF Outside
<1>4. CASE \E j \in Job : Prepare(j)
    BY <1>4 DEF Prepare, Prepares
<1>5. CASE \E j \in Job : Runner(j)
    <2>1. UNCHANGED <<Told, holder, faults>>
        BY <1>5 DEF Runner, RunnerReady, ReadGate, GivesUp, TakeShared, Spawn, NoteRunning, Collect,
                    StopWorker, RecordStop
    <2> QED BY <1>0, <2>1 DEF Keeps
<1>6. CASE \E j \in Job : PiResets(j) \/ Signalled(j) \/ TimesOut(j) \/ WorkerEnds(j) \/ RunnerDies(j)
    BY <1>0, <1>6 DEF PiResets, Signalled, TimesOut, WorkerEnds, RunnerDies, Fault, Doom, Keeps
<1> QED BY <1>1, <1>2, <1>3, <1>4, <1>5, <1>6 DEF Next, Handler

\* `started` is written by a runner with its lock, and by nothing else.
LEMMA StartedKinds ==
    ASSUME JobInv, [Next]_vars
    PROVE  started' = started \/ \E j \in Job : NoteRunning(j)
<1> USE DEF disk, processes, holder
<1>1. CASE Handler
    BY <1>1 DEF Handler, Launch, Ready, NotReady, ResetSucceeds, ResetFails, Authorize, OpenGate,
                Notify, WriteMarker
<1>2. CASE Outside \/ UNCHANGED vars
    BY <1>2 DEF Outside, BridgeStops, BridgeStarts, GoOffline, GoOnline, vars
<1>3. CASE \E j \in Job : \/ Prepare(j) \/ Poll(j) \/ PiResets(j) \/ WorkerEnds(j) \/ Signalled(j)
                          \/ TimesOut(j) \/ RunnerDies(j)
    BY <1>3 DEF Prepare, Poll, PiResets, WorkerEnds, Signalled, TimesOut, RunnerDies, Doom
<1>4. CASE \E j \in Job : Runner(j)
    BY <1>4 DEF Runner, RunnerReady, ReadGate, GivesUp, TakeShared, Spawn, Collect, StopWorker, RecordStop
<1> QED BY <1>1, <1>2, <1>3, <1>4 DEF Next

\* What a notice adds.
LEMMA TellSays ==
    ASSUME JobInv, NEW s \in Stage, Tells(s)
    PROVE  /\ current \in Job
           /\ \A k \in Job \ {current} : notices'[k] = notices[k]
           /\ Len(notices[current]) \in Nat
           /\ Len(notices'[current]) = Len(notices[current]) + 1
           /\ notices'[current][Len(notices[current]) + 1] = s
           /\ \A i \in 1..Len(notices[current]) : notices'[current][i] = notices[current][i]
           /\ \A k \in Job, t \in Stage : Said(k, t)' <=> Said(k, t) \/ (k = current /\ t = s)
<1>1. current \in Job
    BY DEF Tells, JobInv, JobTypes, Stage
<1>2. notices[current] \in Seq(Stage) /\ notices'[current] = Append(notices[current], s)
    BY <1>1 DEF Tells, JobInv, JobTypes
<1>3. \A k \in Job \ {current} : notices'[k] = notices[k]
    BY DEF Tells, JobInv, JobTypes
<1>4. /\ Len(notices[current]) \in Nat
      /\ Len(notices'[current]) = Len(notices[current]) + 1
      /\ notices'[current][Len(notices[current]) + 1] = s
      /\ \A i \in 1..Len(notices[current]) : notices'[current][i] = notices[current][i]
    BY <1>2
<1>5. ASSUME NEW t \in Stage, NEW k \in Job, k = current PROVE Said(k, t)' <=> Said(k, t) \/ t = s
    <2> DEFINE n == notices[k]
               m == notices'[k]
    <2> HIDE DEF n, m
    <2>1. /\ Len(n) \in Nat /\ Len(m) = Len(n) + 1 /\ m[Len(n) + 1] = s
          /\ \A i \in 1..Len(n) : m[i] = n[i]
        BY <1>4, <1>5 DEF n, m
    <2>2. (\E i \in 1..Len(m) : m[i] = t) <=> (\E i \in 1..Len(n) : n[i] = t) \/ t = s
        BY <2>1
    <2>3. Said(k, t)' <=> \E i \in 1..Len(m) : m[i] = t
        BY DEF Said, m
    <2> QED BY <2>2, <2>3 DEF Said, n
<1>6. \A k \in Job \ {current}, t \in Stage : Said(k, t)' <=> Said(k, t)
    BY <1>3 DEF Said
<1> QED BY <1>1, <1>3, <1>4, <1>5, <1>6

-----------------------------------------------------------------------------
(* ... and what they keep.                                                   *)

\* What a runner writes.
LEMMA RunnerKinds ==
    ASSUME JobInv, NEW k \in Job, Runner(k)
    PROVE  /\ NoteRunning(k) \/ \E s \in JobState \ {"none", "running"} :
                                    state' \in {state, [state EXCEPT ![k] = s]}
           /\ \E w \in {"alive", "ended"} : worker' \in {worker, [worker EXCEPT ![k] = w]}
<1> USE DEF Save, disk, processes, Terminal, Goes, Finishes, JobState
<1>1. CASE RunnerReady(k) \/ TakeShared(k) \/ StopWorker(k)
    BY <1>1 DEF RunnerReady, TakeShared, StopWorker
<1>2. CASE ReadGate(k)
    <2>1. gate[k] \in {"empty", "run", "cancel", "eof"}
        BY DEF JobInv, JobTypes
    <2>2. \E s \in {"cancelled", "interrupted", "queued"} : state' = [state EXCEPT ![k] = s]
        BY <1>2, <2>1 DEF ReadGate
    <2> QED BY <1>2, <2>2 DEF ReadGate
<1>3. CASE GivesUp(k) \/ Collect(k) \/ RecordStop(k)
    BY <1>3 DEF GivesUp, Collect, RecordStop, Verdict
<1>4. CASE Spawn(k)
    BY <1>4 DEF Spawn
<1>5. CASE NoteRunning(k)
    BY <1>5 DEF NoteRunning
<1> QED BY <1>1, <1>2, <1>3, <1>4, <1>5 DEF Runner

\* The record of a job that is not there, not running, or without a worker.
LEMMA RecordedStep ==
    ASSUME JobInv, JobInv', TypeOK, Recorded, [Next]_vars
    PROVE  Recorded'
<1>1. ASSUME NEW j \in Job, state'[j] = "running" PROVE state[j] = "running" \/ NoteRunning(j)
    <2> USE DEF Save, disk, processes, holder, JobInv, JobTypes, Terminal, Goes, Finishes
    <2>1. CASE Handler
        BY <1>1, <2>1 DEF Handler, Launch, Ready, NotReady, ResetSucceeds, ResetFails, Authorize, OpenGate,
                    Notify, WriteMarker
    <2>2. CASE Outside \/ UNCHANGED vars
        BY <1>1, <2>2 DEF Outside, BridgeStops, BridgeStarts, GoOffline, GoOnline, vars
    <2>3. CASE \E k \in Job : \/ Prepare(k) \/ Poll(k) \/ PiResets(k) \/ WorkerEnds(k) \/ Signalled(k)
                              \/ TimesOut(k) \/ RunnerDies(k)
        BY <1>1, <2>3 DEF Prepare, Poll, PiResets, WorkerEnds, Signalled, TimesOut, RunnerDies, Doom
    <2>4. CASE \E k \in Job : Runner(k)
        <3>1. PICK k \in Job : Runner(k)
            BY <2>4
        <3>2. CASE NoteRunning(k)
            BY ZenonT(60), <1>1, <3>2 DEF NoteRunning
        <3>3. CASE \E s \in JobState \ {"none", "running"} : state' \in {state, [state EXCEPT ![k] = s]}
            BY <1>1, <3>3
        <3> QED BY <3>1, <3>2, <3>3, RunnerKinds
    <2> QED BY <2>1, <2>2, <2>3, <2>4 DEF Next
<1>2. ASSUME NEW j \in Job, worker[j] # "none" PROVE worker'[j] # "none"
    <2> USE DEF disk, processes, holder, JobInv, JobTypes, Goes, Finishes
    <2>1. CASE Handler
        BY <1>2, <2>1 DEF Handler, Launch, Ready, NotReady, ResetSucceeds, ResetFails, Authorize, OpenGate,
                    Notify, WriteMarker
    <2>2. CASE Outside \/ UNCHANGED vars
        BY <1>2, <2>2 DEF Outside, BridgeStops, BridgeStarts, GoOffline, GoOnline, vars
    <2>3. CASE \E k \in Job : \/ Prepare(k) \/ Poll(k) \/ PiResets(k) \/ WorkerEnds(k) \/ Signalled(k)
                              \/ TimesOut(k) \/ RunnerDies(k)
        BY <1>2, <2>3 DEF Prepare, Poll, PiResets, WorkerEnds, Signalled, TimesOut, RunnerDies, Doom
    <2>4. CASE \E k \in Job : Runner(k)
        BY ZenonT(60), <1>2, <2>4, RunnerKinds
    <2> QED BY <2>1, <2>2, <2>3, <2>4 DEF Next
<1>3. ASSUME NEW j \in Job, state'[j] = "none" PROVE state[j] = "none"
    <2> USE DEF Save, disk, processes, holder, JobInv, JobTypes, Terminal, Goes, Finishes
    <2>1. CASE Handler
        BY <1>3, <2>1 DEF Handler, Launch, Ready, NotReady, ResetSucceeds, ResetFails, Authorize, OpenGate,
                    Notify, WriteMarker
    <2>2. CASE Outside \/ UNCHANGED vars
        BY <1>3, <2>2 DEF Outside, BridgeStops, BridgeStarts, GoOffline, GoOnline, vars
    <2>3. CASE \E k \in Job : \/ Prepare(k) \/ Poll(k) \/ PiResets(k) \/ WorkerEnds(k) \/ Signalled(k)
                              \/ TimesOut(k) \/ RunnerDies(k)
        BY <1>3, <2>3 DEF Prepare, Poll, PiResets, WorkerEnds, Signalled, TimesOut, RunnerDies, Doom
    <2>4. CASE \E k \in Job : Runner(k)
        <3>1. PICK k \in Job : Runner(k)
            BY <2>4
        <3>2. CASE NoteRunning(k)
            BY <1>3, <3>2 DEF NoteRunning
        <3>3. CASE \E s \in JobState \ {"none", "running"} : state' \in {state, [state EXCEPT ![k] = s]}
            BY <1>3, <3>3
        <3> QED BY <3>1, <3>2, <3>3, RunnerKinds
    <2> QED BY <2>1, <2>2, <2>3, <2>4 DEF Next
<1>4. ASSUME NEW j \in Job, started'[j] PROVE worker'[j] # "none"
    <2>1. CASE started[j]
        BY <1>2, <2>1 DEF Recorded
    <2>2. CASE ~started[j]
        <3>1. NoteRunning(j)
            <4>1. PICK k \in Job : NoteRunning(k)
                BY <1>4, <2>2, StartedKinds
            <4> QED BY <1>4, <2>2, <4>1 DEF NoteRunning, TypeOK
        <3> QED BY <1>2, <3>1 DEF NoteRunning, JobInv, Worked
    <2> QED BY <2>1, <2>2
<1>5. ASSUME NEW j \in Job, state'[j] = "running" PROVE started'[j]
    <2>1. CASE NoteRunning(j)
        BY <2>1 DEF NoteRunning, TypeOK
    <2>2. CASE state[j] = "running"
        <3>1. started[j]
            BY <2>2 DEF Recorded
        <3>2. CASE started' = started
            BY <3>1, <3>2
        <3>3. CASE \E k \in Job : NoteRunning(k)
            BY <3>1, <3>3 DEF NoteRunning, TypeOK
        <3> QED BY <3>2, <3>3, StartedKinds
    <2> QED BY <1>1, <1>5, <2>1, <2>2
<1>6. ASSUME NEW j \in Job, state'[j] = "none", NEW s \in Stage PROVE ~Said(j, s)'
    <2>1. ~Said(j, s) /\ state[j] = "none"
        BY <1>3, <1>6 DEF Recorded
    <2>2. notices'[j] = notices[j]
        <3>1. CASE \E t \in Stage : Tells(t)
            <4>1. PICK t \in Stage : Tells(t)
                BY <3>1
            <4>2. j # current
                BY <2>1, <4>1 DEF Tells, JobInv, FreshJobs, Stage
            <4> QED BY <4>1, <4>2, TellSays
        <3>2. CASE ~\E t \in Stage : Tells(t)
            BY <3>2, Kinds DEF Keeps, Prepares, Proceeds, Lets, Authorize, Skips, WriteMarker, Poll, Told
        <3> QED BY <3>1, <3>2
    <2> QED BY <2>1, <2>2 DEF Said
<1> QED BY <1>4, <1>5, <1>6 DEF Recorded

\* What the poll found still holds.
LEMMA SeenStep ==
    ASSUME JobInv, JobInv', TypeOK, Recorded, Seen, [Next]_vars
    PROVE  Seen'
<1> USE DEF Seen
<1>1. CASE Keeps
    <2>1. CASE started' = started
        BY <1>1, <2>1 DEF Keeps, holder
    <2>2. CASE \E j \in Job : NoteRunning(j)
        <3>1. PICK j \in Job : NoteRunning(j)
            BY <2>2
        <3>2. JobLocked(j)
            BY <3>1 DEF NoteRunning, JobLocked, Live, Alone
        <3>3. bridge \in Stage /\ task = "poll" /\ ~view.busy => current # j
            BY <3>2 DEF JobInv, Finality
        <3>4. \A k \in Job : /\ started[k] => started'[k]
                             /\ k # j => started'[k] = started[k]
            BY <3>1 DEF NoteRunning, TypeOK
        <3>5. bridge \in Stage => current \in Job
            BY DEF JobInv, JobTypes, Stage
        <3> QED BY <1>1, <3>3, <3>4, <3>5 DEF Keeps, holder
    <2> QED BY <2>1, <2>2, StartedKinds
<1>2. CASE Prepares \/ Proceeds \/ Lets
    BY <1>2 DEF Prepares, Proceeds, Lets, Stage
<1>3. CASE Authorize
    BY <1>3 DEF Authorize, Return, GoTo, Stage, JobInv, FreshJobs
<1>4. CASE \E s \in Stage : Tells(s) \/ Skips(s)
    BY <1>4 DEF Tells, Skips, Stage, disk
<1>5. CASE \E s \in Stage : WriteMarker(s)
    BY <1>5 DEF WriteMarker, GoTo, Stage
<1>6. CASE \E j \in Job : Poll(j)
    <2>1. PICK j \in Job : Poll(j)
        BY <1>6
    <2>2. /\ view'.busy = JobLocked(j) /\ current' = j /\ started' = started
          /\ view'.ran = IF JobLocked(j) THEN state[j] = "running" ELSE started[j]
        BY <2>1 DEF Poll
    <2>3. state[j] = "running" => started[j]
        BY DEF Recorded
    <2> QED BY <2>2, <2>3
<1> QED BY <1>1, <1>2, <1>3, <1>4, <1>5, <1>6, Kinds

\* /next has told of no stage but the first.
LEMMA FreshStep ==
    ASSUME JobInv, JobInv', TypeOK, Recorded, Seen, Fresh, Ladder, [Next]_vars
    PROVE  Fresh'
<1> USE DEF Fresh
<1>1. CASE Keeps \/ Prepares \/ Proceeds \/ Lets
    <2>1. \A j \in Job, t \in Stage : Said(j, t)' <=> Said(j, t)
        BY <1>1 DEF Keeps, Prepares, Proceeds, Lets, Told, Said
    <2>2. CASE Keeps
        BY <2>1, <2>2 DEF Keeps, holder, Stage
    <2>3. CASE Prepares
        BY <2>1, <2>3 DEF Prepares, Recorded, Stage
    <2>4. CASE Proceeds
        BY <2>1, <2>4 DEF Proceeds, Stage
    <2>5. CASE Lets
        BY <2>5 DEF Lets
    <2> QED BY <1>1, <2>2, <2>3, <2>4, <2>5
<1>2. CASE Authorize
    <2>1. \A j \in Job, t \in Stage : Said(j, t)' <=> Said(j, t)
        BY <1>2 DEF Authorize, Said
    <2> QED BY <1>2, <2>1 DEF Authorize, Return, GoTo, Stage
<1>3. ASSUME NEW s \in Stage, Tells(s) PROVE Fresh'
    <2>1. UNCHANGED <<bridge, task, current>> /\ bridge = s
        BY <1>3 DEF Tells
    <2>2. \A k \in Job, t \in Stage : Said(k, t)' <=> Said(k, t) \/ (k = current /\ t = s)
        BY <1>3, TellSays
    <2> QED BY <2>1, <2>2 DEF Stage
<1>4. ASSUME NEW s \in Stage, Skips(s) PROVE Fresh'
    BY <1>4 DEF Skips, Stage, JobInv, JobTypes
<1>5. ASSUME NEW s \in Stage, WriteMarker(s) PROVE Fresh'
    BY <1>5 DEF WriteMarker, GoTo, Onward, Stage, JobInv, JobTypes
<1>6. ASSUME NEW j \in Job, Poll(j) PROVE Fresh'
    BY <1>6 DEF Poll
<1> QED BY <1>1, <1>2, <1>3, <1>4, <1>5, <1>6, Kinds

\* No stage is told before the markers of the earlier ones.
LEMMA LadderStep ==
    ASSUME JobInv, JobInv', TypeOK, Recorded, Seen, Fresh, Ladder, [Next]_vars
    PROVE  Ladder'
<1> USE DEF Ladder
<1>1. CASE Keeps
    <2>1. \A j \in Job : /\ \A t \in Stage : Said(j, t)' <=> Said(j, t)
                         /\ Passed(j)' <=> Passed(j)
        BY <1>1 DEF Keeps, Told, Said, Passed, Authorized
    <2>2. ASSUME NEW j \in Job, Said(j, "final"), started'[j] PROVE started[j]
        <3>1. CASE started' = started
            BY <2>2, <3>1
        <3>2. CASE \E k \in Job : NoteRunning(k)
            <4>1. PICK k \in Job : NoteRunning(k)
                BY <3>2
            <4>2. ~ToldFinal(k)
                BY <4>1 DEF NoteRunning, JobLocked, Live, Alone, JobInv, Finality
            <4>3. k # j
                BY <2>2, <4>2 DEF Said, ToldFinal
            <4> QED BY <2>2, <4>1, <4>3 DEF NoteRunning, TypeOK
        <3> QED BY <3>1, <3>2, StartedKinds
    <2> QED BY <1>1, <2>1, <2>2 DEF Keeps, Told, holder, Stage
<1>2. CASE Prepares \/ Proceeds \/ Lets
    <2>1. \A j \in Job : /\ \A t \in Stage : Said(j, t)' <=> Said(j, t)
                         /\ Passed(j)' <=> Passed(j)
        BY <1>2 DEF Prepares, Proceeds, Lets, Told, Said, Passed, Authorized
    <2>2. started' = started /\ marks' = marks /\ bridge' \notin {"started", "final"}
        BY <1>2 DEF Prepares, Proceeds, Lets, Told
    <2> QED BY <2>1, <2>2 DEF Stage
<1>3. CASE Authorize
    <2>1. \A j \in Job, t \in Stage : Said(j, t)' <=> Said(j, t)
        BY <1>3 DEF Authorize, Said
    <2>2. /\ started' = started /\ bridge' \notin {"started", "final"} /\ current \in Job
          /\ marks' = marks \/ marks' = [marks EXCEPT ![current] = @ \union {"reset-authorized"}]
        BY <1>3 DEF Authorize, Return, GoTo, JobInv, JobTypes
    <2>3. ~Said(current, "started") /\ ~Said(current, "final")
        BY <1>3, <2>2 DEF Fresh, Authorize
    <2>4. \A j \in Job \ {current} : marks'[j] = marks[j]
        BY <2>2 DEF TypeOK
    <2>5. \A j \in Job \ {current} : Passed(j)' <=> Passed(j)
        BY <2>4 DEF Passed, Authorized
    <2> QED BY <2>1, <2>2, <2>3, <2>4, <2>5 DEF Stage
<1>4. ASSUME NEW s \in Stage, Tells(s) PROVE Ladder'
    <2>1. /\ UNCHANGED <<bridge, task, current, view, marks, started>> /\ bridge = s /\ current \in Job
          /\ Due(s)
        BY <1>4, TellSays DEF Tells, disk
    <2>2. \A k \in Job, t \in Stage : Said(k, t)' <=> Said(k, t) \/ (k = current /\ t = s)
        BY <1>4, TellSays
    <2>3. \A j \in Job : Passed(j)' <=> Passed(j)
        BY <2>1 DEF Passed, Authorized
    <2>4. s = "final" /\ started[current] => "running-reported" \in marks[current]
        BY <2>1 DEF Due, Owed, Seen, Fresh, Stage
    <2> QED BY <2>1, <2>2, <2>3, <2>4 DEF Stage
<1>5. ASSUME NEW s \in Stage, Skips(s) PROVE Ladder'
    <2>1. \A j \in Job : /\ \A t \in Stage : Said(j, t)' <=> Said(j, t)
                         /\ Passed(j)' <=> Passed(j)
        BY <1>5 DEF Skips, Said, Passed, Authorized, disk
    <2>2. started' = started /\ marks' = marks
        BY <1>5 DEF Skips, disk
    <2>3. CASE bridge' \notin {"started", "final"}
        BY <2>1, <2>2, <2>3 DEF Stage
    <2>4. CASE bridge' \in {"started", "final"}
        <3>1. /\ bridge = s /\ ~Due(s) /\ UNCHANGED <<current, view>>
              /\ <<s, bridge'>> \in {<<"queued", "started">>, <<"started", "final">>}
            BY <1>5, <2>4 DEF Skips
        <3>2. s = "queued" => Passed(current)
            BY <3>1 DEF Due, Owed, Marker, Passed, Authorized
        <3>3. s = "started" /\ view.ran => "running-reported" \in marks[current]
            BY <3>1 DEF Due, Owed, Marker
        <3> QED BY <2>1, <2>2, <3>1, <3>2, <3>3 DEF Stage
    <2> QED BY <2>3, <2>4
<1>6. ASSUME NEW s \in Stage, WriteMarker(s) PROVE Ladder'
    <2>1. /\ started' = started /\ notices' = notices /\ bridge = s /\ current \in Job
          /\ marks' = [marks EXCEPT ![current] = @ \union {Marker[s]}]
        BY <1>6 DEF WriteMarker, JobInv, JobTypes, Stage
    <2>2. bridge' \in {"started", "final"} =>
              <<s, bridge'>> \in {<<"queued", "started">>, <<"started", "final">>} /\ UNCHANGED <<current, view>>
        BY <1>6 DEF WriteMarker, Onward, GoTo, Stage
    <2>3. \A j \in Job, t \in Stage : Said(j, t)' <=> Said(j, t)
        BY <2>1 DEF Said
    <2>4. /\ \A j \in Job : marks[j] \subseteq marks'[j]
          /\ Marker[s] \in marks'[current]
          /\ \A j \in Job : "reset-authorized" \in marks'[j] => "reset-authorized" \in marks[j]
        BY <2>1 DEF TypeOK, Marker, Stage
    <2>5. \A j \in Job : Passed(j) => Passed(j)'
        BY <2>4 DEF Passed, Authorized
    <2>6. s = "queued" => \A j \in Job : j = current => Passed(j)'
        BY <2>4 DEF Passed, Marker
    <2>7. s = "started" => "running-reported" \in marks'[current]
        BY <2>4 DEF Marker
    <2> QED BY <2>1, <2>2, <2>3, <2>4, <2>5, <2>6, <2>7 DEF Stage
<1>7. ASSUME NEW j \in Job, Poll(j) PROVE Ladder'
    <2>1. \A k \in Job : /\ \A t \in Stage : Said(k, t)' <=> Said(k, t)
                         /\ Passed(k)' <=> Passed(k)
        BY <1>7 DEF Poll, Said, Passed, Authorized
    <2> QED BY <1>7, <2>1 DEF Poll, Stage
<1> QED BY <1>1, <1>2, <1>3, <1>4, <1>5, <1>6, <1>7, Kinds

\* A notice comes after those of the earlier stages.
LEMMA OrderStep ==
    ASSUME JobInv, JobInv', TypeOK, Seen, Fresh, Ladder, NoticesInOrder, [Next]_vars
    PROVE  NoticesInOrder'
<1>1. ASSUME NEW s \in Stage, Tells(s) PROVE NoticesInOrder'
    <2>1. /\ current \in Job
          /\ \A k \in Job \ {current} : notices'[k] = notices[k]
          /\ Len(notices[current]) \in Nat
          /\ Len(notices'[current]) = Len(notices[current]) + 1
          /\ notices'[current][Len(notices[current]) + 1] = s
          /\ \A i \in 1..Len(notices[current]) : notices'[current][i] = notices[current][i]
        BY <1>1, TellSays
    <2>2. /\ s = "queued" => ~Said(current, "started") /\ ~Said(current, "final")
          /\ s = "started" => ~Said(current, "final")
        <3>1. bridge = s /\ Due(s)
            BY <1>1 DEF Tells
        <3>2. CASE s = "queued"
            BY <2>1, <3>1, <3>2 DEF Due, Owed, Marker, Ladder, Passed, Authorized
        <3>3. CASE s = "started"
            BY <2>1, <3>1, <3>3 DEF Due, Owed, Marker, Ladder, Seen, Fresh, Stage
        <3> QED BY <3>2, <3>3
    <2>3. \A i \in 1..Len(notices[current]) : Rank[notices[current][i]] =< Rank[s]
        <3> SUFFICES ASSUME NEW i \in 1..Len(notices[current])
                     PROVE  Rank[notices[current][i]] =< Rank[s]
            OBVIOUS
        <3>1. notices[current][i] \in Stage
            BY <2>1 DEF TypeOK
        <3>2. /\ s = "queued" => notices[current][i] \notin {"started", "final"}
              /\ s = "started" => notices[current][i] # "final"
            BY <2>2 DEF Said
        <3> QED BY <3>1, <3>2 DEF Stage, Rank
    <2>4. \A k \in Job : DOMAIN notices[k] = 1..Len(notices[k]) /\ DOMAIN notices'[k] = 1..Len(notices'[k])
        BY DEF JobInv, JobTypes
    <2> SUFFICES ASSUME NEW k \in Job, NEW a \in 1..Len(notices'[k]), NEW b \in 1..Len(notices'[k]), a < b
                 PROVE  Rank[notices'[k][a]] =< Rank[notices'[k][b]]
        BY <2>4 DEF NoticesInOrder
    <2>5. CASE k # current
        BY <2>1, <2>4, <2>5 DEF NoticesInOrder
    <2>6. CASE k = current
        <3> DEFINE n == Len(notices[current])
        <3>1. n \in Nat /\ a \in 1..(n + 1) /\ b \in 1..(n + 1)
            BY <2>1, <2>6
        <3>2. a \in 1..n /\ (b \in 1..n \/ b = n + 1)
            BY ONLY <3>1, a < b
        <3>3. notices'[k][a] = notices[k][a]
            BY <2>1, <2>6, <3>2
        <3>4. CASE b \in 1..n
            BY <2>1, <2>4, <2>6, <3>2, <3>3, <3>4 DEF NoticesInOrder
        <3>5. CASE b = n + 1
            BY <2>1, <2>3, <2>6, <3>2, <3>3, <3>5
        <3> QED BY <3>2, <3>4, <3>5
    <2> QED BY <2>5, <2>6
<1>2. CASE notices' = notices
    BY <1>2 DEF NoticesInOrder
<1>3. (\E s \in Stage : Tells(s)) \/ notices' = notices
    BY Kinds DEF Keeps, Prepares, Proceeds, Lets, Authorize, Skips, WriteMarker, Poll, Told
<1> QED BY <1>1, <1>2, <1>3

\* A notice in hand has no marker yet.
LEMMA PendingStep ==
    ASSUME JobInv, JobInv', TypeOK, TypeOK', Pending, [Next]_vars
    PROVE  Pending'
<1> USE DEF Pending
<1>1. CASE Keeps
    BY <1>1 DEF Keeps, Told, holder, Said
<1>2. CASE Prepares \/ Proceeds \/ Lets
    BY <1>2 DEF Prepares, Proceeds, Lets, Stage
<1>3. CASE Authorize
    BY <1>3 DEF Authorize, Stage, Return
<1>4. ASSUME NEW s \in Stage, Tells(s) PROVE Pending'
    <2>1. bridge' = s /\ current' = current /\ marks' = marks /\ Marker[s] \notin marks[current]
        BY <1>4 DEF Tells, Due, disk
    <2>2. \A k \in Job, t \in Stage : Said(k, t)' <=> Said(k, t) \/ (k = current /\ t = s)
        BY <1>4, TellSays
    <2> QED BY <2>1, <2>2
<1>5. ASSUME NEW s \in Stage, Skips(s) \/ WriteMarker(s) PROVE Pending'
    BY <1>5 DEF Skips, WriteMarker
<1>6. ASSUME NEW j \in Job, Poll(j) PROVE Pending'
    BY <1>6 DEF Poll, Stage
<1> QED BY <1>1, <1>2, <1>3, <1>4, <1>5, <1>6, Kinds

\* There are three stages.
LEMMA StagesFinite ==
    /\ IsFiniteSet(Stage)
    /\ \A S \in SUBSET Stage : IsFiniteSet(S) /\ Cardinality(S) \in Nat
<1>1. IsFiniteSet({"queued"} \union {"started"} \union {"final"})
    BY FS_Singleton, FS_Union
<1>2. IsFiniteSet(Stage)
    <2>1. Stage = {"queued"} \union {"started"} \union {"final"}
        BY DEF Stage
    <2> QED BY <1>1, <2>1
<1> QED BY <1>2, FS_Subset, FS_CardinalityType

\* The stages a user was told of.
LEMMA ToldStages ==
    ASSUME NEW n \in Seq(Stage)
    PROVE  /\ Len(n) \in Nat
           /\ {n[i] : i \in DOMAIN n} = {s \in Stage : \E i \in 1..Len(n) : n[i] = s}
<1>1. DOMAIN n = 1..Len(n) /\ Len(n) \in Nat /\ \A i \in 1..Len(n) : n[i] \in Stage
    OBVIOUS
<1> QED BY <1>1

\* What is loose and what is repeated are natural numbers.
LEMMA RepeatTypes ==
    ASSUME TypeOK, NEW j \in Job
    PROVE  /\ Loose(j) \subseteq Stage /\ IsFiniteSet(Loose(j)) /\ Cardinality(Loose(j)) \in Nat
           /\ {notices[j][i] : i \in DOMAIN notices[j]} = {s \in Stage : Said(j, s)}
           /\ Repeats(j) \in Int
           /\ Repeats(j) = Len(notices[j]) - Cardinality({s \in Stage : Said(j, s)})
<1>1. Loose(j) \subseteq Stage
    BY DEF Loose
<1>2. notices[j] \in Seq(Stage)
    BY DEF TypeOK
<1>3. Len(notices[j]) \in Nat
    BY <1>2, ToldStages
<1>4. {notices[j][i] : i \in DOMAIN notices[j]} = {s \in Stage : Said(j, s)}
    BY <1>2, ToldStages DEF Said
<1>5. Cardinality({s \in Stage : Said(j, s)}) \in Nat
    BY StagesFinite
<1>6. Repeats(j) = Len(notices[j]) - Cardinality({s \in Stage : Said(j, s)})
    BY <1>4 DEF Repeats
<1> QED BY <1>1, <1>3, <1>4, <1>5, <1>6, StagesFinite

\* Without a notice and with no more loose, the budget holds.
LEMMA BudgetKept ==
    ASSUME TypeOK, TypeOK', Budget, notices' = notices, faults' >= faults,
           \A j \in Job : Loose(j)' \subseteq Loose(j)
    PROVE  Budget'
<1> SUFFICES ASSUME NEW j \in Job PROVE Repeats(j)' + Cardinality(Loose(j)') =< faults'
    BY DEF Budget
<1>1. Repeats(j)' = Repeats(j)
    BY DEF Repeats
<1>2. Cardinality(Loose(j)') =< Cardinality(Loose(j)) /\ Cardinality(Loose(j)') \in Nat
    BY RepeatTypes, FS_Subset, FS_CardinalityType
<1>3. Repeats(j) \in Int /\ Cardinality(Loose(j)) \in Nat
    BY RepeatTypes
<1>4. Repeats(j) + Cardinality(Loose(j)) =< faults
    BY DEF Budget
<1>5. faults \in Int /\ faults' \in Int
    BY DEF TypeOK
<1> DEFINE r == Repeats(j)  c == Cardinality(Loose(j))  d == Cardinality(Loose(j)')
<1> HIDE DEF r, c, d
<1>6. r \in Int /\ c \in Nat /\ d \in Nat /\ d =< c /\ r + c =< faults
    BY <1>2, <1>3, <1>4 DEF r, c, d
<1>7. r + d =< faults'
    BY ONLY <1>5, <1>6, faults' >= faults
<1> QED BY <1>1, <1>7 DEF r, d

\* Every notice more than one of a stage has cost a fault.
LEMMA BudgetStep ==
    ASSUME JobInv, JobInv', TypeOK, TypeOK', Pending, Budget, [Next]_vars
    PROVE  Budget'
<1>0. faults \in Nat /\ faults' \in Nat
    BY DEF TypeOK
<1>1. CASE Keeps
    <2>1. \A j \in Job : Loose(j)' = Loose(j)
        BY <1>1 DEF Keeps, Told, holder, Loose, Said
    <2> QED BY <1>1, <2>1, BudgetKept DEF Keeps, Told
<1>2. CASE Prepares \/ Proceeds \/ Authorize \/ (Lets /\ bridge \notin Stage /\ sent' = sent /\ faults' = faults)
    <2>1. ~sent /\ ~sent' /\ notices' = notices /\ faults' = faults
        BY <1>2 DEF Prepares, Proceeds, Lets, Authorize, Told, Pending, Stage, Return
    <2>2. \A j \in Job : marks[j] \subseteq marks'[j]
        <3>1. CASE marks' = marks
            BY <3>1
        <3>2. CASE marks' = [marks EXCEPT ![current] = @ \union {"reset-authorized"}]
            BY <3>2 DEF TypeOK
        <3> QED BY <1>2, <3>1, <3>2 DEF Prepares, Proceeds, Lets, Authorize, Told
    <2>3. \A j \in Job : Loose(j)' \subseteq Loose(j)
        BY <2>1, <2>2 DEF Loose, Said
    <2> QED BY <1>0, <2>1, <2>3, BudgetKept
<1>3. CASE Lets /\ sent' = FALSE /\ faults' = faults + 1
    <2> SUFFICES ASSUME NEW j \in Job PROVE Repeats(j)' + Cardinality(Loose(j)') =< faults'
        BY DEF Budget
    <2>1. Repeats(j)' = Repeats(j)
        BY <1>3 DEF Lets, Told, Repeats
    <2>2. Loose(j)' \subseteq Loose(j) \union {bridge}
        BY <1>3 DEF Lets, Told, Loose, Said
    <2>3. Cardinality(Loose(j)') =< Cardinality(Loose(j)) + 1
        <3>1. /\ IsFiniteSet(Loose(j) \union {bridge})
              /\ Cardinality(Loose(j) \union {bridge}) \in {Cardinality(Loose(j)), Cardinality(Loose(j)) + 1}
            BY RepeatTypes, FS_AddElement
        <3>2. Cardinality(Loose(j)') =< Cardinality(Loose(j) \union {bridge})
            BY <2>2, <3>1, FS_Subset
        <3>3. /\ Cardinality(Loose(j) \union {bridge}) \in Nat /\ Cardinality(Loose(j)) \in Nat
              /\ Cardinality(Loose(j)') \in Nat
            <4>1. IsFiniteSet(Loose(j)')
                BY <2>2, <3>1, FS_Subset
            <4> QED BY <3>1, <4>1, RepeatTypes, FS_CardinalityType
        <3> DEFINE u == Cardinality(Loose(j) \union {bridge})
                   c == Cardinality(Loose(j))
                   d == Cardinality(Loose(j)')
        <3> HIDE DEF u, c, d
        <3>4. u \in {c, c + 1} /\ d =< u /\ u \in Nat /\ c \in Nat /\ d \in Nat
            BY <3>1, <3>2, <3>3 DEF u, c, d
        <3>5. d =< c + 1
            BY ONLY <3>4
        <3> QED BY <3>5 DEF c, d
    <2>4. Repeats(j) + Cardinality(Loose(j)) =< faults
        BY DEF Budget
    <2>5. Repeats(j) \in Int /\ Cardinality(Loose(j)) \in Nat /\ Cardinality(Loose(j)') \in Nat
        <3>1. Loose(j)' \in SUBSET Stage
            BY DEF Loose
        <3> QED BY <3>1, RepeatTypes, StagesFinite
    <2> DEFINE r == Repeats(j)  c == Cardinality(Loose(j))  d == Cardinality(Loose(j)')
    <2> HIDE DEF r, c, d
    <2>6. r \in Int /\ c \in Nat /\ d \in Nat /\ d =< c + 1 /\ r + c =< faults /\ faults' = faults + 1
        BY <1>3, <2>3, <2>4, <2>5 DEF r, c, d
    <2>7. r + d =< faults'
        BY ONLY <1>0, <2>6
    <2> QED BY <2>1, <2>7 DEF r, d
<1>4. ASSUME NEW s \in Stage, Tells(s) PROVE Budget'
    <2> SUFFICES ASSUME NEW j \in Job PROVE Repeats(j)' + Cardinality(Loose(j)') =< faults'
        BY DEF Budget
    <2>1. /\ \A k \in Job, t \in Stage : Said(k, t)' <=> Said(k, t) \/ (k = current /\ t = s)
          /\ \A k \in Job \ {current} : notices'[k] = notices[k]
          /\ Len(notices[current]) \in Nat /\ Len(notices'[current]) = Len(notices[current]) + 1
        BY <1>4, TellSays
    <2>2. /\ marks' = marks /\ faults' = faults /\ bridge' = s /\ current' = current
          /\ ~sent /\ sent' /\ Marker[s] \notin marks[current]
        BY <1>4 DEF Tells, disk, Due
    <2>3. CASE j # current
        <3>1. Repeats(j)' = Repeats(j)
            BY <2>1, <2>3 DEF Repeats
        <3>2. Loose(j)' = Loose(j)
            BY <2>1, <2>2, <2>3 DEF Loose
        <3> QED BY <2>2, <3>1, <3>2 DEF Budget
    <2>4. CASE j = current
        <3> DEFINE S == {t \in Stage : Said(j, t)}
                   n == Len(notices[j])
                   c == Cardinality(S)
                   l == Cardinality(Loose(j))
        <3>1. {t \in Stage : Said(j, t)'} = S \union {s}
            BY <2>1, <2>4
        <3>2. Repeats(j)' = Len(notices'[j]) - Cardinality(S \union {s})
            <4>1. notices'[j] \in Seq(Stage)
                BY DEF TypeOK
            <4>2. {notices'[j][i] : i \in DOMAIN notices'[j]} = {t \in Stage : Said(j, t)'}
                BY <4>1, ToldStages DEF Said
            <4>3. {notices'[j][i] : i \in DOMAIN notices'[j]} = S \union {s}
                BY <3>1, <4>2
            <4> HIDE DEF S
            <4> QED BY <4>3 DEF Repeats
        <3>a. Len(notices'[j]) = n + 1
            BY <2>1, <2>4
        <3>3. Repeats(j) = n - c /\ (n + 1) - (c + 1) = n - c
            <4>1. n \in Nat /\ c \in Nat
                BY <2>1, <2>4, StagesFinite
            <4> QED BY <4>1, RepeatTypes
        <3>4. n - c + l =< faults
            BY <3>3 DEF Budget
        <3>5. n \in Nat /\ c \in Nat /\ l \in Nat /\ IsFiniteSet(S) /\ IsFiniteSet(Loose(j))
            BY <2>1, <2>4, StagesFinite, RepeatTypes
        <3> HIDE DEF S, n, c, l
        <3>6. CASE Said(j, s)
            <4>1. S \union {s} = S
                BY <3>6 DEF S
            <4>2. Loose(j)' = Loose(j) \ {s} /\ s \in Loose(j)
                BY <2>1, <2>2, <2>4, <3>6 DEF Loose
            <4>3. Cardinality(Loose(j)') = l - 1
                BY <3>5, <4>2, FS_RemoveElement DEF l
            <4>4. Repeats(j)' = (n + 1) - c
                BY <3>2, <3>a, <4>1 DEF c
            <4>5. ((n + 1) - c) + (l - 1) =< faults
                BY ONLY <1>0, <3>4, <3>5
            <4> QED BY <2>2, <4>3, <4>4, <4>5
        <3>7. CASE ~Said(j, s)
            <4>1. Cardinality(S \union {s}) = c + 1
                BY <3>5, <3>7, FS_AddElement DEF S, c
            <4>2. Loose(j)' = Loose(j)
                BY <2>1, <2>2, <2>4, <3>7 DEF Loose
            <4>3. ((n + 1) - (c + 1)) + l =< faults
                BY ONLY <1>0, <3>4, <3>5
            <4> QED BY <2>2, <3>2, <3>a, <4>1, <4>2, <4>3 DEF l
        <3> QED BY <3>6, <3>7
    <2> QED BY <2>3, <2>4
<1>5. ASSUME NEW s \in Stage, Skips(s) PROVE Budget'
    <2>1. \A j \in Job : Loose(j)' = Loose(j)
        BY <1>5 DEF Skips, disk, Loose, Said
    <2> QED BY <1>0, <1>5, <2>1, BudgetKept DEF Skips
<1>6. ASSUME NEW s \in Stage, WriteMarker(s) PROVE Budget'
    <2>1. /\ notices' = notices /\ faults' = faults /\ ~sent' /\ bridge = s /\ current \in Job
          /\ marks' = [marks EXCEPT ![current] = @ \union {Marker[s]}]
        BY <1>6 DEF WriteMarker, JobInv, JobTypes, Stage
    <2>2. Marker[s] \in marks'[current] /\ \A j \in Job : marks[j] \subseteq marks'[j]
        BY <2>1 DEF TypeOK
    <2>3. \A j \in Job : Loose(j)' \subseteq Loose(j)
        BY <2>1, <2>2 DEF Loose, Said
    <2> QED BY <1>0, <2>1, <2>3, BudgetKept
<1>7. ASSUME NEW j \in Job, Poll(j) PROVE Budget'
    <2>1. ~sent /\ sent' = sent /\ notices' = notices /\ marks' = marks /\ faults' = faults
        BY <1>7 DEF Poll, Pending, Stage
    <2>2. \A k \in Job : Loose(k)' = Loose(k)
        BY <2>1 DEF Loose, Said
    <2> QED BY <1>0, <2>1, <2>2, BudgetKept
<1> QED BY <1>1, <1>2, <1>3, <1>4, <1>5, <1>6, <1>7, Kinds DEF Lets

\* The second invariant holds at the start ...
LEMMA TellInit == Init => TellInv
<1> SUFFICES ASSUME Init PROVE TellInv
    OBVIOUS
<1>1. TypeOK
    <2>1. view \in View /\ faults \in 0..MaxFaults /\ current \in Job \union {NoJob}
        BY ReconcileAssumption DEF Init, View, NoView
    <2> QED BY <2>1, JobInit DEF Init, TypeOK, JobInv, JobTypes
<1>2. \A j \in Job : notices[j] = <<>> /\ \A s \in Stage : ~Said(j, s)
    BY DEF Init, Said
<1>3. Recorded /\ Seen /\ Fresh /\ Ladder /\ NoticesInOrder /\ Pending
    BY <1>2 DEF Init, Recorded, Seen, Fresh, Ladder, Pending, NoticesInOrder, Stage
<1>4. Budget
    <2> SUFFICES ASSUME NEW j \in Job PROVE Repeats(j) + Cardinality(Loose(j)) =< faults
        BY DEF Budget
    <2>1. Loose(j) = {} /\ {notices[j][i] : i \in DOMAIN notices[j]} = {}
        BY <1>2 DEF Loose
    <2>2. Len(notices[j]) = 0 /\ faults = 0
        BY <1>2 DEF Init
    <2> QED BY <2>1, <2>2, FS_EmptySet DEF Repeats
<1> QED BY <1>1, <1>3, <1>4 DEF TellInv

\* ... and, with the first, every step keeps it.
LEMMA TellStep == JobInv /\ JobInv' /\ TellInv /\ [Next]_vars => TellInv'
<1> SUFFICES ASSUME JobInv, JobInv', TellInv, [Next]_vars PROVE TellInv'
    OBVIOUS
<1> USE DEF TellInv
<1>1. TypeOK'
    BY TypeStep
<1> QED BY <1>1, RecordedStep, SeenStep, FreshStep, LadderStep, OrderStep, PendingStep, BudgetStep

\* Both invariants hold for every number of jobs and faults.
THEOREM TellInvariant == Spec => []TellInv
BY TellInit, TellStep, Invariant, PTL DEF Spec

\* Every variable keeps to its type.
THEOREM TypeCorrect == Spec => []TypeOK
BY TellInvariant, PTL DEF TellInv

\* Whatever is lost, repeated or interrupted, the user reads of a job in the order
\* queued, started, final (reconcile.go:550).
THEOREM NoticesOrdered == Spec => []NoticesInOrder
BY TellInvariant, PTL DEF TellInv

\* Each notice told once more has cost a fault between a notice and its marker,
\* for any number of faults (reconcile.go:602-616).
THEOREM RepeatsAreFaults == Spec => []RepeatedByFaultsOnly
<1>1. ASSUME TellInv PROVE RepeatedByFaultsOnly
    <2> SUFFICES ASSUME NEW j \in Job PROVE Repeats(j) =< faults
        BY DEF RepeatedByFaultsOnly
    <2>1. Repeats(j) \in Int /\ Cardinality(Loose(j)) \in Nat
        BY <1>1, RepeatTypes DEF TellInv
    <2>2. Repeats(j) + Cardinality(Loose(j)) =< faults /\ faults \in Nat
        BY <1>1 DEF TellInv, Budget, TypeOK
    <2> DEFINE r == Repeats(j)  c == Cardinality(Loose(j))
    <2> HIDE DEF r, c
    <2>3. r \in Int /\ c \in Nat /\ r + c =< faults /\ faults \in Nat
        BY <2>1, <2>2 DEF r, c
    <2>4. r =< faults
        BY ONLY <2>3
    <2> QED BY <2>4 DEF r
<1> QED BY <1>1, TellInvariant, PTL
=============================================================================
