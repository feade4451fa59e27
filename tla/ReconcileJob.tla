------------------------------ MODULE ReconcileJob ------------------------------
(***************************************************************************)
(* What /next promises of a background reconciliation, whoever dies on the *)
(* way: its worker acts at most once, only one worker of the user acts at  *)
(* a time, the user is told the outcome only after the worker is gone, and *)
(* in the end the user is told.                                            *)
(***************************************************************************)
CONSTANT Job
VARIABLE phase

Init == phase = [j \in Job |-> "absent"]

Become(j, from, to) == phase[j] \in from /\ phase' = [phase EXCEPT ![j] = to]

Prepare(j) == Become(j, {"absent"}, "waiting")
Work(j) == (\A k \in Job : phase[k] # "working") /\ Become(j, {"waiting"}, "working")
Finish(j) == Become(j, {"working"}, "worked")
Tell(j) == Become(j, {"waiting", "worked"}, "told")

Next == \E j \in Job : Prepare(j) \/ Work(j) \/ Finish(j) \/ Tell(j)

Spec == Init /\ [][Next]_phase
             /\ \A j \in Job : WF_phase(Finish(j)) /\ WF_phase(Tell(j))
=============================================================================
