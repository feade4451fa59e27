----------------------------- MODULE MCRunLifecycle -----------------------------
(* Instances of RunLifecycle for TLC.                                        *)
EXTENDS RunLifecycle
=============================================================================
