--------------------------- MODULE MCSessionTransition ---------------------------
(* Instances of SessionTransition for TLC.                                    *)
EXTENDS SessionTransition
=============================================================================
