------------------------------ MODULE MCConnection ------------------------------
(* Instance of Connection for TLC; the configuration gives the bounds.        *)
EXTENDS Connection
=================================================================================
