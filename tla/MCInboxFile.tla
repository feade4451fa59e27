------------------------------ MODULE MCInboxFile ------------------------------
(* Instances of InboxFile for TLC.                                           *)
EXTENDS InboxFile
CONSTANTS m1, m2, m3
=============================================================================
