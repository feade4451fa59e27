--------------------------- MODULE MCInboundDelivery ---------------------------
(* Instances of InboundDelivery for TLC: two prompts and a command.          *)
EXTENDS InboundDelivery
CONSTANTS p1, p2, c1
=============================================================================
