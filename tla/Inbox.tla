--------------------------------- MODULE Inbox ---------------------------------
(***************************************************************************)
(* What every view of the durable inbox of inbox.go speaks of.             *)
(***************************************************************************)
EXTENDS Integers

CONSTANTS
    Msg,        \* the inbound messages that are addressed to this agent
    Anonymous,  \* those whose stanza carries no id
    InboxCap    \* inboxCap: entries past it are dropped oldest-first

ASSUME InboxAssumption ==
    /\ Anonymous \subseteq Msg
    /\ InboxCap \in Nat \ {0}
=============================================================================
