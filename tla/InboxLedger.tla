------------------------------ MODULE InboxLedger ------------------------------
(***************************************************************************)
(* The durable inbound inbox of inbox.go, seen as a ledger: which messages *)
(* are still unacknowledged, and what the bridge knows about each of them. *)
(* Every operator below is one method of the inbox under its mutex (or the *)
(* run-activity stamp of the bridge that the settle compares with it).     *)
(*                                                                         *)
(* Clock readings are kept only as far as the acknowledgement rule tells   *)
(* them apart.  An entry has been handed to pi by this process or not      *)
(* (deliveredAt), the current run has stamped activity since that hand-off *)
(* or not (runActive >= deliveredAt), and it is older than inboxAckGrace   *)
(* or not.  InboxFile.tla keeps the entries as a sequence with the stamps  *)
(* themselves, and is checked to implement this module.                    *)
(***************************************************************************)
EXTENDS Inbox, FiniteSets

VARIABLES
    inbox,      \* the unacknowledged messages (memory and file agree)
    at,         \* arrival number of every message ever appended, 0 before
    arrivals,   \* how many messages have been appended
    aged,       \* entries pending longer than inboxAckGrace
    handed,     \* entries this process has handed to pi (deliveredAt # 0)
    covered     \* handed entries the current run has been active since

ledger == <<inbox, at, arrivals, aged, handed, covered>>

LedgerTypeOK ==
    /\ inbox \subseteq Msg
    /\ at \in [Msg -> Nat]
    /\ arrivals \in Nat
    /\ aged \subseteq inbox
    /\ handed \subseteq inbox \ Anonymous
    /\ covered \subseteq handed

LedgerInit ==
    /\ inbox = {}
    /\ at = [m \in Msg |-> 0]
    /\ arrivals = 0
    /\ aged = {} /\ handed = {} /\ covered = {}

-----------------------------------------------------------------------------

\* The members of S that no other member of S arrived before.
Oldest(S) == {m \in S : \A n \in S : at[m] <= at[n]}

\* The entry append gives up to stay within the cap.
Evicted == IF Cardinality(inbox) >= InboxCap THEN Oldest(inbox) ELSE {}

\* Only an entry with a stanza id can be named by the bridge afterwards: both
\* inboxMarkDelivered and the drop of a command pass the id and nothing else.
Nameable(m) == {m} \cap (inbox \ Anonymous)

Keep(S) ==
    /\ inbox' = S
    /\ aged' = aged \cap S
    /\ handed' = handed \cap S
    /\ covered' = covered \cap S

AppendEntry(m) ==
    LET kept == inbox \ Evicted IN
    /\ inbox' = kept \union {m}
    /\ arrivals' = arrivals + 1
    /\ at' = [at EXCEPT ![m] = arrivals + 1]
    /\ aged' = aged \cap kept
    /\ handed' = handed \cap kept
    /\ covered' = covered \cap kept

\* Mutant: the entry is not looked up, whatever was handed over is marked.
MarkDelivered_Unmatched(m) ==
    /\ handed' = handed \union {m}
    /\ covered' = covered \ {m}
    /\ UNCHANGED <<inbox, at, arrivals, aged>>

MarkDelivered(m) ==
    /\ handed' = handed \union Nameable(m)
    /\ covered' = covered \ Nameable(m)
    /\ UNCHANGED <<inbox, at, arrivals, aged>>

Drop(m) ==
    /\ Keep(inbox \ Nameable(m))
    /\ UNCHANGED <<at, arrivals>>

\* message_start: whatever was handed over before this moment counts as read.
NoteRunActivity ==
    /\ covered' = handed
    /\ UNCHANGED <<inbox, at, arrivals, aged, handed>>

\* agent_start: the new run has shown no activity yet.
ClearRunActivity ==
    /\ covered' = {}
    /\ UNCHANGED <<inbox, at, arrivals, aged, handed>>

\* The entries a settle acknowledges: consumed ones and aged ones.
Acknowledged == covered \union aged

\* Mutant: the age-only rule of issue #104.
AckSettled_AgeOnly ==
    /\ Keep(inbox \ aged)
    /\ UNCHANGED <<at, arrivals>>

AckSettled ==
    /\ Keep(inbox \ Acknowledged)
    /\ UNCHANGED <<at, arrivals>>

\* Mutant: the hand-off is written to the file.
Reload_Persisted == UNCHANGED ledger

\* A new process loads the file: the entries survive, deliveredAt does not.
Reload ==
    /\ handed' = {} /\ covered' = {}
    /\ UNCHANGED <<inbox, at, arrivals, aged>>

\* Time passes: an entry reaches the grace no later than those after it.
GraceElapses ==
    \E m \in inbox \ aged :
        /\ aged' = aged \union {n \in inbox : at[n] <= at[m]}
        /\ UNCHANGED <<inbox, at, arrivals, handed, covered>>

-----------------------------------------------------------------------------
(* The ledger on its own, called in any order: what InboxFile implements.    *)

LedgerNext ==
    \/ \E m \in Msg : at[m] = 0 /\ AppendEntry(m)
    \/ \E m \in Msg : MarkDelivered(m) \/ Drop(m)
    \/ NoteRunActivity
    \/ ClearRunActivity
    \/ AckSettled
    \/ Reload
    \/ GraceElapses

LedgerSpec == LedgerInit /\ [][LedgerNext]_ledger
=============================================================================
