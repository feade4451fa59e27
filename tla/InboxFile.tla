------------------------------- MODULE InboxFile -------------------------------
(***************************************************************************)
(* The inbox of inbox.go as it is stored: a sequence of entries in memory  *)
(* with their clock readings, and the file every change is flushed to.     *)
(* It implements InboxLedger, which only keeps what the readings say.      *)
(*                                                                         *)
(* Two readings of the clock that the acknowledgement rule compares        *)
(* (deliveredAt and runActive) are never equal: time.Now is monotonic and  *)
(* the clock here ticks between them.                                      *)
(***************************************************************************)
EXTENDS Inbox, Sequences, Subsequences

CONSTANTS
    Grace,      \* inboxAckGrace, in ticks
    MaxNow      \* bound: ticks of the clock

ASSUME ClockAssumption == Grace \in Nat \ {0} /\ MaxNow \in Nat \ {0}

VARIABLES
    entries,    \* in.entries: what is unacknowledged, in arrival order
    file,       \* the lines of the inbox file: entries without deliveredAt
    runActive,  \* b.runActive: when the run last took a message in, 0 if not yet
    now,        \* the clock
    stamped,    \* the clock has been read since it last ticked
    order       \* history: every message ever appended, in order

fileVars == <<entries, file, runActive, now, stamped, order>>

Line(e) == [msg |-> e.msg, at |-> e.at]
Flush(es) == [i \in DOMAIN es |-> Line(es[i])]

Entry == [msg : Msg, at : 1..MaxNow, deliveredAt : 0..MaxNow]
Stored == {entries[i] : i \in DOMAIN entries}

FileTypeOK ==
    /\ entries \in Seq(Entry)
    /\ file \in Seq([msg : Msg, at : 1..MaxNow])
    /\ runActive \in 0..MaxNow
    /\ now \in 1..MaxNow
    /\ stamped \in BOOLEAN
    /\ order \in Seq(Msg)

FileInit ==
    /\ entries = <<>> /\ file = <<>>
    /\ runActive = 0
    /\ now = 1 /\ stamped = FALSE
    /\ order = <<>>

-----------------------------------------------------------------------------

\* Read the clock, which no one else reads before it ticks again.
Stamp == ~stamped /\ stamped' = TRUE /\ UNCHANGED now

Tick ==
    /\ now < MaxNow
    /\ now' = now + 1
    /\ stamped' = FALSE
    /\ UNCHANGED <<entries, file, runActive, order>>

\* Mutant: the entry is kept in memory until the next settle writes it.
InboxAppend_Unflushed(m) ==
    /\ ~\E i \in DOMAIN order : order[i] = m
    /\ Stamp
    /\ LET grown == Append(entries, [msg |-> m, at |-> now, deliveredAt |-> 0]) IN
          entries' = IF Len(grown) > InboxCap
                       THEN SubSeq(grown, Len(grown) - InboxCap + 1, Len(grown))
                       ELSE grown
    /\ order' = Append(order, m)
    /\ UNCHANGED <<file, runActive>>

InboxAppend(m) ==
    /\ ~\E i \in DOMAIN order : order[i] = m
    /\ Stamp
    /\ LET grown == Append(entries, [msg |-> m, at |-> now, deliveredAt |-> 0]) IN
          /\ entries' = IF Len(grown) > InboxCap
                          THEN SubSeq(grown, Len(grown) - InboxCap + 1, Len(grown))
                          ELSE grown
          /\ file' = Flush(entries')
    /\ order' = Append(order, m)
    /\ UNCHANGED runActive

\* Not flushed: a delivery does not outlive the process.
InboxMarkDelivered(m) ==
    /\ m \notin Anonymous
    /\ Stamp
    /\ entries' = [i \in DOMAIN entries |->
                      IF entries[i].msg = m
                        THEN [entries[i] EXCEPT !.deliveredAt = now]
                        ELSE entries[i]]
    /\ UNCHANGED <<file, runActive, order>>

InboxDrop(m) ==
    /\ m \notin Anonymous
    /\ entries' = Only(entries, {e \in Stored : e.msg # m})
    /\ file' = IF entries' = entries THEN file ELSE Flush(entries')
    /\ UNCHANGED <<runActive, now, stamped, order>>

StampRunActive ==
    /\ Stamp
    /\ runActive' = now
    /\ UNCHANGED <<entries, file, order>>

ResetRunActive ==
    /\ runActive' = 0
    /\ UNCHANGED <<entries, file, now, stamped, order>>

\* consumed in ackSettled: delivered, and the run was not last active before it.
Handed == {e \in Stored : e.deliveredAt # 0}
Consumed == {e \in Handed : runActive # 0 /\ runActive >= e.deliveredAt}
Aged == {e \in Stored : now - e.at >= Grace}

AckInboxSettled ==
    /\ entries' = Only(entries, Stored \ (Consumed \union Aged))
    /\ file' = IF entries' = entries THEN file ELSE Flush(entries')
    /\ UNCHANGED <<runActive, now, stamped, order>>

\* Mutant: an entry comes back as it was written, without the reading the code
\* resets.
NewInbox_Bare ==
    /\ entries' = file
    /\ runActive' = 0
    /\ UNCHANGED <<file, now, stamped, order>>

\* The process stops and the next one loads the file.
NewInbox ==
    /\ entries' = [i \in DOMAIN file |->
                      [msg |-> file[i].msg, at |-> file[i].at, deliveredAt |-> 0]]
    /\ runActive' = 0
    /\ UNCHANGED <<file, now, stamped, order>>

FileNext ==
    \/ Tick
    \/ \E m \in Msg : InboxAppend(m) \/ InboxMarkDelivered(m) \/ InboxDrop(m)
    \/ StampRunActive \/ ResetRunActive
    \/ AckInboxSettled
    \/ NewInbox

FileSpec == FileInit /\ [][FileNext]_fileVars

-----------------------------------------------------------------------------

Messages(E) == {e.msg : e \in E}
Arrival == [m \in Msg |-> IF \E i \in DOMAIN order : order[i] = m
                            THEN CHOOSE i \in DOMAIN order : order[i] = m
                            ELSE 0]

Ledger == INSTANCE InboxLedger WITH
    inbox    <- Messages(Stored),
    at       <- Arrival,
    arrivals <- Len(order),
    aged     <- Messages(Aged),
    handed   <- Messages(Handed),
    covered  <- Messages(Consumed)

\* Stored as it is, cut to the cap from the front, reloaded from the file and
\* acknowledged by comparing clock readings, the inbox is the ledger that
\* InboundDelivery reasons about.
ImplementsLedger == Ledger!LedgerSpec
=============================================================================
