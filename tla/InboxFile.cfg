\* Three messages against a cap of two, one of them without a stanza id, and a
\* clock long enough to age an entry that was handed over before.
\* The system really may stop: the clock has run out.
CONSTANTS
    m1 = m1  m2 = m2  m3 = m3
    Msg = {m1, m2, m3}
    Anonymous = {m3}
    InboxCap = 2
    Grace = 3
    MaxNow = 7
SPECIFICATION FileSpec
INVARIANTS FileTypeOK
PROPERTIES ImplementsLedger
CHECK_DEADLOCK FALSE
