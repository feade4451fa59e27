----------------------------- MODULE BackfillProofs -----------------------------
(***************************************************************************)
(* Proofs about Backfill.                                                  *)
(***************************************************************************)
EXTENDS Backfill, QueueFacts

-----------------------------------------------------------------------------
(* Sequences.                                                                *)

\* The members of Only(s, P) are those of s in P, and it repeats none that s does not.
LEMMA OnlyFacts ==
    ASSUME NEW S, NEW s \in Seq(S), NEW P
    PROVE  /\ Only(s, P) \in Seq(S) /\ ToSet(Only(s, P)) = ToSet(s) \cap P
           /\ Distinct(s) => Distinct(Only(s, P))
<1>1. OnlySpec(s, S, P)
    BY OnlyKeeps
<1> QED BY <1>1 DEF OnlySpec, Members, ToSet

\* Sorting by stamp (bridge.go mamFetch) loses, adds and repeats nothing.
LEMMA InOrderFacts ==
    ASSUME NEW s \in Seq(Message), stamp \in [Message -> Int]
    PROVE  /\ InOrder(s) \in Seq(Message) /\ ToSet(InOrder(s)) = ToSet(s)
           /\ Distinct(s) => Distinct(InOrder(s))
<1> DEFINE I == DOMAIN s
           before == [i \in I |-> {j \in I :
                stamp[s[j]] < stamp[s[i]] \/ (stamp[s[j]] = stamp[s[i]] /\ j < i)}]
           q == Listed(s, before)
<1>1. I = 1..Len(s) /\ Len(s) \in Nat
    OBVIOUS
<1>2. IsFiniteSet(I)
    BY <1>1, FS_Interval
<1>3. I \in SUBSET Nat /\ \A i \in I : stamp[s[i]] \in Int
    BY <1>1
<1>4. Orders(before, I)
    <2> DEFINE st == [i \in I |-> stamp[s[i]]]
    <2>1. \A i \in I : st[i] \in Int /\ i \in Int
        BY <1>3
    <2>2. before = [i \in I |-> {j \in I : st[j] < st[i] \/ (st[j] = st[i] /\ j < i)}]
        OBVIOUS
    <2> HIDE DEF st, I
    <2> QED BY <1>2, <2>1, <2>2 DEF Orders
<1>5. InOrder(s) = q
    BY DEF InOrder
<1>6. /\ q \in Seq(Message)
      /\ \A k \in DOMAIN q : \E i \in I : q[k] = s[i]
      /\ \A i \in I : \E k \in DOMAIN q : q[k] = s[i]
      /\ (\A i, j \in I : s[i] = s[j] => i = j) => Distinct(q)
    <2>1. I \in SUBSET DOMAIN s
        BY <1>1
    <2> HIDE DEF before, I
    <2>2. ListedSpec(s, Message, I, before)
        BY <1>4, <2>1, ListedFacts
    <2> QED BY <2>2 DEF Distinct, ListedSpec
<1> HIDE DEF q
<1> QED BY <1>5, <1>6 DEF ToSet, Distinct

\* The newest part of a sequence holds only members of it, and repeats none.
LEMMA PageFacts ==
    ASSUME NEW S, NEW s \in Seq(S), NEW a \in Nat \ {0}
    PROVE  /\ SubSeq(s, a, Len(s)) \in Seq(S) /\ ToSet(SubSeq(s, a, Len(s))) \subseteq ToSet(s)
           /\ Distinct(s) => Distinct(SubSeq(s, a, Len(s)))
BY DEF ToSet, Distinct

\* Two sequences, one behind the other.
LEMMA Joined ==
    ASSUME NEW S, NEW s \in Seq(S), NEW u \in Seq(S)
    PROVE  /\ s \o u \in Seq(S) /\ ToSet(s \o u) = ToSet(s) \union ToSet(u)
           /\ Distinct(s) /\ Distinct(u) /\ ToSet(s) \cap ToSet(u) = {} => Distinct(s \o u)
<1> DEFINE q == s \o u
<1>1. /\ q \in Seq(S) /\ Len(q) = Len(s) + Len(u) /\ Len(s) \in Nat /\ Len(u) \in Nat
      /\ \A i \in 1..Len(s) : q[i] = s[i]
      /\ \A i \in 1..Len(u) : q[i + Len(s)] = u[i]
      /\ \A i \in 1..Len(q) : (i > Len(s) => q[i] = u[i - Len(s)] /\ i - Len(s) \in 1..Len(u))
                             /\ (~(i > Len(s)) => q[i] = s[i] /\ i \in 1..Len(s))
      /\ \A i \in 1..Len(u) : i + Len(s) \in 1..Len(q)
      /\ \A i \in 1..Len(s) : i \in 1..Len(q)
      /\ DOMAIN q = 1..Len(q) /\ DOMAIN s = 1..Len(s) /\ DOMAIN u = 1..Len(u)
    OBVIOUS
<1> HIDE DEF q
<1>2. ToSet(q) = ToSet(s) \union ToSet(u)
    <2>1. ToSet(q) \subseteq ToSet(s) \union ToSet(u)
        BY <1>1 DEF ToSet
    <2>2. ToSet(s) \subseteq ToSet(q)
        BY <1>1 DEF ToSet
    <2>3. ToSet(u) \subseteq ToSet(q)
        BY <1>1 DEF ToSet
    <2> QED BY <2>1, <2>2, <2>3
<1>3. ASSUME Distinct(s), Distinct(u), ToSet(s) \cap ToSet(u) = {} PROVE Distinct(q)
    <2> SUFFICES ASSUME NEW i \in 1..Len(q), NEW j \in 1..Len(q), q[i] = q[j] PROVE i = j
        BY <1>1 DEF Distinct
    <2>1. CASE i > Len(s) /\ j > Len(s)
        <3>1. u[i - Len(s)] = u[j - Len(s)] /\ i - Len(s) \in DOMAIN u /\ j - Len(s) \in DOMAIN u
            BY <1>1, <2>1
        <3>2. i - Len(s) = j - Len(s)
            BY <1>3, <3>1 DEF Distinct
        <3> QED BY <1>1, <3>2
    <2>2. CASE ~(i > Len(s)) /\ ~(j > Len(s))
        BY <1>1, <1>3, <2>2 DEF Distinct
    <2>3. CASE i > Len(s) /\ ~(j > Len(s))
        <3>1. q[j] \in ToSet(s) /\ q[i] \in ToSet(u)
            BY <1>1, <2>3 DEF ToSet
        <3> QED BY <1>3, <3>1
    <2>4. CASE ~(i > Len(s)) /\ j > Len(s)
        <3>1. q[i] \in ToSet(s) /\ q[j] \in ToSet(u)
            BY <1>1, <2>4 DEF ToSet
        <3> QED BY <1>3, <3>1
    <2> QED BY <2>1, <2>2, <2>3, <2>4
<1> QED BY <1>1, <1>2, <1>3 DEF q

\* A sequence without its head.
LEMMA TailFacts ==
    ASSUME NEW S, NEW s \in Seq(S), s # <<>>
    PROVE  /\ Tail(s) \in Seq(S) /\ Head(s) \in ToSet(s) /\ Head(s) \in S
           /\ ToSet(s) = {Head(s)} \union ToSet(Tail(s))
           /\ Distinct(s) => Distinct(Tail(s)) /\ Head(s) \notin ToSet(Tail(s))
<1> DEFINE q == Tail(s)
<1>1. /\ q \in Seq(S) /\ Head(s) = s[1] /\ 1 \in 1..Len(s) /\ DOMAIN s = 1..Len(s)
      /\ DOMAIN q = 1..Len(q) /\ \A i \in 1..Len(q) : q[i] = s[i + 1] /\ i + 1 \in 1..Len(s)
      /\ \A i \in 1..Len(s) : i = 1 \/ (i - 1 \in 1..Len(q) /\ q[i - 1] = s[i])
    OBVIOUS
<1>2. \A i \in 1..Len(q) : i \in Nat /\ i # 0 /\ i + 1 # 1
    OBVIOUS
<1> HIDE DEF q
<1>3. Head(s) \in ToSet(s) /\ Head(s) \in S
    BY <1>1 DEF ToSet
<1>4. ToSet(q) \subseteq ToSet(s)
    <2>1. \A i \in DOMAIN q : q[i] = s[i + 1] /\ i + 1 \in DOMAIN s
        BY <1>1
    <2> QED BY <2>1 DEF ToSet
<1>5. ToSet(s) \subseteq {Head(s)} \union ToSet(q)
    <2> SUFFICES ASSUME NEW i \in 1..Len(s), i # 1 PROVE s[i] \in ToSet(q)
        BY <1>1 DEF ToSet
    <2>1. i - 1 \in DOMAIN q /\ q[i - 1] = s[i]
        BY <1>1
    <2> QED BY <2>1 DEF ToSet
<1>6. ASSUME Distinct(s) PROVE Distinct(q) /\ Head(s) \notin ToSet(q)
    <2>1. \A i, j \in DOMAIN q : q[i] = q[j] => i + 1 = j + 1
        BY <1>1, <1>6 DEF Distinct
    <2>2. \A i \in DOMAIN q : q[i] # s[1]
        <3>1. \A i \in DOMAIN q : s[i + 1] = s[1] => i + 1 = 1
            BY <1>1, <1>6 DEF Distinct
        <3> QED BY <1>1, <1>2, <3>1
    <2>3. \A i, j \in DOMAIN q : i + 1 = j + 1 => i = j
        BY <1>1
    <2> QED BY <1>1, <2>1, <2>2, <2>3 DEF Distinct, ToSet
<1> QED BY <1>1, <1>3, <1>4, <1>5, <1>6 DEF q

-----------------------------------------------------------------------------
(* The inductive invariant.                                                  *)

\* The first archive is the owner's, the second the room's.
ScopeOf(m) == IF m \in Direct THEN 1 ELSE 2
Copy(i) == i.kind \in {"live", "push"}
Reply(i, t) == i.kind = "answer" /\ i.to = t

\* What a process that does not run, a connection that is down and a process that
\* was never connected have nothing of.
Modes ==
    /\ ~running => /\ conn = "down" /\ ~connectedOnce /\ replay = "off"
                   /\ th = [t \in Thread |-> Idle] /\ seen = {}
                   /\ \A b \in By : handed[b] = {}
    /\ running => swapstart = Never
    /\ conn = "down" => stream = <<>>
    /\ conn # "down" => offline = {}
    /\ conn = "serving" => connectedOnce
    /\ replay = "off" => buf = <<>>
    /\ ~connectedOnce => /\ \A t \in Thread : th[t].pc = "idle"
                         /\ th[Startup].scope = 1
                         /\ \A a \in DOMAIN stream : stream[a].kind # "answer"

\* Stamps and markers are clock readings of the past, and the graceful stop is no
\* earlier than the last message sent.
Clock ==
    /\ \A m \in Message : Never =< stamp[m] /\ stamp[m] =< now
    /\ \A m \in Message : m \in ToSet(sent) <=> stamp[m] # Never
    /\ Distinct(sent)
    /\ lastin =< now /\ lastout =< now /\ mamseen =< now /\ swapstart =< now
    /\ Never =< lastin /\ Never =< lastout /\ Never =< mamseen /\ Never =< swapstart
    /\ \A t \in Thread : th[t].since =< now
    /\ swapstart # Never => lastout =< swapstart

\* Where a recovery may hold messages, and that one gap recovery at a time holds
\* backfillMu.
Threads ==
    /\ \A t \in Thread :
        /\ th[t].pc \in {"idle", "begin", "lock", "mark"} => th[t].got = <<>>
        /\ th[t].pc = "hand" => th[t].got # <<>>
        /\ th[t].pc \in {"begin", "lock"} => t # Startup /\ th[t].scope = 1
        /\ th[t].pc = "drain" => t = Startup
        /\ t # Startup /\ th[t].pc = "idle" => th[t] = Idle
    /\ \A g, h \in Gap : Holds(g) /\ Holds(h) => g = h

\* A recovery holds messages that were sent, each once, and none of an archive it
\* has still to ask.
Gots ==
    \A t \in Thread :
        /\ Distinct(th[t].got) /\ ToSet(th[t].got) \subseteq ToSet(sent) \ Own
        /\ th[t].pc \in {"fetch", "wait"} =>
             \A m \in ToSet(th[t].got) : ScopeOf(m) < th[t].scope

Bufs == Distinct(buf) /\ ToSet(buf) \subseteq ToSet(sent) \ Own

\* What was handed over in this process is seen, and what is seen was handed over.
Given == AllHanded \subseteq seen /\ seen \subseteq ever /\ ever \subseteq ToSet(sent)

\* A message is on its way into the process once, and before anything else takes it in.
Copies ==
    /\ \A a \in DOMAIN stream : Copy(stream[a]) =>
         /\ stream[a].msg \in ToSet(sent) \ (ever \union Held)
         /\ stream[a].kind = "push" => stream[a].msg \in Direct
    /\ \A a, b \in DOMAIN stream :
         Copy(stream[a]) /\ Copy(stream[b]) /\ stream[a].msg = stream[b].msg => a = b
    /\ offline \subseteq ToSet(sent) \ (ever \union Held)

\* A page holds messages of its archive, each once, and their copies are read before it.
Pages ==
    \A a \in DOMAIN stream : stream[a].kind = "answer" =>
        /\ Distinct(stream[a].page) /\ ToSet(stream[a].page) \subseteq ToSet(sent)
        /\ \A m \in ToSet(stream[a].page) : ScopeOf(m) = stream[a].scope
        /\ \A b \in DOMAIN stream : b > a /\ Copy(stream[b]) =>
             stream[b].msg \notin ToSet(stream[a].page)

\* An archive is asked once per recovery, and its answer belongs to no later one.
Answers ==
    /\ \A a \in DOMAIN stream : \A t \in Thread : Reply(stream[a], t) =>
        /\ th[t].pc \notin {"begin", "lock"}
        /\ th[t].pc = "fetch" => stream[a].scope < th[t].scope
        /\ th[t].pc = "wait" => stream[a].scope =< th[t].scope
    /\ \A a, b \in DOMAIN stream : \A t \in Thread :
        Reply(stream[a], t) /\ Reply(stream[b], t) /\ stream[a].scope = stream[b].scope => a = b

\* The loop and the two kinds of recovery hand over different messages.
HandsOf(t) == IF t = Startup THEN "drain" ELSE "gap"
Apart ==
    /\ twice = {} /\ handed["loop"] \cap (handed["drain"] \union handed["gap"]) = {}
    /\ \A t \in Thread : th[t].pc = "hand" =>
         ToSet(th[t].got) \cap (handed["loop"] \union handed[HandsOf(t)]) = {}

\* What an earlier process was given and has answered lies before the start of
\* the drain's walk, and is not in its hands.
Spoken ==
    /\ again = {} /\ answered \subseteq ever
    /\ \A m \in answered : stamp[m] < lastout
    /\ \A m \in answered \ AllHanded :
        /\ running /\ (th[Startup].pc # "idle" \/ ~connectedOnce) => stamp[m] < th[Startup].since
        /\ m \notin ToSet(buf) /\ m \notin ToSet(th[Startup].got)
        /\ \A a \in DOMAIN stream : Reply(stream[a], Startup) => m \notin ToSet(stream[a].page)

\* The cursors of a gap recovery do not pass m.
After(m) == lastin =< stamp[m] /\ mamseen =< stamp[m]

\* Thread t has still to ask for m, or its answer has m, or it gets no answer.
WillAsk(m, t) ==
    /\ th[t].pc \in {"lock", "fetch", "wait"}
    /\ th[t].since =< stamp[m] /\ th[t].scope =< ScopeOf(m)
    /\ th[t].pc = "wait" /\ th[t].scope = ScopeOf(m) =>
         \A a \in DOMAIN stream : Reply(stream[a], t) /\ stream[a].scope = th[t].scope =>
             m \in ToSet(stream[a].page)

\* Where the walk of this or the next launch starts.
Bound == IF running THEN th[Startup].since ELSE MamSinceFor(WindowStart)

Covered(m) ==
    \/ m \in Held
    \/ After(m) /\ \E a \in DOMAIN stream : stream[a] = Live(m)
    \/ After(m) /\ \E g \in Gap : th[g].pc = "begin"
    \/ After(m) /\ connectedOnce /\ conn # "serving"
    \/ ~connectedOnce /\ Bound =< stamp[m]
    \/ \E t \in Thread : WillAsk(m, t)

\* Every message that was not handed over and has no excuse is still to come.
Coverage == \A m \in Outstanding \ excused : Covered(m)

-----------------------------------------------------------------------------
(* Types.                                                                    *)

\* The archives: one or two, the owner's first.
LEMMA ScopeFacts ==
    /\ Len(Scopes) \in {1, 2} /\ DOMAIN Scopes = 1..Len(Scopes) /\ 1 \in DOMAIN Scopes
    /\ Scopes[1] = "direct" /\ (Len(Scopes) = 2 => Scopes[2] = "room")
    /\ Len(Scopes) = 1 => Room \union Own = {}
BY BackfillAssumption

\* The clock readings that are compared are integers.
LEMMA LaterFacts ==
    ASSUME NEW i \in Int, NEW k \in Int
    PROVE  Later(i, k) \in Int /\ i =< Later(i, k) /\ k =< Later(i, k) /\ Later(i, k) \in {i, k}
BY DEF Later

\* A query returns a page of its archive's messages from the range asked for.
LEMMA RangeFacts ==
    ASSUME TypeOK, NEW t \in Thread
    PROVE  /\ InRange(t) \in Seq(Message) /\ Page(t) \in Seq(Message)
           /\ ToSet(InRange(t)) = {m \in ToSet(sent) : m \in InScope(t) /\ th[t].since =< stamp[m]}
           /\ ToSet(Page(t)) \subseteq ToSet(InRange(t))
           /\ Distinct(sent) => Distinct(InRange(t)) /\ Distinct(Page(t))
<1> DEFINE P == {m \in InScope(t) : stamp[m] >= th[t].since}
<1>1. sent \in Seq(Message) /\ stamp \in [Message -> Int] /\ th[t].since \in Int
    BY DEF TypeOK, ThreadState
<1>2. InScope(t) \subseteq Message
    BY DEF InScope, Message
<1>3. InRange(t) = Only(sent, P)
    BY DEF InRange
<1>4. /\ InRange(t) \in Seq(Message) /\ ToSet(InRange(t)) = ToSet(sent) \cap P
      /\ Distinct(sent) => Distinct(InRange(t))
    <2> HIDE DEF P
    <2> QED BY <1>1, <1>3, OnlyFacts
<1>5. ToSet(sent) \cap P = {m \in ToSet(sent) : m \in InScope(t) /\ th[t].since =< stamp[m]}
    BY <1>1, <1>2
<1> DEFINE from == Later(1, Len(InRange(t)) - PageMax + 1)
<1>6. from \in Nat \ {0}
    <2>1. Len(InRange(t)) \in Nat /\ PageMax \in Nat
        BY <1>4, BackfillAssumption
    <2> QED BY <2>1 DEF Later
<1>7. Page(t) = SubSeq(InRange(t), from, Len(InRange(t)))
    BY DEF Page
<1> HIDE DEF from, P
<1>8. /\ Page(t) \in Seq(Message) /\ ToSet(Page(t)) \subseteq ToSet(InRange(t))
      /\ Distinct(InRange(t)) => Distinct(Page(t))
    BY <1>4, <1>6, <1>7, PageFacts
<1> QED BY <1>4, <1>5, <1>8

\* What the buffer holds once s was added to it.
LEMMA BufferFacts ==
    ASSUME buf \in Seq(Message), NEW s \in Seq(Message)
    PROVE  /\ BufferReplay(s) \in Seq(Message) /\ ToSet(BufferReplay(s)) = ToSet(buf) \union ToSet(s)
           /\ Distinct(buf) /\ Distinct(s) => Distinct(BufferReplay(s))
<1> DEFINE q == Only(s, Message \ ToSet(buf))
<1>1. ToSet(s) \subseteq Message
    BY DEF ToSet
<1>2. q \in Seq(Message) /\ ToSet(q) = ToSet(s) \cap (Message \ ToSet(buf)) /\ (Distinct(s) => Distinct(q))
    BY OnlyFacts
<1>3. BufferReplay(s) = buf \o q
    BY DEF BufferReplay
<1> HIDE DEF q
<1> QED BY <1>1, <1>2, <1>3, Joined

\* What a recovery keeps of its messages when it comes to deliver them.
LEMMA FreshFacts ==
    ASSUME stamp \in [Message -> Int], NEW s \in Seq(Message)
    PROVE  /\ Unseen(InOrder(s)) \in Seq(Message) /\ ToSet(Unseen(InOrder(s))) = ToSet(s) \ seen
           /\ Distinct(s) => Distinct(Unseen(InOrder(s)))
<1>1. /\ InOrder(s) \in Seq(Message) /\ ToSet(InOrder(s)) = ToSet(s)
      /\ Distinct(s) => Distinct(InOrder(s))
    BY InOrderFacts
<1>2. ToSet(s) \subseteq Message
    BY DEF ToSet
<1> DEFINE q == InOrder(s)
<1> HIDE DEF q
<1>3. /\ Only(q, Message \ seen) \in Seq(Message)
      /\ ToSet(Only(q, Message \ seen)) = ToSet(q) \cap (Message \ seen)
      /\ Distinct(q) => Distinct(Only(q, Message \ seen))
    BY <1>1, OnlyFacts DEF q
<1> QED BY <1>1, <1>2, <1>3 DEF q, Unseen

\* What a recovery holds once it collected a page.
LEMMA CollectFacts ==
    ASSUME NEW s \in Seq(Message), NEW page \in Seq(Message)
    PROVE  LET q == s \o Only(page, Direct \union Room)
           IN  /\ q \in Seq(Message) /\ ToSet(q) = ToSet(s) \union (ToSet(page) \ Own)
               /\ Distinct(s) /\ Distinct(page) /\ ToSet(s) \cap ToSet(page) = {} => Distinct(q)
<1> DEFINE p == Only(page, Direct \union Room)
<1>1. ToSet(page) \subseteq Message
    BY DEF ToSet
<1>2. ToSet(page) \cap (Direct \union Room) = ToSet(page) \ Own
    BY <1>1, BackfillAssumption DEF Message
<1>3. p \in Seq(Message) /\ ToSet(p) = ToSet(page) \ Own /\ (Distinct(page) => Distinct(p))
    BY <1>2, OnlyFacts
<1> HIDE DEF p
<1>4. p \in Seq(Message) /\ ToSet(s) \union ToSet(p) = ToSet(s) \union (ToSet(page) \ Own)
    BY <1>3
<1>5. /\ s \o p \in Seq(Message) /\ ToSet(s \o p) = ToSet(s) \union ToSet(p)
      /\ Distinct(s) /\ Distinct(p) /\ ToSet(s) \cap ToSet(p) = {} => Distinct(s \o p)
    BY <1>4, Joined
<1> QED BY <1>3, <1>5 DEF p

\* What a connection is greeted with.
LEMMA PushFacts ==
    ASSUME TypeOK
    PROVE  LET kept == Only(sent, offline)
               pushes == [i \in DOMAIN kept |-> Push(kept[i])]
           IN  /\ pushes \in Seq(Item) /\ DOMAIN pushes = DOMAIN kept
               /\ \A a \in DOMAIN pushes : pushes[a].kind = "push" /\ pushes[a].msg = kept[a]
               /\ kept \in Seq(Message) /\ ToSet(kept) = ToSet(sent) \cap offline
               /\ Distinct(sent) => Distinct(kept)
<1> DEFINE kept == Only(sent, offline)
           pushes == [i \in DOMAIN kept |-> Push(kept[i])]
<1>1. kept \in Seq(Message) /\ ToSet(kept) = ToSet(sent) \cap offline /\ (Distinct(sent) => Distinct(kept))
    BY OnlyFacts DEF TypeOK
<1> HIDE DEF kept
<1>2. pushes \in Seq(Item) /\ DOMAIN pushes = DOMAIN kept
    BY <1>1 DEF Push, Item
<1>3. \A a \in DOMAIN pushes : pushes[a].kind = "push" /\ pushes[a].msg = kept[a]
    BY DEF Push
<1> QED BY <1>1, <1>2, <1>3 DEF kept

\* The bounds are numbers.
LEMMA Bounds == MaxTime \in Nat /\ MaxFaults \in Nat /\ Reach \in Nat /\ PageMax \in Nat \ {0}
BY BackfillAssumption

\* A thread's record with other fields.
LEMMA RecordFacts ==
    ASSUME NEW r \in ThreadState
    PROVE  /\ \A q \in Seq(Message), pc \in {"idle", "begin", "lock", "fetch", "wait", "drain",
                                              "check", "hand", "mark"} :
                /\ [r EXCEPT !.pc = pc] \in ThreadState
                /\ [r EXCEPT !.got = q, !.pc = pc] \in ThreadState
                /\ [r EXCEPT !.pc = pc, !.got = q] \in ThreadState
           /\ \A since \in Int : [r EXCEPT !.since = since] \in ThreadState
                /\ [r EXCEPT !.pc = "lock", !.since = since] \in ThreadState
           /\ Idle \in ThreadState /\ [Idle EXCEPT !.pc = "begin"] \in ThreadState
<1> DEFINE PC == {"idle", "begin", "lock", "fetch", "wait", "drain", "check", "hand", "mark"}
<1>1. r = [pc |-> r.pc, since |-> r.since, scope |-> r.scope, got |-> r.got]
      /\ r.pc \in PC /\ r.since \in Int /\ r.scope \in DOMAIN Scopes /\ r.got \in Seq(Message)
    BY DEF ThreadState
<1>2. ThreadState = [pc : PC, since : Int, scope : DOMAIN Scopes, got : Seq(Message)]
    BY DEF ThreadState
<1> HIDE DEF PC
<1>3. \A pc \in PC, since \in Int, scope \in DOMAIN Scopes, q \in Seq(Message) :
        [pc |-> pc, since |-> since, scope |-> scope, got |-> q] \in ThreadState
    BY <1>2
<1>4. \A q \in Seq(Message), pc \in PC :
        /\ [r EXCEPT !.pc = pc] \in ThreadState
        /\ [r EXCEPT !.got = q, !.pc = pc] \in ThreadState
        /\ [r EXCEPT !.pc = pc, !.got = q] \in ThreadState
    BY <1>1, <1>2
<1>5. \A since \in Int : [r EXCEPT !.since = since] \in ThreadState
    BY <1>1, <1>2
<1>6. "lock" \in PC /\ "idle" \in PC /\ "begin" \in PC
    BY DEF PC
<1>7. \A since \in Int : [r EXCEPT !.pc = "lock", !.since = since] \in ThreadState
    BY <1>1, <1>2, <1>6
<1>8. Idle \in ThreadState /\ [Idle EXCEPT !.pc = "begin"] \in ThreadState
    <2>1. Never \in Int /\ 1 \in DOMAIN Scopes /\ <<>> \in Seq(Message)
        BY ScopeFacts DEF Never
    <2>2. [Idle EXCEPT !.pc = "begin"] = [pc |-> "begin", since |-> Never, scope |-> 1, got |-> <<>>]
        BY DEF Idle
    <2>3. [pc |-> "idle", since |-> Never, scope |-> 1, got |-> <<>>] \in ThreadState
        BY <1>3, <1>6, <2>1
    <2>4. [pc |-> "begin", since |-> Never, scope |-> 1, got |-> <<>>] \in ThreadState
        BY <1>3, <1>6, <2>1
    <2> QED BY <2>2, <2>3, <2>4 DEF Idle
<1> QED BY <1>4, <1>5, <1>7, <1>8 DEF PC

\* A thread that goes on to the next archive.
LEMMA NextScopeFacts ==
    ASSUME TypeOK, NEW t \in Thread, NEW q \in Seq(Message)
    PROVE  LET r == NextScope(t, q)
           IN  /\ r \in ThreadState /\ r.got = q /\ r.since = th[t].since
               /\ th[t].scope < Len(Scopes) => r.scope = th[t].scope + 1 /\ r.pc = "fetch"
               /\ ~(th[t].scope < Len(Scopes)) =>
                    r.scope = th[t].scope /\ r.pc = IF t = Startup THEN "drain" ELSE "check"
<1> DEFINE r == th[t]
           new == NextScope(t, q)
           more == th[t].scope < Len(Scopes)
<1>1. r \in ThreadState /\ r.scope \in 1..Len(Scopes) /\ Len(Scopes) \in Nat
    BY ScopeFacts DEF TypeOK, ThreadState
<1>2. (IF more THEN r.scope + 1 ELSE r.scope) \in 1..Len(Scopes)
    BY <1>1
<1>3. new = [r EXCEPT !.got = q, !.scope = IF more THEN r.scope + 1 ELSE r.scope,
                      !.pc = IF more THEN "fetch" ELSE IF t = Startup THEN "drain" ELSE "check"]
    BY <1>1 DEF NextScope, ThreadState
<1>4. \A scope \in 1..Len(Scopes), pc \in {"fetch", "drain", "check"} :
        LET u == [r EXCEPT !.got = q, !.scope = scope, !.pc = pc]
        IN  u \in ThreadState /\ u.got = q /\ u.since = r.since /\ u.scope = scope /\ u.pc = pc
    BY <1>1, ScopeFacts DEF ThreadState
<1> HIDE DEF r, new
<1>5. CASE more
    <2>1. new = [r EXCEPT !.got = q, !.scope = r.scope + 1, !.pc = "fetch"] /\ r.scope + 1 \in 1..Len(Scopes)
        BY <1>2, <1>3, <1>5
    <2>2. new \in ThreadState /\ new.got = q /\ new.since = r.since /\ new.scope = r.scope + 1
          /\ new.pc = "fetch"
        BY <1>4, <2>1
    <2> QED BY <1>5, <2>2 DEF r, new
<1>6. CASE ~more
    <2>1. CASE t = Startup
        <3>1. new = [r EXCEPT !.got = q, !.scope = r.scope, !.pc = "drain"] /\ r.scope \in 1..Len(Scopes)
            BY <1>1, <1>3, <1>6, <2>1
        <3>2. new \in ThreadState /\ new.got = q /\ new.since = r.since /\ new.scope = r.scope
              /\ new.pc = "drain"
            BY <1>4, <3>1
        <3> QED BY <1>6, <2>1, <3>2 DEF r, new
    <2>2. CASE t # Startup
        <3>1. new = [r EXCEPT !.got = q, !.scope = r.scope, !.pc = "check"] /\ r.scope \in 1..Len(Scopes)
            BY <1>1, <1>3, <1>6, <2>2
        <3>2. new \in ThreadState /\ new.got = q /\ new.since = r.since /\ new.scope = r.scope
              /\ new.pc = "check"
            BY <1>4, <3>1
        <3> QED BY <1>6, <2>2, <3>2 DEF r, new
    <2> QED BY <2>1, <2>2
<1> QED BY <1>5, <1>6

\* Types survive every step.
LEMMA TypeStep ==
    ASSUME TypeOK, Threads, [Next]_vars
    PROVE  TypeOK'
<1> USE DEF TypeOK, server, process, markers, history
<1>0. now \in Int /\ Startup \in Thread /\ Never \in Int
    BY DEF Thread, Never
<1>m. Message = Direct \union Room \union Own /\ Direct \subseteq Message
    BY DEF Message
<1>1. CASE Tick \/ Launch \/ GraceEnds \/ Speak \/ SeedMarker
    <2>1. CASE Tick
        <3>1. now' \in 0..MaxTime
            BY <2>1, Bounds DEF Tick
        <3> QED BY <2>1, <3>1 DEF Tick
    <2>2. CASE Launch
        <3>1. MamSinceFor(WindowStart) \in Int /\ WindowStart \in Int
            BY <1>0 DEF MamSinceFor, WindowStart, Later
        <3>2. th' \in [Thread -> ThreadState]
            BY <1>0, <2>2, <3>1, RecordFacts DEF Launch
        <3> QED BY <1>0, <2>2, <3>1, <3>2 DEF Launch
    <2>3. CASE GraceEnds
        <3>1. UNCHANGED <<now, server, stream, conn, running, connectedOnce, seen, start, buf, th,
                          markers, faults, history>> /\ replay' = "closed"
            BY <2>3 DEF GraceEnds
        <3> QED BY <3>1
    <2>4. CASE Speak
        <3>1. answered' \subseteq Message
            BY <2>4 DEF Speak, AllHanded
        <3>2. /\ UNCHANGED <<now, server, stream, conn, process, th, lastin, mamseen, swapstart,
                              faults, handed, ever, twice, again, excused>>
              /\ lastout' = now
            BY <2>4 DEF Speak
        <3> QED BY <1>0, <3>1, <3>2
    <2>5. CASE SeedMarker
        <3>1. th' \in [Thread -> ThreadState]
            BY <1>0, <2>5, RecordFacts DEF SeedMarker, Set
        <3>2. Outstanding \subseteq Message
            BY DEF Outstanding, ToSet
        <3> QED BY <1>0, <2>5, <3>1, <3>2 DEF SeedMarker
    <2> QED BY <1>1, <2>1, <2>2, <2>3, <2>4, <2>5
<1>o. Outstanding \subseteq Message /\ Behind \subseteq Message
    BY DEF Outstanding, Behind, ToSet
<1>2. CASE Connect
    <2>1. stream' \in Seq(Item)
        BY <1>2, PushFacts DEF Connect
    <2> QED BY <1>2, <2>1 DEF Connect
<1>3. CASE ConnectFails \/ Drop
    <2>1. faults' \in 0..MaxFaults
        BY <1>3, Bounds DEF ConnectFails, Drop, Fault
    <2>2. CASE ConnectFails
        <3>1. offline' = {} /\ UNCHANGED <<now, sent, stamp, stream, conn, process, th, markers, history>>
            BY <2>2 DEF ConnectFails
        <3> QED BY <2>1, <3>1
    <2>3. CASE Drop
        <3>1. stream' = <<>> /\ conn' = "down" /\ UNCHANGED <<now, server, process, th, markers, history>>
            BY <2>3 DEF Drop
        <3>2. stream' \in Seq(Item)
            BY <3>1
        <3> QED BY <2>1, <3>1, <3>2
    <2> QED BY <1>3, <2>2, <2>3
<1>4. CASE OnXMPPConnected
    <2>1. connectedOnce' \in BOOLEAN
        BY <1>4 DEF OnXMPPConnected, OnFirstConnect, OnReconnect
    <2>2. CASE OnFirstConnect
        <3>1. th' \in [Thread -> ThreadState]
            BY <1>0, <2>2, RecordFacts DEF OnFirstConnect
        <3> QED BY <1>4, <2>1, <3>1 DEF OnXMPPConnected
    <2>3. CASE OnReconnect
        <3>1. PICK g \in Gap : th' = [th EXCEPT ![g].pc = "begin"]
            BY <2>3 DEF OnReconnect
        <3>2. g \in Thread
            BY DEF Thread
        <3>3. th' \in [Thread -> ThreadState]
            BY <3>1, <3>2, RecordFacts
        <3> QED BY <1>4, <2>1, <3>3 DEF OnXMPPConnected
    <2> QED BY <1>4, <2>2, <2>3 DEF OnXMPPConnected
<1>5. CASE Stop \/ Crash
    <2>1. PICK graceful \in BOOLEAN : Ends(graceful)
        BY <1>5 DEF Stop, Crash
    <2>2. th' \in [Thread -> ThreadState]
        BY <2>1, RecordFacts DEF Ends
    <2>3. excused' \subseteq Message /\ swapstart' \in Int
        BY <1>0, <1>o, <2>1 DEF Ends
    <2>4. faults' \in 0..MaxFaults
        BY <2>1, Bounds DEF Ends, Fault
    <2>5. /\ running' = FALSE /\ connectedOnce' = FALSE /\ seen' = {} /\ replay' = "off"
          /\ start' = Never /\ buf' = <<>> /\ conn' = "down" /\ stream' = <<>>
          /\ UNCHANGED <<now, server, lastin, lastout, mamseen, ever, twice, answered, again>>
        BY <2>1 DEF Ends
    <2>6. handed' \in [By -> SUBSET Message]
        BY <2>1 DEF Ends
    <2>7. <<>> \in Seq(Message) /\ <<>> \in Seq(Item)
        OBVIOUS
    <2> QED BY <1>0, <2>2, <2>3, <2>4, <2>5, <2>6, <2>7
<1>6. ASSUME NEW m \in Message, SendMsg(m) PROVE TypeOK'
    <2>1. Live(m) \in Item
        BY DEF Live, Item
    <2>2. stream' \in Seq(Item)
        <3>1. stream' = stream \/ stream' = Append(stream, Live(m))
            BY <1>6 DEF SendMsg
        <3>2. Append(stream, Live(m)) \in Seq(Item)
            BY <2>1
        <3> QED BY <3>1, <3>2
    <2>3. offline' \subseteq Direct
        BY <1>6 DEF SendMsg
    <2>4. stamp' \in [Message -> Int] /\ sent' \in Seq(Message)
        BY <1>0, <1>6 DEF SendMsg
    <2> QED BY <1>6, <2>2, <2>3, <2>4 DEF SendMsg
<1>h. ASSUME NEW m \in Message, NEW by \in By, HandOver(m, by)
      PROVE  /\ seen' \subseteq Message /\ ever' \subseteq Message /\ twice' \subseteq Message
             /\ excused' \subseteq Message /\ handed' \in [By -> SUBSET Message] /\ lastin' \in Int
    BY <1>0, <1>o, <1>h DEF HandOver
<1>7. CASE Receive
    <2> DEFINE i == Head(stream)
    <2>1. i \in Item /\ stream' \in Seq(Item)
        BY <1>7 DEF Receive
    <2>2. ASSUME NEW m \in Message, DispatchFresh(m)
          PROVE  /\ seen' \subseteq Message /\ ever' \subseteq Message /\ twice' \subseteq Message
                 /\ excused' \subseteq Message /\ handed' \in [By -> SUBSET Message] /\ lastin' \in Int
        <3>1. CASE m \in seen \union Own
            BY <2>2, <3>1 DEF DispatchFresh
        <3>2. CASE m \notin seen \union Own
            BY <2>2, <3>2, <1>h DEF DispatchFresh, By
        <3> QED BY <3>1, <3>2
    <2>3. CASE i.kind = "live"
        <3>1. i.msg \in Message /\ DispatchFresh(i.msg) /\ UNCHANGED <<buf, th>>
            BY <1>7, <2>1, <2>3 DEF Receive, Item
        <3> QED BY <1>7, <2>1, <2>2, <3>1 DEF Receive
    <2>4. CASE i.kind = "push"
        <3>1. i.msg \in Message /\ DispatchDelayed(i.msg) /\ UNCHANGED th
            BY <1>7, <2>1, <2>4 DEF Receive, Item
        <3>2. <<i.msg>> \in Seq(Message)
            BY <3>1
        <3>3. CASE InWindow(i.msg)
            BY <1>7, <2>1, <3>1, <3>2, <3>3, BufferFacts DEF Receive, DispatchDelayed
        <3>4. CASE ~InWindow(i.msg)
            BY <1>7, <2>1, <2>2, <3>1, <3>4 DEF Receive, DispatchDelayed
        <3> QED BY <3>3, <3>4
    <2>5. CASE i.kind = "answer"
        <3>1. i.page \in Seq(Message) /\ i.to \in Thread /\ Collect(i)
              /\ UNCHANGED <<buf, seen, lastin, handed, ever, twice, excused>>
            BY <1>7, <2>1, <2>5 DEF Receive, Item
        <3>2. th[i.to].got \o Only(i.page, Direct \union Room) \in Seq(Message)
            BY <3>1, CollectFacts DEF ThreadState
        <3>3. th' \in [Thread -> ThreadState]
            BY <3>1, <3>2, NextScopeFacts DEF Collect
        <3> QED BY <1>7, <2>1, <3>1, <3>3 DEF Receive
    <2> QED BY <2>1, <2>3, <2>4, <2>5 DEF Item
<1>8. CASE Drain
    <2>1. BufferReplay(th[Startup].got) \in Seq(Message)
        BY <1>0, BufferFacts DEF ThreadState
    <2>2. th' \in [Thread -> ThreadState]
        BY <1>0, <1>8, <2>1, RecordFacts DEF Drain, Set
    <2> QED BY <1>8, <2>2 DEF Drain
<1>9. ASSUME NEW g \in Gap, GapBegins(g) \/ GapLocks(g) PROVE TypeOK'
    <2>1. g \in Thread
        BY DEF Thread
    <2>2. ReconnectSince \in Int
        BY <1>0, BackfillAssumption DEF ReconnectSince, Later
    <2>3. th' \in [Thread -> ThreadState]
        <3>1. th[g] \in ThreadState
            BY <2>1
        <3>2. CASE GapBegins(g)
            <4> DEFINE r == IF ReconnectSince = Never THEN Idle
                            ELSE [th[g] EXCEPT !.pc = "lock", !.since = ReconnectSince]
            <4>1. r \in ThreadState
                BY <2>2, <3>1, RecordFacts
            <4>2. th' = [th EXCEPT ![g] = r]
                BY <3>2 DEF GapBegins, Set
            <4> HIDE DEF r
            <4> QED BY <2>1, <4>1, <4>2
        <3>3. CASE GapLocks(g)
            BY <2>1, <3>1, <3>3, RecordFacts DEF GapLocks, Set
        <3> QED BY <1>9, <3>2, <3>3
    <2>4. excused' \subseteq Message
        BY <1>9, <1>o DEF GapBegins, GapLocks
    <2> QED BY <1>9, <2>3, <2>4 DEF GapBegins, GapLocks
<1>10. ASSUME NEW t \in Thread, Fetch(t) PROVE TypeOK'
    <2>1. Answer(t, th[t].scope, Page(t)) \in Item
        BY RangeFacts DEF Answer, Item, ThreadState
    <2>2. th' \in [Thread -> ThreadState]
        BY <1>10, RecordFacts DEF Fetch, Set
    <2> QED BY <1>10, <1>o, <2>1, <2>2 DEF Fetch
<1>11. ASSUME NEW t \in Thread, FetchFails(t) \/ FetchRefused(t) PROVE TypeOK'
    <2>1. th' \in [Thread -> ThreadState]
        <3>1. th' = [th EXCEPT ![t] = NextScope(t, th[t].got)]
            BY <1>11 DEF FetchFails, QueryFails, FetchRefused, Skip, Set
        <3>2. th[t].got \in Seq(Message)
            BY DEF ThreadState
        <3>3. NextScope(t, th[t].got) \in ThreadState
            BY <3>2, NextScopeFacts
        <3> QED BY <3>1, <3>3
    <2>2. faults' \in 0..MaxFaults
        BY <1>11, Bounds DEF FetchFails, QueryFails, FetchRefused, Fault
    <2> QED BY <1>11, <1>o, <2>1, <2>2 DEF FetchFails, QueryFails, FetchRefused, Skip
<1>12. ASSUME NEW t \in Thread, Check(t) PROVE TypeOK'
    <2> DEFINE fresh == Unseen(InOrder(th[t].got))
    <2>1. fresh \in Seq(Message)
        BY FreshFacts DEF ThreadState
    <2>2. /\ th' = [th EXCEPT ![t] = [th[t] EXCEPT !.got = fresh, !.pc = IF fresh = <<>> THEN "mark" ELSE "hand"]]
          /\ lastout' \in {now, lastout}
          /\ UNCHANGED <<now, server, stream, conn, process, lastin, mamseen, swapstart, faults, history>>
        BY <1>12 DEF Check, Set
    <2> HIDE DEF fresh
    <2>3. th' \in [Thread -> ThreadState]
        BY <2>1, <2>2, RecordFacts
    <2> QED BY <1>0, <2>2, <2>3
<1>13. ASSUME NEW t \in Thread, Hand(t) PROVE TypeOK'
    <2>1. /\ HandOver(Head(th[t].got), IF t = Startup THEN "drain" ELSE "gap")
          /\ again' \in {again, again \union (({Head(th[t].got)} \intersect answered) \ AllHanded)}
          /\ UNCHANGED <<now, server, stream, conn, running, connectedOnce, replay, start, buf,
                         lastout, mamseen, swapstart, faults, answered>>
        BY <1>13 DEF Hand
    <2>2. th[t].pc = "hand" /\ th[t].got \in Seq(Message) /\ th[t].got # <<>>
        BY <1>13 DEF Hand, Threads, ThreadState
    <2>3. Head(th[t].got) \in Message /\ Tail(th[t].got) \in Seq(Message)
        BY <2>2
    <2>4. th' \in [Thread -> ThreadState]
        <3>1. th' = [th EXCEPT ![t] = [th[t] EXCEPT !.got = Tail(th[t].got),
                                          !.pc = IF Tail(th[t].got) = <<>> THEN "mark" ELSE "hand"]]
            BY <1>13 DEF Hand, Set
        <3> QED BY <2>3, <3>1, RecordFacts
    <2>5. /\ seen' \subseteq Message /\ ever' \subseteq Message /\ twice' \subseteq Message
          /\ excused' \subseteq Message /\ handed' \in [By -> SUBSET Message] /\ lastin' \in Int
        BY <2>1, <2>3, <1>h DEF By
    <2> QED BY <2>1, <2>3, <2>4, <2>5
<1>14. ASSUME NEW t \in Thread, Mark(t) PROVE TypeOK'
    <2>1. th' \in [Thread -> ThreadState]
        BY <1>14, RecordFacts DEF Mark, Set
    <2> QED BY <1>0, <1>14, <1>o, <2>1 DEF Mark
<1>15. CASE UNCHANGED vars
    BY <1>15 DEF vars
<1> QED BY <1>1, <1>2, <1>3, <1>4, <1>5, <1>6, <1>7, <1>8, <1>9, <1>10, <1>11, <1>12, <1>13,
           <1>14, <1>15 DEF Next, Recovers

-----------------------------------------------------------------------------
(* How a step changes the recovery threads.                                  *)

\* Thread t is now as the four say, and no other thread moved.
Goes(t, pc, since, scope, got) ==
    /\ th'[t] = [pc |-> pc, since |-> since, scope |-> scope, got |-> got]
    /\ \A u \in Thread \ {t} : th'[u] = th[u]

\* Thread t goes on to the next archive, or ends its walk.
More(t) == th[t].scope < Len(Scopes)
Onward(t, got) ==
    Goes(t, IF More(t) THEN "fetch" ELSE IF t = Startup THEN "drain" ELSE "check",
         th[t].since, IF More(t) THEN th[t].scope + 1 ELSE th[t].scope, got)

\* One thread's record is replaced.
LEMMA Replaced ==
    ASSUME TypeOK, NEW t \in Thread, NEW pc, NEW since, NEW scope, NEW got,
           NEW r, th' = [th EXCEPT ![t] = r],
           r = [pc |-> pc, since |-> since, scope |-> scope, got |-> got]
    PROVE  Goes(t, pc, since, scope, got)
BY DEF TypeOK, Goes

\* A thread's record written out, and with other fields.
LEMMA Fields ==
    ASSUME NEW r \in ThreadState, NEW pc, NEW since, NEW q, NEW scope
    PROVE  /\ r = [pc |-> r.pc, since |-> r.since, scope |-> r.scope, got |-> r.got]
           /\ [r EXCEPT !.pc = pc] = [pc |-> pc, since |-> r.since, scope |-> r.scope, got |-> r.got]
           /\ [r EXCEPT !.since = since] = [pc |-> r.pc, since |-> since, scope |-> r.scope, got |-> r.got]
           /\ [r EXCEPT !.pc = pc, !.got = q] = [pc |-> pc, since |-> r.since, scope |-> r.scope, got |-> q]
           /\ [r EXCEPT !.got = q, !.pc = pc] = [pc |-> pc, since |-> r.since, scope |-> r.scope, got |-> q]
           /\ [r EXCEPT !.got = q, !.scope = scope, !.pc = pc]
                = [pc |-> pc, since |-> r.since, scope |-> scope, got |-> q]
<1>1. r = [pc |-> r.pc, since |-> r.since, scope |-> r.scope, got |-> r.got]
    BY DEF ThreadState
<1>2. ASSUME NEW u, NEW a, NEW b, NEW c, NEW d, u = [pc |-> a, since |-> b, scope |-> c, got |-> d]
      PROVE  /\ [u EXCEPT !.pc = pc] = [pc |-> pc, since |-> b, scope |-> c, got |-> d]
             /\ [u EXCEPT !.since = since] = [pc |-> a, since |-> since, scope |-> c, got |-> d]
             /\ [u EXCEPT !.scope = scope] = [pc |-> a, since |-> b, scope |-> scope, got |-> d]
             /\ [u EXCEPT !.got = q] = [pc |-> a, since |-> b, scope |-> c, got |-> q]
    BY <1>2
<1> DEFINE u == [r EXCEPT !.pc = pc]
           v == [r EXCEPT !.got = q]
           w == [v EXCEPT !.scope = scope]
<1>3. /\ [r EXCEPT !.pc = pc, !.got = q] = [u EXCEPT !.got = q]
      /\ [r EXCEPT !.got = q, !.pc = pc] = [v EXCEPT !.pc = pc]
      /\ [r EXCEPT !.got = q, !.scope = scope, !.pc = pc] = [w EXCEPT !.pc = pc]
    OBVIOUS
<1>4. /\ u = [pc |-> pc, since |-> r.since, scope |-> r.scope, got |-> r.got]
      /\ v = [pc |-> r.pc, since |-> r.since, scope |-> r.scope, got |-> q]
      /\ [r EXCEPT !.since = since] = [pc |-> r.pc, since |-> since, scope |-> r.scope, got |-> r.got]
    <2> DEFINE R(a, b, c, d) == [pc |-> a, since |-> b, scope |-> c, got |-> d]
    <2>1. u = R(pc, r.since, r.scope, r.got)
        BY ONLY <1>1, <1>2
    <2>2. v = R(r.pc, r.since, r.scope, q)
        BY ONLY <1>1, <1>2
    <2>3. [r EXCEPT !.since = since] = R(r.pc, since, r.scope, r.got)
        BY ONLY <1>1, <1>2
    <2> QED BY ONLY <2>1, <2>2, <2>3
<1> HIDE DEF v
<1>5. w = [pc |-> r.pc, since |-> r.since, scope |-> scope, got |-> q]
    BY <1>2, <1>4
<1> HIDE DEF u, w
<1>6. [u EXCEPT !.got = q] = [pc |-> pc, since |-> r.since, scope |-> r.scope, got |-> q]
    BY <1>2, <1>4
<1>7. [v EXCEPT !.pc = pc] = [pc |-> pc, since |-> r.since, scope |-> r.scope, got |-> q]
    BY <1>2, <1>4
<1>8. [w EXCEPT !.pc = pc] = [pc |-> pc, since |-> r.since, scope |-> scope, got |-> q]
    BY <1>2, <1>5
<1>9. [r EXCEPT !.pc = pc] = u
    BY DEF u
<1> QED BY <1>1, <1>3, <1>4, <1>6, <1>7, <1>8, <1>9

\* A thread's record with its cursor read.
LEMMA FieldsSince ==
    ASSUME NEW r \in ThreadState, NEW pc, NEW since
    PROVE  [r EXCEPT !.pc = pc, !.since = since]
             = [pc |-> pc, since |-> since, scope |-> r.scope, got |-> r.got]
<1> DEFINE u == [r EXCEPT !.pc = pc]
<1>1. [r EXCEPT !.pc = pc, !.since = since] = [u EXCEPT !.since = since]
    OBVIOUS
<1>2. u = [pc |-> pc, since |-> r.since, scope |-> r.scope, got |-> r.got]
    BY DEF ThreadState
<1> HIDE DEF u
<1>3. [u EXCEPT !.since = since] = [pc |-> pc, since |-> since, scope |-> r.scope, got |-> r.got]
    BY <1>2
<1> QED BY <1>1, <1>3

\* What each step makes of the threads.
LEMMA Moves ==
    ASSUME TypeOK
    PROVE  /\ Launch => Goes(Startup, th[Startup].pc, MamSinceFor(WindowStart),
                             th[Startup].scope, th[Startup].got)
           /\ OnFirstConnect => Goes(Startup, "fetch", th[Startup].since,
                                     th[Startup].scope, th[Startup].got)
           /\ OnReconnect => \E g \in Gap : th[g] = Idle /\ ~Answering(g)
                                            /\ Goes(g, "begin", Never, 1, <<>>)
           /\ SeedMarker => Goes(Startup, "drain", th[Startup].since,
                                 th[Startup].scope, th[Startup].got)
           /\ Drain => Goes(Startup, "check", th[Startup].since, th[Startup].scope,
                            BufferReplay(th[Startup].got))
           /\ \A g \in Gap :
                /\ GapBegins(g) /\ ReconnectSince = Never => Goes(g, "idle", Never, 1, <<>>)
                /\ GapBegins(g) /\ ReconnectSince # Never =>
                     Goes(g, "lock", ReconnectSince, th[g].scope, th[g].got)
                /\ GapLocks(g) => Goes(g, "fetch", th[g].since, th[g].scope, th[g].got)
           /\ \A t \in Thread :
                /\ Fetch(t) => Goes(t, "wait", th[t].since, th[t].scope, th[t].got)
                /\ Skip(t) => Onward(t, th[t].got)
                /\ Check(t) => LET fresh == Unseen(InOrder(th[t].got))
                               IN  Goes(t, IF fresh = <<>> THEN "mark" ELSE "hand",
                                        th[t].since, th[t].scope, fresh)
                /\ Hand(t) => Goes(t, IF Tail(th[t].got) = <<>> THEN "mark" ELSE "hand",
                                   th[t].since, th[t].scope, Tail(th[t].got))
                /\ Mark(t) => Goes(t, "idle", Never, 1, <<>>)
           /\ \A i : i.to \in Thread /\ Collect(i) =>
                \/ th' = th /\ ~(th[i.to].pc = "wait" /\ th[i.to].scope = i.scope)
                \/ /\ th[i.to].pc = "wait" /\ th[i.to].scope = i.scope
                   /\ Onward(i.to, th[i.to].got \o Only(i.page, Direct \union Room))
<1>1. Startup \in Thread /\ Gap \subseteq Thread
    BY DEF Thread
<1>2. \A t \in Thread : th[t] \in ThreadState
    BY DEF TypeOK
<1>3. ASSUME Launch
      PROVE  Goes(Startup, th[Startup].pc, MamSinceFor(WindowStart), th[Startup].scope, th[Startup].got)
    <2> DEFINE r == [th[Startup] EXCEPT !.since = MamSinceFor(WindowStart)]
    <2>1. th' = [th EXCEPT ![Startup] = r]
        BY <1>3 DEF Launch
    <2>2. r = [pc |-> th[Startup].pc, since |-> MamSinceFor(WindowStart),
               scope |-> th[Startup].scope, got |-> th[Startup].got]
        BY <1>1, <1>2, Fields
    <2> HIDE DEF r
    <2> QED BY <1>1, <2>1, <2>2, Replaced
<1>4. ASSUME NEW t \in Thread, NEW pc, th' = [th EXCEPT ![t] = [th[t] EXCEPT !.pc = pc]]
      PROVE  Goes(t, pc, th[t].since, th[t].scope, th[t].got)
    BY <1>2, <1>4, Fields, Replaced
<1>5. ASSUME NEW t \in Thread, NEW pc, NEW q,
             \/ th' = [th EXCEPT ![t] = [th[t] EXCEPT !.pc = pc, !.got = q]]
             \/ th' = [th EXCEPT ![t] = [th[t] EXCEPT !.got = q, !.pc = pc]]
      PROVE  Goes(t, pc, th[t].since, th[t].scope, q)
    <2>1. PICK r : /\ r \in {[th[t] EXCEPT !.pc = pc, !.got = q], [th[t] EXCEPT !.got = q, !.pc = pc]}
                   /\ th' = [th EXCEPT ![t] = r]
        BY <1>5
    <2>2. r = [pc |-> pc, since |-> th[t].since, scope |-> th[t].scope, got |-> q]
        BY <1>2, <2>1, Fields
    <2> QED BY <2>1, <2>2, Replaced
<1>6. ASSUME NEW t \in Thread, th' = [th EXCEPT ![t] = Idle]
      PROVE  Goes(t, "idle", Never, 1, <<>>)
    BY <1>6, Replaced DEF Idle
<1>7. ASSUME OnReconnect
      PROVE  \E g \in Gap : th[g] = Idle /\ ~Answering(g) /\ Goes(g, "begin", Never, 1, <<>>)
    <2>1. PICK g \in Gap : th[g] = Idle /\ ~Answering(g) /\ th' = [th EXCEPT ![g].pc = "begin"]
        BY <1>7 DEF OnReconnect
    <2>2. Goes(g, "begin", th[g].since, th[g].scope, th[g].got)
        BY <1>1, <1>4, <2>1
    <2> QED BY <2>1, <2>2 DEF Idle
<1>8. ASSUME NEW t \in Thread, NEW q, th' = [th EXCEPT ![t] = NextScope(t, q)]
      PROVE  Onward(t, q)
    <2>1. NextScope(t, q) = [pc |-> IF More(t) THEN "fetch" ELSE IF t = Startup THEN "drain" ELSE "check",
                             since |-> th[t].since,
                             scope |-> IF More(t) THEN th[t].scope + 1 ELSE th[t].scope, got |-> q]
        <3>1. th[t] \in ThreadState
            BY <1>2
        <3>2. CASE More(t)
            <4>1. NextScope(t, q) = [th[t] EXCEPT !.got = q, !.scope = th[t].scope + 1, !.pc = "fetch"]
                BY <3>1, <3>2 DEF NextScope, More, ThreadState
            <4> QED BY <3>1, <3>2, <4>1, Fields
        <3>3. CASE ~More(t)
            <4>1. NextScope(t, q) = [th[t] EXCEPT !.got = q, !.scope = th[t].scope,
                                           !.pc = IF t = Startup THEN "drain" ELSE "check"]
                BY <3>1, <3>3 DEF NextScope, More, ThreadState
            <4> QED BY <3>1, <3>3, <4>1, Fields
        <3> QED BY <3>2, <3>3
    <2> QED BY <1>8, <2>1, Replaced DEF Onward
<1>9. ASSUME NEW g \in Gap
      PROVE  /\ GapBegins(g) /\ ReconnectSince = Never => Goes(g, "idle", Never, 1, <<>>)
             /\ GapBegins(g) /\ ReconnectSince # Never =>
                  Goes(g, "lock", ReconnectSince, th[g].scope, th[g].got)
             /\ GapLocks(g) => Goes(g, "fetch", th[g].since, th[g].scope, th[g].got)
    <2>1. ASSUME GapBegins(g), ReconnectSince # Never
          PROVE  Goes(g, "lock", ReconnectSince, th[g].scope, th[g].got)
        <3> DEFINE r == [th[g] EXCEPT !.pc = "lock", !.since = ReconnectSince]
        <3>1. th' = [th EXCEPT ![g] = r]
            BY <2>1, Zenon DEF GapBegins, Set
        <3>2. r = [pc |-> "lock", since |-> ReconnectSince, scope |-> th[g].scope, got |-> th[g].got]
            <4>1. th[g] \in ThreadState
                BY <1>1, <1>2
            <4>2. ASSUME NEW since
                  PROVE  [th[g] EXCEPT !.pc = "lock", !.since = since]
                           = [pc |-> "lock", since |-> since, scope |-> th[g].scope, got |-> th[g].got]
                BY <4>1, FieldsSince
            <4> QED BY <4>2
        <3> HIDE DEF r
        <3> QED BY <1>1, <3>1, <3>2, Replaced
    <2>2. GapBegins(g) /\ ReconnectSince = Never => th' = [th EXCEPT ![g] = Idle]
        BY DEF GapBegins, Set
    <2>3. GapLocks(g) => th' = [th EXCEPT ![g] = [th[g] EXCEPT !.pc = "fetch"]]
        BY DEF GapLocks, Set
    <2> QED BY <1>1, <1>4, <1>6, <2>1, <2>2, <2>3
<1>10. ASSUME NEW t \in Thread
       PROVE  /\ Fetch(t) => Goes(t, "wait", th[t].since, th[t].scope, th[t].got)
              /\ Skip(t) => Onward(t, th[t].got)
              /\ Check(t) => LET fresh == Unseen(InOrder(th[t].got))
                             IN  Goes(t, IF fresh = <<>> THEN "mark" ELSE "hand",
                                      th[t].since, th[t].scope, fresh)
              /\ Hand(t) => Goes(t, IF Tail(th[t].got) = <<>> THEN "mark" ELSE "hand",
                                 th[t].since, th[t].scope, Tail(th[t].got))
              /\ Mark(t) => Goes(t, "idle", Never, 1, <<>>)
    <2>1. Fetch(t) => Goes(t, "wait", th[t].since, th[t].scope, th[t].got)
        BY <1>4 DEF Fetch, Set
    <2>2. Skip(t) => Onward(t, th[t].got)
        BY <1>8 DEF Skip, Set
    <2>3. ASSUME Check(t), NEW fresh, fresh = Unseen(InOrder(th[t].got))
          PROVE  Goes(t, IF fresh = <<>> THEN "mark" ELSE "hand", th[t].since, th[t].scope, fresh)
        BY <1>5, <2>3 DEF Check, Set
    <2>4. Hand(t) => Goes(t, IF Tail(th[t].got) = <<>> THEN "mark" ELSE "hand",
                          th[t].since, th[t].scope, Tail(th[t].got))
        BY <1>5 DEF Hand, Set
    <2>5. Mark(t) => Goes(t, "idle", Never, 1, <<>>)
        BY <1>6 DEF Mark, Set
    <2> QED BY <2>1, <2>2, <2>3, <2>4, <2>5
<1>11. ASSUME NEW i, i.to \in Thread, Collect(i)
       PROVE  \/ th' = th /\ ~(th[i.to].pc = "wait" /\ th[i.to].scope = i.scope)
              \/ /\ th[i.to].pc = "wait" /\ th[i.to].scope = i.scope
                 /\ Onward(i.to, th[i.to].got \o Only(i.page, Direct \union Room))
    <2>1. CASE th[i.to].pc = "wait" /\ th[i.to].scope = i.scope
        <3>1. th' = [th EXCEPT ![i.to] = NextScope(i.to, th[i.to].got \o Only(i.page, Direct \union Room))]
            BY <1>11, <2>1 DEF Collect, TypeOK
        <3> QED BY <1>8, <1>11, <2>1, <3>1
    <2>2. CASE ~(th[i.to].pc = "wait" /\ th[i.to].scope = i.scope)
        BY <1>11, <2>2 DEF Collect
    <2> QED BY <2>1, <2>2
<1>12. SeedMarker => Goes(Startup, "drain", th[Startup].since, th[Startup].scope, th[Startup].got)
    BY <1>1, <1>4 DEF SeedMarker, Set
<1>13. OnFirstConnect => Goes(Startup, "fetch", th[Startup].since, th[Startup].scope, th[Startup].got)
    BY <1>1, <1>4 DEF OnFirstConnect
<1>14. Drain => Goes(Startup, "check", th[Startup].since, th[Startup].scope,
                     BufferReplay(th[Startup].got))
    BY <1>1, <1>5 DEF Drain, Set
<1> QED BY <1>3, <1>7, <1>9, <1>10, <1>11, <1>12, <1>13, <1>14

-----------------------------------------------------------------------------
(* The process, the connection and the threads.                              *)

\* A thread that is under way belongs to a process that runs and has connected.
LEMMA Alive ==
    ASSUME Modes, NEW t \in Thread, th[t].pc # "idle"
    PROVE  running /\ connectedOnce
BY DEF Modes, Idle

\* What every step of a thread leaves alone.
LEMMA ThreadStep ==
    ASSUME TypeOK, Modes, NEW t \in Thread,
           \/ GapBegins(t) \/ GapLocks(t) \/ Fetch(t) \/ FetchFails(t) \/ FetchRefused(t)
           \/ Check(t) \/ Hand(t) \/ Mark(t) \/ (t = Startup /\ (SeedMarker \/ Drain))
    PROVE  /\ running /\ connectedOnce /\ running' = running /\ connectedOnce' = connectedOnce
           /\ conn' = conn /\ offline' = offline /\ swapstart' = swapstart
           /\ sent' = sent /\ stamp' = stamp /\ now' = now
           /\ buf' = IF t = Startup /\ Drain THEN <<>> ELSE buf
           /\ replay' = IF t = Startup /\ Drain THEN "off" ELSE replay
           /\ stream' = IF Fetch(t) THEN Append(stream, Answer(t, th[t].scope, Page(t))) ELSE stream
<1>1. running /\ connectedOnce
    <2>1. th[t].pc # "idle"
        BY DEF GapBegins, GapLocks, Fetch, FetchFails, QueryFails, FetchRefused, Check, Hand, Mark, SeedMarker, Drain
    <2> QED BY <2>1, Alive
<1>2. CASE GapBegins(t) \/ GapLocks(t) \/ FetchFails(t) \/ FetchRefused(t) \/ Mark(t)
    <2>1. /\ UNCHANGED <<now, server, stream, conn, process, swapstart>>
        BY <1>2 DEF GapBegins, GapLocks, FetchFails, FetchRefused, Skip, Mark, markers
    <2>2. ~Fetch(t) /\ ~(t = Startup /\ Drain)
        BY <1>2 DEF GapBegins, GapLocks, FetchFails, QueryFails, FetchRefused, Mark, Fetch, Drain
    <2> QED BY <1>1, <2>1, <2>2 DEF server, process
<1>3. CASE Fetch(t)
    <2>1. ~(t = Startup /\ Drain)
        BY <1>3 DEF Fetch, Drain
    <2> QED BY <1>1, <1>3, <2>1 DEF Fetch, server, process, markers
<1>4. CASE Check(t) \/ Hand(t)
    <2>1. ~Fetch(t) /\ ~(t = Startup /\ Drain)
        BY <1>4 DEF Check, Hand, Fetch, Drain
    <2>2. UNCHANGED <<now, server, stream, conn, running, connectedOnce, replay, buf, swapstart>>
        BY <1>4 DEF Check, Hand, process
    <2> QED BY <1>1, <2>1, <2>2 DEF server
<1>5. CASE t = Startup /\ SeedMarker
    <2>1. ~Fetch(t) /\ ~Drain
        BY <1>5 DEF SeedMarker, Fetch, Drain
    <2> QED BY <1>1, <1>5, <2>1 DEF SeedMarker, server, process
<1>6. CASE t = Startup /\ Drain
    <2>1. ~Fetch(t)
        BY <1>6 DEF Fetch, Drain
    <2> QED BY <1>1, <1>6, <2>1 DEF Drain, server, markers
<1> QED BY <1>2, <1>3, <1>4, <1>5, <1>6

\* The steps, by who takes them.
LEMMA Kinds ==
    ASSUME [Next]_vars
    PROVE  \/ Tick \/ Launch \/ Connect \/ ConnectFails \/ OnXMPPConnected \/ Drop \/ GraceEnds
           \/ Stop \/ Crash \/ Speak \/ Receive \/ UNCHANGED vars
           \/ \E m \in Message : SendMsg(m)
           \/ \E t \in Thread :
                \/ t # Startup /\ (GapBegins(t) \/ GapLocks(t))
                \/ Fetch(t) \/ FetchFails(t) \/ FetchRefused(t) \/ Check(t) \/ Hand(t) \/ Mark(t)
                \/ t = Startup /\ (SeedMarker \/ Drain)
<1>1. Gap \subseteq Thread /\ Startup \in Thread /\ \A g \in Gap : g # Startup
    BY BackfillAssumption DEF Thread
<1> QED BY <1>1 DEF Next, Recovers

\* The facts about a process that does not run survive every step.
LEMMA ModesStep ==
    ASSUME TypeOK, Modes, [Next]_vars
    PROVE  Modes'
<1>0. Startup \in Thread
    BY DEF Thread
<1>1. CASE Tick \/ UNCHANGED vars
    BY <1>1 DEF Tick, Modes, server, process, markers, history, vars
<1>2. CASE Launch
    <2>1. Goes(Startup, th[Startup].pc, MamSinceFor(WindowStart), th[Startup].scope, th[Startup].got)
        BY <1>2, Moves
    <2>2. \A t \in Thread : th'[t].pc = th[t].pc /\ th'[t].scope = th[t].scope
        BY <2>1 DEF Goes
    <2>3. running' /\ swapstart' = Never /\ replay' = "armed"
          /\ UNCHANGED <<stream, offline, conn, connectedOnce, buf>>
        BY <1>2 DEF Launch, server
    <2> QED BY <1>0, <2>2, <2>3 DEF Modes
<1>3. CASE Connect
    <2>1. running' /\ conn' = "up" /\ offline' = {} /\ UNCHANGED <<th, connectedOnce, buf, swapstart>>
          /\ (replay' = "off" => replay = "off") /\ running
        BY <1>3 DEF Connect, markers
    <2>2. \A a \in DOMAIN stream' : stream'[a].kind # "answer"
        BY <1>3, PushFacts DEF Connect
    <2> QED BY <2>1, <2>2 DEF Modes
<1>4. CASE ConnectFails
    BY <1>4 DEF ConnectFails, Modes, process, markers, history
<1>5. CASE OnXMPPConnected
    <2>1. connectedOnce' /\ conn' = "serving" /\ conn = "up" /\ running' = running
          /\ UNCHANGED <<replay, buf, offline, swapstart>>
        BY <1>5 DEF OnXMPPConnected, OnFirstConnect, OnReconnect, server, markers
    <2> QED BY <2>1 DEF Modes
<1>6. CASE Drop
    <2>1. conn' = "down" /\ stream' = <<>> /\ conn = "serving" /\ UNCHANGED <<server, process, th, markers, history>>
        BY <1>6 DEF Drop
    <2>2. \A a \in DOMAIN stream' : stream'[a].kind # "answer"
        BY <2>1
    <2> QED BY <2>1, <2>2 DEF Modes, server, process, markers
<1>7. CASE GraceEnds
    <2>1. running
        BY <1>7 DEF GraceEnds, Modes
    <2> QED BY <1>7, <2>1 DEF GraceEnds, Modes, server, markers
<1>8. CASE Stop \/ Crash
    <2>1. PICK graceful \in BOOLEAN : Ends(graceful)
        BY <1>8 DEF Stop, Crash
    <2>2. /\ running' = FALSE /\ connectedOnce' = FALSE /\ seen' = {} /\ replay' = "off"
          /\ buf' = <<>> /\ th' = [t \in Thread |-> Idle] /\ conn' = "down" /\ stream' = <<>>
          /\ handed' = [b \in By |-> {}]
        BY <2>1 DEF Ends
    <2>3. \A a \in DOMAIN stream' : stream'[a].kind # "answer"
        BY <2>2
    <2>4. \A b \in By : handed'[b] = {}
        BY <2>2
    <2>5. \A t \in Thread : th'[t].pc = "idle" /\ th'[t].scope = 1
        BY <2>2 DEF Idle
    <2> QED BY <1>0, <2>2, <2>3, <2>4, <2>5 DEF Modes
<1>9. CASE Speak
    BY <1>9 DEF Speak, Modes, server, process
<1>10. CASE Receive
    <2>1. conn = "serving" /\ running /\ connectedOnce
        BY <1>10 DEF Receive, Modes
    <2>2. UNCHANGED <<offline, conn, running, connectedOnce, replay, swapstart>>
        BY <1>10 DEF Receive, server
    <2>3. replay = "off" => buf' = buf
        BY <1>10 DEF Receive, DispatchDelayed, InWindow
    <2> QED BY <2>1, <2>2, <2>3 DEF Modes
<1>11. ASSUME NEW m \in Message, SendMsg(m) PROVE Modes'
    <2>1. /\ UNCHANGED <<conn, process, th, swapstart, handed>>
          /\ conn = "down" => stream' = stream
          /\ conn # "down" => offline' = offline /\ stream' = Append(stream, Live(m))
        BY <1>11 DEF SendMsg, markers, history
    <2>2. (\A a \in DOMAIN stream : stream[a].kind # "answer") =>
             \A a \in DOMAIN stream' : stream'[a].kind # "answer"
        <3>1. CASE conn = "down"
            BY <2>1, <3>1
        <3>2. CASE conn # "down"
            <4>1. stream \in Seq(Item) /\ Live(m).kind = "live"
                BY DEF TypeOK, Live
            <4>2. \A a \in DOMAIN stream' :
                      (stream'[a] = stream[a] /\ a \in DOMAIN stream) \/ stream'[a] = Live(m)
                BY <2>1, <3>2, <4>1
            <4> QED BY <4>1, <4>2
        <3> QED BY <3>1, <3>2
    <2> QED BY <2>1, <2>2 DEF Modes, process
<1>12. ASSUME NEW t \in Thread,
              \/ t # Startup /\ (GapBegins(t) \/ GapLocks(t))
              \/ Fetch(t) \/ FetchFails(t) \/ FetchRefused(t) \/ Check(t) \/ Hand(t) \/ Mark(t)
              \/ t = Startup /\ (SeedMarker \/ Drain)
       PROVE  Modes'
    <2>1. /\ running /\ connectedOnce /\ running' = running /\ connectedOnce' = connectedOnce
          /\ conn' = conn /\ offline' = offline /\ swapstart' = swapstart
          /\ replay' = "off" => buf' = <<>> \/ (buf' = buf /\ replay' = replay)
          /\ conn = "down" => stream' = stream
        BY <1>12, ThreadStep DEF Fetch
    <2> QED BY <2>1 DEF Modes
<1> QED BY <1>1, <1>2, <1>3, <1>4, <1>5, <1>6, <1>7, <1>8, <1>9, <1>10, <1>11, <1>12, Kinds

\* A step moves one thread to a place where its record may be.
LEMMA Placed ==
    ASSUME Threads, NEW t \in Thread, NEW pc, NEW since, NEW scope, NEW got,
           Goes(t, pc, since, scope, got),
           pc \in {"idle", "begin", "lock", "mark"} => got = <<>>,
           pc = "hand" => got # <<>>,
           pc \in {"begin", "lock"} => t # Startup /\ scope = 1,
           pc = "drain" => t = Startup,
           t # Startup /\ pc = "idle" => since = Never /\ scope = 1 /\ got = <<>>,
           t \in Gap /\ pc \in {"fetch", "wait", "check", "hand", "mark"} => Holds(t) \/ BackfillFree
    PROVE  Threads'
<1>1. /\ th'[t].pc = pc /\ th'[t].since = since /\ th'[t].scope = scope /\ th'[t].got = got
      /\ \A u \in Thread \ {t} : th'[u] = th[u]
      /\ th'[t] = [pc |-> pc, since |-> since, scope |-> scope, got |-> got]
    BY DEF Goes
<1>2. t # Startup /\ pc = "idle" => th'[t] = Idle
    BY <1>1 DEF Idle
<1>3. ASSUME NEW g \in Gap, NEW h \in Gap, Holds(g)', Holds(h)' PROVE g = h
    <2>1. g \in Thread /\ h \in Thread
        BY DEF Thread
    <2>2. CASE g = t /\ h # t
        BY <1>1, <1>3, <2>1, <2>2 DEF Holds, BackfillFree, Threads
    <2>3. CASE g # t /\ h = t
        BY <1>1, <1>3, <2>1, <2>3 DEF Holds, BackfillFree, Threads
    <2>4. CASE g # t /\ h # t
        BY <1>1, <1>3, <2>1, <2>4 DEF Holds, Threads
    <2> QED BY <2>2, <2>3, <2>4
<1>4. ASSUME NEW u \in Thread
      PROVE  /\ th'[u].pc \in {"idle", "begin", "lock", "mark"} => th'[u].got = <<>>
             /\ th'[u].pc = "hand" => th'[u].got # <<>>
             /\ th'[u].pc \in {"begin", "lock"} => u # Startup /\ th'[u].scope = 1
             /\ th'[u].pc = "drain" => u = Startup
             /\ u # Startup /\ th'[u].pc = "idle" => th'[u] = Idle
    <2>1. CASE u = t
        BY <1>1, <1>2, <2>1
    <2>2. CASE u # t
        <3>1. th'[u] = th[u]
            BY <1>1, <2>2
        <3> QED BY <3>1 DEF Threads
    <2> QED BY <2>1, <2>2
<1> QED BY <1>3, <1>4 DEF Threads

\* Where the threads are stays in order, and backfillMu has one holder.
LEMMA ThreadsStep ==
    ASSUME TypeOK, Modes, Threads, [Next]_vars
    PROVE  Threads'
<1>0. Startup \in Thread /\ Startup \notin Gap /\ \A g \in Gap : g \in Thread /\ g # Startup
    BY BackfillAssumption DEF Thread
<1>1. ASSUME th' = th PROVE Threads'
    BY <1>1 DEF Threads, Holds
<1>2. CASE Launch
    <2>1. Goes(Startup, th[Startup].pc, MamSinceFor(WindowStart), th[Startup].scope, th[Startup].got)
        BY <1>2, Moves
    <2>2. ~running
        BY <1>2 DEF Launch
    <2>3. th[Startup].pc = "idle" /\ th[Startup].got = <<>>
        BY <1>0, <2>2 DEF Modes, Idle
    <2> QED BY <1>0, <2>1, <2>3, Placed
<1>3. CASE OnXMPPConnected
    <2>1. CASE OnFirstConnect
        <3>1. Goes(Startup, "fetch", th[Startup].since, th[Startup].scope, th[Startup].got)
            BY <2>1, Moves
        <3> QED BY <1>0, <3>1, Placed
    <2>2. CASE OnReconnect
        <3>1. PICK g \in Gap : Goes(g, "begin", Never, 1, <<>>)
            BY <2>2, Moves
        <3> QED BY <1>0, <3>1, Placed
    <2> QED BY <1>3, <2>1, <2>2 DEF OnXMPPConnected
<1>4. CASE Stop \/ Crash
    <2>1. th' = [t \in Thread |-> Idle]
        BY <1>4 DEF Stop, Crash, Ends
    <2>2. \A t \in Thread : th'[t] = Idle /\ th'[t].pc = "idle" /\ th'[t].got = <<>>
        BY <2>1 DEF Idle
    <2>3. \A g \in Gap : ~Holds(g)'
        BY <1>0, <2>2 DEF Holds
    <2> QED BY <2>2, <2>3 DEF Threads
<1>5. ASSUME NEW t \in Thread, NEW q, Onward(t, q), th[t].pc \in {"fetch", "wait"} PROVE Threads'
    <2>1. t \in Gap => Holds(t)
        BY <1>5 DEF Holds
    <2>2. t \in Gap \/ t = Startup
        BY DEF Thread
    <2>3. CASE More(t)
        <3>1. Goes(t, "fetch", th[t].since, th[t].scope + 1, q)
            BY <1>5, <2>3 DEF Onward
        <3> QED BY <2>1, <3>1, Placed
    <2>4. CASE ~More(t) /\ t = Startup
        <3>1. Goes(t, "drain", th[t].since, th[t].scope, q)
            BY <1>5, <2>4 DEF Onward
        <3> QED BY <1>0, <2>4, <3>1, Placed
    <2>5. CASE ~More(t) /\ t # Startup
        <3>1. Goes(t, "check", th[t].since, th[t].scope, q)
            BY <1>5, <2>5 DEF Onward
        <3> QED BY <2>1, <2>5, <3>1, Placed
    <2> QED BY <2>3, <2>4, <2>5
<1>6. CASE Receive
    <2> DEFINE i == Head(stream)
    <2>1. i \in Item
        BY <1>6 DEF Receive, TypeOK
    <2>2. CASE i.kind # "answer"
        BY <1>1, <1>6, <2>2 DEF Receive
    <2>3. CASE i.kind = "answer"
        <3>1. i.to \in Thread
            BY <2>1, <2>3 DEF Item
        <3>2. Collect(i)
            BY <1>6, <2>3 DEF Receive
        <3> HIDE DEF i
        <3>3. th' = th \/ (th[i.to].pc = "wait" /\ Onward(i.to, th[i.to].got \o Only(i.page, Direct \union Room)))
            BY <3>1, <3>2, Moves
        <3> QED BY <1>1, <1>5, <3>1, <3>3
    <2> QED BY <2>2, <2>3
<1>7. ASSUME NEW t \in Thread, FetchFails(t) \/ FetchRefused(t) PROVE Threads'
    <2>1. Skip(t) /\ th[t].pc \in {"fetch", "wait"}
        BY <1>7 DEF FetchFails, QueryFails, FetchRefused
    <2> QED BY <1>5, <2>1, Moves
<1>8. ASSUME NEW t \in Gap, GapBegins(t) PROVE Threads'
    <2>1. th[t].pc = "begin" /\ th[t].got = <<>> /\ th[t].scope = 1
        BY <1>0, <1>8 DEF GapBegins, Threads
    <2>2. CASE ReconnectSince = Never
        <3>1. Goes(t, "idle", Never, 1, <<>>)
            BY <1>8, <2>2, Moves
        <3> QED BY <1>0, <3>1, Placed
    <2>3. CASE ReconnectSince # Never
        <3>1. Goes(t, "lock", ReconnectSince, th[t].scope, th[t].got)
            BY <1>8, <2>3, Moves
        <3> QED BY <1>0, <2>1, <3>1, Placed
    <2> QED BY <2>2, <2>3
<1>9. ASSUME NEW t \in Gap, GapLocks(t) PROVE Threads'
    <2>1. Goes(t, "fetch", th[t].since, th[t].scope, th[t].got) /\ BackfillFree
        BY <1>9, Moves DEF GapLocks
    <2> QED BY <1>0, <2>1, Placed
<1>10. ASSUME NEW t \in Thread, Fetch(t) PROVE Threads'
    <2>1. Goes(t, "wait", th[t].since, th[t].scope, th[t].got) /\ th[t].pc = "fetch"
        BY <1>10, Moves DEF Fetch
    <2>2. t \in Gap => Holds(t)
        BY <2>1 DEF Holds
    <2> QED BY <2>1, <2>2, Placed
<1>11. ASSUME NEW t \in Thread, NEW q, th[t].pc \in {"check", "hand"},
              Goes(t, IF q = <<>> THEN "mark" ELSE "hand", th[t].since, th[t].scope, q)
       PROVE  Threads'
    <2>1. t \in Gap => Holds(t)
        BY <1>11 DEF Holds
    <2>2. CASE q = <<>>
        <3>1. Goes(t, "mark", th[t].since, th[t].scope, q)
            BY <1>11, <2>2
        <3> QED BY <2>1, <2>2, <3>1, Placed
    <2>3. CASE q # <<>>
        <3>1. Goes(t, "hand", th[t].since, th[t].scope, q)
            BY <1>11, <2>3
        <3> QED BY <2>1, <2>3, <3>1, Placed
    <2> QED BY <2>2, <2>3
<1>12. ASSUME NEW t \in Thread, Check(t) \/ Hand(t) PROVE Threads'
    <2>1. th[t].pc \in {"check", "hand"}
        BY <1>12 DEF Check, Hand
    <2>2. CASE Check(t)
        <3> DEFINE fresh == Unseen(InOrder(th[t].got))
        <3>1. Goes(t, IF fresh = <<>> THEN "mark" ELSE "hand", th[t].since, th[t].scope, fresh)
            BY <2>2, Moves
        <3> HIDE DEF fresh
        <3> QED BY <1>11, <2>1, <3>1
    <2>3. CASE Hand(t)
        <3> DEFINE rest == Tail(th[t].got)
        <3>1. Goes(t, IF rest = <<>> THEN "mark" ELSE "hand", th[t].since, th[t].scope, rest)
            BY <2>3, Moves
        <3> HIDE DEF rest
        <3> QED BY <1>11, <2>1, <3>1
    <2> QED BY <1>12, <2>2, <2>3
<1>13. ASSUME NEW t \in Thread, Mark(t) PROVE Threads'
    <2>1. Goes(t, "idle", Never, 1, <<>>)
        BY <1>13, Moves
    <2> QED BY <2>1, Placed
<1>14. CASE SeedMarker
    <2>1. Goes(Startup, "drain", th[Startup].since, th[Startup].scope, th[Startup].got)
        BY <1>14, Moves
    <2> QED BY <1>0, <2>1, Placed
<1>15. CASE Drain
    <2>1. Goes(Startup, "check", th[Startup].since, th[Startup].scope, BufferReplay(th[Startup].got))
        BY <1>15, Moves
    <2> QED BY <1>0, <2>1, Placed
<1>16. CASE Tick \/ Connect \/ ConnectFails \/ Drop \/ GraceEnds \/ Speak \/ UNCHANGED vars
            \/ \E m \in Message : SendMsg(m)
    BY <1>1, <1>16 DEF Tick, Connect, ConnectFails, Drop, GraceEnds, Speak, SendMsg, vars
<1>17. Gap = Thread \ {Startup}
    BY <1>0 DEF Thread
<1> QED BY <1>2, <1>3, <1>4, <1>6, <1>7, <1>8, <1>9, <1>10, <1>12, <1>13, <1>14, <1>15, <1>16,
           <1>17, Kinds

\* A cursor is a clock reading: no later than now, and either absent or later than Never.
LEMMA Cursors ==
    ASSUME TypeOK, Clock
    PROVE  /\ WindowStart \in Int /\ WindowStart =< now
           /\ MamSinceFor(WindowStart) \in Int /\ MamSinceFor(WindowStart) =< now
           /\ ReconnectSince \in Int /\ ReconnectSince =< now
           /\ now \in Nat
<1>1. /\ now \in Nat /\ lastin \in Int /\ lastout \in Int /\ mamseen \in Int /\ swapstart \in Int
      /\ lastin =< now /\ lastout =< now /\ mamseen =< now /\ swapstart =< now
    BY Bounds DEF TypeOK, Clock
<1>2. WindowStart \in Int /\ WindowStart =< now
    BY <1>1 DEF WindowStart
<1>3. MamSinceFor(WindowStart) \in Int /\ MamSinceFor(WindowStart) =< now
    BY <1>1, <1>2 DEF MamSinceFor, Later, Never
<1>4. ReconnectSince \in Int /\ ReconnectSince =< now
    BY <1>1, Bounds DEF ReconnectSince, Later, Never
<1> QED BY <1>1, <1>2, <1>3, <1>4

\* How a step moves the clock, the markers and the archive.
LEMMA Readings ==
    ASSUME TypeOK, Modes, [Next]_vars
    PROVE  /\ now' = now \/ now' = now + 1
           /\ lastin' = lastin \/ lastin' = now
           /\ lastout' = lastout \/ (lastout' = now /\ running)
           /\ mamseen' = mamseen \/ mamseen' = now
           /\ swapstart' = swapstart \/ swapstart' = Never \/ swapstart' = now
           /\ swapstart' # Never => lastout' = lastout
           /\ \/ sent' = sent /\ stamp' = stamp
              \/ \E m \in Message : /\ stamp[m] = Never /\ stamp' = [stamp EXCEPT ![m] = now]
                                    /\ sent' = Append(sent, m)
<1>1. CASE Tick \/ Launch \/ Connect \/ ConnectFails \/ OnXMPPConnected \/ Drop \/ GraceEnds
           \/ UNCHANGED vars
    BY <1>1 DEF Tick, Launch, Connect, ConnectFails, OnXMPPConnected, Drop, GraceEnds, vars, server, markers
<1>2. CASE Stop \/ Crash
    BY <1>2 DEF Stop, Crash, Ends, server
<1>3. CASE Speak
    BY <1>3 DEF Speak, server, Modes
<1>4. CASE Receive
    BY <1>4 DEF Receive, server, DispatchFresh, DispatchDelayed, HandOver, Modes
<1>5. ASSUME NEW m \in Message, SendMsg(m)
      PROVE  /\ UNCHANGED <<now, markers>> /\ stamp[m] = Never /\ stamp' = [stamp EXCEPT ![m] = now]
             /\ sent' = Append(sent, m)
    BY <1>5 DEF SendMsg
<1>6. ASSUME NEW t \in Thread,
             \/ t # Startup /\ (GapBegins(t) \/ GapLocks(t))
             \/ Fetch(t) \/ FetchFails(t) \/ FetchRefused(t) \/ Check(t) \/ Hand(t) \/ Mark(t)
             \/ t = Startup /\ (SeedMarker \/ Drain)
      PROVE  /\ UNCHANGED <<now, sent, stamp, swapstart>> /\ running /\ swapstart = Never
             /\ lastin' = lastin \/ lastin' = now
             /\ lastout' = lastout \/ lastout' = now
             /\ mamseen' = mamseen \/ mamseen' = now
    <2>1. UNCHANGED <<now, sent, stamp, swapstart>> /\ running /\ swapstart = Never
        BY <1>6, ThreadStep DEF Modes
    <2>2. lastin' = lastin \/ lastin' = now
        BY <1>6 DEF GapBegins, GapLocks, Fetch, FetchFails, FetchRefused, Skip, Check, Hand, HandOver,
                    Mark, SeedMarker, Drain, markers
    <2>3. lastout' = lastout \/ lastout' = now
        BY <1>6 DEF GapBegins, GapLocks, Fetch, FetchFails, FetchRefused, Skip, Check, Hand, HandOver,
                    Mark, SeedMarker, Drain, markers
    <2>4. mamseen' = mamseen \/ mamseen' = now
        BY <1>6 DEF GapBegins, GapLocks, Fetch, FetchFails, FetchRefused, Skip, Check, Hand, HandOver,
                    Mark, SeedMarker, Drain, markers
    <2> QED BY <2>1, <2>2, <2>3, <2>4
<1>7. (\E m \in Message : SendMsg(m)) =>
        /\ UNCHANGED <<now, lastin, lastout, mamseen, swapstart>>
        /\ \E m \in Message : /\ stamp[m] = Never /\ stamp' = [stamp EXCEPT ![m] = now]
                              /\ sent' = Append(sent, m)
    BY <1>5 DEF markers
<1> QED BY <1>1, <1>2, <1>3, <1>4, <1>6, <1>7, Kinds

-----------------------------------------------------------------------------
(* The clock, the archive and what recoveries hold.                          *)

\* A sequence with one member more.
LEMMA Appended ==
    ASSUME NEW S, NEW s \in Seq(S), NEW m \in S
    PROVE  LET q == Append(s, m)
           IN  /\ q \in Seq(S) /\ ToSet(q) = ToSet(s) \union {m}
               /\ Len(q) = Len(s) + 1 /\ Len(s) \in Nat /\ DOMAIN s = 1..Len(s) /\ DOMAIN q = 1..Len(q)
               /\ \A a \in DOMAIN s : a \in DOMAIN q /\ q[a] = s[a]
               /\ q[Len(s) + 1] = m /\ Len(s) + 1 \in DOMAIN q
               /\ \A a \in DOMAIN q : a \in DOMAIN s \/ a = Len(s) + 1
               /\ Distinct(s) /\ m \notin ToSet(s) => Distinct(q)
<1> DEFINE q == Append(s, m)
<1>1. q \in Seq(S) /\ Len(q) = Len(s) + 1 /\ Len(s) \in Nat /\ DOMAIN s = 1..Len(s) /\ DOMAIN q = 1..Len(q)
    OBVIOUS
<1>2. /\ \A a \in DOMAIN s : a \in DOMAIN q /\ q[a] = s[a]
      /\ q[Len(s) + 1] = m /\ Len(s) + 1 \in DOMAIN q
    OBVIOUS
<1>3. \A a \in DOMAIN q : a \in DOMAIN s \/ a = Len(s) + 1
    BY <1>1
<1> HIDE DEF q
<1>4. ToSet(q) = ToSet(s) \union {m}
    BY <1>2, <1>3 DEF ToSet
<1>5. ASSUME Distinct(s), m \notin ToSet(s) PROVE Distinct(q)
    <2>1. \A a \in DOMAIN s : s[a] # m
        BY <1>5 DEF ToSet
    <2> QED BY <1>2, <1>3, <1>5, <2>1 DEF Distinct
<1> QED BY <1>1, <1>2, <1>3, <1>4, <1>5 DEF q

\* A thread starts its walk at a clock reading of the past.
LEMMA SinceStep ==
    ASSUME TypeOK, Clock, [Next]_vars, NEW u \in Thread
    PROVE  \/ th'[u].since = th[u].since
           \/ th'[u].since = Never
           \/ u = Startup /\ Launch /\ th'[u].since = MamSinceFor(WindowStart)
           \/ u \in Gap /\ GapBegins(u) /\ th'[u].since = ReconnectSince /\ ReconnectSince # Never
<1>0. Startup \in Thread /\ Gap = Thread \ {Startup}
    BY BackfillAssumption DEF Thread
<1>1. ASSUME NEW t \in Thread, NEW pc, NEW since, NEW scope, NEW got, Goes(t, pc, since, scope, got)
      PROVE  th'[t].since = since /\ (u # t => th'[u].since = th[u].since)
    BY <1>1 DEF Goes
<1>2. ASSUME NEW t \in Thread, NEW q, Onward(t, q) PROVE th'[u].since = th[u].since
    BY <1>1, <1>2 DEF Onward
<1>3. CASE Tick \/ Connect \/ ConnectFails \/ Drop \/ GraceEnds \/ Speak \/ UNCHANGED vars
            \/ \E m \in Message : SendMsg(m)
    BY <1>3 DEF Tick, Connect, ConnectFails, Drop, GraceEnds, Speak, SendMsg, vars
<1>4. CASE Launch
    BY <1>0, <1>1, <1>4, Moves
<1>5. CASE OnXMPPConnected
    BY <1>0, <1>1, <1>5, Moves DEF OnXMPPConnected
<1>6. CASE Stop \/ Crash
    BY <1>6 DEF Stop, Crash, Ends, Idle
<1>7. CASE Receive
    <2> DEFINE i == Head(stream)
    <2>1. i \in Item
        BY <1>7 DEF Receive, TypeOK
    <2>2. CASE i.kind # "answer"
        BY <1>7, <2>2 DEF Receive
    <2>3. CASE i.kind = "answer"
        <3>1. i.to \in Thread
            BY <2>1, <2>3 DEF Item
        <3>2. Collect(i)
            BY <1>7, <2>3 DEF Receive
        <3> HIDE DEF i
        <3>3. th' = th \/ Onward(i.to, th[i.to].got \o Only(i.page, Direct \union Room))
            BY <3>1, <3>2, Moves
        <3> QED BY <1>2, <3>1, <3>3
    <2> QED BY <2>2, <2>3
<1>8. ASSUME NEW t \in Thread, t # Startup, GapBegins(t)
      PROVE  \/ th'[u].since = th[u].since \/ th'[u].since = Never
             \/ u \in Gap /\ GapBegins(u) /\ th'[u].since = ReconnectSince /\ ReconnectSince # Never
    <2>1. t \in Gap
        BY <1>0, <1>8
    <2>2. CASE ReconnectSince = Never
        <3>1. Goes(t, "idle", Never, 1, <<>>)
            BY <1>8, <2>1, <2>2, Moves
        <3> QED BY <1>1, <3>1
    <2>3. CASE ReconnectSince # Never
        <3>1. Goes(t, "lock", ReconnectSince, th[t].scope, th[t].got)
            BY <1>8, <2>1, <2>3, Moves
        <3>2. CASE u = t
            BY <1>1, <1>8, <2>1, <2>3, <3>1, <3>2
        <3> QED BY <1>1, <3>1, <3>2
    <2> QED BY <2>2, <2>3
<1>9. ASSUME NEW t \in Thread, \/ t # Startup /\ GapLocks(t)
                               \/ Fetch(t) \/ FetchFails(t) \/ FetchRefused(t)
                               \/ Hand(t) \/ Mark(t) \/ (t = Startup /\ (SeedMarker \/ Drain))
      PROVE  th'[u].since = th[u].since \/ th'[u].since = Never
    <2>1. CASE FetchFails(t) \/ FetchRefused(t)
        <3>1. Skip(t)
            BY <2>1 DEF FetchFails, QueryFails, FetchRefused
        <3> QED BY <1>2, <3>1, Moves
    <2>2. CASE t # Startup /\ GapLocks(t)
        <3>1. Goes(t, "fetch", th[t].since, th[t].scope, th[t].got)
            BY <1>0, <2>2, Moves
        <3> QED BY <1>1, <3>1
    <2>3. CASE Hand(t)
        <3>1. Goes(t, IF Tail(th[t].got) = <<>> THEN "mark" ELSE "hand",
                    th[t].since, th[t].scope, Tail(th[t].got))
            BY <2>3, Moves
        <3> QED BY <1>1, <3>1
    <2>4. CASE Fetch(t)
        <3>1. Goes(t, "wait", th[t].since, th[t].scope, th[t].got)
            BY <2>4, Moves
        <3> QED BY <1>1, <3>1
    <2>5. CASE Mark(t)
        <3>1. Goes(t, "idle", Never, 1, <<>>)
            BY <2>5, Moves
        <3> QED BY <1>1, <3>1
    <2>6. CASE t = Startup /\ SeedMarker
        <3>1. Goes(t, "drain", th[t].since, th[t].scope, th[t].got)
            BY <2>6, Moves
        <3> QED BY <1>1, <3>1
    <2>7. CASE t = Startup /\ Drain
        <3>1. Goes(t, "check", th[t].since, th[t].scope, BufferReplay(th[t].got))
            BY <2>7, Moves
        <3> QED BY <1>1, <3>1
    <2> QED BY <1>9, <2>1, <2>2, <2>3, <2>4, <2>5, <2>6, <2>7
<1>10. ASSUME NEW t \in Thread, Check(t) PROVE th'[u].since = th[u].since
    <2> DEFINE fresh == Unseen(InOrder(th[t].got))
    <2>1. Goes(t, IF fresh = <<>> THEN "mark" ELSE "hand", th[t].since, th[t].scope, fresh)
        BY <1>10, Moves
    <2> QED BY <1>1, <2>1
<1> QED BY <1>3, <1>4, <1>5, <1>6, <1>7, <1>8, <1>9, <1>10, Kinds

\* Clock readings stay in the past.
LEMMA ClockStep ==
    ASSUME TypeOK, Modes, Clock, [Next]_vars
    PROVE  Clock'
<1>1. /\ now \in Int /\ lastin \in Int /\ lastout \in Int /\ mamseen \in Int /\ swapstart \in Int
      /\ Never \in Int /\ Never =< now /\ stamp \in [Message -> Int] /\ sent \in Seq(Message)
      /\ \A t \in Thread : th[t].since \in Int
    BY Cursors DEF TypeOK, Never, ThreadState
<1>2. now' = now \/ now' = now + 1
    BY Readings
<1>3. /\ lastin' =< now' /\ lastout' =< now' /\ mamseen' =< now' /\ swapstart' =< now'
      /\ Never =< lastin' /\ Never =< lastout' /\ Never =< mamseen' /\ Never =< swapstart'
    <2>1. /\ lastin' = lastin \/ lastin' = now
          /\ lastout' = lastout \/ lastout' = now
          /\ mamseen' = mamseen \/ mamseen' = now
          /\ swapstart' = swapstart \/ swapstart' = Never \/ swapstart' = now
        BY Readings
    <2>2. /\ lastin =< now /\ lastout =< now /\ mamseen =< now /\ swapstart =< now
          /\ Never =< lastin /\ Never =< lastout /\ Never =< mamseen /\ Never =< swapstart
        BY DEF Clock
    <2> HIDE DEF Never
    <2> QED BY ONLY <1>1, <1>2, <2>1, <2>2
<1>4. swapstart' # Never => lastout' =< swapstart'
    <2>1. /\ swapstart' = swapstart \/ swapstart' = Never \/ swapstart' = now
          /\ swapstart' # Never => lastout' = lastout
        BY Readings
    <2>2. lastout =< now /\ (swapstart # Never => lastout =< swapstart)
        BY DEF Clock
    <2> QED BY <2>1, <2>2
<1>5. \A t \in Thread : th'[t].since =< now'
    <2>1. ASSUME NEW t \in Thread PROVE th'[t].since =< now
        <3>1. /\ th[t].since =< now /\ MamSinceFor(WindowStart) =< now /\ ReconnectSince =< now
            BY Cursors DEF Clock
        <3>2. \/ th'[t].since = th[t].since \/ th'[t].since = Never
              \/ th'[t].since = MamSinceFor(WindowStart) \/ th'[t].since = ReconnectSince
            BY SinceStep
        <3> QED BY <1>1, <3>1, <3>2
    <2>2. \A t \in Thread : th'[t].since \in Int
        <3>1. ASSUME NEW t \in Thread PROVE th'[t].since \in Int
            BY <1>1, SinceStep, Cursors
        <3> QED BY <3>1
    <2> QED BY <1>1, <1>2, <2>1, <2>2
<1>6. /\ \A m \in Message : Never =< stamp'[m] /\ stamp'[m] =< now'
      /\ \A m \in Message : m \in ToSet(sent') <=> stamp'[m] # Never
      /\ Distinct(sent')
    <2>0. /\ \A m \in Message : Never =< stamp[m] /\ stamp[m] =< now
          /\ \A m \in Message : m \in ToSet(sent) <=> stamp[m] # Never
          /\ Distinct(sent)
        BY DEF Clock
    <2>n. now # Never
        BY Cursors DEF Never
    <2>1. CASE sent' = sent /\ stamp' = stamp
        BY <1>1, <1>2, <2>0, <2>1
    <2>2. ASSUME NEW m \in Message, stamp[m] = Never, stamp' = [stamp EXCEPT ![m] = now],
                 sent' = Append(sent, m)
          PROVE  /\ \A k \in Message : Never =< stamp'[k] /\ stamp'[k] =< now'
                 /\ \A k \in Message : k \in ToSet(sent') <=> stamp'[k] # Never
                 /\ Distinct(sent')
        <3>1. m \notin ToSet(sent)
            BY <2>0, <2>2
        <3>2. ToSet(sent') = ToSet(sent) \union {m} /\ Distinct(sent')
            BY <1>1, <2>0, <2>2, <3>1, Appended
        <3>3. \A k \in Message : stamp'[k] = IF k = m THEN now ELSE stamp[k]
            BY <1>1, <2>2
        <3> QED BY <1>1, <1>2, <2>0, <2>n, <3>2, <3>3
    <2> QED BY <2>1, <2>2, Readings
<1> QED BY <1>3, <1>4, <1>5, <1>6 DEF Clock

-----------------------------------------------------------------------------
(* What is handed over and what is held.                                     *)

\* What recoveries other than t hold.
Rest(t) == UNION {ToSet(th[u].got) : u \in Thread \ {t}}

\* A step that moves one thread.
LEMMA HeldGoes ==
    ASSUME NEW t \in Thread, NEW pc, NEW since, NEW scope, NEW got, Goes(t, pc, since, scope, got)
    PROVE  /\ Held = ToSet(buf) \union Rest(t) \union ToSet(th[t].got)
           /\ Held' = ToSet(buf') \union Rest(t) \union ToSet(got)
<1>1. th'[t].got = got /\ \A u \in Thread \ {t} : th'[u].got = th[u].got
    BY DEF Goes
<1>2. UNION {ToSet(th'[u].got) : u \in Thread \ {t}} = Rest(t)
    BY <1>1 DEF Rest
<1>3. Held = ToSet(buf) \union Rest(t) \union ToSet(th[t].got)
    BY DEF Held, Rest
<1>4. UNION {ToSet(th'[u].got) : u \in Thread}
        = (UNION {ToSet(th'[u].got) : u \in Thread \ {t}}) \union ToSet(th'[t].got)
    OBVIOUS
<1>5. Held' = ToSet(buf') \union UNION {ToSet(th'[u].got) : u \in Thread}
    BY DEF Held
<1> QED BY <1>1, <1>2, <1>3, <1>4, <1>5

\* Nothing changes hands.
Quiet == Held' = Held /\ UNCHANGED <<ever, seen, handed, twice>>

\* A message is handed over.
LEMMA HandOverFacts ==
    ASSUME TypeOK, NEW m \in Message, NEW by \in By, HandOver(m, by)
    PROVE  /\ seen' = seen \union {m} /\ ever' = ever \union {m} /\ lastin' = now
           /\ AllHanded' = AllHanded \union {m}
           /\ handed'[by] = handed[by] \union {m} /\ \A b \in By \ {by} : handed'[b] = handed[b]
           /\ twice' = twice \union ({m} \cap handed[by])
           /\ excused' = excused \union (Behind \ {m})
<1>1. handed' = [handed EXCEPT ![by] = handed[by] \union {m}] /\ handed \in [By -> SUBSET Message]
    BY DEF HandOver, TypeOK
<1>2. handed'[by] = handed[by] \union {m} /\ \A b \in By \ {by} : handed'[b] = handed[b]
    BY <1>1
<1>3. AllHanded' = AllHanded \union {m}
    BY <1>2 DEF AllHanded
<1> QED BY <1>2, <1>3 DEF HandOver

\* The steps of the server, of launches and of connections.
LEMMA OuterQuiet ==
    ASSUME TypeOK, Modes, Threads,
           \/ Tick \/ Launch \/ Connect \/ ConnectFails \/ OnXMPPConnected \/ Drop \/ GraceEnds
           \/ Speak \/ UNCHANGED vars \/ \E m \in Message : SendMsg(m)
    PROVE  Quiet /\ UNCHANGED buf /\ \A t \in Thread : th'[t].got = th[t].got
<1>0. Startup \in Thread /\ Gap \subseteq Thread
    BY DEF Thread
<1>1. UNCHANGED <<buf, ever, seen, handed, twice>>
    BY DEF Tick, Launch, Connect, ConnectFails, OnXMPPConnected, Drop, GraceEnds, Speak, SendMsg, vars,
           process, history
<1>2. \A t \in Thread : th'[t].got = th[t].got
    <2>1. CASE Launch
        BY <1>0, <2>1, Moves DEF Goes
    <2>2. CASE OnXMPPConnected
        <3>1. CASE OnFirstConnect
            BY <1>0, <3>1, Moves DEF Goes
        <3>2. CASE OnReconnect
            <4>1. PICK g \in Gap : th[g] = Idle /\ Goes(g, "begin", Never, 1, <<>>)
                BY <3>2, Moves
            <4> QED BY <1>0, <4>1 DEF Goes, Idle
        <3> QED BY <2>2, <3>1, <3>2 DEF OnXMPPConnected
    <2>3. CASE Tick \/ Connect \/ ConnectFails \/ Drop \/ GraceEnds \/ Speak \/ UNCHANGED vars
                \/ \E m \in Message : SendMsg(m)
        BY <2>3 DEF Tick, Connect, ConnectFails, Drop, GraceEnds, Speak, SendMsg, vars
    <2> QED BY <2>1, <2>2, <2>3
<1>3. Held' = Held
    <2>1. {ToSet(th'[t].got) : t \in Thread} = {ToSet(th[t].got) : t \in Thread}
        BY <1>2
    <2> QED BY <1>1, <2>1 DEF Held
<1> QED BY <1>1, <1>2, <1>3 DEF Quiet

\* The end of a process.
LEMMA EndFacts ==
    ASSUME Stop \/ Crash
    PROVE  /\ Held' = {} /\ buf' = <<>> /\ stream' = <<>> /\ seen' = {} /\ AllHanded' = {}
           /\ UNCHANGED <<now, server, lastin, lastout, mamseen, ever, twice, answered, again>>
           /\ \A t \in Thread : th'[t] = Idle
           /\ \A b \in By : handed'[b] = {}
<1>1. PICK graceful \in BOOLEAN : Ends(graceful)
    BY DEF Stop, Crash
<1>2. /\ seen' = {} /\ buf' = <<>> /\ th' = [t \in Thread |-> Idle] /\ stream' = <<>>
      /\ handed' = [b \in By |-> {}]
      /\ UNCHANGED <<now, server, lastin, lastout, mamseen, ever, twice, answered, again>>
    BY <1>1 DEF Ends
<1>3. \A t \in Thread : th'[t] = Idle /\ th'[t].got = <<>>
    BY <1>2 DEF Idle
<1>4. \A b \in By : handed'[b] = {}
    BY <1>2
<1>5. ToSet(<<>>) = {}
    BY DEF ToSet
<1>6. Held' = {}
    BY <1>2, <1>3, <1>5 DEF Held
<1>7. AllHanded' = {}
    BY <1>4 DEF AllHanded
<1> QED BY <1>2, <1>3, <1>4, <1>6, <1>7

\* The steps of a recovery that neither drop nor hand over anything.
LEMMA ThreadQuiet ==
    ASSUME TypeOK, Modes, Threads, NEW t \in Thread,
           \/ t # Startup /\ (GapBegins(t) \/ GapLocks(t))
           \/ Fetch(t) \/ FetchFails(t) \/ FetchRefused(t) \/ Mark(t)
           \/ t = Startup /\ (SeedMarker \/ Drain)
    PROVE  Quiet
<1>0. Startup \in Thread /\ Gap = Thread \ {Startup}
    BY BackfillAssumption DEF Thread
<1>1. UNCHANGED <<ever, seen, handed, twice>>
    BY DEF GapBegins, GapLocks, Fetch, FetchFails, FetchRefused, Skip, Mark, SeedMarker, Drain, process, history
<1>2. ASSUME NEW pc, NEW since, NEW scope, NEW got, Goes(t, pc, since, scope, got),
             buf' = buf, ToSet(got) = ToSet(th[t].got)
      PROVE  Quiet
    BY <1>1, <1>2, HeldGoes DEF Quiet
<1>3. CASE t # Startup /\ GapBegins(t)
    <2>1. th[t].got = <<>> /\ t \in Gap /\ buf' = buf
        BY <1>0, <1>3 DEF GapBegins, Threads, process
    <2>2. CASE ReconnectSince = Never
        BY <1>2, <1>3, <2>1, <2>2, Moves
    <2>3. CASE ReconnectSince # Never
        BY <1>2, <1>3, <2>1, <2>3, Moves
    <2> QED BY <2>2, <2>3
<1>4. CASE t # Startup /\ GapLocks(t)
    <2>1. t \in Gap /\ buf' = buf
        BY <1>0, <1>4 DEF GapLocks, process
    <2> QED BY <1>2, <1>4, <2>1, Moves
<1>5. CASE Fetch(t)
    <2>1. buf' = buf
        BY <1>5 DEF Fetch, process
    <2> QED BY <1>2, <1>5, <2>1, Moves
<1>6. CASE FetchFails(t) \/ FetchRefused(t)
    <2>1. Skip(t) /\ buf' = buf
        BY <1>6 DEF FetchFails, QueryFails, FetchRefused, Skip, process
    <2>2. Onward(t, th[t].got)
        BY <2>1, Moves
    <2> QED BY <1>2, <2>1, <2>2 DEF Onward
<1>7. CASE Mark(t)
    <2>1. buf' = buf /\ th[t].got = <<>>
        BY <1>7 DEF Mark, process, Threads
    <2> QED BY <1>2, <1>7, <2>1, Moves
<1>8. CASE t = Startup /\ SeedMarker
    <2>1. buf' = buf
        BY <1>8 DEF SeedMarker, process
    <2> QED BY <1>2, <1>8, <2>1, Moves
<1>9. CASE t = Startup /\ Drain
    <2>1. buf' = <<>> /\ buf \in Seq(Message) /\ th[t].got \in Seq(Message)
        BY <1>9 DEF Drain, TypeOK, ThreadState
    <2>2. Goes(t, "check", th[t].since, th[t].scope, BufferReplay(th[t].got))
        BY <1>9, Moves
    <2>3. ToSet(BufferReplay(th[t].got)) = ToSet(buf) \union ToSet(th[t].got) /\ ToSet(<<>>) = {}
        <3>1. ToSet(BufferReplay(th[t].got)) = ToSet(buf) \union ToSet(th[t].got)
            BY <2>1, BufferFacts
        <3> QED BY <3>1 DEF ToSet
    <2>4. Held' = Held
        <3>1. ToSet(buf') = {}
            BY <2>1, <2>3
        <3>2. Held' = ToSet(buf') \union Rest(t) \union ToSet(BufferReplay(th[t].got))
              /\ Held = ToSet(buf) \union Rest(t) \union ToSet(th[t].got)
            BY <2>2, HeldGoes
        <3> QED BY <2>3, <3>1, <3>2
    <2> QED BY <1>1, <2>4 DEF Quiet
<1> QED BY <1>3, <1>4, <1>5, <1>6, <1>7, <1>8, <1>9

\* What the read loop makes of the next item: it hands a message over, keeps it for
\* the drain, lets it go, or gives an answer to the query that waits for it.
LEMMA ReceiveFacts ==
    ASSUME TypeOK, Modes, Threads, Receive
    PROVE  LET i == Head(stream) IN
           /\ i \in Item /\ i = stream[1] /\ 1 \in DOMAIN stream /\ stream' = Tail(stream)
           /\ conn = "serving" /\ offline = {} /\ running /\ connectedOnce
           /\ UNCHANGED <<now, server, conn, running, connectedOnce, replay, start,
                          lastout, mamseen, swapstart, faults, answered, again>>
           /\ \/ /\ Copy(i) /\ i.msg \in Message \ (seen \union Own) /\ HandOver(i.msg, "loop")
                 /\ Held' = Held /\ UNCHANGED <<th, buf>>
              \/ /\ i.kind = "push" /\ i.msg \in Message /\ buf' = BufferReplay(<<i.msg>>)
                 /\ Held' = Held \union {i.msg} /\ replay = "open"
                 /\ UNCHANGED <<th, seen, lastin, handed, ever, twice, excused>>
              \/ /\ Copy(i) /\ (i.kind = "live" => i.msg \in seen \union Own) /\ Quiet
                 /\ UNCHANGED <<th, buf, lastin, excused>>
              \/ /\ i.kind = "answer" /\ i.to \in Thread /\ Quiet
                 /\ ~(th[i.to].pc = "wait" /\ th[i.to].scope = i.scope)
                 /\ UNCHANGED <<th, buf, lastin, excused>>
              \/ /\ i.kind = "answer" /\ i.to \in Thread /\ i.page \in Seq(Message)
                 /\ th[i.to].pc = "wait" /\ th[i.to].scope = i.scope
                 /\ Onward(i.to, th[i.to].got \o Only(i.page, Direct \union Room))
                 /\ Held' = Held \union (ToSet(i.page) \ Own)
                 /\ UNCHANGED <<buf, seen, lastin, handed, ever, twice, excused>>
<1> DEFINE i == Head(stream)
<1>1. /\ i \in Item /\ i = stream[1] /\ 1 \in DOMAIN stream /\ stream' = Tail(stream)
    BY DEF Receive, TypeOK
<1>2. /\ conn = "serving" /\ offline = {} /\ running /\ connectedOnce
      /\ UNCHANGED <<now, server, conn, running, connectedOnce, replay, start,
                     lastout, mamseen, swapstart, faults, answered, again>>
    BY DEF Receive, Modes
<1>3. \/ i.kind = "live" /\ DispatchFresh(i.msg) /\ UNCHANGED <<buf, th>>
      \/ i.kind = "push" /\ DispatchDelayed(i.msg) /\ UNCHANGED th
      \/ /\ i.kind = "answer" /\ Collect(i)
         /\ UNCHANGED <<buf, seen, lastin, handed, ever, twice, excused>>
    BY DEF Receive
<1>4. /\ i.kind \in {"live", "push"} => i.msg \in Message
      /\ i.kind = "answer" => i.to \in Thread /\ i.page \in Seq(Message)
    BY <1>1 DEF Item
<1> HIDE DEF i
<1>5. UNCHANGED <<buf, th>> => Held' = Held
    BY DEF Held
<1>6. CASE i.kind = "live"
    <2>1. DispatchFresh(i.msg) /\ UNCHANGED <<buf, th>>
        BY <1>3, <1>6
    <2> QED BY <1>1, <1>2, <1>4, <1>5, <1>6, <2>1 DEF i, DispatchFresh, Copy, Quiet
<1>7. CASE i.kind = "push"
    <2>1. DispatchDelayed(i.msg) /\ UNCHANGED th /\ i.msg \in Message
        BY <1>3, <1>4, <1>7
    <2>2. CASE InWindow(i.msg)
        <3>1. buf' = BufferReplay(<<i.msg>>) /\ UNCHANGED <<seen, lastin, handed, ever, twice, excused>>
            BY <2>1, <2>2 DEF DispatchDelayed
        <3>2. <<i.msg>> \in Seq(Message) /\ ToSet(<<i.msg>>) = {i.msg} /\ buf \in Seq(Message)
            BY <2>1 DEF ToSet, TypeOK
        <3>3. ToSet(buf') = ToSet(buf) \union {i.msg}
            BY <3>1, <3>2, BufferFacts
        <3>4. Held' = Held \union {i.msg}
            BY <2>1, <3>3 DEF Held
        <3> QED BY <1>1, <1>2, <1>7, <2>1, <2>2, <3>1, <3>4 DEF i, InWindow
    <2>3. CASE ~InWindow(i.msg)
        <3>1. buf' = buf /\ (DispatchFresh(i.msg) \/ UNCHANGED <<seen, lastin, handed, ever, twice, excused>>)
            BY <2>1, <2>3 DEF DispatchDelayed
        <3> QED BY <1>1, <1>2, <1>5, <1>7, <2>1, <3>1 DEF i, DispatchFresh, Copy, Quiet
    <2> QED BY <2>2, <2>3
<1>8. CASE i.kind = "answer"
    <2>1. Collect(i) /\ UNCHANGED <<buf, seen, lastin, handed, ever, twice, excused>>
        BY <1>3, <1>8
    <2>2. CASE th' = th /\ ~(th[i.to].pc = "wait" /\ th[i.to].scope = i.scope)
        BY <1>1, <1>2, <1>4, <1>5, <1>8, <2>1, <2>2 DEF i, Quiet
    <2>3. CASE /\ th[i.to].pc = "wait" /\ th[i.to].scope = i.scope
               /\ Onward(i.to, th[i.to].got \o Only(i.page, Direct \union Room))
        <3> DEFINE q == th[i.to].got \o Only(i.page, Direct \union Room)
        <3>1. ToSet(q) = ToSet(th[i.to].got) \union (ToSet(i.page) \ Own)
            BY <1>4, <1>8, CollectFacts DEF TypeOK, ThreadState
        <3>2. Held = ToSet(buf) \union Rest(i.to) \union ToSet(th[i.to].got)
              /\ Held' = ToSet(buf') \union Rest(i.to) \union ToSet(q)
            BY <1>4, <1>8, <2>3, HeldGoes DEF Onward
        <3>3. Held' = Held \union (ToSet(i.page) \ Own)
            BY <2>1, <3>1, <3>2
        <3> QED BY <1>1, <1>2, <1>4, <1>8, <2>1, <2>3, <3>3 DEF i
    <2> QED BY <1>4, <1>8, <2>1, <2>2, <2>3, Moves
<1> QED BY <1>3, <1>6, <1>7, <1>8

\* A recovery comes to deliver: what the process has seen leaves its hands.
LEMMA CheckFacts ==
    ASSUME TypeOK, Modes, NEW t \in Thread, Check(t)
    PROVE  LET fresh == Unseen(InOrder(th[t].got)) IN
           /\ fresh \in Seq(Message) /\ ToSet(fresh) = ToSet(th[t].got) \ seen
           /\ Distinct(th[t].got) => Distinct(fresh)
           /\ Goes(t, IF fresh = <<>> THEN "mark" ELSE "hand", th[t].since, th[t].scope, fresh)
           /\ Held' \subseteq Held /\ Held \ Held' \subseteq seen
           /\ lastout' = IF fresh # <<>> /\ conn # "down" THEN now ELSE lastout
           /\ UNCHANGED <<now, server, stream, conn, process, lastin, mamseen, swapstart, faults, history>>
<1> DEFINE fresh == Unseen(InOrder(th[t].got))
<1>1. /\ Goes(t, IF fresh = <<>> THEN "mark" ELSE "hand", th[t].since, th[t].scope, fresh)
      /\ lastout' = IF fresh # <<>> /\ conn # "down" THEN now ELSE lastout
      /\ UNCHANGED <<now, server, stream, conn, process, lastin, mamseen, swapstart, faults, history>>
    BY Moves DEF Check
<1>2. /\ fresh \in Seq(Message) /\ ToSet(fresh) = ToSet(th[t].got) \ seen
      /\ Distinct(th[t].got) => Distinct(fresh)
    BY FreshFacts DEF TypeOK, ThreadState
<1> HIDE DEF fresh
<1>3. Held' \subseteq Held /\ Held \ Held' \subseteq seen
    <2>1. /\ Held = ToSet(buf) \union Rest(t) \union ToSet(th[t].got)
          /\ Held' = ToSet(buf') \union Rest(t) \union ToSet(fresh)
        BY <1>1, HeldGoes
    <2>2. buf' = buf
        BY <1>1 DEF process
    <2> QED BY <1>2, <2>1, <2>2
<1> QED BY <1>1, <1>2, <1>3 DEF fresh

\* A recovery delivers its next message.
LEMMA HandFacts ==
    ASSUME TypeOK, Modes, Threads, NEW t \in Thread, Hand(t)
    PROVE  LET m == Head(th[t].got) rest == Tail(th[t].got) by == IF t = Startup THEN "drain" ELSE "gap" IN
           /\ m \in Message /\ m \in ToSet(th[t].got) /\ m \in Held /\ by \in By
           /\ rest \in Seq(Message) /\ ToSet(th[t].got) = {m} \union ToSet(rest)
           /\ Distinct(th[t].got) => Distinct(rest) /\ m \notin ToSet(rest)
           /\ HandOver(m, by)
           /\ Goes(t, IF rest = <<>> THEN "mark" ELSE "hand", th[t].since, th[t].scope, rest)
           /\ Held' \subseteq Held /\ Held \ Held' \subseteq {m}
           /\ again' = IF t = Startup THEN again \union (({m} \intersect answered) \ AllHanded) ELSE again
           /\ UNCHANGED <<now, server, stream, conn, running, connectedOnce, replay, start, buf,
                          lastout, mamseen, swapstart, faults, answered>>
<1> DEFINE m == Head(th[t].got)
           rest == Tail(th[t].got)
           by == IF t = Startup THEN "drain" ELSE "gap"
<1>1. th[t].pc = "hand" /\ th[t].got \in Seq(Message) /\ th[t].got # <<>>
    BY DEF Hand, Threads, TypeOK, ThreadState
<1>2. /\ m \in Message /\ m \in ToSet(th[t].got) /\ rest \in Seq(Message)
      /\ ToSet(th[t].got) = {m} \union ToSet(rest)
      /\ Distinct(th[t].got) => Distinct(rest) /\ m \notin ToSet(rest)
    BY <1>1, TailFacts
<1>3. /\ HandOver(m, by) /\ Goes(t, IF rest = <<>> THEN "mark" ELSE "hand", th[t].since, th[t].scope, rest)
      /\ again' = IF t = Startup THEN again \union (({m} \intersect answered) \ AllHanded) ELSE again
      /\ UNCHANGED <<now, server, stream, conn, running, connectedOnce, replay, start, buf,
                     lastout, mamseen, swapstart, faults, answered>>
    BY Moves DEF Hand
<1>4. by \in By
    BY DEF By
<1> HIDE DEF m, rest, by
<1>5. /\ Held = ToSet(buf) \union Rest(t) \union ToSet(th[t].got)
      /\ Held' = ToSet(buf') \union Rest(t) \union ToSet(rest)
    BY <1>3, HeldGoes
<1>6. m \in Held /\ Held' \subseteq Held /\ Held \ Held' \subseteq {m}
    BY <1>2, <1>3, <1>5
<1> QED BY <1>2, <1>3, <1>4, <1>6 DEF m, rest, by

\* The archive only grows.
LEMMA SentGrows ==
    ASSUME TypeOK, Modes, [Next]_vars
    PROVE  ToSet(sent) \subseteq ToSet(sent')
<1>1. sent \in Seq(Message)
    BY DEF TypeOK
<1>2. sent' = sent \/ \E m \in Message : sent' = Append(sent, m)
    BY Readings
<1>3. ASSUME NEW m \in Message, sent' = Append(sent, m) PROVE ToSet(sent) \subseteq ToSet(sent')
    <2>1. ToSet(Append(sent, m)) = ToSet(sent) \union {m}
        BY <1>1, Appended
    <2> QED BY <1>3, <2>1
<1> QED BY <1>2, <1>3

\* What is handed over is seen, and was sent.
LEMMA GivenStep ==
    ASSUME TypeOK, Modes, Threads, Given, Gots, Copies, [Next]_vars
    PROVE  Given'
<1>1. ToSet(sent) \subseteq ToSet(sent')
    BY SentGrows
<1>2. ASSUME UNCHANGED <<ever, seen, handed>> PROVE Given'
    BY <1>1, <1>2 DEF Given, AllHanded
<1>3. ASSUME NEW m \in Message, NEW by \in By, HandOver(m, by), m \in ToSet(sent) PROVE Given'
    BY <1>1, <1>3, HandOverFacts DEF Given
<1>4. CASE \/ Tick \/ Launch \/ Connect \/ ConnectFails \/ OnXMPPConnected \/ Drop \/ GraceEnds
           \/ Speak \/ UNCHANGED vars \/ \E m \in Message : SendMsg(m)
    BY <1>2, <1>4, OuterQuiet DEF Quiet
<1>5. CASE Stop \/ Crash
    BY <1>1, <1>5, EndFacts DEF Given
<1>6. CASE Receive
    <2> DEFINE i == Head(stream)
    <2>1. CASE Copy(i) /\ i.msg \in Message \ (seen \union Own) /\ HandOver(i.msg, "loop")
        <3>1. i.msg \in ToSet(sent)
            BY <1>6, <2>1, ReceiveFacts DEF Copies
        <3> QED BY <1>3, <2>1, <3>1 DEF By
    <2>2. CASE UNCHANGED <<ever, seen, handed>>
        BY <1>2, <2>2
    <2> QED BY <1>6, <2>1, <2>2, ReceiveFacts DEF Quiet
<1>7. ASSUME NEW t \in Thread, \/ t # Startup /\ (GapBegins(t) \/ GapLocks(t))
                               \/ Fetch(t) \/ FetchFails(t) \/ FetchRefused(t) \/ Mark(t)
                               \/ t = Startup /\ (SeedMarker \/ Drain)
      PROVE Given'
    BY <1>2, <1>7, ThreadQuiet DEF Quiet
<1>8. ASSUME NEW t \in Thread, Check(t) PROVE Given'
    BY <1>2, <1>8, CheckFacts DEF process, history
<1>9. ASSUME NEW t \in Thread, Hand(t) PROVE Given'
    <2>1. PICK m \in Message, by \in By : HandOver(m, by) /\ m \in ToSet(th[t].got)
        BY <1>9, HandFacts
    <2> QED BY <1>3, <2>1 DEF Gots
<1> QED BY <1>4, <1>5, <1>6, <1>7, <1>8, <1>9, Kinds

\* The buffer of the replay window holds messages that were sent, each once.
LEMMA BufsStep ==
    ASSUME TypeOK, Modes, Threads, Bufs, Copies, [Next]_vars
    PROVE  Bufs'
<1>1. ToSet(sent) \subseteq ToSet(sent')
    BY SentGrows
<1>2. ASSUME UNCHANGED buf PROVE Bufs'
    BY <1>1, <1>2 DEF Bufs
<1>3. ASSUME buf' = <<>> PROVE Bufs'
    <2>1. ToSet(buf') = {} /\ Distinct(buf')
        BY <1>3 DEF ToSet, Distinct
    <2> QED BY <2>1 DEF Bufs
<1>4. CASE \/ Tick \/ Launch \/ Connect \/ ConnectFails \/ OnXMPPConnected \/ Drop \/ GraceEnds
           \/ Speak \/ UNCHANGED vars \/ \E m \in Message : SendMsg(m)
    BY <1>2, <1>4, OuterQuiet
<1>5. CASE Stop \/ Crash
    BY <1>3, <1>5, EndFacts
<1>6. CASE Receive
    <2> DEFINE i == Head(stream)
    <2>1. CASE i.kind = "push" /\ i.msg \in Message /\ buf' = BufferReplay(<<i.msg>>)
        <3>1. i.msg \in ToSet(sent) /\ i.msg \in Direct
            BY <1>6, <2>1, ReceiveFacts DEF Copies, Copy
        <3> DEFINE s == <<i.msg>>
        <3>2. s \in Seq(Message) /\ ToSet(s) = {i.msg} /\ Distinct(s)
            BY <2>1 DEF ToSet, Distinct
        <3>3. buf \in Seq(Message) /\ Distinct(buf) /\ ToSet(buf) \subseteq ToSet(sent) \ Own
            BY DEF TypeOK, Bufs
        <3>4. i.msg \notin Own
            BY <3>1, BackfillAssumption
        <3>5. ToSet(buf') = ToSet(buf) \union ToSet(s) /\ Distinct(buf')
            <4>1. buf' = BufferReplay(s)
                BY <2>1
            <4> HIDE DEF s
            <4> QED BY <3>2, <3>3, <4>1, BufferFacts
        <3> HIDE DEF i
        <3> QED BY <1>1, <3>1, <3>2, <3>3, <3>4, <3>5 DEF Bufs
    <2>2. CASE UNCHANGED buf
        BY <1>2, <2>2
    <2> QED BY <1>6, <2>1, <2>2, ReceiveFacts
<1>7. ASSUME NEW t \in Thread, \/ t # Startup /\ (GapBegins(t) \/ GapLocks(t))
                               \/ Fetch(t) \/ FetchFails(t) \/ FetchRefused(t)
                               \/ Check(t) \/ Hand(t) \/ Mark(t)
                               \/ t = Startup /\ (SeedMarker \/ Drain)
      PROVE Bufs'
    BY <1>2, <1>3, <1>7, ThreadStep
<1> QED BY <1>4, <1>5, <1>6, <1>7, Kinds

\* A recovery holds messages that were sent, each once, from archives it has asked.
LEMMA GotsStep ==
    ASSUME TypeOK, Modes, Threads, Gots, Bufs, Pages, [Next]_vars
    PROVE  Gots'
<1>0. Startup \in Thread
    BY DEF Thread
<1>1. ToSet(sent) \subseteq ToSet(sent')
    BY SentGrows
<1> DEFINE Fine(r) == /\ Distinct(r.got) /\ ToSet(r.got) \subseteq ToSet(sent') \ Own
                      /\ r.pc \in {"fetch", "wait"} => \A m \in ToSet(r.got) : ScopeOf(m) < r.scope
<1>2. \A t \in Thread : Fine(th[t])
    BY <1>1 DEF Gots
<1>3. (\A t \in Thread : Fine(th'[t])) => Gots'
    BY DEF Gots
<1>4. ASSUME NEW t \in Thread, NEW pc, NEW since, NEW scope, NEW got, Goes(t, pc, since, scope, got),
             Fine([pc |-> pc, since |-> since, scope |-> scope, got |-> got])
      PROVE  Gots'
    <2>1. ASSUME NEW u \in Thread PROVE Fine(th'[u])
        <3>1. CASE u = t
            <4>1. th'[u] = [pc |-> pc, since |-> since, scope |-> scope, got |-> got]
                BY <1>4, <3>1 DEF Goes
            <4> QED BY <1>4, <4>1
        <3>2. CASE u # t
            <4>1. th'[u] = th[u]
                BY <1>4, <3>2 DEF Goes
            <4> QED BY <1>2, <4>1
        <3> QED BY <3>1, <3>2
    <2> HIDE DEF Fine
    <2> QED BY <1>3, <2>1
<1>5. ASSUME NEW t \in Thread, NEW pc, NEW since, NEW scope, NEW got, Goes(t, pc, since, scope, got),
             Distinct(got), ToSet(got) \subseteq ToSet(sent) \ Own,
             pc \in {"fetch", "wait"} => \A m \in ToSet(got) : ScopeOf(m) < scope
      PROVE  Gots'
    <2>1. Fine([pc |-> pc, since |-> since, scope |-> scope, got |-> got])
        BY <1>1, <1>5
    <2> HIDE DEF Fine
    <2> QED BY <1>4, <1>5, <2>1
<1>6. Distinct(<<>>) /\ ToSet(<<>>) = {}
    BY DEF Distinct, ToSet
<1>7. ASSUME \A t \in Thread : th'[t] = th[t] PROVE Gots'
    BY <1>2, <1>3, <1>7
<1>8. CASE \/ Tick \/ Connect \/ ConnectFails \/ Drop \/ GraceEnds
           \/ Speak \/ UNCHANGED vars \/ \E m \in Message : SendMsg(m)
    <2>1. th' = th
        BY <1>8 DEF Tick, Connect, ConnectFails, Drop, GraceEnds, Speak, SendMsg, vars
    <2> QED BY <1>7, <2>1
<1>9. CASE Launch
    <2>1. Goes(Startup, th[Startup].pc, MamSinceFor(WindowStart), th[Startup].scope, th[Startup].got)
        BY <1>9, Moves
    <2> QED BY <1>0, <1>5, <2>1 DEF Gots
<1>10. CASE OnXMPPConnected
    <2>1. CASE OnFirstConnect
        <3>1. ~connectedOnce
            BY <2>1 DEF OnFirstConnect
        <3>2. th[Startup].pc = "idle" /\ th[Startup].got = <<>>
            BY <1>0, <3>1 DEF Modes, Threads
        <3>3. Goes(Startup, "fetch", th[Startup].since, th[Startup].scope, th[Startup].got)
            BY <2>1, Moves
        <3> QED BY <1>0, <1>5, <1>6, <3>2, <3>3
    <2>2. CASE OnReconnect
        <3>1. PICK g \in Gap : Goes(g, "begin", Never, 1, <<>>)
            BY <2>2, Moves
        <3>2. g \in Thread
            BY DEF Thread
        <3> QED BY <1>5, <1>6, <3>1, <3>2
    <2> QED BY <1>10, <2>1, <2>2 DEF OnXMPPConnected
<1>11. CASE Stop \/ Crash
    <2>1. \A t \in Thread : th'[t] = Idle
        BY <1>11, EndFacts
    <2>2. Fine(Idle)
        BY <1>6 DEF Idle
    <2> HIDE DEF Fine
    <2> QED BY <1>3, <2>1, <2>2
<1>t. \A t \in Thread : /\ th[t].scope \in Nat /\ th[t].got \in Seq(Message) /\ Distinct(th[t].got)
                        /\ ToSet(th[t].got) \subseteq ToSet(sent) \ Own
    BY ScopeFacts DEF TypeOK, ThreadState, Gots
<1>s. \A m : ScopeOf(m) \in Nat
    BY DEF ScopeOf
<1>12. ASSUME NEW t \in Thread, NEW got, Onward(t, got),
              Distinct(got), ToSet(got) \subseteq ToSet(sent) \ Own,
              \A m \in ToSet(got) : ScopeOf(m) =< th[t].scope
       PROVE  Gots'
    <2>1. CASE More(t)
        <3>1. Goes(t, "fetch", th[t].since, th[t].scope + 1, got)
            BY <1>12, <2>1 DEF Onward
        <3>2. \A m \in ToSet(got) : ScopeOf(m) < th[t].scope + 1
            BY <1>12, <1>s, <1>t
        <3> QED BY <1>5, <1>12, <3>1, <3>2
    <2>2. CASE ~More(t)
        <3>1. PICK pc : pc \notin {"fetch", "wait"} /\ Goes(t, pc, th[t].since, th[t].scope, got)
            BY <1>12, <2>2 DEF Onward
        <3> QED BY <1>5, <1>12, <3>1
    <2> QED BY <2>1, <2>2
<1>13. CASE Receive
    <2> DEFINE i == Head(stream)
    <2>1. CASE th' = th
        BY <1>7, <2>1
    <2>2. CASE /\ i.kind = "answer" /\ i.to \in Thread /\ i.page \in Seq(Message)
               /\ th[i.to].pc = "wait" /\ th[i.to].scope = i.scope
               /\ Onward(i.to, th[i.to].got \o Only(i.page, Direct \union Room))
        <3> DEFINE q == th[i.to].got \o Only(i.page, Direct \union Room)
        <3>1. i = stream[1] /\ 1 \in DOMAIN stream
            BY <1>13, ReceiveFacts
        <3>2. /\ Distinct(i.page) /\ ToSet(i.page) \subseteq ToSet(sent)
              /\ \A m \in ToSet(i.page) : ScopeOf(m) = i.scope
            BY <2>2, <3>1 DEF Pages
        <3>3. \A m \in ToSet(th[i.to].got) : ScopeOf(m) < th[i.to].scope
            BY <2>2 DEF Gots
        <3>4. ToSet(th[i.to].got) \cap ToSet(i.page) = {}
            <4>1. \A m \in ToSet(th[i.to].got) : ScopeOf(m) # th[i.to].scope
                BY <1>s, <1>t, <2>2, <3>3
            <4> QED BY <2>2, <3>2, <4>1
        <3>5. ToSet(q) = ToSet(th[i.to].got) \union (ToSet(i.page) \ Own) /\ Distinct(q)
            BY <1>t, <2>2, <3>2, <3>4, CollectFacts
        <3>6. \A m \in ToSet(q) : ScopeOf(m) =< th[i.to].scope
            <4> HIDE DEF i, q
            <4>1. th[i.to].scope \in Nat /\ th[i.to].scope = i.scope
                BY <1>t, <2>2
            <4>2. ASSUME NEW m \in ToSet(th[i.to].got) PROVE ScopeOf(m) =< th[i.to].scope
                <5>1. ScopeOf(m) \in Nat /\ ScopeOf(m) < th[i.to].scope
                    BY <1>s, <3>3
                <5> QED BY <4>1, <5>1
            <4>3. ASSUME NEW m \in ToSet(i.page) PROVE ScopeOf(m) =< th[i.to].scope
                <5>1. ScopeOf(m) \in Nat /\ ScopeOf(m) = th[i.to].scope
                    BY <1>s, <3>2, <4>1
                <5> QED BY <5>1
            <4> QED BY <3>5, <4>2, <4>3
        <3>7. ToSet(q) \subseteq ToSet(sent) \ Own
            BY <1>t, <2>2, <3>2, <3>5
        <3> HIDE DEF q
        <3> QED BY <1>12, <2>2, <3>5, <3>6, <3>7 DEF q
    <2> QED BY <1>13, <2>1, <2>2, ReceiveFacts
<1>14. ASSUME NEW t \in Thread, FetchFails(t) \/ FetchRefused(t) PROVE Gots'
    <2>1. Skip(t) /\ th[t].pc \in {"fetch", "wait"}
        BY <1>14 DEF FetchFails, QueryFails, FetchRefused
    <2>2. Onward(t, th[t].got)
        BY <2>1, Moves
    <2>3. \A m \in ToSet(th[t].got) : ScopeOf(m) =< th[t].scope
        BY <1>s, <1>t, <2>1 DEF Gots
    <2> QED BY <1>12, <1>t, <2>2, <2>3
<1>15. ASSUME NEW t \in Gap, GapBegins(t) \/ GapLocks(t) PROVE Gots'
    <2>1. t \in Thread /\ th[t].got = <<>>
        BY <1>15 DEF Thread, Threads, GapBegins, GapLocks
    <2>2. PICK pc, since, scope : Goes(t, pc, since, scope, <<>>)
        BY <1>15, <2>1, Moves
    <2> QED BY <1>5, <1>6, <2>1, <2>2
<1>16. ASSUME NEW t \in Thread, Fetch(t) PROVE Gots'
    <2>1. Goes(t, "wait", th[t].since, th[t].scope, th[t].got) /\ th[t].pc = "fetch"
        BY <1>16, Moves DEF Fetch
    <2>2. \A m \in ToSet(th[t].got) : ScopeOf(m) < th[t].scope
        BY <2>1 DEF Gots
    <2> QED BY <1>5, <1>t, <2>1, <2>2
<1>17. ASSUME NEW t \in Thread, Check(t) PROVE Gots'
    <2>1. PICK fresh \in Seq(Message) :
            /\ ToSet(fresh) = ToSet(th[t].got) \ seen /\ Distinct(fresh)
            /\ Goes(t, IF fresh = <<>> THEN "mark" ELSE "hand", th[t].since, th[t].scope, fresh)
        BY <1>17, <1>t, CheckFacts
    <2> QED BY <1>5, <1>t, <2>1
<1>18. ASSUME NEW t \in Thread, Hand(t) PROVE Gots'
    <2> DEFINE rest == Tail(th[t].got)
    <2>1. /\ ToSet(th[t].got) = {Head(th[t].got)} \union ToSet(rest) /\ Distinct(rest)
          /\ Goes(t, IF rest = <<>> THEN "mark" ELSE "hand", th[t].since, th[t].scope, rest)
        BY <1>18, <1>t, HandFacts
    <2> HIDE DEF rest
    <2> QED BY <1>5, <1>t, <2>1
<1>19. ASSUME NEW t \in Thread, Mark(t) PROVE Gots'
    <2>1. Goes(t, "idle", Never, 1, <<>>)
        BY <1>19, Moves
    <2> QED BY <1>5, <1>6, <2>1
<1>20. CASE SeedMarker
    <2>1. Goes(Startup, "drain", th[Startup].since, th[Startup].scope, th[Startup].got)
        BY <1>20, Moves
    <2> QED BY <1>0, <1>5, <1>t, <2>1
<1>21. CASE Drain
    <2> DEFINE q == BufferReplay(th[Startup].got)
    <2>1. Goes(Startup, "check", th[Startup].since, th[Startup].scope, q)
        BY <1>21, Moves
    <2>2. ToSet(q) = ToSet(buf) \union ToSet(th[Startup].got) /\ Distinct(q)
        BY <1>0, <1>t, BufferFacts DEF TypeOK, Bufs
    <2>3. ToSet(q) \subseteq ToSet(sent) \ Own
        BY <1>0, <1>t, <2>2 DEF Bufs
    <2> HIDE DEF q
    <2> QED BY <1>0, <1>5, <2>1, <2>2, <2>3
<1>22. Gap = Thread \ {Startup}
    BY BackfillAssumption DEF Thread
<1> QED BY <1>8, <1>9, <1>10, <1>11, <1>13, <1>14, <1>15, <1>16, <1>17, <1>18, <1>19, <1>20, <1>21,
           <1>22, Kinds

-----------------------------------------------------------------------------
(* What is under way from the server.                                        *)

\* How a step changes what the server sent.
LEMMA Streams ==
    ASSUME TypeOK, Modes, Threads, [Next]_vars
    PROVE  \/ stream' = stream \/ stream' = <<>>
           \/ \E m \in Message : SendMsg(m) /\ conn # "down" /\ stream' = Append(stream, Live(m))
           \/ Connect \/ (Receive /\ stream # <<>> /\ stream' = Tail(stream))
           \/ \E t \in Thread : Fetch(t) /\ stream' = Append(stream, Answer(t, th[t].scope, Page(t)))
<1>1. CASE Tick \/ Launch \/ ConnectFails \/ OnXMPPConnected \/ Drop \/ GraceEnds
           \/ Speak \/ UNCHANGED vars \/ Connect
    BY <1>1 DEF Tick, Launch, ConnectFails, OnXMPPConnected, Drop, GraceEnds, Speak, vars
<1>2. CASE Stop \/ Crash
    BY <1>2, EndFacts
<1>3. CASE Receive
    BY <1>3 DEF Receive
<1>4. ASSUME NEW m \in Message, SendMsg(m)
      PROVE  stream' = stream \/ (conn # "down" /\ stream' = Append(stream, Live(m)))
    BY <1>4 DEF SendMsg
<1>5. ASSUME NEW t \in Thread, \/ t # Startup /\ (GapBegins(t) \/ GapLocks(t))
                               \/ Fetch(t) \/ FetchFails(t) \/ FetchRefused(t)
                               \/ Check(t) \/ Hand(t) \/ Mark(t)
                               \/ t = Startup /\ (SeedMarker \/ Drain)
      PROVE  stream' = stream \/ (Fetch(t) /\ stream' = Append(stream, Answer(t, th[t].scope, Page(t))))
    BY <1>5, ThreadStep
<1> QED BY <1>1, <1>2, <1>3, <1>4, <1>5, Kinds

\* What is left of the stream once its first item was read.
LEMMA StreamTail ==
    ASSUME TypeOK, stream # <<>>, stream' = Tail(stream)
    PROVE  \A a \in DOMAIN stream' : /\ a \in Nat \ {0} /\ a + 1 \in DOMAIN stream /\ a + 1 # 1
                                     /\ stream'[a] = stream[a + 1]
BY DEF TypeOK

\* The stream grows at its end.
LEMMA StreamAppend ==
    ASSUME TypeOK, NEW i \in Item, stream' = Append(stream, i)
    PROVE  /\ \A a \in DOMAIN stream : a \in DOMAIN stream' /\ stream'[a] = stream[a] /\ a < Len(stream) + 1
           /\ stream'[Len(stream) + 1] = i /\ Len(stream) + 1 \in DOMAIN stream'
           /\ \A a \in DOMAIN stream' : a \in DOMAIN stream \/ a = Len(stream) + 1
<1>1. stream \in Seq(Item)
    BY DEF TypeOK
<1>2. DOMAIN stream = 1..Len(stream) /\ Len(stream) \in Nat
    BY <1>1
<1> QED BY <1>1, <1>2, Appended

\* A step that takes nothing more in keeps what is under way apart from it.
LEMMA CopiesKept ==
    ASSUME Copies, ToSet(sent) \subseteq ToSet(sent'), stream' = stream \/ stream' = <<>>,
           ever' \union Held' \subseteq ever \union Held, offline' \subseteq offline
    PROVE  Copies'
<1>1. \A a \in DOMAIN stream' : a \in DOMAIN stream /\ stream'[a] = stream[a]
    OBVIOUS
<1>2. \A a \in DOMAIN stream' : Copy(stream[a]) =>
        /\ stream[a].msg \in ToSet(sent') \ (ever' \union Held')
        /\ stream[a].kind = "push" => stream[a].msg \in Direct
    BY <1>1 DEF Copies
<1>3. \A a \in DOMAIN stream' : Copy(stream'[a]) =>
        /\ stream'[a].msg \in ToSet(sent') \ (ever' \union Held')
        /\ stream'[a].kind = "push" => stream'[a].msg \in Direct
    BY <1>1, <1>2
<1>4. \A a, b \in DOMAIN stream' :
         Copy(stream'[a]) /\ Copy(stream'[b]) /\ stream'[a].msg = stream'[b].msg => a = b
    BY <1>1 DEF Copies
<1>5. offline' \subseteq ToSet(sent') \ (ever' \union Held')
    BY DEF Copies
<1> QED BY <1>3, <1>4, <1>5 DEF Copies

\* What is handed over or held was sent.
LEMMA TakenWasSent ==
    ASSUME Given, Gots, Bufs
    PROVE  ever \union Held \subseteq ToSet(sent)
BY DEF Given, Gots, Bufs, Held

\* A message is under way once, and before anything took it in.
LEMMA CopiesStep ==
    ASSUME TypeOK, Modes, Clock, Threads, Given, Gots, Bufs, Copies, Pages, [Next]_vars
    PROVE  Copies'
<1>1. ToSet(sent) \subseteq ToSet(sent')
    BY SentGrows
<1>2. CASE \/ Tick \/ Launch \/ ConnectFails \/ OnXMPPConnected \/ Drop \/ GraceEnds
           \/ Speak \/ UNCHANGED vars
    <2>1. ever' \union Held' \subseteq ever \union Held
        BY <1>2, OuterQuiet DEF Quiet
    <2>2. (stream' = stream \/ stream' = <<>>) /\ offline' \subseteq offline
        BY <1>2 DEF Tick, Launch, ConnectFails, OnXMPPConnected, Drop, GraceEnds, Speak, vars, server
    <2> QED BY <1>1, <2>1, <2>2, CopiesKept
<1>3. CASE Stop \/ Crash
    <2>1. ever' \union Held' \subseteq ever \union Held /\ stream' = <<>> /\ offline' = offline
        BY <1>3, EndFacts DEF server
    <2> QED BY <1>1, <2>1, CopiesKept
<1>4. CASE Connect
    <2> DEFINE kept == Only(sent, offline)
    <2>1. /\ \A a \in DOMAIN stream' : /\ a \in DOMAIN kept /\ stream'[a].kind = "push"
                                       /\ stream'[a].msg = kept[a]
          /\ ToSet(kept) = ToSet(sent) \cap offline /\ Distinct(kept)
        BY <1>4, PushFacts DEF Connect, Clock
    <2>2. offline' = {} /\ Quiet /\ sent' = sent
        BY <1>4, OuterQuiet DEF Connect
    <2>3. offline \subseteq Direct
        BY DEF TypeOK
    <2> HIDE DEF kept
    <2>4. \A a \in DOMAIN stream' : /\ stream'[a].msg \in ToSet(kept) /\ stream'[a].msg \in offline
                                    /\ stream'[a].msg = kept[a]
        BY <2>1 DEF ToSet
    <2>5. \A a \in DOMAIN stream' :
            stream'[a].msg \in ToSet(sent') \ (ever' \union Held') /\ stream'[a].msg \in Direct
        BY <2>2, <2>3, <2>4 DEF Copies, Quiet
    <2>6. \A a, b \in DOMAIN stream' : stream'[a].msg = stream'[b].msg => a = b
        BY <2>1, <2>4 DEF Distinct
    <2> QED BY <2>2, <2>5, <2>6 DEF Copies
<1>5. ASSUME NEW m \in Message, SendMsg(m) PROVE Copies'
    <2>1. Quiet
        BY <1>5, OuterQuiet
    <2>2. m \notin ToSet(sent) /\ m \in ToSet(sent') /\ m \notin ever \union Held
        <3>1. sent \in Seq(Message) /\ sent' = Append(sent, m)
            BY <1>5 DEF SendMsg, TypeOK
        <3>2. ToSet(sent') = ToSet(sent) \union {m}
            BY <3>1, Appended
        <3>3. m \notin ToSet(sent)
            BY <1>5 DEF SendMsg, Clock
        <3> QED BY <3>2, <3>3, TakenWasSent
    <2>3. CASE conn = "down"
        <3>1. stream' = stream /\ offline' = offline \union ({m} \cap Direct)
            BY <1>5, <2>3 DEF SendMsg
        <3>2. offline' \subseteq ToSet(sent') \ (ever' \union Held')
            BY <1>1, <2>1, <2>2, <3>1 DEF Copies, Quiet
        <3>3. \A a \in DOMAIN stream : Copy(stream[a]) =>
                /\ stream[a].msg \in ToSet(sent') \ (ever' \union Held')
                /\ stream[a].kind = "push" => stream[a].msg \in Direct
            BY <1>1, <2>1 DEF Copies, Quiet
        <3> QED BY <3>1, <3>2, <3>3 DEF Copies
    <2>4. CASE conn # "down"
        <3>1. stream' = Append(stream, Live(m)) /\ offline' = offline
            BY <1>5, <2>4 DEF SendMsg
        <3>2. Live(m) \in Item /\ Live(m).msg = m /\ Live(m).kind = "live"
            BY DEF Live, Item
        <3> DEFINE n == Len(stream) + 1
        <3>3. /\ \A a \in DOMAIN stream : a \in DOMAIN stream' /\ stream'[a] = stream[a]
              /\ stream'[n] = Live(m) /\ \A a \in DOMAIN stream' : a \in DOMAIN stream \/ a = n
            BY <3>1, <3>2, StreamAppend
        <3> HIDE DEF n
        <3>4. \A a \in DOMAIN stream : Copy(stream[a]) =>
                /\ stream[a].msg \in ToSet(sent') \ (ever' \union Held')
                /\ stream[a].msg # m
                /\ stream[a].kind = "push" => stream[a].msg \in Direct
            BY <1>1, <2>1, <2>2 DEF Copies, Quiet
        <3>5. offline' \subseteq ToSet(sent') \ (ever' \union Held')
            BY <1>1, <2>1, <3>1 DEF Copies, Quiet
        <3>6. \A a \in DOMAIN stream' : Copy(stream'[a]) =>
                /\ stream'[a].msg \in ToSet(sent') \ (ever' \union Held')
                /\ stream'[a].kind = "push" => stream'[a].msg \in Direct
            BY <2>1, <2>2, <3>2, <3>3, <3>4 DEF Quiet
        <3>7. ASSUME NEW a \in DOMAIN stream', NEW b \in DOMAIN stream',
                     Copy(stream'[a]), Copy(stream'[b]), stream'[a].msg = stream'[b].msg
              PROVE  a = b
            <4>1. CASE a \in DOMAIN stream /\ b \in DOMAIN stream
                BY <3>3, <3>7, <4>1 DEF Copies
            <4> QED BY <3>2, <3>3, <3>4, <3>7, <4>1
        <3> QED BY <3>5, <3>6, <3>7 DEF Copies
    <2> QED BY <2>3, <2>4
<1>6. CASE Receive
    <2> DEFINE i == Head(stream)
    <2>1. /\ i = stream[1] /\ 1 \in DOMAIN stream /\ stream' = Tail(stream) /\ stream # <<>>
          /\ offline = {} /\ offline' = offline
        BY <1>6, ReceiveFacts DEF server, Receive
    <2>2. \A a \in DOMAIN stream' : /\ a \in Nat /\ a + 1 \in DOMAIN stream /\ a + 1 # 1
                                    /\ stream'[a] = stream[a + 1]
        BY <2>1, StreamTail
    <2>3. ASSUME NEW S, ever' \union Held' \subseteq ever \union Held \union S,
                 \A b \in DOMAIN stream : b # 1 /\ Copy(stream[b]) => stream[b].msg \notin S
          PROVE  Copies'
        <3>1. \A a \in DOMAIN stream' : Copy(stream'[a]) =>
                /\ stream'[a].msg \in ToSet(sent') \ (ever' \union Held')
                /\ stream'[a].kind = "push" => stream'[a].msg \in Direct
            BY <1>1, <2>2, <2>3 DEF Copies
        <3>2. ASSUME NEW a \in DOMAIN stream', NEW b \in DOMAIN stream',
                     Copy(stream'[a]), Copy(stream'[b]), stream'[a].msg = stream'[b].msg
              PROVE  a = b
            <4>1. a + 1 = b + 1 /\ a \in Nat /\ b \in Nat
                BY <2>2, <3>2 DEF Copies
            <4> QED BY <4>1
        <3>3. offline' \subseteq ToSet(sent') \ (ever' \union Held')
            BY <2>1
        <3> QED BY <3>1, <3>2, <3>3 DEF Copies
    <2>4. CASE Copy(i)
        <3>1. ever' \union Held' \subseteq ever \union Held \union {i.msg}
            <4>1. i.msg \in Message /\ HandOver(i.msg, "loop") => ever' = ever \union {i.msg}
                BY DEF HandOver
            <4> QED BY <1>6, <2>4, <4>1, ReceiveFacts DEF Quiet, Copy
        <3>2. \A b \in DOMAIN stream : b # 1 /\ Copy(stream[b]) => stream[b].msg \notin {i.msg}
            BY <2>1, <2>4 DEF Copies
        <3> QED BY <2>3, <3>1, <3>2
    <2>5. CASE ~Copy(i)
        <3>1. \/ ever' \union Held' \subseteq ever \union Held
              \/ i.kind = "answer" /\ ever' \union Held' \subseteq ever \union Held \union ToSet(i.page)
            <4>1. \/ Quiet
                  \/ i.kind = "answer" /\ Held' = Held \union (ToSet(i.page) \ Own) /\ ever' = ever
                BY <1>6, <2>5, ReceiveFacts DEF Copy
            <4> HIDE DEF i
            <4> QED BY <4>1 DEF Quiet
        <3>2. CASE ever' \union Held' \subseteq ever \union Held
            <4> DEFINE none == {}
            <4>1. /\ ever' \union Held' \subseteq ever \union Held \union none
                  /\ \A b \in DOMAIN stream : b # 1 /\ Copy(stream[b]) => stream[b].msg \notin none
                BY <3>2
            <4> HIDE DEF none
            <4> QED BY <2>3, <4>1
        <3>3. CASE i.kind = "answer" /\ ever' \union Held' \subseteq ever \union Held \union ToSet(i.page)
            <4>1. \A b \in DOMAIN stream : b # 1 => b > 1
                BY DEF TypeOK
            <4>2. \A b \in DOMAIN stream : b # 1 /\ Copy(stream[b]) => stream[b].msg \notin ToSet(i.page)
                BY <2>1, <3>3, <4>1 DEF Pages
            <4> QED BY <2>3, <3>3, <4>2
        <3> QED BY <3>1, <3>2, <3>3
    <2> QED BY <2>4, <2>5
<1>7. ASSUME NEW t \in Thread, \/ t # Startup /\ (GapBegins(t) \/ GapLocks(t))
                               \/ FetchFails(t) \/ FetchRefused(t) \/ Mark(t)
                               \/ t = Startup /\ (SeedMarker \/ Drain)
      PROVE Copies'
    <2>1. ever' \union Held' \subseteq ever \union Held
        BY <1>7, ThreadQuiet DEF Quiet
    <2>2. stream' = stream /\ offline' = offline
        <3>1. ~Fetch(t)
            BY <1>7 DEF Fetch, GapBegins, GapLocks, FetchFails, FetchRefused, Skip, Mark, SeedMarker, Drain
        <3> QED BY <1>7, <3>1, ThreadStep
    <2> QED BY <1>1, <2>1, <2>2, CopiesKept
<1>8. ASSUME NEW t \in Thread, Check(t) \/ Hand(t) PROVE Copies'
    <2>1. CASE Check(t)
        <3>1. ever' \union Held' \subseteq ever \union Held /\ stream' = stream /\ offline' = offline
            BY <2>1, CheckFacts DEF server, history
        <3> QED BY <1>1, <3>1, CopiesKept
    <2>2. CASE Hand(t)
        <3> DEFINE m == Head(th[t].got)
        <3>1. /\ m \in Held /\ Held' \subseteq Held /\ stream' = stream /\ offline' = offline
              /\ HandOver(m, IF t = Startup THEN "drain" ELSE "gap")
            BY <2>2, HandFacts DEF server
        <3>2. ever' = ever \union {m}
            BY <3>1 DEF HandOver
        <3> QED BY <1>1, <3>1, <3>2, CopiesKept
    <2> QED BY <1>8, <2>1, <2>2
<1>9. ASSUME NEW t \in Thread, Fetch(t) PROVE Copies'
    <2>1. Quiet /\ offline' = offline /\ sent' = sent
        BY <1>9, ThreadQuiet, ThreadStep
    <2> DEFINE i == Answer(t, th[t].scope, Page(t))
               n == Len(stream) + 1
    <2>2. i \in Item /\ ~Copy(i)
        BY RangeFacts DEF Answer, Item, TypeOK, ThreadState, Copy
    <2>3. stream' = Append(stream, i)
        BY <1>9 DEF Fetch
    <2> HIDE DEF i
    <2>4. /\ \A a \in DOMAIN stream : a \in DOMAIN stream' /\ stream'[a] = stream[a]
          /\ stream'[n] = i /\ \A a \in DOMAIN stream' : a \in DOMAIN stream \/ a = n
        BY <2>2, <2>3, StreamAppend
    <2> HIDE DEF n
    <2>5. \A a \in DOMAIN stream' : Copy(stream'[a]) => a \in DOMAIN stream /\ stream'[a] = stream[a]
        BY <2>2, <2>4
    <2>6. \A a \in DOMAIN stream' : Copy(stream'[a]) =>
            /\ stream'[a].msg \in ToSet(sent') \ (ever' \union Held')
            /\ stream'[a].kind = "push" => stream'[a].msg \in Direct
        BY <2>1, <2>5 DEF Copies, Quiet
    <2>7. \A a, b \in DOMAIN stream' :
             Copy(stream'[a]) /\ Copy(stream'[b]) /\ stream'[a].msg = stream'[b].msg => a = b
        BY <2>5 DEF Copies
    <2>8. offline' \subseteq ToSet(sent') \ (ever' \union Held')
        BY <2>1 DEF Copies, Quiet
    <2> QED BY <2>6, <2>7, <2>8 DEF Copies
<1> QED BY <1>2, <1>3, <1>4, <1>5, <1>6, <1>7, <1>8, <1>9, Kinds

\* A page is of one archive.
LEMMA PageScope ==
    ASSUME TypeOK, NEW t \in Thread
    PROVE  \A m \in ToSet(Page(t)) : ScopeOf(m) = th[t].scope
<1>1. th[t].scope \in {1, 2} /\ th[t].scope \in DOMAIN Scopes
    BY ScopeFacts DEF TypeOK, ThreadState
<1>2. th[t].scope = 1 => InScope(t) = Direct
    BY ScopeFacts DEF InScope
<1>3. th[t].scope = 2 => InScope(t) = Room \union Own
    BY <1>1, ScopeFacts DEF InScope
<1>4. ToSet(Page(t)) \subseteq InScope(t)
    BY RangeFacts
<1> QED BY <1>1, <1>2, <1>3, <1>4, BackfillAssumption DEF ScopeOf

\* Whatever is on the live stream before a page is read before it.
LEMMA PagesStep ==
    ASSUME TypeOK, Modes, Clock, Threads, Pages, [Next]_vars
    PROVE  Pages'
<1>1. ToSet(sent) \subseteq ToSet(sent')
    BY SentGrows
<1>2. ASSUME stream' = stream \/ stream' = <<>> PROVE Pages'
    <2>1. \A a \in DOMAIN stream' : a \in DOMAIN stream /\ stream'[a] = stream[a]
        BY <1>2
    <2>2. ASSUME NEW a \in DOMAIN stream', stream'[a].kind = "answer"
          PROVE  /\ Distinct(stream'[a].page) /\ ToSet(stream'[a].page) \subseteq ToSet(sent')
                 /\ \A m \in ToSet(stream'[a].page) : ScopeOf(m) = stream'[a].scope
                 /\ \A b \in DOMAIN stream' : b > a /\ Copy(stream'[b]) =>
                      stream'[b].msg \notin ToSet(stream'[a].page)
        BY <1>1, <2>1, <2>2 DEF Pages
    <2> QED BY <2>2 DEF Pages
<1>3. ASSUME NEW m \in Message, SendMsg(m), stream' = Append(stream, Live(m)) PROVE Pages'
    <2> DEFINE n == Len(stream) + 1
    <2>1. Live(m) \in Item /\ Live(m).kind # "answer" /\ Live(m).msg = m
        BY DEF Live, Item
    <2>2. /\ \A a \in DOMAIN stream : a \in DOMAIN stream' /\ stream'[a] = stream[a]
          /\ stream'[n] = Live(m) /\ \A a \in DOMAIN stream' : a \in DOMAIN stream \/ a = n
        BY <1>3, <2>1, StreamAppend
    <2>3. m \notin ToSet(sent)
        BY <1>3 DEF SendMsg, Clock
    <2> HIDE DEF n
    <2>4. ASSUME NEW a \in DOMAIN stream', stream'[a].kind = "answer"
          PROVE  /\ Distinct(stream'[a].page) /\ ToSet(stream'[a].page) \subseteq ToSet(sent')
                 /\ \A k \in ToSet(stream'[a].page) : ScopeOf(k) = stream'[a].scope
                 /\ \A b \in DOMAIN stream' : b > a /\ Copy(stream'[b]) =>
                      stream'[b].msg \notin ToSet(stream'[a].page)
        <3>1. a \in DOMAIN stream /\ stream'[a] = stream[a]
            BY <2>1, <2>2, <2>4
        <3>2. /\ Distinct(stream'[a].page) /\ ToSet(stream'[a].page) \subseteq ToSet(sent)
              /\ \A k \in ToSet(stream'[a].page) : ScopeOf(k) = stream'[a].scope
            BY <2>4, <3>1 DEF Pages
        <3>3. ASSUME NEW b \in DOMAIN stream', b > a, Copy(stream'[b])
              PROVE  stream'[b].msg \notin ToSet(stream'[a].page)
            <4>1. CASE b \in DOMAIN stream
                BY <2>2, <2>4, <3>1, <3>3, <4>1 DEF Pages
            <4>2. CASE b = n
                BY <2>1, <2>2, <2>3, <3>2, <4>2
            <4> QED BY <2>2, <4>1, <4>2
        <3> QED BY <1>1, <3>2, <3>3
    <2> QED BY <2>4 DEF Pages
<1>4. CASE Connect
    <2>1. \A a \in DOMAIN stream' : stream'[a].kind = "push"
        BY <1>4, PushFacts DEF Connect
    <2> QED BY <2>1 DEF Pages
<1>5. ASSUME stream # <<>>, stream' = Tail(stream) PROVE Pages'
    <2>1. \A a \in DOMAIN stream' : /\ a \in Nat /\ a + 1 \in DOMAIN stream
                                    /\ stream'[a] = stream[a + 1]
        BY <1>5, StreamTail
    <2>2. ASSUME NEW a \in DOMAIN stream', stream'[a].kind = "answer"
          PROVE  /\ Distinct(stream'[a].page) /\ ToSet(stream'[a].page) \subseteq ToSet(sent')
                 /\ \A m \in ToSet(stream'[a].page) : ScopeOf(m) = stream'[a].scope
                 /\ \A b \in DOMAIN stream' : b > a /\ Copy(stream'[b]) =>
                      stream'[b].msg \notin ToSet(stream'[a].page)
        <3>1. /\ Distinct(stream'[a].page) /\ ToSet(stream'[a].page) \subseteq ToSet(sent)
              /\ \A m \in ToSet(stream'[a].page) : ScopeOf(m) = stream'[a].scope
            BY <2>1, <2>2 DEF Pages
        <3>2. ASSUME NEW b \in DOMAIN stream', b > a, Copy(stream'[b])
              PROVE  stream'[b].msg \notin ToSet(stream'[a].page)
            <4>1. a \in Nat /\ b \in Nat /\ b + 1 > a + 1
                BY <2>1, <3>2
            <4>2. /\ a + 1 \in DOMAIN stream /\ b + 1 \in DOMAIN stream
                  /\ stream[a + 1].kind = "answer" /\ Copy(stream[b + 1])
                BY <2>1, <2>2, <3>2
            <4>3. stream[b + 1].msg \notin ToSet(stream[a + 1].page)
                BY <4>1, <4>2 DEF Pages
            <4> QED BY <2>1, <4>3
        <3> QED BY <1>1, <3>1, <3>2
    <2> QED BY <2>2 DEF Pages
<1>6. ASSUME NEW t \in Thread, stream' = Append(stream, Answer(t, th[t].scope, Page(t))) PROVE Pages'
    <2> DEFINE i == Answer(t, th[t].scope, Page(t))
               n == Len(stream) + 1
    <2>1. i \in Item /\ ~Copy(i) /\ i.page = Page(t) /\ i.scope = th[t].scope
        BY RangeFacts DEF Answer, Item, TypeOK, ThreadState, Copy
    <2>2. /\ Distinct(Page(t)) /\ ToSet(Page(t)) \subseteq ToSet(sent)
          /\ \A m \in ToSet(Page(t)) : ScopeOf(m) = th[t].scope
        BY RangeFacts, PageScope DEF Clock
    <2>3. stream' = Append(stream, i)
        BY <1>6
    <2> HIDE DEF i
    <2>4. /\ \A a \in DOMAIN stream : a \in DOMAIN stream' /\ stream'[a] = stream[a] /\ a < n
          /\ stream'[n] = i /\ \A a \in DOMAIN stream' : a \in DOMAIN stream \/ a = n
        BY <2>1, <2>3, StreamAppend
    <2>5. \A b \in DOMAIN stream' : Copy(stream'[b]) => b \in DOMAIN stream /\ stream'[b] = stream[b]
        BY <2>1, <2>4
    <2>6. ASSUME NEW a \in DOMAIN stream', stream'[a].kind = "answer"
          PROVE  /\ Distinct(stream'[a].page) /\ ToSet(stream'[a].page) \subseteq ToSet(sent')
                 /\ \A m \in ToSet(stream'[a].page) : ScopeOf(m) = stream'[a].scope
                 /\ \A b \in DOMAIN stream' : b > a /\ Copy(stream'[b]) =>
                      stream'[b].msg \notin ToSet(stream'[a].page)
        <3>1. CASE a \in DOMAIN stream
            <4>1. stream'[a] = stream[a]
                BY <2>4, <3>1
            <4> HIDE DEF n
            <4> QED BY <1>1, <2>5, <2>6, <3>1, <4>1 DEF Pages
        <3>2. CASE a = n
            <4>1. stream'[a].page = Page(t) /\ stream'[a].scope = th[t].scope
                BY <2>1, <2>4, <3>2
            <4>2. \A b \in DOMAIN stream : ~(b > n)
                BY DEF TypeOK
            <4> HIDE DEF n
            <4> QED BY <1>1, <2>2, <2>5, <3>2, <4>1, <4>2
        <3> QED BY <2>4, <3>1, <3>2
    <2> QED BY <2>6 DEF Pages
<1> QED BY <1>2, <1>3, <1>4, <1>5, <1>6, Streams

\* An archive is asked once per recovery, and its answer belongs to no later one.
LEMMA AnswersStep ==
    ASSUME TypeOK, Modes, Threads, Answers, [Next]_vars
    PROVE  Answers'
<1>0. Startup \in Thread /\ Gap = Thread \ {Startup}
    BY BackfillAssumption DEF Thread
<1>s. /\ \A t \in Thread : th[t].scope \in Nat
      /\ \A a \in DOMAIN stream : stream[a].kind = "answer" => stream[a].scope \in Nat
    <2>1. \A n \in DOMAIN Scopes : n \in Nat
        BY ScopeFacts
    <2>2. ASSUME NEW a \in DOMAIN stream, stream[a].kind = "answer" PROVE stream[a].scope \in DOMAIN Scopes
        <3>1. stream[a] \in Item
            BY DEF TypeOK
        <3> QED BY <2>2, <3>1 DEF Item
    <2>3. \A t \in Thread : th[t].scope \in DOMAIN Scopes
        BY DEF TypeOK, ThreadState
    <2> QED BY <2>1, <2>2, <2>3
\* Where a thread may be with an answer of a query for scope s on its way.
<1> DEFINE Apt(s, r) == /\ r.pc \notin {"begin", "lock"}
                        /\ r.pc = "fetch" => s < r.scope
                        /\ r.pc = "wait" => s =< r.scope
<1>a. /\ \A a \in DOMAIN stream : \A t \in Thread : Reply(stream[a], t) => Apt(stream[a].scope, th[t])
      /\ \A a, b \in DOMAIN stream : \A t \in Thread :
           Reply(stream[a], t) /\ Reply(stream[b], t) /\ stream[a].scope = stream[b].scope => a = b
    BY DEF Answers
<1>b. (/\ \A a \in DOMAIN stream' : \A t \in Thread : Reply(stream'[a], t) => Apt(stream'[a].scope, th'[t])
       /\ \A a, b \in DOMAIN stream' : \A t \in Thread :
            Reply(stream'[a], t) /\ Reply(stream'[b], t) /\ stream'[a].scope = stream'[b].scope => a = b)
      => Answers'
    BY DEF Answers
<1> HIDE DEF Apt
\* The threads move, the stream does not.
<1>1. ASSUME stream' = stream,
             \A a \in DOMAIN stream : \A t \in Thread : Reply(stream[a], t) => Apt(stream[a].scope, th'[t])
      PROVE  Answers'
    BY <1>a, <1>b, <1>1
<1>2. ASSUME NEW t \in Thread, NEW pc, NEW since, NEW scope, NEW got, Goes(t, pc, since, scope, got),
             stream' = stream,
             \A a \in DOMAIN stream : Reply(stream[a], t) =>
                Apt(stream[a].scope, [pc |-> pc, since |-> since, scope |-> scope, got |-> got])
      PROVE  Answers'
    <2>1. ASSUME NEW a \in DOMAIN stream, NEW u \in Thread, Reply(stream[a], u)
          PROVE  Apt(stream[a].scope, th'[u])
        <3>1. th'[u] = IF u = t THEN [pc |-> pc, since |-> since, scope |-> scope, got |-> got] ELSE th[u]
            BY <1>2 DEF Goes
        <3> QED BY <1>2, <1>a, <2>1, <3>1
    <2> QED BY <1>1, <1>2, <2>1
<1>3. ASSUME NEW t \in Thread, NEW pc, NEW since, NEW scope, NEW got, Goes(t, pc, since, scope, got),
             stream' = stream, pc \notin {"begin", "lock", "fetch", "wait"}
      PROVE  Answers'
    <2>1. ASSUME NEW s PROVE Apt(s, [pc |-> pc, since |-> since, scope |-> scope, got |-> got])
        BY <1>3 DEF Apt
    <2> QED BY <1>2, <1>3, <2>1
\* The stream changes, the threads do not.
<1>4. ASSUME th' = th, \A a \in DOMAIN stream' : stream'[a].kind # "answer" PROVE Answers'
    BY <1>4, <1>b DEF Reply
<1>5. CASE Tick \/ ConnectFails \/ GraceEnds \/ Speak \/ UNCHANGED vars
    <2>1. th' = th /\ stream' = stream
        BY <1>5 DEF Tick, ConnectFails, GraceEnds, Speak, vars
    <2> QED BY <1>1, <1>a, <2>1
<1>6. CASE Drop
    <2>1. th' = th /\ stream' = <<>>
        BY <1>6 DEF Drop
    <2> QED BY <1>4, <2>1
<1>7. CASE Connect
    <2>1. th' = th /\ \A a \in DOMAIN stream' : stream'[a].kind = "push"
        BY <1>7, PushFacts DEF Connect
    <2> QED BY <1>4, <2>1
<1>8. CASE Launch
    <2>1. Goes(Startup, th[Startup].pc, MamSinceFor(WindowStart), th[Startup].scope, th[Startup].got)
        BY <1>8, Moves
    <2>2. stream' = stream /\ th[Startup].pc = "idle"
        BY <1>0, <1>8 DEF Launch, Modes, Idle
    <2> QED BY <1>0, <1>3, <2>1, <2>2
<1>9. CASE OnXMPPConnected
    <2>1. stream' = stream
        BY <1>9 DEF OnXMPPConnected
    <2>2. CASE OnFirstConnect
        <3>1. \A a \in DOMAIN stream' : stream'[a].kind # "answer"
            BY <2>1, <2>2 DEF OnFirstConnect, Modes
        <3> QED BY <1>b, <3>1 DEF Reply
    <2>3. CASE OnReconnect
        <3>1. PICK g \in Gap : ~Answering(g) /\ Goes(g, "begin", Never, 1, <<>>)
            BY <2>3, Moves
        <3>2. \A a \in DOMAIN stream : ~Reply(stream[a], g)
            BY <3>1 DEF Answering, ToSet, Reply
        <3> QED BY <1>0, <1>2, <2>1, <3>1, <3>2
    <2> QED BY <1>9, <2>2, <2>3 DEF OnXMPPConnected
<1>10. CASE Stop \/ Crash
    <2>1. stream' = <<>>
        BY <1>10, EndFacts
    <2>2. \A a \in DOMAIN stream' : stream'[a].kind # "answer"
        BY <2>1
    <2> QED BY <1>b, <2>2 DEF Reply
<1>11. ASSUME NEW m \in Message, SendMsg(m) PROVE Answers'
    <2>1. th' = th
        BY <1>11 DEF SendMsg
    <2>2. CASE stream' = stream
        BY <1>1, <1>a, <2>1, <2>2
    <2>3. CASE stream' = Append(stream, Live(m))
        <3>1. Live(m) \in Item /\ Live(m).kind # "answer"
            BY DEF Live, Item
        <3> DEFINE n == Len(stream) + 1
        <3>2. /\ stream'[n] = Live(m)
              /\ \A a \in DOMAIN stream' : (a \in DOMAIN stream /\ stream'[a] = stream[a]) \/ a = n
            BY <2>3, <3>1, StreamAppend
        <3> HIDE DEF n
        <3>3. \A a \in DOMAIN stream' : \A t \in Thread :
                Reply(stream'[a], t) => a \in DOMAIN stream /\ stream'[a] = stream[a]
            BY <3>1, <3>2 DEF Reply
        <3> QED BY <1>a, <1>b, <2>1, <3>3
    <2> QED BY <1>11, <2>2, <2>3 DEF SendMsg
<1>12. ASSUME NEW t \in Thread, NEW got, Onward(t, got), th[t].pc \in {"fetch", "wait"}, stream' = stream
       PROVE  Answers'
    <2>1. CASE More(t)
        <3>1. Goes(t, "fetch", th[t].since, th[t].scope + 1, got)
            BY <1>12, <2>1 DEF Onward
        <3>2. ASSUME NEW a \in DOMAIN stream, Reply(stream[a], t)
              PROVE  Apt(stream[a].scope, [pc |-> "fetch", since |-> th[t].since,
                                           scope |-> th[t].scope + 1, got |-> got])
            <4>1. stream[a].scope =< th[t].scope
                BY <1>12, <1>a, <1>s, <3>2 DEF Apt, Reply
            <4>2. stream[a].scope < th[t].scope + 1
                BY <1>s, <3>2, <4>1 DEF Reply
            <4> QED BY <4>2 DEF Apt
        <3> QED BY <1>2, <1>12, <3>1, <3>2
    <2>2. CASE ~More(t)
        <3> DEFINE pc == IF t = Startup THEN "drain" ELSE "check"
        <3>1. Goes(t, pc, th[t].since, th[t].scope, got) /\ pc \notin {"begin", "lock", "fetch", "wait"}
            BY <1>12, <2>2 DEF Onward
        <3> HIDE DEF pc
        <3> QED BY <1>3, <1>12, <3>1
    <2> QED BY <2>1, <2>2
<1>13. CASE Receive
    <2> DEFINE i == Head(stream)
    <2>1. stream # <<>> /\ stream' = Tail(stream) /\ i = stream[1] /\ 1 \in DOMAIN stream
        BY <1>13, ReceiveFacts DEF Receive
    <2>2. \A a \in DOMAIN stream' : /\ a \in Nat /\ a + 1 \in DOMAIN stream /\ a + 1 # 1
                                    /\ stream'[a] = stream[a + 1]
        BY <2>1, StreamTail
    <2>3. \A a, b \in DOMAIN stream' : \A t \in Thread :
            Reply(stream'[a], t) /\ Reply(stream'[b], t) /\ stream'[a].scope = stream'[b].scope => a = b
        <3>1. ASSUME NEW a \in DOMAIN stream', NEW b \in DOMAIN stream', NEW t \in Thread,
                     Reply(stream'[a], t), Reply(stream'[b], t), stream'[a].scope = stream'[b].scope
              PROVE  a = b
            <4>1. a + 1 = b + 1 /\ a \in Nat /\ b \in Nat
                BY <1>a, <2>2, <3>1
            <4> QED BY <4>1
        <3> QED BY <3>1
    <2>4. CASE th' = th
        BY <1>a, <1>b, <2>2, <2>3, <2>4
    <2>5. CASE /\ i.kind = "answer" /\ i.to \in Thread
               /\ th[i.to].pc = "wait" /\ th[i.to].scope = i.scope
               /\ Onward(i.to, th[i.to].got \o Only(i.page, Direct \union Room))
        <3> DEFINE t == i.to
                   q == th[i.to].got \o Only(i.page, Direct \union Room)
        <3>1. th[t].pc = "wait" /\ t \in Thread /\ Onward(t, q)
            BY <2>5
        <3> HIDE DEF t, q
        <3>2. ASSUME NEW a \in DOMAIN stream', NEW u \in Thread, Reply(stream'[a], u)
              PROVE  Apt(stream'[a].scope, th'[u])
            <4>1. /\ a + 1 \in DOMAIN stream /\ Reply(stream[a + 1], u) /\ stream'[a] = stream[a + 1]
                BY <2>2, <3>2
            <4>2. Apt(stream'[a].scope, th[u])
                BY <1>a, <4>1
            <4>3. CASE u # t
                <5>1. th'[u] = th[u]
                    BY <3>1, <4>3 DEF Onward, Goes
                <5> QED BY <4>2, <5>1
            <4>4. CASE u = t /\ More(t)
                <5>1. th'[u].pc = "fetch" /\ th'[u].scope = th[u].scope + 1
                    BY <3>1, <4>4 DEF Onward, Goes
                <5>2. stream'[a].scope =< th[u].scope
                    BY <3>1, <4>2, <4>4 DEF Apt
                <5>3. stream'[a].scope < th[u].scope + 1
                    BY <1>s, <4>1, <5>2 DEF Reply
                <5> QED BY <5>1, <5>3 DEF Apt
            <4>5. CASE u = t /\ ~More(t)
                <5>1. th'[u].pc \in {"drain", "check"}
                    BY <3>1, <4>5 DEF Onward, Goes
                <5> QED BY <5>1 DEF Apt
            <4> QED BY <4>3, <4>4, <4>5
        <3> QED BY <1>b, <2>3, <3>2
    <2> QED BY <1>13, <2>4, <2>5, ReceiveFacts
<1>14. ASSUME NEW t \in Thread, FetchFails(t) \/ FetchRefused(t) PROVE Answers'
    <2>1. Skip(t) /\ th[t].pc \in {"fetch", "wait"} /\ stream' = stream
        BY <1>14 DEF FetchFails, QueryFails, FetchRefused, Skip
    <2> QED BY <1>12, <2>1, Moves
<1>15. ASSUME NEW t \in Gap, GapBegins(t) PROVE Answers'
    <2>1. t \in Thread /\ th[t].pc = "begin" /\ stream' = stream
        BY <1>0, <1>15 DEF GapBegins
    <2>2. \A a \in DOMAIN stream : ~Reply(stream[a], t)
        BY <1>a, <2>1 DEF Apt
    <2>3. PICK pc, since, scope, got : Goes(t, pc, since, scope, got)
        BY <1>15, Moves
    <2> QED BY <1>2, <2>1, <2>2, <2>3
<1>16. ASSUME NEW t \in Gap, GapLocks(t) PROVE Answers'
    <2>1. t \in Thread /\ th[t].pc = "lock" /\ stream' = stream
        BY <1>0, <1>16 DEF GapLocks
    <2>2. \A a \in DOMAIN stream : ~Reply(stream[a], t)
        BY <1>a, <2>1 DEF Apt
    <2>3. PICK pc, since, scope, got : Goes(t, pc, since, scope, got)
        BY <1>16, Moves
    <2> QED BY <1>2, <2>1, <2>2, <2>3
<1>17. ASSUME NEW t \in Thread, Fetch(t) PROVE Answers'
    <2> DEFINE i == Answer(t, th[t].scope, Page(t))
               n == Len(stream) + 1
    <2>1. i \in Item /\ i.kind = "answer" /\ i.to = t /\ i.scope = th[t].scope
        BY RangeFacts DEF Answer, Item, TypeOK, ThreadState
    <2>2. stream' = Append(stream, i) /\ th[t].pc = "fetch" /\ Goes(t, "wait", th[t].since, th[t].scope, th[t].got)
        BY <1>17, Moves DEF Fetch
    <2> HIDE DEF i
    <2>3. /\ stream'[n] = i
          /\ \A a \in DOMAIN stream' : (a \in DOMAIN stream /\ stream'[a] = stream[a]) \/ a = n
        BY <2>1, <2>2, StreamAppend
    <2> HIDE DEF n
    <2>4. ASSUME NEW a \in DOMAIN stream, Reply(stream[a], t)
          PROVE  stream[a].scope < th[t].scope /\ stream[a].scope \in Nat
        BY <1>a, <1>s, <2>2, <2>4 DEF Apt, Reply
    <2>5. ASSUME NEW a \in DOMAIN stream', NEW u \in Thread, Reply(stream'[a], u)
          PROVE  Apt(stream'[a].scope, th'[u])
        <3>1. CASE u # t
            <4>1. th'[u] = th[u] /\ a \in DOMAIN stream /\ stream'[a] = stream[a]
                BY <2>1, <2>2, <2>3, <2>5, <3>1 DEF Goes, Reply
            <4> QED BY <1>a, <2>5, <4>1
        <3>2. CASE u = t /\ a = n
            <4>1. th'[u].pc = "wait" /\ th'[u].scope = th[t].scope /\ stream'[a].scope = th[t].scope
                BY <2>1, <2>2, <2>3, <3>2 DEF Goes
            <4>2. stream'[a].scope =< th'[u].scope
                BY <1>s, <4>1
            <4> QED BY <4>1, <4>2 DEF Apt
        <3>3. CASE u = t /\ a \in DOMAIN stream /\ stream'[a] = stream[a]
            <4>1. th'[u].pc = "wait" /\ th'[u].scope = th[t].scope
                BY <2>2, <3>3 DEF Goes
            <4>2. stream'[a].scope =< th'[u].scope
                BY <1>s, <2>4, <2>5, <3>3, <4>1
            <4> QED BY <4>1, <4>2 DEF Apt
        <3> QED BY <2>3, <3>1, <3>2, <3>3
    <2>6. ASSUME NEW a \in DOMAIN stream', NEW b \in DOMAIN stream', NEW u \in Thread,
                 Reply(stream'[a], u), Reply(stream'[b], u), stream'[a].scope = stream'[b].scope
          PROVE  a = b
        <3>1. ASSUME NEW c \in DOMAIN stream, stream'[c] = stream[c], Reply(stream'[c], u), Reply(i, u)
              PROVE  stream'[c].scope # i.scope
            <4>1. u = t
                BY <2>1, <3>1 DEF Reply
            <4>2. stream[c].scope < th[t].scope /\ stream[c].scope \in Nat
                BY <2>4, <3>1, <4>1
            <4> QED BY <1>s, <2>1, <3>1, <4>2
        <3> QED BY <1>a, <2>3, <2>6, <3>1
    <2> QED BY <1>b, <2>5, <2>6
<1>18. ASSUME NEW t \in Thread, Check(t) \/ Hand(t) PROVE Answers'
    <2>1. CASE Check(t)
        <3> DEFINE fresh == Unseen(InOrder(th[t].got))
                   pc == IF fresh = <<>> THEN "mark" ELSE "hand"
        <3>1. Goes(t, pc, th[t].since, th[t].scope, fresh) /\ stream' = stream
              /\ pc \notin {"begin", "lock", "fetch", "wait"}
            BY <2>1, CheckFacts
        <3> HIDE DEF fresh, pc
        <3> QED BY <1>3, <3>1
    <2>2. CASE Hand(t)
        <3> DEFINE rest == Tail(th[t].got)
                   pc == IF rest = <<>> THEN "mark" ELSE "hand"
        <3>1. Goes(t, pc, th[t].since, th[t].scope, rest) /\ stream' = stream
              /\ pc \notin {"begin", "lock", "fetch", "wait"}
            BY <2>2, HandFacts
        <3> HIDE DEF rest, pc
        <3> QED BY <1>3, <3>1
    <2> QED BY <1>18, <2>1, <2>2
<1>19. ASSUME NEW t \in Thread, Mark(t) PROVE Answers'
    <2>1. Goes(t, "idle", Never, 1, <<>>) /\ stream' = stream
        BY <1>19, Moves DEF Mark
    <2> QED BY <1>3, <2>1
<1>20. CASE SeedMarker
    <2>1. Goes(Startup, "drain", th[Startup].since, th[Startup].scope, th[Startup].got) /\ stream' = stream
        BY <1>20, Moves DEF SeedMarker
    <2> QED BY <1>0, <1>3, <2>1
<1>21. CASE Drain
    <2>1. Goes(Startup, "check", th[Startup].since, th[Startup].scope, BufferReplay(th[Startup].got))
          /\ stream' = stream
        BY <1>21, Moves DEF Drain
    <2> QED BY <1>0, <1>3, <2>1
<1> QED BY <1>0, <1>5, <1>6, <1>7, <1>8, <1>9, <1>10, <1>11, <1>13, <1>14, <1>15, <1>16, <1>17, <1>18,
           <1>19, <1>20, <1>21, Kinds

-----------------------------------------------------------------------------
(* No message twice in a process.                                            *)

\* A step that hands nothing over and begins no delivery.
LEMMA ApartKept ==
    ASSUME Apart, UNCHANGED <<handed, twice>>,
           \A t \in Thread : th'[t].pc = "hand" => th[t].pc = "hand" /\ th'[t].got = th[t].got
    PROVE  Apart'
BY DEF Apart, HandsOf

\* The loop and the recoveries hand over different messages.
LEMMA ApartStep ==
    ASSUME TypeOK, Modes, Threads, Given, Gots, Copies, Apart, [Next]_vars
    PROVE  Apart'
<1>0. Startup \in Thread /\ Gap = Thread \ {Startup}
    BY BackfillAssumption DEF Thread
<1>1. ASSUME UNCHANGED <<handed, twice>>, NEW t \in Thread, NEW pc, NEW since, NEW scope, NEW got,
             Goes(t, pc, since, scope, got), pc # "hand"
      PROVE  Apart'
    <2>1. ASSUME NEW u \in Thread, th'[u].pc = "hand" PROVE th'[u] = th[u]
        BY <1>1, <2>1 DEF Goes
    <2> QED BY <1>1, <2>1, ApartKept
<1>2. ASSUME UNCHANGED <<handed, twice, th>> PROVE Apart'
    BY <1>2, ApartKept
<1>3. CASE \/ Tick \/ Connect \/ ConnectFails \/ Drop \/ GraceEnds
           \/ Speak \/ UNCHANGED vars \/ \E m \in Message : SendMsg(m)
    <2>1. th' = th
        BY <1>3 DEF Tick, Connect, ConnectFails, Drop, GraceEnds, Speak, SendMsg, vars
    <2> QED BY <1>2, <1>3, <2>1, OuterQuiet DEF Quiet
<1>4. CASE Launch
    <2>1. Goes(Startup, th[Startup].pc, MamSinceFor(WindowStart), th[Startup].scope, th[Startup].got)
        BY <1>4, Moves
    <2>2. UNCHANGED <<handed, twice>>
        BY <1>4, OuterQuiet DEF Quiet
    <2>3. th[Startup].pc = "idle"
        BY <1>0, <1>4 DEF Launch, Modes, Idle
    <2> QED BY <1>0, <1>1, <2>1, <2>2, <2>3
<1>5. CASE OnXMPPConnected
    <2>1. UNCHANGED <<handed, twice>>
        BY <1>5, OuterQuiet DEF Quiet
    <2>2. CASE OnFirstConnect
        <3>1. Goes(Startup, "fetch", th[Startup].since, th[Startup].scope, th[Startup].got)
            BY <2>2, Moves
        <3> QED BY <1>0, <1>1, <2>1, <3>1
    <2>3. CASE OnReconnect
        <3>1. PICK g \in Gap : Goes(g, "begin", Never, 1, <<>>)
            BY <2>3, Moves
        <3> QED BY <1>0, <1>1, <2>1, <3>1
    <2> QED BY <1>5, <2>2, <2>3 DEF OnXMPPConnected
<1>6. CASE Stop \/ Crash
    <2>1. /\ \A t \in Thread : th'[t] = Idle
          /\ \A b \in By : handed'[b] = {}
          /\ twice' = twice
        BY <1>6, EndFacts
    <2>2. \A t \in Thread : th'[t].pc = "idle"
        BY <2>1 DEF Idle
    <2> QED BY <2>1, <2>2 DEF Apart, By
<1>7. CASE Receive
    <2> DEFINE i == Head(stream)
    <2>1. CASE /\ Copy(i) /\ i.msg \in Message \ (seen \union Own) /\ HandOver(i.msg, "loop")
               /\ UNCHANGED <<th, buf>>
        <3> DEFINE m == i.msg
        <3>1. /\ handed'["loop"] = handed["loop"] \union {m}
              /\ handed'["drain"] = handed["drain"] /\ handed'["gap"] = handed["gap"]
              /\ twice' = twice \union ({m} \cap handed["loop"])
            BY <2>1, HandOverFacts DEF By
        <3>2. m \notin handed["loop"] \union handed["drain"] \union handed["gap"]
            BY <2>1 DEF Given, AllHanded, By
        <3>3. m \notin Held
            BY <1>7, <2>1, ReceiveFacts DEF Copies
        <3>4. \A t \in Thread : m \notin ToSet(th[t].got)
            BY <3>3 DEF Held
        <3>5. \A t \in Thread : th'[t] = th[t] /\ handed'[HandsOf(t)] = handed[HandsOf(t)]
            BY <2>1, <3>1 DEF HandsOf
        <3> HIDE DEF i, m
        <3>6. ASSUME NEW t \in Thread, th'[t].pc = "hand"
              PROVE  ToSet(th'[t].got) \cap (handed'["loop"] \union handed'[HandsOf(t)]) = {}
            <4>1. ToSet(th[t].got) \cap (handed["loop"] \union handed[HandsOf(t)]) = {}
                BY <3>5, <3>6 DEF Apart
            <4> QED BY <3>1, <3>4, <3>5, <4>1
        <3>7. twice' = {} /\ handed'["loop"] \cap (handed'["drain"] \union handed'["gap"]) = {}
            BY <3>1, <3>2 DEF Apart
        <3> QED BY <3>6, <3>7 DEF Apart, HandsOf
    <2>2. CASE UNCHANGED <<handed, twice, th>>
        BY <1>2, <2>2
    <2>3. CASE /\ i.to \in Thread /\ UNCHANGED <<handed, twice>>
               /\ Onward(i.to, th[i.to].got \o Only(i.page, Direct \union Room))
        <3> DEFINE t == i.to
                   q == th[i.to].got \o Only(i.page, Direct \union Room)
                   pc == IF More(t) THEN "fetch" ELSE IF t = Startup THEN "drain" ELSE "check"
        <3>1. t \in Thread /\ Onward(t, q) /\ pc # "hand"
            BY <2>3
        <3>2. PICK since, scope : Goes(t, pc, since, scope, q)
            BY <3>1 DEF Onward
        <3> HIDE DEF t, q, pc
        <3> QED BY <1>1, <2>3, <3>1, <3>2
    <2> QED BY <1>7, <2>1, <2>2, <2>3, ReceiveFacts DEF Quiet
<1>8. ASSUME NEW t \in Thread, \/ t # Startup /\ (GapBegins(t) \/ GapLocks(t))
                               \/ Fetch(t) \/ FetchFails(t) \/ FetchRefused(t) \/ Mark(t)
                               \/ t = Startup /\ (SeedMarker \/ Drain)
      PROVE Apart'
    <2>1. UNCHANGED <<handed, twice>>
        BY <1>8, ThreadQuiet DEF Quiet
    <2>2. CASE t # Startup /\ (GapBegins(t) \/ GapLocks(t))
        <3>1. t \in Gap
            BY <1>0, <2>2
        <3>2. PICK pc, since, scope, got : Goes(t, pc, since, scope, got) /\ pc \in {"idle", "lock", "fetch"}
            BY <2>2, <3>1, Moves
        <3> QED BY <1>1, <2>1, <3>2
    <2>3. CASE FetchFails(t) \/ FetchRefused(t)
        <3>1. Onward(t, th[t].got)
            BY <2>3, Moves DEF FetchFails, QueryFails, FetchRefused
        <3>2. PICK pc, since, scope, got : Goes(t, pc, since, scope, got) /\ pc \in {"fetch", "drain", "check"}
            BY <3>1 DEF Onward
        <3> QED BY <1>1, <2>1, <3>2
    <2>4. CASE Fetch(t)
        <3>1. Goes(t, "wait", th[t].since, th[t].scope, th[t].got)
            BY <2>4, Moves
        <3> QED BY <1>1, <2>1, <3>1
    <2>5. CASE Mark(t)
        <3>1. Goes(t, "idle", Never, 1, <<>>)
            BY <2>5, Moves
        <3> QED BY <1>1, <2>1, <3>1
    <2>6. CASE t = Startup /\ (SeedMarker \/ Drain)
        <3>1. PICK pc, since, scope, got : Goes(t, pc, since, scope, got) /\ pc \in {"drain", "check"}
            BY <2>6, Moves
        <3> QED BY <1>1, <2>1, <3>1
    <2> QED BY <1>8, <2>2, <2>3, <2>4, <2>5, <2>6
<1>9. ASSUME NEW t \in Thread, Check(t) PROVE Apart'
    <2> DEFINE fresh == Unseen(InOrder(th[t].got))
    <2>1. /\ ToSet(fresh) = ToSet(th[t].got) \ seen
          /\ Goes(t, IF fresh = <<>> THEN "mark" ELSE "hand", th[t].since, th[t].scope, fresh)
          /\ UNCHANGED <<handed, twice>>
        BY <1>9, CheckFacts DEF history
    <2> HIDE DEF fresh
    <2>2. ToSet(fresh) \cap (handed["loop"] \union handed[HandsOf(t)]) = {}
        BY <2>1 DEF Given, AllHanded, By, HandsOf
    <2>3. ASSUME NEW u \in Thread, th'[u].pc = "hand"
          PROVE  ToSet(th'[u].got) \cap (handed["loop"] \union handed[HandsOf(u)]) = {}
        <3>1. CASE u = t
            <4>1. th'[u].got = fresh
                BY <2>1, <3>1 DEF Goes
            <4> QED BY <2>2, <3>1, <4>1
        <3>2. CASE u # t
            <4>1. th'[u] = th[u]
                BY <2>1, <3>2 DEF Goes
            <4> QED BY <2>3, <4>1 DEF Apart
        <3> QED BY <3>1, <3>2
    <2> QED BY <2>1, <2>3 DEF Apart, HandsOf
<1>10. ASSUME NEW t \in Thread, Hand(t) PROVE Apart'
    <2> DEFINE m == Head(th[t].got)
               rest == Tail(th[t].got)
    <2>1. /\ m \in Message /\ HandsOf(t) \in By /\ HandOver(m, HandsOf(t))
          /\ m \in ToSet(th[t].got) /\ ToSet(th[t].got) = {m} \union ToSet(rest) /\ m \notin ToSet(rest)
          /\ Goes(t, IF rest = <<>> THEN "mark" ELSE "hand", th[t].since, th[t].scope, rest)
        BY <1>10, HandFacts DEF Gots, HandsOf
    <2>2. th[t].pc = "hand"
        BY <1>10 DEF Hand
    <2> HIDE DEF m, rest
    <2>3. /\ handed'[HandsOf(t)] = handed[HandsOf(t)] \union {m}
          /\ \A b \in By \ {HandsOf(t)} : handed'[b] = handed[b]
          /\ twice' = twice \union ({m} \cap handed[HandsOf(t)])
        BY <2>1, HandOverFacts
    <2>4. m \notin handed["loop"] \union handed[HandsOf(t)]
        BY <2>1, <2>2 DEF Apart
    <2>5. handed'["loop"] = handed["loop"] /\ HandsOf(t) \in {"drain", "gap"}
        BY <2>3 DEF HandsOf, By
    <2>6. twice' = {} /\ handed'["loop"] \cap (handed'["drain"] \union handed'["gap"]) = {}
        <3>1. handed'["drain"] \union handed'["gap"] = handed["drain"] \union handed["gap"] \union {m}
            BY <2>3, <2>5 DEF By
        <3> QED BY <2>3, <2>4, <2>5, <3>1 DEF Apart
    <2>7. ASSUME NEW u \in Thread, th'[u].pc = "hand"
          PROVE  ToSet(th'[u].got) \cap (handed'["loop"] \union handed'[HandsOf(u)]) = {}
        <3>1. CASE u = t
            <4>1. th'[u].got = rest
                BY <2>1, <3>1 DEF Goes
            <4>2. ToSet(th[t].got) \cap (handed["loop"] \union handed[HandsOf(t)]) = {}
                BY <2>2 DEF Apart
            <4> QED BY <2>1, <2>3, <2>5, <3>1, <4>1, <4>2
        <3>2. CASE u # t
            <4>1. th'[u] = th[u]
                BY <2>1, <3>2 DEF Goes
            <4>2. ToSet(th[u].got) \cap (handed["loop"] \union handed[HandsOf(u)]) = {}
                BY <2>7, <4>1 DEF Apart
            <4>3. HandsOf(u) # HandsOf(t)
                <5>1. CASE u \in Gap /\ t \in Gap
                    BY <2>2, <2>7, <3>2, <4>1, <5>1 DEF Threads, Holds
                <5>2. CASE u = Startup \/ t = Startup
                    BY <3>2, <5>2 DEF HandsOf
                <5> QED BY <1>0, <5>1, <5>2
            <4>4. handed'[HandsOf(u)] = handed[HandsOf(u)]
                BY <2>3, <4>3 DEF HandsOf, By
            <4> QED BY <2>5, <4>1, <4>2, <4>4
        <3> QED BY <3>1, <3>2
    <2> QED BY <2>6, <2>7 DEF Apart, HandsOf
<1> QED BY <1>3, <1>4, <1>5, <1>6, <1>7, <1>8, <1>9, <1>10, Kinds

-----------------------------------------------------------------------------
(* What was answered stays answered.                                         *)

\* What the startup drain holds, or will be given by an answer on its way.
Pending(m) ==
    \/ m \in ToSet(buf) \/ m \in ToSet(th[Startup].got)
    \/ \E a \in DOMAIN stream : Reply(stream[a], Startup) /\ m \in ToSet(stream[a].page)

\* The startup drain has a walk to make.
Walks == running /\ (th[Startup].pc # "idle" \/ ~connectedOnce)

\* Spoken, in those terms.
LEMMA SpokenFacts ==
    Spoken <=> /\ again = {} /\ answered \subseteq ever
               /\ \A m \in answered : stamp[m] < lastout
               /\ \A m \in answered \ AllHanded : ~Pending(m) /\ (Walks => stamp[m] < th[Startup].since)
BY DEF Spoken, Pending, Walks

\* What a step has to reach for Spoken to hold after it.
LEMMA SpokenFactsNext ==
    (/\ again' = {} /\ answered' \subseteq ever'
     /\ \A m \in answered' : stamp'[m] < lastout'
     /\ \A m \in answered' \ AllHanded' :
          /\ m \notin ToSet(buf') /\ m \notin ToSet(th'[Startup].got)
          /\ \A a \in DOMAIN stream' : Reply(stream'[a], Startup) => m \notin ToSet(stream'[a].page)
          /\ running' /\ (th'[Startup].pc # "idle" \/ ~connectedOnce') => stamp'[m] < th'[Startup].since)
    => Spoken'
BY DEF Spoken

\* A step after which no thread walks but one that walked from the same cursor, and
\* nothing answered came into the hands of the drain.
LEMMA SpokenKept ==
    ASSUME TypeOK, Clock, Given, Spoken, UNCHANGED <<again, answered>>, ever \subseteq ever',
           AllHanded \subseteq AllHanded', lastout' = lastout \/ lastout' = now,
           \A m \in answered : stamp'[m] = stamp[m],
           (running' /\ (th'[Startup].pc # "idle" \/ ~connectedOnce'))
             => Walks /\ th'[Startup].since = th[Startup].since,
           \A m \in answered \ AllHanded :
             /\ m \notin ToSet(buf') /\ m \notin ToSet(th'[Startup].got)
             /\ \A a \in DOMAIN stream' : Reply(stream'[a], Startup) => m \notin ToSet(stream'[a].page)
    PROVE  Spoken'
<1>1. \A m \in answered : stamp'[m] < lastout'
    <2>1. ASSUME NEW m \in answered PROVE stamp'[m] < lastout'
        <3>1. stamp[m] < lastout /\ lastout =< now /\ stamp'[m] = stamp[m]
            BY DEF Spoken, Clock
        <3>2. stamp[m] \in Int /\ lastout \in Int /\ now \in Int
            BY Cursors DEF TypeOK
        <3> QED BY <3>1, <3>2
    <2> QED BY <2>1
<1>2. \A m \in answered \ AllHanded :
        running' /\ (th'[Startup].pc # "idle" \/ ~connectedOnce') => stamp'[m] < th'[Startup].since
    BY SpokenFacts
<1>3. again' = {} /\ answered' \subseteq ever'
    BY DEF Spoken
<1> QED BY <1>1, <1>2, <1>3, SpokenFactsNext

\* No message an earlier process answered comes back from the archive.
LEMMA SpokenStep ==
    ASSUME TypeOK, Modes, Clock, Threads, Given, Gots, Bufs, Copies, Spoken, [Next]_vars
    PROVE  Spoken'
<1>0. Startup \in Thread /\ Gap = Thread \ {Startup}
    BY BackfillAssumption DEF Thread
<1>1. \A m \in answered \ AllHanded :
        /\ m \notin ToSet(buf) /\ m \notin ToSet(th[Startup].got)
        /\ \A a \in DOMAIN stream : Reply(stream[a], Startup) => m \notin ToSet(stream[a].page)
    BY DEF Spoken
<1>2. /\ lastout' = lastout \/ lastout' = now
      /\ \A m \in answered : stamp'[m] = stamp[m]
    <2>1. ASSUME NEW k \in Message, stamp[k] = Never, stamp' = [stamp EXCEPT ![k] = now], NEW m \in answered
          PROVE  stamp'[m] = stamp[m]
        <3>1. m \in ToSet(sent) /\ m \in Message
            BY DEF Spoken, Given, TypeOK
        <3>2. m # k
            BY <2>1, <3>1 DEF Clock
        <3> QED BY <2>1, <3>1, <3>2 DEF TypeOK
    <2> QED BY <2>1, Readings
\* A step that leaves alone what the drain has and will be given.
<1>3. ASSUME UNCHANGED <<again, answered, ever, handed, running, connectedOnce>>,
             ToSet(buf') \subseteq ToSet(buf) \union ToSet(th[Startup].got),
             ToSet(th'[Startup].got) \subseteq ToSet(buf) \union ToSet(th[Startup].got),
             \A a \in DOMAIN stream' : Reply(stream'[a], Startup) =>
                \E b \in DOMAIN stream : stream'[a] = stream[b],
             th'[Startup].pc # "idle" => th[Startup].pc # "idle" /\ th'[Startup].since = th[Startup].since,
             ~connectedOnce => th'[Startup].since = th[Startup].since
      PROVE  Spoken'
    <2>1. AllHanded' = AllHanded
        BY <1>3 DEF AllHanded
    <2>2. \A m \in answered \ AllHanded :
             /\ m \notin ToSet(buf') /\ m \notin ToSet(th'[Startup].got)
             /\ \A a \in DOMAIN stream' : Reply(stream'[a], Startup) => m \notin ToSet(stream'[a].page)
        BY <1>1, <1>3
    <2>3. (running' /\ (th'[Startup].pc # "idle" \/ ~connectedOnce'))
            => Walks /\ th'[Startup].since = th[Startup].since
        BY <1>3 DEF Walks
    <2> QED BY <1>2, <1>3, <2>1, <2>2, <2>3, SpokenKept
<1>4. CASE Tick \/ ConnectFails \/ Drop \/ GraceEnds \/ UNCHANGED vars
    <2>1. UNCHANGED <<again, answered, ever, handed, running, connectedOnce, buf, th>>
        BY <1>4 DEF Tick, ConnectFails, Drop, GraceEnds, vars, process, history
    <2>2. \A a \in DOMAIN stream' : \E b \in DOMAIN stream : stream'[a] = stream[b]
        <3>1. stream' = stream \/ stream' = <<>>
            BY <1>4 DEF Tick, ConnectFails, Drop, GraceEnds, vars
        <3> QED BY <3>1
    <2> QED BY <1>3, <2>1, <2>2
<1>5. CASE Launch
    <2>1. Goes(Startup, th[Startup].pc, MamSinceFor(WindowStart), th[Startup].scope, th[Startup].got)
        BY <1>5, Moves
    <2>2. /\ UNCHANGED <<again, answered, ever, handed, stream, buf, stamp, lastout>>
          /\ running' /\ ~running
        BY <1>5 DEF Launch, server, history
    <2>3. th'[Startup].since = MamSinceFor(WindowStart) /\ th'[Startup].got = th[Startup].got
        BY <2>1 DEF Goes
    <2>4. ASSUME NEW m \in answered PROVE stamp[m] < MamSinceFor(WindowStart)
        <3>1. /\ stamp[m] < lastout /\ Never =< stamp[m] /\ stamp[m] \in Int /\ lastout \in Int
              /\ swapstart \in Int /\ mamseen \in Int /\ (swapstart # Never => lastout =< swapstart)
            BY DEF Spoken, Clock, TypeOK
        <3>2. WindowStart \in Int /\ lastout =< WindowStart /\ WindowStart # Never
            <4>1. CASE swapstart # Never
                BY <3>1, <4>1 DEF WindowStart, Never
            <4>2. CASE swapstart = Never
                BY <3>1, <4>2 DEF WindowStart, Never
            <4> QED BY <4>1, <4>2
        <3>3. MamSinceFor(WindowStart) = Later(WindowStart, mamseen)
            BY <3>2 DEF MamSinceFor
        <3> QED BY <3>1, <3>2, <3>3 DEF Later
    <2>5. AllHanded' = AllHanded
        BY <2>2 DEF AllHanded
    <2>6. /\ again' = {} /\ answered' \subseteq ever'
          /\ \A m \in answered' : stamp'[m] < lastout'
        BY <2>2 DEF Spoken
    <2> QED BY <1>1, <2>2, <2>3, <2>4, <2>5, <2>6, SpokenFactsNext
<1>6. CASE Connect
    <2>1. UNCHANGED <<again, answered, ever, handed, running, connectedOnce, buf, th>>
        BY <1>6 DEF Connect, history
    <2>2. \A a \in DOMAIN stream' : ~Reply(stream'[a], Startup)
        BY <1>6, PushFacts DEF Connect, Reply
    <2> QED BY <1>3, <2>1, <2>2
<1>7. CASE OnXMPPConnected
    <2>1. /\ UNCHANGED <<again, answered, ever, handed, running, buf, stream>> /\ connectedOnce'
          /\ running
        BY <1>7 DEF OnXMPPConnected, OnFirstConnect, OnReconnect, history, Modes
    <2>2. AllHanded' = AllHanded
        BY <2>1 DEF AllHanded
    <2>3. CASE OnFirstConnect
        <3>1. Goes(Startup, "fetch", th[Startup].since, th[Startup].scope, th[Startup].got) /\ Walks
            BY <2>1, <2>3, Moves DEF Walks, OnFirstConnect
        <3>2. th'[Startup].since = th[Startup].since /\ th'[Startup].got = th[Startup].got
            BY <3>1 DEF Goes
        <3> QED BY <1>1, <1>2, <2>1, <2>2, <3>1, <3>2, SpokenKept
    <2>4. CASE OnReconnect
        <3>1. PICK g \in Gap : Goes(g, "begin", Never, 1, <<>>)
            BY <2>4, Moves
        <3>2. th'[Startup] = th[Startup]
            BY <1>0, <3>1 DEF Goes
        <3>3. (running' /\ (th'[Startup].pc # "idle" \/ ~connectedOnce')) => Walks
            BY <2>1, <3>2 DEF Walks
        <3> QED BY <1>1, <1>2, <2>1, <2>2, <3>2, <3>3, SpokenKept
    <2> QED BY <1>7, <2>3, <2>4 DEF OnXMPPConnected
<1>8. CASE Stop \/ Crash
    <2>1. /\ UNCHANGED <<again, answered, ever, stamp, lastout>> /\ stream' = <<>> /\ buf' = <<>>
          /\ AllHanded' = {} /\ th'[Startup] = Idle /\ running' = FALSE
        BY <1>0, <1>8, EndFacts DEF server, Stop, Crash, Ends
    <2>2. ToSet(buf') = {} /\ ToSet(th'[Startup].got) = {} /\ DOMAIN stream' = {}
        BY <2>1 DEF Idle, ToSet
    <2> QED BY <2>1, <2>2, SpokenFactsNext DEF Spoken
<1>9. CASE Speak
    <2>1. /\ UNCHANGED <<again, ever, handed, running, connectedOnce, buf, stream, th, stamp>>
          /\ lastout' = now /\ answered' = answered \union {m \in AllHanded : stamp[m] < now}
        BY <1>9 DEF Speak, process, server
    <2>2. AllHanded' = AllHanded
        BY <2>1 DEF AllHanded
    <2>3. \A m \in answered' : stamp'[m] < lastout'
        <3>1. ASSUME NEW m \in answered PROVE stamp[m] < now
            <4>1. stamp[m] < lastout /\ lastout =< now /\ stamp[m] \in Int /\ lastout \in Int /\ now \in Int
                BY Cursors DEF Spoken, Clock, TypeOK
            <4> QED BY <4>1
        <3> QED BY <2>1, <3>1
    <2>4. answered' \subseteq ever'
        BY <2>1 DEF Spoken, Given
    <2>5. \A m \in answered' \ AllHanded' : m \in answered \ AllHanded
        BY <2>1, <2>2
    <2>6. \A m \in answered \ AllHanded :
            running /\ (th[Startup].pc # "idle" \/ ~connectedOnce) => stamp[m] < th[Startup].since
        BY DEF Spoken
    <2>7. again' = {}
        BY <2>1 DEF Spoken
    <2> QED BY <1>1, <2>1, <2>3, <2>4, <2>5, <2>6, <2>7, SpokenFactsNext
<1>10. CASE Receive
    <2> DEFINE i == Head(stream)
    <2>1. /\ stream # <<>> /\ stream' = Tail(stream) /\ i = stream[1] /\ 1 \in DOMAIN stream
          /\ UNCHANGED <<again, answered, running, connectedOnce>> /\ running /\ connectedOnce
        BY <1>10, ReceiveFacts DEF Receive
    <2>2. \A a \in DOMAIN stream' : \E b \in DOMAIN stream : stream'[a] = stream[b]
        BY <2>1, StreamTail
    <2>3. \A m \in answered \ AllHanded :
            \A a \in DOMAIN stream' : Reply(stream'[a], Startup) => m \notin ToSet(stream'[a].page)
        BY <1>1, <2>2
    <2>4. CASE UNCHANGED <<th, buf>>
        <3>1. ever \subseteq ever' /\ AllHanded \subseteq AllHanded'
            <4>1. CASE Quiet
                BY <4>1 DEF Quiet, AllHanded
            <4>2. CASE i.msg \in Message /\ HandOver(i.msg, "loop")
                BY <4>2, HandOverFacts DEF By
            <4>3. CASE UNCHANGED <<ever, handed>>
                BY <4>3 DEF AllHanded
            <4> QED BY <1>10, <4>1, <4>2, <4>3, ReceiveFacts
        <3>2. (running' /\ (th'[Startup].pc # "idle" \/ ~connectedOnce')) => Walks
            BY <2>1, <2>4 DEF Walks
        <3> QED BY <1>1, <1>2, <2>1, <2>3, <2>4, <3>1, <3>2, SpokenKept
    <2>5. CASE /\ i.kind = "push" /\ i.msg \in Message /\ buf' = BufferReplay(<<i.msg>>)
               /\ UNCHANGED <<th, ever, handed>>
        <3>1. ToSet(buf') = ToSet(buf) \union {i.msg}
            <4>1. <<i.msg>> \in Seq(Message) /\ ToSet(<<i.msg>>) = {i.msg} /\ buf \in Seq(Message)
                BY <2>5 DEF TypeOK, ToSet
            <4> QED BY <2>5, <4>1, BufferFacts
        <3>2. i.msg \notin answered
            BY <2>1, <2>5 DEF Copies, Copy, Spoken
        <3>3. AllHanded' = AllHanded
            BY <2>5 DEF AllHanded
        <3>4. (running' /\ (th'[Startup].pc # "idle" \/ ~connectedOnce')) => Walks
            BY <2>1, <2>5 DEF Walks
        <3> HIDE DEF i
        <3> QED BY <1>1, <1>2, <2>1, <2>3, <2>5, <3>1, <3>2, <3>3, <3>4, SpokenKept
    <2>6. CASE /\ i.kind = "answer" /\ i.to \in Thread /\ i.page \in Seq(Message)
               /\ th[i.to].pc = "wait"
               /\ Onward(i.to, th[i.to].got \o Only(i.page, Direct \union Room))
               /\ UNCHANGED <<buf, ever, handed>>
        <3> DEFINE t == i.to
                   q == th[i.to].got \o Only(i.page, Direct \union Room)
        <3>1. ToSet(q) = ToSet(th[t].got) \union (ToSet(i.page) \ Own)
            BY <2>6, CollectFacts DEF TypeOK, ThreadState
        <3>2. t = Startup => \A m \in answered \ AllHanded : m \notin ToSet(i.page)
            BY <1>1, <2>1, <2>6 DEF Reply
        <3>3. t \in Thread /\ Onward(t, q) /\ th[t].pc = "wait"
            BY <2>6
        <3> HIDE DEF t, q, i
        <3>4. /\ t # Startup => th'[Startup] = th[Startup]
              /\ t = Startup => th'[Startup].got = q /\ th'[Startup].since = th[Startup].since
            BY <1>0, <3>3 DEF Onward, Goes
        <3>5. \A m \in answered \ AllHanded : m \notin ToSet(th'[Startup].got)
            <4>1. CASE t = Startup
                BY <1>1, <3>1, <3>2, <3>4, <4>1
            <4>2. CASE t # Startup
                BY <1>1, <3>4, <4>2
            <4> QED BY <4>1, <4>2
        <3>6. (running' /\ (th'[Startup].pc # "idle" \/ ~connectedOnce'))
                => Walks /\ th'[Startup].since = th[Startup].since
            BY <2>1, <3>3, <3>4 DEF Walks
        <3>7. AllHanded' = AllHanded
            BY <2>6 DEF AllHanded
        <3> QED BY <1>1, <1>2, <2>1, <2>3, <2>6, <3>5, <3>6, <3>7, SpokenKept
    <2> QED BY <1>10, <2>4, <2>5, <2>6, ReceiveFacts
<1>11. ASSUME NEW m \in Message, SendMsg(m) PROVE Spoken'
    <2>1. UNCHANGED <<again, answered, ever, handed, running, connectedOnce, buf, th>>
        BY <1>11 DEF SendMsg, process, history
    <2>2. \A a \in DOMAIN stream' : Reply(stream'[a], Startup) => \E b \in DOMAIN stream : stream'[a] = stream[b]
        <3>1. CASE stream' = stream
            BY <3>1
        <3>2. CASE stream' = Append(stream, Live(m))
            <4>1. Live(m) \in Item /\ Live(m).kind # "answer"
                BY DEF Live, Item
            <4> QED BY <3>2, <4>1, StreamAppend DEF Reply
        <3> QED BY <1>11, <3>1, <3>2 DEF SendMsg
    <2> QED BY <1>3, <2>1, <2>2
\* A step of another thread.
<1>12. ASSUME UNCHANGED <<again, answered, running, connectedOnce, buf, stream>>,
              ever \subseteq ever', AllHanded \subseteq AllHanded', th'[Startup] = th[Startup]
       PROVE  Spoken'
    <2>1. (running' /\ (th'[Startup].pc # "idle" \/ ~connectedOnce')) => Walks
        BY <1>12 DEF Walks
    <2> QED BY <1>1, <1>2, <1>12, <2>1, SpokenKept
<1>13. ASSUME NEW t \in Thread, \/ t # Startup /\ (GapBegins(t) \/ GapLocks(t))
                                \/ FetchFails(t) \/ FetchRefused(t) \/ Mark(t)
                                \/ t = Startup /\ (SeedMarker \/ Drain)
       PROVE Spoken'
    <2>1. UNCHANGED <<ever, handed, running, connectedOnce, stream, again, answered>>
          /\ (~(t = Startup /\ Drain) => buf' = buf) /\ connectedOnce
        <3>1. ~Fetch(t)
            BY <1>13 DEF Fetch, GapBegins, GapLocks, FetchFails, FetchRefused, Skip, Mark, SeedMarker, Drain
        <3>2. UNCHANGED <<again, answered>>
            BY <1>13 DEF GapBegins, GapLocks, FetchFails, FetchRefused, Skip, Mark, SeedMarker, Drain, history
        <3> QED BY <1>13, <3>1, <3>2, ThreadStep, ThreadQuiet DEF Quiet
    <2>2. AllHanded' = AllHanded
        BY <2>1 DEF AllHanded
    <2>3. CASE t # Startup
        <3>1. t \in Gap
            BY <1>0, <2>3
        <3>2. PICK pc, since, scope, got : Goes(t, pc, since, scope, got)
            <4>1. CASE FetchFails(t) \/ FetchRefused(t)
                BY <4>1, Moves DEF FetchFails, QueryFails, FetchRefused, Onward
            <4>2. CASE GapBegins(t) \/ GapLocks(t) \/ Mark(t)
                BY <3>1, <4>2, Moves
            <4> QED BY <1>13, <2>3, <4>1, <4>2
        <3>3. th'[Startup] = th[Startup]
            BY <1>0, <2>3, <3>2 DEF Goes
        <3> QED BY <1>12, <2>1, <2>2, <2>3, <3>3
    <2>4. ASSUME t = Startup, NEW pc, NEW since, NEW scope, NEW got, Goes(t, pc, since, scope, got),
                 ToSet(got) \subseteq ToSet(buf) \union ToSet(th[t].got),
                 ToSet(buf') \subseteq ToSet(buf), th[t].pc # "idle",
                 pc # "idle" => since = th[t].since
          PROVE  Spoken'
        <3>1. th'[t].pc = pc /\ th'[t].since = since /\ th'[t].got = got
            BY <2>4 DEF Goes
        <3> QED BY <1>3, <2>1, <2>4, <3>1
    <2>5. CASE t = Startup /\ (FetchFails(t) \/ FetchRefused(t))
        <3>1. Onward(t, th[t].got) /\ th[t].pc # "idle" /\ buf' = buf
            BY <2>1, <2>5, Moves DEF FetchFails, QueryFails, FetchRefused, Drain
        <3>2. PICK pc, scope : Goes(t, pc, th[t].since, scope, th[t].got)
            BY <3>1 DEF Onward
        <3> QED BY <2>4, <2>5, <3>1, <3>2
    <2>6. CASE t = Startup /\ Mark(t)
        <3>1. Goes(t, "idle", Never, 1, <<>>) /\ th[t].pc # "idle" /\ buf' = buf
            BY <2>1, <2>6, Moves DEF Mark, Drain
        <3>2. ToSet(<<>>) = {}
            BY DEF ToSet
        <3> QED BY <2>4, <2>6, <3>1, <3>2
    <2>7. CASE t = Startup /\ SeedMarker
        <3>1. Goes(t, "drain", th[t].since, th[t].scope, th[t].got) /\ th[t].pc # "idle" /\ buf' = buf
            BY <2>1, <2>7, Moves DEF SeedMarker, Drain
        <3> QED BY <2>4, <2>7, <3>1
    <2>8. CASE t = Startup /\ Drain
        <3> DEFINE q == BufferReplay(th[t].got)
        <3>1. Goes(t, "check", th[t].since, th[t].scope, q) /\ th[t].pc # "idle" /\ buf' = <<>>
            BY <2>8, Moves DEF Drain
        <3>2. ToSet(q) = ToSet(buf) \union ToSet(th[t].got) /\ ToSet(<<>>) = {}
            <4>1. ToSet(q) = ToSet(buf) \union ToSet(th[t].got)
                BY BufferFacts DEF TypeOK, ThreadState
            <4> QED BY <4>1 DEF ToSet
        <3> HIDE DEF q
        <3> QED BY <2>4, <2>8, <3>1, <3>2
    <2> QED BY <1>13, <2>3, <2>5, <2>6, <2>7, <2>8
<1>14. ASSUME NEW t \in Thread, Fetch(t) PROVE Spoken'
    <2> DEFINE i == Answer(t, th[t].scope, Page(t))
               n == Len(stream) + 1
    <2>1. /\ UNCHANGED <<ever, handed, running, connectedOnce, again, answered, buf>>
          /\ stream' = Append(stream, i) /\ running /\ connectedOnce
          /\ Goes(t, "wait", th[t].since, th[t].scope, th[t].got) /\ th[t].pc = "fetch"
        BY <1>14, ThreadStep, Moves DEF Fetch, process
    <2>2. i \in Item /\ i.kind = "answer" /\ i.to = t /\ i.page = Page(t)
        BY RangeFacts DEF Answer, Item, TypeOK, ThreadState
    <2>3. AllHanded' = AllHanded
        BY <2>1 DEF AllHanded
    <2>4. t = Startup => \A m \in answered \ AllHanded : m \notin ToSet(Page(t))
        <3>1. ASSUME t = Startup, NEW m \in answered \ AllHanded, m \in ToSet(Page(t)) PROVE FALSE
            <4>1. stamp[m] < th[t].since
                BY <2>1, <3>1 DEF Spoken
            <4>2. th[t].since =< stamp[m] /\ m \in Message
                BY <3>1, RangeFacts DEF TypeOK
            <4>3. th[t].since \in Int /\ stamp[m] \in Int
                BY <4>2 DEF TypeOK, ThreadState
            <4> QED BY <4>1, <4>2, <4>3
        <3> QED BY <3>1
    <2> HIDE DEF i
    <2>5. /\ stream'[n] = i
          /\ \A a \in DOMAIN stream' : (a \in DOMAIN stream /\ stream'[a] = stream[a]) \/ a = n
        BY <2>1, <2>2, StreamAppend
    <2> HIDE DEF n
    <2>6. /\ th'[Startup].got = th[Startup].got /\ th'[Startup].since = th[Startup].since
          /\ th'[Startup].pc # "idle" => th[Startup].pc # "idle"
        <3>1. CASE t = Startup
            BY <2>1, <3>1 DEF Goes
        <3>2. CASE t # Startup
            BY <1>0, <2>1, <3>2 DEF Goes
        <3> QED BY <3>1, <3>2
    <2>7. \A m \in answered \ AllHanded :
            \A a \in DOMAIN stream' : Reply(stream'[a], Startup) => m \notin ToSet(stream'[a].page)
        <3>1. ASSUME NEW m \in answered \ AllHanded, NEW a \in DOMAIN stream', Reply(stream'[a], Startup)
              PROVE  m \notin ToSet(stream'[a].page)
            <4>1. CASE a \in DOMAIN stream /\ stream'[a] = stream[a]
                BY <1>1, <3>1, <4>1
            <4>2. CASE a = n
                BY <2>2, <2>4, <2>5, <3>1, <4>2 DEF Reply
            <4> QED BY <2>5, <4>1, <4>2
        <3> QED BY <3>1
    <2>8. (running' /\ (th'[Startup].pc # "idle" \/ ~connectedOnce')) => Walks
        BY <2>1, <2>6 DEF Walks
    <2> QED BY <1>1, <1>2, <2>1, <2>3, <2>6, <2>7, <2>8, SpokenKept
<1>15. ASSUME NEW t \in Thread, Check(t) PROVE Spoken'
    <2> DEFINE fresh == Unseen(InOrder(th[t].got))
    <2>1. /\ UNCHANGED <<ever, handed, running, connectedOnce, again, answered, buf, stream>>
          /\ Goes(t, IF fresh = <<>> THEN "mark" ELSE "hand", th[t].since, th[t].scope, fresh)
          /\ ToSet(fresh) \subseteq ToSet(th[t].got) /\ th[t].pc # "idle" /\ connectedOnce
        BY <1>15, CheckFacts, ThreadStep DEF Check, process, history
    <2> HIDE DEF fresh
    <2>2. CASE t = Startup
        <3>1. th'[Startup].got = fresh /\ th'[Startup].since = th[Startup].since
            BY <2>1, <2>2 DEF Goes
        <3> QED BY <1>3, <2>1, <2>2, <3>1
    <2>3. CASE t # Startup
        <3>1. th'[Startup] = th[Startup]
            BY <1>0, <2>1, <2>3 DEF Goes
        <3>2. AllHanded' = AllHanded
            BY <2>1 DEF AllHanded
        <3> QED BY <1>12, <2>1, <3>1, <3>2
    <2> QED BY <2>2, <2>3
<1>16. ASSUME NEW t \in Thread, Hand(t) PROVE Spoken'
    <2> DEFINE m == Head(th[t].got)
               rest == Tail(th[t].got)
               by == IF t = Startup THEN "drain" ELSE "gap"
    <2>1. /\ m \in Message /\ by \in By /\ HandOver(m, by) /\ m \in ToSet(th[t].got)
          /\ ToSet(th[t].got) = {m} \union ToSet(rest)
          /\ Goes(t, IF rest = <<>> THEN "mark" ELSE "hand", th[t].since, th[t].scope, rest)
          /\ again' = IF t = Startup THEN again \union (({m} \intersect answered) \ AllHanded) ELSE again
          /\ UNCHANGED <<running, connectedOnce, answered, buf, stream>>
        BY <1>16, HandFacts
    <2>2. th[t].pc # "idle" /\ connectedOnce
        BY <1>16, ThreadStep DEF Hand
    <2> HIDE DEF m, rest, by
    <2>3. ever' = ever \union {m} /\ AllHanded' = AllHanded \union {m}
        BY <2>1, HandOverFacts
    <2>4. CASE t = Startup
        <3>1. m \notin answered \ AllHanded
            BY <1>1, <2>1, <2>4
        <3>2. again' = again
            BY <2>1, <2>4, <3>1
        <3>3. th'[Startup].got = rest /\ th'[Startup].since = th[Startup].since
            BY <2>1, <2>4 DEF Goes
        <3>4. \A k \in answered \ AllHanded : k \notin ToSet(th'[Startup].got)
            BY <1>1, <2>1, <2>4, <3>3
        <3>5. (running' /\ (th'[Startup].pc # "idle" \/ ~connectedOnce')) => Walks
            BY <2>1, <2>2, <2>4 DEF Walks
        <3> QED BY <1>1, <1>2, <2>1, <2>3, <3>2, <3>3, <3>4, <3>5, SpokenKept
    <2>5. CASE t # Startup
        <3>1. th'[Startup] = th[Startup]
            BY <1>0, <2>1, <2>5 DEF Goes
        <3> QED BY <1>12, <2>1, <2>3, <2>5, <3>1
    <2> QED BY <2>4, <2>5
<1> QED BY <1>4, <1>5, <1>6, <1>7, <1>8, <1>9, <1>10, <1>11, <1>13, <1>14, <1>15, <1>16, Kinds

-----------------------------------------------------------------------------
(* Nothing is lost silently.                                                 *)

\* What WillAsk says of a thread's record, of a stream and of a stamp.
Asking(m, t, r, str, s) ==
    /\ r.pc \in {"lock", "fetch", "wait"} /\ r.since =< s /\ r.scope =< ScopeOf(m)
    /\ r.pc = "wait" /\ r.scope = ScopeOf(m) =>
         \A a \in DOMAIN str : Reply(str[a], t) /\ str[a].scope = r.scope => m \in ToSet(str[a].page)

\* How a message is covered after a step.
LEMMA CoveredNext ==
    ASSUME NEW m,
           \/ m \in Held'
           \/ /\ lastin' =< stamp'[m] /\ mamseen' =< stamp'[m]
              /\ \/ \E a \in DOMAIN stream' : stream'[a] = Live(m)
                 \/ \E g \in Gap : th'[g].pc = "begin"
                 \/ connectedOnce' /\ conn' # "serving"
           \/ ~connectedOnce' /\ Bound' =< stamp'[m]
           \/ \E t \in Thread : Asking(m, t, th'[t], stream', stamp'[m])
    PROVE  Covered(m)'
<1>1. CASE m \in Held'
    BY <1>1 DEF Covered
<1>2. CASE /\ lastin' =< stamp'[m] /\ mamseen' =< stamp'[m]
           /\ \/ \E a \in DOMAIN stream' : stream'[a] = Live(m)
              \/ \E g \in Gap : th'[g].pc = "begin"
              \/ connectedOnce' /\ conn' # "serving"
    BY <1>2 DEF Covered, After, Live
<1>3. CASE ~connectedOnce' /\ Bound' =< stamp'[m]
    BY <1>3 DEF Covered
<1>4. CASE \E t \in Thread : Asking(m, t, th'[t], stream', stamp'[m])
    <2>1. PICK t \in Thread : Asking(m, t, th'[t], stream', stamp'[m])
        BY <1>4
    <2>2. WillAsk(m, t)'
        BY <2>1 DEF WillAsk, Asking, Reply, ScopeOf
    <2> QED BY <2>2 DEF Covered
<1> QED BY <1>1, <1>2, <1>3, <1>4

\* A step that leaves every way to a message open.
LEMMA CoverKept ==
    ASSUME NEW m, Covered(m), stamp'[m] = stamp[m],
           After(m) => lastin' =< stamp[m] /\ mamseen' =< stamp[m],
           m \in Held => m \in Held',
           (\E a \in DOMAIN stream : stream[a] = Live(m)) =>
              \/ m \in Held' \/ \E a \in DOMAIN stream' : stream'[a] = Live(m)
              \/ connectedOnce' /\ conn' # "serving",
           After(m) => \A g \in Gap : th[g].pc = "begin" =>
              (\E h \in Gap : th'[h].pc = "begin") \/ \E t \in Thread : Asking(m, t, th'[t], stream', stamp[m]),
           connectedOnce /\ conn # "serving" =>
              (connectedOnce' /\ conn' # "serving") \/ \E h \in Gap : th'[h].pc = "begin",
           ~connectedOnce => ~connectedOnce' /\ Bound' = Bound,
           \A t \in Thread : WillAsk(m, t) => m \in Held' \/ Asking(m, t, th'[t], stream', stamp[m])
    PROVE  Covered(m)'
<1>1. CASE m \in Held
    BY <1>1, CoveredNext
<1>2. CASE After(m) /\ \E a \in DOMAIN stream : stream[a] = Live(m)
    BY <1>2, CoveredNext
<1>3. CASE After(m) /\ \E g \in Gap : th[g].pc = "begin"
    BY <1>3, CoveredNext
<1>4. CASE After(m) /\ connectedOnce /\ conn # "serving"
    BY <1>4, CoveredNext
<1>5. CASE ~connectedOnce /\ Bound =< stamp[m]
    BY <1>5, CoveredNext
<1>6. CASE \E t \in Thread : WillAsk(m, t)
    BY <1>6, CoveredNext
<1> QED BY <1>1, <1>2, <1>3, <1>4, <1>5, <1>6 DEF Covered

\* A thread that will ask for a message goes on to.
LEMMA AskKept ==
    ASSUME NEW m, NEW t, WillAsk(m, t), th'[t] = th[t],
           \A a \in DOMAIN stream' : Reply(stream'[a], t) => \E b \in DOMAIN stream : stream'[a] = stream[b]
    PROVE  Asking(m, t, th'[t], stream', stamp[m])
BY DEF WillAsk, Asking

\* A message is missing after a step only if it was before or is sent by it.
LEMMA Older ==
    ASSUME TypeOK, Modes, Threads, Clock, Given, Coverage, [Next]_vars, NEW m \in Outstanding' \ excused'
    PROVE  /\ m \in Message /\ m \notin Own
           /\ \/ SendMsg(m)
              \/ m \in Outstanding \ excused /\ Covered(m) /\ stamp'[m] = stamp[m]
<1>1. ever \subseteq ever'
    <2>1. CASE \/ Tick \/ Launch \/ Connect \/ ConnectFails \/ OnXMPPConnected \/ Drop \/ GraceEnds
               \/ Speak \/ UNCHANGED vars \/ \E k \in Message : SendMsg(k)
        BY <2>1, OuterQuiet DEF Quiet
    <2>2. CASE Stop \/ Crash
        BY <2>2, EndFacts
    <2>3. CASE Receive
        BY <2>3, ReceiveFacts DEF Quiet, HandOver
    <2>4. ASSUME NEW t \in Thread, \/ t # Startup /\ (GapBegins(t) \/ GapLocks(t))
                                   \/ Fetch(t) \/ FetchFails(t) \/ FetchRefused(t) \/ Mark(t)
                                   \/ t = Startup /\ (SeedMarker \/ Drain)
          PROVE  ever \subseteq ever'
        BY <2>4, ThreadQuiet DEF Quiet
    <2>5. ASSUME NEW t \in Thread, Check(t) \/ Hand(t) PROVE ever \subseteq ever'
        BY <2>5 DEF Check, Hand, HandOver, history
    <2> QED BY <2>1, <2>2, <2>3, <2>4, <2>5, Kinds
<1>2. excused \subseteq excused'
    <2>1. CASE \/ Tick \/ Launch \/ Connect \/ ConnectFails \/ OnXMPPConnected \/ Drop \/ GraceEnds
               \/ Speak \/ UNCHANGED vars
        BY <2>1 DEF Tick, Launch, Connect, ConnectFails, OnXMPPConnected, Drop, GraceEnds, Speak, vars, history
    <2>2. CASE Stop \/ Crash
        BY <2>2 DEF Stop, Crash, Ends
    <2>3. CASE Receive
        BY <2>3, ReceiveFacts DEF HandOver
    <2>4. ASSUME NEW t \in Thread, \/ t # Startup /\ (GapBegins(t) \/ GapLocks(t))
                                   \/ Fetch(t) \/ FetchFails(t) \/ FetchRefused(t) \/ Mark(t)
                                   \/ Check(t) \/ Hand(t)
                                   \/ t = Startup /\ (SeedMarker \/ Drain)
          PROVE  excused \subseteq excused'
        BY <2>4 DEF GapBegins, GapLocks, Fetch, FetchFails, FetchRefused, Skip, Mark, Check, Hand, HandOver,
                    SeedMarker, Drain, history
    <2>5. ASSUME NEW k \in Message, SendMsg(k) PROVE excused \subseteq excused'
        BY <2>5 DEF SendMsg, history
    <2> QED BY <2>1, <2>2, <2>3, <2>4, <2>5, Kinds
<1>3. m \in ToSet(sent') /\ m \notin Own /\ m \notin ever' /\ m \notin excused'
    BY DEF Outstanding
<1>4. CASE sent' = sent /\ stamp' = stamp
    <2>1. m \in Outstanding \ excused
        BY <1>1, <1>2, <1>3, <1>4 DEF Outstanding
    <2>2. m \in Message
        BY <2>1 DEF Outstanding, TypeOK, ToSet
    <2> QED BY <1>3, <1>4, <2>1, <2>2 DEF Coverage
<1>5. ASSUME NEW k \in Message, SendMsg(k)
      PROVE  /\ m \in Message
             /\ m = k \/ (m \in Outstanding \ excused /\ stamp'[m] = stamp[m])
    <2>1. sent \in Seq(Message) /\ sent' = Append(sent, k) /\ stamp' = [stamp EXCEPT ![k] = now]
        BY <1>5 DEF SendMsg, TypeOK
    <2>2. ToSet(sent') = ToSet(sent) \union {k}
        BY <2>1, Appended
    <2>3. ToSet(sent) \subseteq Message
        BY <2>1 DEF ToSet
    <2>4. m # k => m \in Outstanding \ excused
        BY <1>1, <1>2, <1>3, <2>2 DEF Outstanding
    <2> QED BY <1>3, <2>1, <2>2, <2>3, <2>4 DEF TypeOK
<1>6. (\E k \in Message : SendMsg(k)) \/ (sent' = sent /\ stamp' = stamp)
    <2>1. CASE Tick \/ Launch \/ Connect \/ ConnectFails \/ OnXMPPConnected \/ Drop \/ GraceEnds
               \/ Stop \/ Crash \/ Speak \/ UNCHANGED vars
        BY <2>1 DEF Tick, Launch, Connect, ConnectFails, OnXMPPConnected, Drop, GraceEnds, Stop, Crash, Ends,
                    Speak, vars, server
    <2>2. CASE Receive
        BY <2>2 DEF Receive, server
    <2>3. ASSUME NEW t \in Thread, \/ t # Startup /\ (GapBegins(t) \/ GapLocks(t))
                                   \/ Fetch(t) \/ FetchFails(t) \/ FetchRefused(t) \/ Mark(t)
                                   \/ Check(t) \/ Hand(t)
                                   \/ t = Startup /\ (SeedMarker \/ Drain)
          PROVE  sent' = sent /\ stamp' = stamp
        BY <2>3, ThreadStep
    <2> QED BY <2>1, <2>2, <2>3, Kinds
<1> QED BY <1>3, <1>4, <1>5, <1>6 DEF Coverage

\* A step of one thread, or an answer it was given, that leaves the other ways open.
LEMMA CoverThread ==
    ASSUME NEW m, NEW t \in Thread, NEW pc, NEW since, NEW scope, NEW got,
           Goes(t, pc, since, scope, got), Covered(m), stamp'[m] = stamp[m],
           connectedOnce, connectedOnce', conn' = conn,
           After(m) => lastin' =< stamp[m] /\ mamseen' =< stamp[m],
           m \in Held => m \in Held',
           (\E a \in DOMAIN stream : stream[a] = Live(m)) => \E a \in DOMAIN stream' : stream'[a] = Live(m),
           \A u \in Thread \ {t} : \A a \in DOMAIN stream' :
              Reply(stream'[a], u) => \E b \in DOMAIN stream : stream'[a] = stream[b],
           After(m) /\ th[t].pc = "begin" => Asking(m, t, th'[t], stream', stamp[m]),
           WillAsk(m, t) => m \in Held' \/ Asking(m, t, th'[t], stream', stamp[m])
    PROVE  Covered(m)'
<1>1. \A u \in Thread \ {t} : th'[u] = th[u]
    BY DEF Goes
<1>2. ASSUME NEW u \in Thread, WillAsk(m, u) PROVE m \in Held' \/ Asking(m, u, th'[u], stream', stamp[m])
    <2>1. CASE u = t
        BY <1>2, <2>1
    <2>2. CASE u # t
        BY <1>1, <1>2, <2>2, AskKept
    <2> QED BY <2>1, <2>2
<1>3. ASSUME After(m), NEW g \in Gap, th[g].pc = "begin"
      PROVE  (\E h \in Gap : th'[h].pc = "begin") \/ \E u \in Thread : Asking(m, u, th'[u], stream', stamp[m])
    <2>1. g \in Thread
        BY DEF Thread
    <2>2. CASE g = t
        BY <1>3, <2>1, <2>2
    <2>3. CASE g # t
        BY <1>1, <1>3, <2>1, <2>3
    <2> QED BY <2>2, <2>3
<1> QED BY ONLY <1>2, <1>3, CoverKept, Covered(m), stamp'[m] = stamp[m],
           connectedOnce, connectedOnce', conn' = conn,
           After(m) => lastin' =< stamp[m] /\ mamseen' =< stamp[m],
           m \in Held => m \in Held',
           (\E a \in DOMAIN stream : stream[a] = Live(m)) => \E a \in DOMAIN stream' : stream'[a] = Live(m)

\* A message is in the archive that its scope names.
LEMMA InItsScope ==
    ASSUME TypeOK, NEW t \in Thread, NEW m \in Message \ Own
    PROVE  /\ th[t].scope \in {1, 2} /\ ScopeOf(m) \in {1, 2}
           /\ th[t].scope = ScopeOf(m) => m \in InScope(t)
           /\ th[t].scope =< ScopeOf(m) /\ th[t].scope # ScopeOf(m) =>
                th[t].scope = 1 /\ ScopeOf(m) = 2 /\ More(t)
<1>1. th[t].scope \in DOMAIN Scopes
    BY DEF TypeOK, ThreadState
<1>2. th[t].scope \in {1, 2} /\ ScopeOf(m) \in {1, 2}
    BY <1>1, ScopeFacts DEF ScopeOf
<1>3. CASE th[t].scope = ScopeOf(m)
    <2>1. ASSUME m \in Direct PROVE m \in InScope(t)
        BY <1>3, <2>1, ScopeFacts DEF ScopeOf, InScope
    <2>2. ASSUME m \notin Direct PROVE m \in InScope(t)
        <3>1. th[t].scope = 2 /\ Scopes[2] = "room" /\ m \in Room
            BY <1>1, <1>3, <2>2, ScopeFacts DEF ScopeOf, Message
        <3>2. Scopes[th[t].scope] = "room"
            BY <3>1
        <3> QED BY <3>1, <3>2 DEF InScope
    <2>3. m \in InScope(t)
        BY <2>1, <2>2
    <2> QED BY <1>2, <1>3, <2>3
<1>4. CASE th[t].scope =< ScopeOf(m) /\ th[t].scope # ScopeOf(m)
    <2>1. th[t].scope = 1 /\ ScopeOf(m) = 2
        BY <1>2, <1>4
    <2>2. m \in Room
        BY <2>1 DEF ScopeOf, Message
    <2>3. Len(Scopes) = 2
        BY <2>2, ScopeFacts
    <2> QED BY <1>2, <2>1, <2>3 DEF More
<1> QED BY <1>2, <1>3, <1>4

\* A thread that goes on to the next archive has still to ask for what is there.
LEMMA AskNext ==
    ASSUME TypeOK, NEW t \in Thread, NEW m \in Message \ Own, WillAsk(m, t),
           th[t].scope # ScopeOf(m), NEW got, Onward(t, got)
    PROVE  Asking(m, t, th'[t], stream', stamp[m])
<1>1. th[t].since =< stamp[m] /\ th[t].scope =< ScopeOf(m)
    BY DEF WillAsk
<1>2. th[t].scope = 1 /\ ScopeOf(m) = 2 /\ More(t)
    BY <1>1, InItsScope
<1>3. Goes(t, "fetch", th[t].since, th[t].scope + 1, got)
    BY <1>2 DEF Onward
<1>4. th'[t].pc = "fetch" /\ th'[t].since = th[t].since /\ th'[t].scope = 2
    BY <1>2, <1>3 DEF Goes
<1> QED BY <1>1, <1>2, <1>4 DEF Asking

\* What a marker that moves to now leaves uncovered is behind it.
LEMMA NotBehind ==
    ASSUME TypeOK, Clock, NEW m \in Outstanding, m \notin Held, m \notin Behind
    PROVE  stamp[m] = now /\ lastin =< stamp[m] /\ mamseen =< stamp[m]
<1>1. m \in Message
    BY DEF Outstanding, TypeOK, ToSet
<1>2. stamp[m] \in Int /\ now \in Int /\ ~(stamp[m] < now) /\ stamp[m] =< now
    BY <1>1 DEF Behind, TypeOK, Clock
<1>3. stamp[m] = now
    BY <1>2
<1> QED BY <1>3 DEF Clock

\* What is read next leaves the rest of what the server sent.
LEMMA LiveTail ==
    ASSUME TypeOK, stream # <<>>, stream' = Tail(stream), NEW i, Head(stream) # i,
           \E a \in DOMAIN stream : stream[a] = i
    PROVE  \E a \in DOMAIN stream' : stream'[a] = i
<1>1. stream \in Seq(Item)
    BY DEF TypeOK
<1>2. PICK a \in DOMAIN stream : stream[a] = i
    OBVIOUS
<1>3. a # 1
    BY <1>1, <1>2
<1>4. a - 1 \in DOMAIN Tail(stream) /\ Tail(stream)[a - 1] = stream[a]
    BY <1>1, <1>2, <1>3
<1> QED BY <1>2, <1>4

\* The read loop loses nothing.
LEMMA CoverReceive ==
    ASSUME TypeOK, Modes, Clock, Threads, Given, Receive,
           NEW m \in Outstanding \ excused, m \in Message \ Own, m \notin ever', m \notin excused',
           Covered(m), stamp'[m] = stamp[m]
    PROVE  Covered(m)'
<1> DEFINE i == Head(stream)
<1>1. /\ i = stream[1] /\ 1 \in DOMAIN stream /\ stream' = Tail(stream) /\ stream # <<>>
      /\ connectedOnce /\ connectedOnce' /\ conn' = conn /\ conn = "serving" /\ mamseen' = mamseen
    BY ReceiveFacts DEF Receive
<1>2. ASSUME NEW u \in Thread, NEW a \in DOMAIN stream', Reply(stream'[a], u)
      PROVE  \E b \in DOMAIN stream : stream'[a] = stream[b]
    BY <1>1, <1>2, StreamTail
<1>3. i # Live(m) =>
        ((\E a \in DOMAIN stream : stream[a] = Live(m)) => \E a \in DOMAIN stream' : stream'[a] = Live(m))
    BY <1>1, LiveTail
<1>4. m \notin seen
    BY DEF Outstanding, Given
<1> HIDE DEF i
<1>5. ASSUME th' = th, m \in Held => m \in Held',
             After(m) => lastin' =< stamp[m] /\ mamseen' =< stamp[m], i # Live(m)
      PROVE  Covered(m)'
    <2>1. \A t \in Thread : WillAsk(m, t) => Asking(m, t, th'[t], stream', stamp[m])
        BY <1>2, <1>5, AskKept
    <2> QED BY <1>1, <1>3, <1>5, <2>1, CoverKept
<1>6. CASE Copy(i) /\ i.msg \in Message \ (seen \union Own) /\ HandOver(i.msg, "loop")
           /\ Held' = Held /\ UNCHANGED <<th, buf>>
    <2>1. m # i.msg /\ lastin' = now /\ excused' = excused \union (Behind \ {i.msg})
        BY <1>6 DEF HandOver
    <2>2. i # Live(m)
        BY <2>1 DEF Live
    <2>3. CASE m \in Held
        BY <1>6, <2>3, CoveredNext
    <2>4. CASE m \notin Held
        <3>1. m \notin Behind
            BY <2>1
        <3>2. lastin' =< stamp[m] /\ mamseen' =< stamp[m]
            <4>1. stamp[m] = now /\ mamseen =< stamp[m]
                BY <2>4, <3>1, NotBehind
            <4>2. now \in Int
                BY DEF TypeOK
            <4> QED BY <1>1, <2>1, <4>1, <4>2
        <3> QED BY <1>5, <1>6, <2>2, <3>2
    <2> QED BY <2>3, <2>4
<1>7. CASE i.kind = "push" /\ Held' = Held \union {i.msg} /\ UNCHANGED <<th, lastin>>
    <2>1. i # Live(m)
        BY <1>7 DEF Live
    <2> QED BY <1>1, <1>5, <1>7, <2>1 DEF After
<1>8. CASE Copy(i) /\ (i.kind = "live" => i.msg \in seen \union Own) /\ Quiet /\ UNCHANGED <<th, lastin>>
    <2>1. i # Live(m)
        BY <1>4, <1>8 DEF Live
    <2> QED BY <1>1, <1>5, <1>8, <2>1 DEF After, Quiet
<1>9. CASE i.kind = "answer" /\ Quiet /\ UNCHANGED <<th, lastin>>
    <2>1. i # Live(m)
        BY <1>9 DEF Live
    <2> QED BY <1>1, <1>5, <1>9, <2>1 DEF After, Quiet
<1>10. CASE /\ i.kind = "answer" /\ i.to \in Thread
            /\ th[i.to].pc = "wait" /\ th[i.to].scope = i.scope
            /\ Onward(i.to, th[i.to].got \o Only(i.page, Direct \union Room))
            /\ Held' = Held \union (ToSet(i.page) \ Own) /\ UNCHANGED lastin
    <2> DEFINE t == i.to
               q == th[i.to].got \o Only(i.page, Direct \union Room)
    <2>1. i # Live(m)
        BY <1>10 DEF Live
    <2>2. t \in Thread /\ Onward(t, q) /\ th[t].pc = "wait" /\ Reply(i, t) /\ i.scope = th[t].scope
        BY <1>10 DEF Reply
    <2>3. PICK pc, since, scope, got : Goes(t, pc, since, scope, got)
        BY <2>2 DEF Onward
    <2>4. WillAsk(m, t) => m \in Held' \/ Asking(m, t, th'[t], stream', stamp[m])
        <3>1. ASSUME WillAsk(m, t), th[t].scope = ScopeOf(m) PROVE m \in Held'
            <4>1. m \in ToSet(i.page)
                BY <1>1, <2>2, <3>1 DEF WillAsk
            <4> QED BY <1>10, <4>1
        <3>2. ASSUME WillAsk(m, t), th[t].scope # ScopeOf(m)
              PROVE  Asking(m, t, th'[t], stream', stamp[m])
            <4> HIDE DEF t, q
            <4> QED BY <2>2, <3>2, AskNext
        <3> QED BY <3>1, <3>2
    <2>5. th[t].pc # "begin" /\ (m \in Held => m \in Held')
          /\ (After(m) => lastin' =< stamp[m] /\ mamseen' =< stamp[m])
        BY <1>1, <1>10, <2>2 DEF After
    <2> HIDE DEF t, q
    <2> QED BY <1>1, <1>2, <1>3, <2>1, <2>2, <2>3, <2>4, <2>5, CoverThread
<1> QED BY <1>6, <1>7, <1>8, <1>9, <1>10, ReceiveFacts DEF i

\* The recoveries lose nothing.
LEMMA CoverRecover ==
    ASSUME TypeOK, Modes, Clock, Threads, Given, Answers, NEW t \in Thread,
           \/ t # Startup /\ (GapBegins(t) \/ GapLocks(t))
           \/ Fetch(t) \/ FetchFails(t) \/ FetchRefused(t) \/ Check(t) \/ Hand(t) \/ Mark(t)
           \/ t = Startup /\ (SeedMarker \/ Drain),
           NEW m \in Outstanding \ excused, m \in Message \ Own, m \notin ever', m \notin excused',
           Covered(m), stamp'[m] = stamp[m]
    PROVE  Covered(m)'
<1>0. Startup \in Thread /\ Gap = Thread \ {Startup}
    BY BackfillAssumption DEF Thread
<1>1. /\ connectedOnce /\ connectedOnce' /\ conn' = conn
      /\ stream' = IF Fetch(t) THEN Append(stream, Answer(t, th[t].scope, Page(t))) ELSE stream
    BY ThreadStep
<1>2. /\ (\E a \in DOMAIN stream : stream[a] = Live(m)) => \E a \in DOMAIN stream' : stream'[a] = Live(m)
      /\ \A u \in Thread \ {t} : \A a \in DOMAIN stream' :
            Reply(stream'[a], u) => \E b \in DOMAIN stream : stream'[a] = stream[b]
    <2>1. CASE Fetch(t)
        <3> DEFINE i == Answer(t, th[t].scope, Page(t))
        <3>1. i \in Item /\ i.to = t
            BY RangeFacts DEF Answer, Item, TypeOK, ThreadState
        <3>2. stream' = Append(stream, i)
            BY <1>1, <2>1
        <3> HIDE DEF i
        <3>3. /\ \A a \in DOMAIN stream : a \in DOMAIN stream' /\ stream'[a] = stream[a]
              /\ \A a \in DOMAIN stream' : a \in DOMAIN stream \/ stream'[a] = i
            BY <3>1, <3>2, StreamAppend
        <3> QED BY <3>1, <3>3 DEF Reply
    <2>2. CASE ~Fetch(t)
        BY <1>1, <2>2
    <2> QED BY <2>1, <2>2
<1>3. m \in ToSet(sent) /\ stamp[m] \in Int /\ stamp[m] =< now /\ m \notin seen
    BY DEF Outstanding, Given, TypeOK, Clock
<1>4. ASSUME NEW pc, NEW since, NEW scope, NEW got, Goes(t, pc, since, scope, got),
             After(m) => lastin' =< stamp[m] /\ mamseen' =< stamp[m], m \in Held => m \in Held',
             th[t].pc # "begin", WillAsk(m, t) => m \in Held' \/ Asking(m, t, th'[t], stream', stamp[m])
      PROVE  Covered(m)'
    BY <1>1, <1>2, <1>4, CoverThread
<1>5. CASE t # Startup /\ GapBegins(t)
    <2>1. t \in Gap /\ UNCHANGED <<lastin, mamseen>> /\ Held' = Held
        BY <1>0, <1>5, ThreadQuiet DEF GapBegins, markers, Quiet
    <2>2. ReconnectSince # Never
        BY <1>5 DEF GapBegins
    <2>3. Goes(t, "lock", ReconnectSince, th[t].scope, th[t].got)
        BY <1>5, <2>1, <2>2, Moves
    <2>4. th[t].pc = "begin" /\ th[t].scope = 1
        BY <1>5 DEF GapBegins, Threads
    <2>5. ~(stamp[m] < now - Reach)
        BY <1>5, <2>2 DEF GapBegins
    <2>6. After(m) => ReconnectSince =< stamp[m]
        <3>1. ReconnectSince = Later(Later(lastin, mamseen), now - Reach)
            BY <2>2 DEF ReconnectSince
        <3>2. lastin \in Int /\ mamseen \in Int /\ now - Reach \in Int
            BY Bounds DEF TypeOK
        <3>3. ASSUME After(m) PROVE Later(Later(lastin, mamseen), now - Reach) =< stamp[m]
            <4>1. lastin =< stamp[m] /\ mamseen =< stamp[m] /\ now - Reach =< stamp[m]
                BY <1>3, <2>5, <3>2, <3>3 DEF After
            <4> QED BY <4>1 DEF Later
        <3> QED BY <3>1, <3>3
    <2>7. After(m) => Asking(m, t, th'[t], stream', stamp[m])
        <3>1. th'[t].pc = "lock" /\ th'[t].since = ReconnectSince /\ th'[t].scope = 1
            BY <2>3, <2>4 DEF Goes
        <3>2. 1 =< ScopeOf(m)
            BY DEF ScopeOf
        <3> HIDE DEF ReconnectSince
        <3> QED BY <2>6, <3>1, <3>2 DEF Asking
    <2>8. ~WillAsk(m, t)
        BY <2>4 DEF WillAsk
    <2> QED BY <1>1, <1>2, <2>1, <2>3, <2>7, <2>8, CoverThread DEF After
<1>6. CASE t # Startup /\ GapLocks(t)
    <2>1. t \in Gap /\ UNCHANGED <<lastin, mamseen>> /\ Held' = Held
        BY <1>0, <1>6, ThreadQuiet DEF GapLocks, markers, Quiet
    <2>2. Goes(t, "fetch", th[t].since, th[t].scope, th[t].got) /\ th[t].pc = "lock"
        BY <1>6, <2>1, Moves DEF GapLocks
    <2>3. th'[t].pc = "fetch" /\ th'[t].since = th[t].since /\ th'[t].scope = th[t].scope
        BY <2>2 DEF Goes
    <2>4. WillAsk(m, t) => Asking(m, t, th'[t], stream', stamp[m])
        BY <2>3 DEF WillAsk, Asking
    <2> QED BY <1>4, <2>1, <2>2, <2>4 DEF After
<1>7. CASE Fetch(t)
    <2>1. UNCHANGED <<lastin, mamseen>> /\ Held' = Held
        BY <1>7, ThreadQuiet DEF Fetch, markers, Quiet
    <2>2. Goes(t, "wait", th[t].since, th[t].scope, th[t].got) /\ th[t].pc = "fetch"
        BY <1>7, Moves DEF Fetch
    <2>3. th'[t].pc = "wait" /\ th'[t].since = th[t].since /\ th'[t].scope = th[t].scope
        BY <2>2 DEF Goes
    <2>4. ASSUME WillAsk(m, t), th[t].scope = ScopeOf(m),
                 NEW a \in DOMAIN stream', Reply(stream'[a], t), stream'[a].scope = th[t].scope
          PROVE  m \in ToSet(stream'[a].page)
        <3> DEFINE i == Answer(t, th[t].scope, Page(t))
        <3>1. i \in Item /\ i.page = Page(t)
            BY RangeFacts DEF Answer, Item, TypeOK, ThreadState
        <3>2. stream' = Append(stream, i)
            BY <1>1, <1>7
        <3> HIDE DEF i
        <3>3. (a \in DOMAIN stream /\ stream'[a] = stream[a]) \/ stream'[a] = i
            BY <2>4, <3>1, <3>2, StreamAppend
        <3>4. ~(a \in DOMAIN stream /\ stream'[a] = stream[a])
            <4> SUFFICES ASSUME a \in DOMAIN stream, stream'[a] = stream[a] PROVE FALSE
                OBVIOUS
            <4>1. stream[a].scope < th[t].scope
                BY <2>2, <2>4 DEF Answers
            <4>2. stream[a].scope = th[t].scope /\ th[t].scope \in Int
                BY <2>4, InItsScope
            <4> QED BY <4>1, <4>2
        <3>5. th[t].since =< stamp[m] /\ m \in InScope(t)
            BY <2>4, InItsScope DEF WillAsk
        <3>6. m \in ToSet(InRange(t))
            BY <1>3, <3>5, RangeFacts
        <3>7. m \in ToSet(Page(t))
            BY <1>7, <3>6 DEF Fetch
        <3> QED BY <3>1, <3>3, <3>4, <3>7
    <2>5. WillAsk(m, t) => Asking(m, t, th'[t], stream', stamp[m])
        BY <2>3, <2>4 DEF WillAsk, Asking
    <2> QED BY <1>4, <2>1, <2>2, <2>5 DEF After
<1>8. CASE FetchFails(t) \/ FetchRefused(t)
    <2>1. UNCHANGED <<lastin, mamseen>> /\ Held' = Held /\ Skip(t) /\ th[t].pc \in {"fetch", "wait"}
        BY <1>8, ThreadQuiet DEF FetchFails, QueryFails, FetchRefused, Skip, markers, Quiet
    <2>2. Onward(t, th[t].got)
        BY <2>1, Moves
    <2>3. PICK pc, since, scope, got : Goes(t, pc, since, scope, got)
        BY <2>2 DEF Onward
    <2>4. ASSUME WillAsk(m, t) PROVE Asking(m, t, th'[t], stream', stamp[m])
        <3>1. th[t].scope # ScopeOf(m)
            <4> SUFFICES ASSUME th[t].scope = ScopeOf(m) PROVE FALSE
                OBVIOUS
            <4>1. th[t].since =< stamp[m] /\ m \in InScope(t)
                BY <2>4, InItsScope DEF WillAsk
            <4>2. m \in ToSet(InRange(t))
                BY <1>3, <4>1, RangeFacts
            <4> QED BY <2>1, <4>2 DEF Skip
        <3> QED BY <2>2, <2>4, <3>1, AskNext
    <2> QED BY <1>4, <2>1, <2>3, <2>4 DEF After
<1>9. CASE Check(t)
    <2>1. m \in Held => m \in Held'
        BY <1>3, <1>9, CheckFacts
    <2>2. UNCHANGED <<lastin, mamseen>> /\ th[t].pc = "check"
        BY <1>9 DEF Check
    <2>3. PICK pc, since, scope, got : Goes(t, pc, since, scope, got)
        BY <1>9, CheckFacts
    <2>4. ~WillAsk(m, t)
        BY <2>2 DEF WillAsk
    <2> QED BY <1>4, <2>1, <2>2, <2>3, <2>4 DEF After
<1>10. CASE Hand(t)
    <2> DEFINE k == Head(th[t].got)
               by == IF t = Startup THEN "drain" ELSE "gap"
    <2>1. /\ HandOver(k, by) /\ Held \ Held' \subseteq {k} /\ mamseen' = mamseen /\ th[t].pc = "hand"
          /\ \E pc, since, scope, got : Goes(t, pc, since, scope, got)
        BY <1>10, HandFacts DEF Hand
    <2> HIDE DEF k, by
    <2>2. m # k /\ lastin' = now /\ excused' = excused \union (Behind \ {k})
        BY <2>1 DEF HandOver
    <2>3. m \in Held => m \in Held'
        BY <2>1, <2>2
    <2>4. ~WillAsk(m, t)
        BY <2>1 DEF WillAsk
    <2>5. m \notin Held => lastin' =< stamp[m] /\ mamseen' =< stamp[m]
        BY <1>3, <2>1, <2>2, NotBehind
    <2>6. CASE m \in Held
        BY <2>3, <2>6, CoveredNext
    <2>7. CASE m \notin Held
        BY <1>4, <2>1, <2>3, <2>4, <2>5, <2>7
    <2> QED BY <2>6, <2>7
<1>11. CASE Mark(t)
    <2>1. /\ Held' = Held /\ mamseen' = now /\ lastin' = lastin /\ th[t].pc = "mark"
          /\ excused' = excused \union Behind
        BY <1>11, ThreadQuiet DEF Mark, Quiet
    <2>2. Goes(t, "idle", Never, 1, <<>>)
        BY <1>11, Moves
    <2>3. ~WillAsk(m, t)
        BY <2>1 DEF WillAsk
    <2>4. m \notin Held => lastin' =< stamp[m] /\ mamseen' =< stamp[m]
        BY <1>3, <2>1, NotBehind
    <2>5. CASE m \in Held
        BY <2>1, <2>5, CoveredNext
    <2>6. CASE m \notin Held
        BY <1>4, <2>1, <2>2, <2>3, <2>4, <2>6
    <2> QED BY <2>5, <2>6
<1>12. CASE t = Startup /\ SeedMarker
    BY <1>12 DEF SeedMarker
<1>13. CASE t = Startup /\ Drain
    <2>1. UNCHANGED <<lastin, mamseen>> /\ Held' = Held /\ th[t].pc = "drain"
        BY <1>13, ThreadQuiet DEF Drain, markers, Quiet
    <2>2. PICK pc, since, scope, got : Goes(t, pc, since, scope, got)
        BY <1>13, Moves
    <2>3. ~WillAsk(m, t)
        BY <2>1 DEF WillAsk
    <2> QED BY <1>4, <2>1, <2>2, <2>3 DEF After
<1> QED BY <1>5, <1>6, <1>7, <1>8, <1>9, <1>10, <1>11, <1>12, <1>13

\* A step of the server, of a launch or of a connection that moves no thread and
\* loses nothing of what was sent.
LEMMA CoverStill ==
    ASSUME NEW m, Covered(m), stamp'[m] = stamp[m], UNCHANGED <<th, connectedOnce, lastin, mamseen>>,
           Held' = Held, connectedOnce => conn' # "serving" \/ conn = "serving",
           ~connectedOnce => Bound' = Bound,
           connectedOnce /\ (\E a \in DOMAIN stream : stream[a] = Live(m)) =>
              \/ \E a \in DOMAIN stream' : stream'[a] = Live(m)
              \/ conn' # "serving",
           ~connectedOnce /\ (\E a \in DOMAIN stream : stream[a] = Live(m)) =>
              \E a \in DOMAIN stream' : stream'[a] = Live(m),
           \A t \in Thread : \A a \in DOMAIN stream' :
              Reply(stream'[a], t) => \E b \in DOMAIN stream : stream'[a] = stream[b]
    PROVE  Covered(m)'
<1>1. \A t \in Thread : WillAsk(m, t) => Asking(m, t, th'[t], stream', stamp[m])
    BY AskKept
<1> QED BY <1>1, CoverKept DEF After

\* The server, launches and connections lose nothing.
LEMMA CoverOuter ==
    ASSUME TypeOK, Modes, Clock, Threads,
           NEW m \in Outstanding \ excused, m \in Message \ Own, m \notin excused',
           Covered(m), stamp'[m] = stamp[m],
           \/ Tick \/ Launch \/ Connect \/ ConnectFails \/ OnXMPPConnected \/ Drop \/ GraceEnds
           \/ Stop \/ Crash \/ Speak \/ UNCHANGED vars
           \/ \E k \in Message : k # m /\ SendMsg(k)
    PROVE  Covered(m)'
<1>0. Startup \in Thread /\ Gap = Thread \ {Startup}
    BY BackfillAssumption DEF Thread
<1>1. stamp[m] \in Int /\ Never =< stamp[m] /\ stamp[m] =< now
    BY DEF TypeOK, Clock
<1>2. CASE Tick \/ ConnectFails \/ GraceEnds \/ Speak \/ UNCHANGED vars
    <2>1. Held' = Held
        BY <1>2, OuterQuiet DEF Quiet
    <2>2. UNCHANGED <<th, connectedOnce, lastin, mamseen, stream, conn>>
        BY <1>2 DEF Tick, ConnectFails, GraceEnds, Speak, vars, process, markers
    <2>3. Bound' = Bound
        <3>1. CASE Tick \/ ConnectFails \/ GraceEnds \/ UNCHANGED vars
            <4>1. UNCHANGED <<running, th, lastout, mamseen, swapstart>>
                BY <3>1 DEF Tick, ConnectFails, GraceEnds, vars, process, markers
            <4> QED BY <4>1 DEF Bound, MamSinceFor, WindowStart
        <3>2. CASE Speak
            BY <3>2 DEF Speak, process, Bound
        <3> QED BY <1>2, <3>1, <3>2
    <2> QED BY <2>1, <2>2, <2>3, CoverStill
<1>3. ASSUME NEW k \in Message, k # m, SendMsg(k) PROVE Covered(m)'
    <2>1. Held' = Held
        BY <1>3, OuterQuiet DEF Quiet
    <2>2. UNCHANGED <<th, connectedOnce, lastin, mamseen, conn>> /\ Bound' = Bound
        BY <1>3 DEF SendMsg, process, markers, Bound, MamSinceFor, WindowStart
    <2>3. stream' = stream \/ stream' = Append(stream, Live(k))
        BY <1>3 DEF SendMsg
    <2>4. Live(k) \in Item /\ Live(k).kind = "live"
        BY DEF Live, Item
    <2>5. /\ \A a \in DOMAIN stream : a \in DOMAIN stream' /\ stream'[a] = stream[a]
          /\ \A a \in DOMAIN stream' : (a \in DOMAIN stream /\ stream'[a] = stream[a]) \/ stream'[a] = Live(k)
        <3>1. CASE stream' = stream
            BY <3>1
        <3>2. CASE stream' = Append(stream, Live(k))
            BY <2>4, <3>2, StreamAppend
        <3> QED BY <2>3, <3>1, <3>2
    <2>6. \A t \in Thread : \A a \in DOMAIN stream' :
              Reply(stream'[a], t) => \E b \in DOMAIN stream : stream'[a] = stream[b]
        BY <2>4, <2>5 DEF Reply
    <2> QED BY <2>1, <2>2, <2>5, <2>6, CoverStill
<1>4. CASE Drop
    <2>1. Held' = Held
        BY <1>4, OuterQuiet DEF Quiet
    <2>2. /\ UNCHANGED <<th, connectedOnce, lastin, mamseen>> /\ connectedOnce
          /\ conn' = "down" /\ stream' = <<>>
        BY <1>4 DEF Drop, process, markers, Modes
    <2> QED BY <2>1, <2>2, CoverStill
<1>5. CASE Connect
    <2>1. Held' = Held
        BY <1>5, OuterQuiet DEF Quiet
    <2>2. /\ UNCHANGED <<th, connectedOnce, lastin, mamseen>> /\ Bound' = Bound
          /\ conn' = "up" /\ stream = <<>>
        BY <1>5 DEF Connect, markers, Modes, Bound, MamSinceFor, WindowStart
    <2>3. \A a \in DOMAIN stream' : stream'[a].kind = "push"
        BY <1>5, PushFacts DEF Connect
    <2> QED BY <2>1, <2>2, <2>3, CoverStill DEF Reply
<1>6. CASE Launch
    <2>1. /\ ~connectedOnce /\ stream = <<>> /\ buf = <<>> /\ conn = "down" /\ ~running
          /\ \A t \in Thread : th[t] = Idle
        BY <1>6 DEF Launch, Modes
    <2>2. \A t \in Thread : th[t].pc = "idle" /\ th[t].got = <<>>
        BY <2>1 DEF Idle
    <2>3. m \notin Held
        BY <2>1, <2>2 DEF Held, ToSet
    <2>4. Bound =< stamp[m] /\ Bound = MamSinceFor(WindowStart)
        <3>1. ~\E g \in Gap : th[g].pc = "begin"
            BY <1>0, <2>2
        <3>2. ~\E t \in Thread : WillAsk(m, t)
            BY <2>2 DEF WillAsk
        <3>3. ~\E a \in DOMAIN stream : stream[a] = Live(m)
            BY <2>1
        <3> QED BY <2>1, <2>3, <3>1, <3>2, <3>3 DEF Covered, Bound
    <2>5. Goes(Startup, th[Startup].pc, MamSinceFor(WindowStart), th[Startup].scope, th[Startup].got)
        BY <1>6, Moves
    <2>6. th'[Startup].since = Bound
        BY <2>4, <2>5 DEF Goes
    <2>7. running' /\ ~connectedOnce'
        BY <1>6, <2>1 DEF Launch
    <2>8. Bound' =< stamp'[m]
        BY <2>4, <2>6, <2>7 DEF Bound
    <2> QED BY <2>7, <2>8, CoveredNext
<1>7. CASE OnXMPPConnected /\ OnFirstConnect
    <2>1. Held' = Held
        BY <1>7, OuterQuiet DEF Quiet
    <2>2. /\ ~connectedOnce /\ conn = "up" /\ running /\ UNCHANGED <<lastin, mamseen, stream>>
          /\ \A t \in Thread : th[t].pc = "idle"
          /\ th[Startup].scope = 1
        BY <1>7 DEF OnXMPPConnected, OnFirstConnect, Modes, markers
    <2>3. Goes(Startup, "fetch", th[Startup].since, th[Startup].scope, th[Startup].got)
        BY <1>7, Moves
    <2>4. th'[Startup].pc = "fetch" /\ th'[Startup].since = th[Startup].since /\ th'[Startup].scope = 1
        BY <2>2, <2>3 DEF Goes
    <2>5. CASE m \in Held
        BY <2>1, <2>5, CoveredNext
    <2>6. CASE After(m) /\ \E a \in DOMAIN stream : stream[a] = Live(m)
        BY <2>2, <2>6, CoveredNext DEF After
    <2>7. CASE Bound =< stamp[m]
        <3>1. 1 =< ScopeOf(m)
            BY DEF ScopeOf
        <3>2. th[Startup].since =< stamp[m]
            BY <2>2, <2>7 DEF Bound
        <3>3. Asking(m, Startup, th'[Startup], stream', stamp'[m])
            BY <2>4, <3>1, <3>2 DEF Asking
        <3> QED BY <1>0, <3>3, CoveredNext
    <2>8. (~\E g \in Gap : th[g].pc = "begin") /\ ~\E t \in Thread : WillAsk(m, t)
        BY <1>0, <2>2 DEF WillAsk
    <2> QED BY <2>2, <2>5, <2>6, <2>7, <2>8 DEF Covered
<1>8. CASE OnXMPPConnected /\ OnReconnect
    <2>1. Held' = Held
        BY <1>8, OuterQuiet DEF Quiet
    <2>2. UNCHANGED <<lastin, mamseen, stream, connectedOnce>> /\ connectedOnce
        BY <1>8 DEF OnXMPPConnected, OnReconnect, markers
    <2>3. PICK g \in Gap : th[g] = Idle /\ Goes(g, "begin", Never, 1, <<>>)
        BY <1>8, Moves
    <2>4. g \in Thread /\ th'[g].pc = "begin" /\ ~WillAsk(m, g)
        BY <1>0, <2>3 DEF Goes, WillAsk, Idle
    <2>5. \A t \in Thread : WillAsk(m, t) => Asking(m, t, th'[t], stream', stamp[m])
        BY <2>2, <2>3, <2>4, AskKept DEF Goes
    <2> QED BY <2>1, <2>2, <2>4, <2>5, CoverKept DEF After
<1>9. CASE Stop \/ Crash
    <2>1. UNCHANGED <<mamseen, lastout>> /\ ~running' /\ ~connectedOnce' /\ running
        BY <1>9 DEF Stop, Crash, Ends
    <2>2. mamseen \in Int /\ lastout \in Int /\ now \in Nat
        BY Cursors DEF TypeOK
    <2>3. CASE Stop
        <3>1. swapstart' = now /\ ~(stamp[m] < Later(now, mamseen))
            BY <2>3 DEF Stop, Ends
        <3>2. Later(now, mamseen) =< stamp[m]
            <4> DEFINE passed == Later(now, mamseen)
            <4>1. passed \in Int
                BY <2>2, LaterFacts
            <4> HIDE DEF passed
            <4>2. ~(stamp[m] < passed)
                BY <3>1 DEF passed
            <4>3. passed =< stamp[m]
                BY <1>1, <4>1, <4>2
            <4> QED BY <4>3 DEF passed
        <3>3. Bound' = Later(now, mamseen)
            BY <2>1, <2>2, <3>1 DEF Bound, MamSinceFor, WindowStart, Never, Later
        <3> QED BY <2>1, <3>2, <3>3, CoveredNext
    <2>4. CASE Crash
        <3>1. swapstart' = Never /\ ~(stamp[m] < Later(lastout, mamseen))
            BY <2>1, <2>4 DEF Crash, Ends, Modes
        <3>2. Later(lastout, mamseen) =< stamp[m]
            <4> DEFINE passed == Later(lastout, mamseen)
            <4>1. passed \in Int
                BY <2>2, LaterFacts
            <4> HIDE DEF passed
            <4>2. ~(stamp[m] < passed)
                BY <3>1 DEF passed
            <4>3. passed =< stamp[m]
                BY <1>1, <4>1, <4>2
            <4> QED BY <4>3 DEF passed
        <3>3. Bound' = Later(lastout, mamseen) \/ Bound' = Never
            BY <2>1, <3>1 DEF Bound, MamSinceFor, WindowStart, Later
        <3> QED BY <1>1, <2>1, <3>2, <3>3, CoveredNext
    <2> QED BY <1>9, <2>3, <2>4
<1> QED BY <1>2, <1>3, <1>4, <1>5, <1>6, <1>7, <1>8, <1>9 DEF OnXMPPConnected

\* Whatever was not handed over and has no excuse is still to come.
LEMMA CoverageStep ==
    ASSUME TypeOK, Modes, Clock, Threads, Given, Answers, Coverage, [Next]_vars
    PROVE  Coverage'
<1> SUFFICES ASSUME NEW m \in Outstanding' \ excused' PROVE Covered(m)'
    BY DEF Coverage
<1>1. /\ m \in Message \ Own /\ m \notin ever' /\ m \notin excused'
      /\ SendMsg(m) \/ (m \in Outstanding \ excused /\ Covered(m) /\ stamp'[m] = stamp[m])
    BY Older DEF Outstanding
<1>2. CASE SendMsg(m)
    <2>1. /\ stamp'[m] = now /\ UNCHANGED <<lastin, mamseen, connectedOnce, conn>>
          /\ conn # "down" => stream' = Append(stream, Live(m))
        BY <1>1, <1>2 DEF SendMsg, process, markers, TypeOK
    <2>2. lastin =< now /\ mamseen =< now
        BY DEF Clock
    <2>3. CASE conn # "down"
        <3>1. Live(m) \in Item
            BY <1>1 DEF Live, Item
        <3>2. \E a \in DOMAIN stream' : stream'[a] = Live(m)
            BY <2>1, <2>3, <3>1, StreamAppend
        <3> QED BY <2>1, <2>2, <3>2, CoveredNext
    <2>4. CASE conn = "down" /\ connectedOnce
        BY <2>1, <2>2, <2>4, CoveredNext
    <2>5. CASE ~connectedOnce
        <3>1. Bound' = Bound
            BY <1>2 DEF SendMsg, process, markers, Bound, MamSinceFor, WindowStart
        <3>2. Bound =< now
            <4>1. th[Startup].since =< now /\ MamSinceFor(WindowStart) =< now
                BY Cursors DEF Clock, Thread
            <4> QED BY <4>1 DEF Bound
        <3> QED BY <2>1, <2>5, <3>1, <3>2, CoveredNext
    <2> QED BY <2>3, <2>4, <2>5
<1>3. CASE m \in Outstanding \ excused /\ Covered(m) /\ stamp'[m] = stamp[m] /\ ~SendMsg(m)
    <2>1. CASE \/ Tick \/ Launch \/ Connect \/ ConnectFails \/ OnXMPPConnected \/ Drop \/ GraceEnds
               \/ Stop \/ Crash \/ Speak \/ UNCHANGED vars
        BY <1>1, <1>3, <2>1, CoverOuter
    <2>2. CASE \E k \in Message : SendMsg(k)
        BY <1>1, <1>3, <2>2, CoverOuter
    <2>3. CASE Receive
        BY <1>1, <1>3, <2>3, CoverReceive
    <2>4. CASE \E t \in Thread :
                \/ t # Startup /\ (GapBegins(t) \/ GapLocks(t))
                \/ Fetch(t) \/ FetchFails(t) \/ FetchRefused(t) \/ Check(t) \/ Hand(t) \/ Mark(t)
                \/ t = Startup /\ (SeedMarker \/ Drain)
        BY <1>1, <1>3, <2>4, CoverRecover
    <2> QED BY <2>1, <2>2, <2>3, <2>4, Kinds
<1> QED BY <1>1, <1>2, <1>3

-----------------------------------------------------------------------------
(* The theorems.                                                             *)

IInv ==
    /\ TypeOK /\ Modes /\ Clock /\ Threads /\ Gots /\ Bufs /\ Given /\ Copies
    /\ Pages /\ Answers /\ Apart /\ Spoken /\ Coverage

\* Nothing was sent and no process ran.
LEMMA Initially == Init => IInv
<1> SUFFICES ASSUME Init PROVE IInv
    OBVIOUS
<1>1. /\ \A t \in Thread : th[t] = Idle
      /\ \A b \in By : handed[b] = {}
      /\ sent = <<>> /\ stream = <<>> /\ buf = <<>> /\ ToSet(sent) = {} /\ ToSet(buf) = {}
    BY DEF Init, ToSet
<1>2. \A t \in Thread : /\ th[t].pc = "idle" /\ th[t].scope = 1 /\ th[t].got = <<>>
                        /\ th[t].since = Never
    BY <1>1 DEF Idle
<1>3. AllHanded = {} /\ Outstanding = {} /\ Startup \in Thread
    BY <1>1 DEF AllHanded, Outstanding, Thread
<1>4. Idle \in ThreadState
    BY ScopeFacts DEF Idle, ThreadState, Never
<1>5. TypeOK
    <2>1. sent \in Seq(Message) /\ stream \in Seq(Item) /\ buf \in Seq(Message)
        BY <1>1
    <2>2. stamp \in [Message -> Int] /\ lastin \in Int /\ lastout \in Int /\ mamseen \in Int
          /\ swapstart \in Int /\ start \in Int /\ now \in 0..MaxTime /\ faults \in 0..MaxFaults
        BY Bounds DEF Init, Never
    <2>3. th \in [Thread -> ThreadState]
        BY <1>4 DEF Init
    <2>4. handed \in [By -> SUBSET Message]
        BY DEF Init
    <2> QED BY <2>1, <2>2, <2>3, <2>4 DEF Init, TypeOK
<1>6. Modes
    BY <1>1, <1>2, <1>3 DEF Init, Modes
<1>7. Clock
    BY <1>1, <1>2 DEF Init, Clock, Never, Distinct
<1>8. Threads
    BY <1>1, <1>2 DEF Threads, Holds, Thread
<1>9. Gots /\ Bufs
    BY <1>1, <1>2 DEF Gots, Bufs, Distinct, ToSet
<1>10. Given /\ Copies
    BY <1>1, <1>3 DEF Init, Given, Copies
<1>11. Pages /\ Answers
    BY <1>1 DEF Pages, Answers
<1>12. Apart
    BY <1>1, <1>2 DEF Init, Apart, By
<1>13. Spoken
    BY <1>1 DEF Init, Spoken
<1>14. Coverage
    BY <1>3 DEF Coverage
<1> QED BY <1>5, <1>6, <1>7, <1>8, <1>9, <1>10, <1>11, <1>12, <1>13, <1>14 DEF IInv

\* A stutter or a step leads from one state of the invariant to another.
THEOREM Invariant == Spec => []IInv
<1>1. Init => IInv
    BY Initially
<1>2. IInv /\ [Next]_vars => IInv'
    <2> SUFFICES ASSUME IInv, [Next]_vars PROVE IInv'
        OBVIOUS
    <2>1. /\ TypeOK /\ Modes /\ Clock /\ Threads /\ Gots /\ Bufs /\ Given /\ Copies
          /\ Pages /\ Answers /\ Apart /\ Spoken /\ Coverage
        BY DEF IInv
    <2>2. TypeOK' /\ Modes' /\ Clock' /\ Threads'
        BY <2>1, TypeStep, ModesStep, ClockStep, ThreadsStep
    <2>3. Gots' /\ Bufs' /\ Given' /\ Copies'
        BY <2>1, GotsStep, BufsStep, GivenStep, CopiesStep
    <2>4. Pages' /\ Answers' /\ Apart'
        BY <2>1, PagesStep, AnswersStep, ApartStep
    <2>5. Spoken' /\ Coverage'
        BY <2>1, SpokenStep, CoverageStep
    <2> QED BY <2>2, <2>3, <2>4, <2>5 DEF IInv
<1> QED BY <1>1, <1>2, PTL DEF Spec

\* Every variable keeps its type.
THEOREM TypeCorrect == Spec => []TypeOK
<1>1. IInv => TypeOK
    BY DEF IInv
<1> QED BY <1>1, Invariant, PTL

\* A process hands no message over twice, but for the startup drain and a gap
\* recovery that each do (xmpp.go:1387-1430, bridge.go:4614-4630).
THEOREM HandsOnce == Spec => []HandedOnce
<1>1. IInv => HandedOnce
    BY DEF IInv, Apart, HandedOnce
<1> QED BY <1>1, Invariant, PTL

\* The startup drain brings nothing back that an earlier process was given before
\* it last spoke (mam.go:289-303).
THEOREM StaysAnswered == Spec => []AnsweredStaysAnswered
<1>1. IInv => AnsweredStaysAnswered
    BY DEF IInv, Spoken, AnsweredStaysAnswered
<1> QED BY <1>1, Invariant, PTL

\* Once nothing is under way, every message was handed over or has an excuse
\* (bridge.go:4508-4545, 4650-4668).
THEOREM NothingLost == Spec => []NothingLostSilently
<1>1. IInv => NothingLostSilently
    <2> SUFFICES ASSUME IInv, conn = "serving", stream = <<>>, replay = "off",
                        \A t \in Thread : th[t].pc = "idle", NEW m \in Outstanding, m \notin excused
                 PROVE  FALSE
        BY DEF NothingLostSilently
    <2>1. buf = <<>> /\ connectedOnce /\ \A t \in Thread : th[t].got = <<>>
        BY DEF IInv, Modes, Threads
    <2>2. m \notin Held
        BY <2>1 DEF Held, ToSet
    <2>3. ~\E g \in Gap : th[g].pc = "begin"
        BY DEF Thread
    <2>4. ~\E t \in Thread : WillAsk(m, t)
        BY DEF WillAsk
    <2>5. ~\E a \in DOMAIN stream : stream[a] = Live(m)
        OBVIOUS
    <2> QED BY <2>1, <2>2, <2>3, <2>4, <2>5 DEF IInv, Coverage, Covered
<1> QED BY <1>1, Invariant, PTL

-----------------------------------------------------------------------------
(* Nothing stands still.                                                     *)

\* A query has a start, and the drain has a window to wait for: launched, the
\* window is armed; connected, it is open until its grace period is over.
Waits ==
    /\ \A t \in Thread :
         th[t].pc = "wait" \/ (t # Startup /\ th[t].pc \in {"lock", "fetch"}) => th[t].since # Never
    /\ running /\ ~connectedOnce => replay # "off"
    /\ ~connectedOnce /\ conn # "down" => replay \in {"open", "closed"}
    /\ th[Startup].pc \in {"fetch", "wait", "drain"} => replay \in {"open", "closed"}

\* A thread moves to where it has what it waits for.
LEMMA WaitsGoes ==
    ASSUME TypeOK, Modes, Waits, NEW t \in Thread, NEW pc, NEW since, NEW scope, NEW got,
           Goes(t, pc, since, scope, got),
           pc = "wait" \/ (t # Startup /\ pc \in {"lock", "fetch"}) => since # Never,
           connectedOnce', conn' \in {conn, "serving"},
           replay' = replay \/ th'[Startup].pc \notin {"fetch", "wait", "drain"},
           t = Startup /\ pc \in {"fetch", "wait", "drain"} => replay \in {"open", "closed"}
    PROVE  Waits'
<1>1. /\ th'[t].pc = pc /\ th'[t].since = since
      /\ \A u \in Thread \ {t} : th'[u] = th[u]
    BY DEF Goes
<1>2. ASSUME NEW u \in Thread,
             th'[u].pc = "wait" \/ (u # Startup /\ th'[u].pc \in {"lock", "fetch"})
      PROVE  th'[u].since # Never
    <2>1. CASE u = t
        BY <1>1, <1>2, <2>1
    <2>2. CASE u # t
        <3>1. th'[u] = th[u]
            BY <1>1, <2>2
        <3> QED BY <1>2, <3>1 DEF Waits
    <2> QED BY <2>1, <2>2
<1>3. th'[Startup].pc \in {"fetch", "wait", "drain"} => replay' \in {"open", "closed"}
    <2>1. Startup \in Thread
        BY DEF Thread
    <2>2. CASE t = Startup
        BY <1>1, <2>2
    <2>3. CASE t # Startup
        <3>1. th'[Startup] = th[Startup]
            BY <1>1, <2>1, <2>3
        <3> QED BY <3>1 DEF Waits
    <2> QED BY <2>2, <2>3
<1> QED BY <1>2, <1>3 DEF Waits

\* A walk that goes on has the start it had.
LEMMA WaitsOnward ==
    ASSUME TypeOK, Modes, Waits, NEW t \in Thread, NEW q, Onward(t, q),
           th[t].pc \in {"fetch", "wait"}, UNCHANGED <<connectedOnce, conn, replay>>
    PROVE  Waits'
<1>1. connectedOnce
    BY Alive
<1>2. t # Startup => th[t].since # Never
    BY DEF Waits
<1>3. t = Startup => replay \in {"open", "closed"}
    BY DEF Waits
<1>4. PICK pc, scope : /\ Goes(t, pc, th[t].since, scope, q)
                       /\ pc \in {"fetch", "drain", "check"}
    BY DEF Onward
<1> QED BY <1>1, <1>2, <1>3, <1>4, WaitsGoes

\* A thread waits only for what is under way.
LEMMA WaitsStep ==
    ASSUME TypeOK, Modes, Threads, Waits, [Next]_vars
    PROVE  Waits'
<1>0. Startup \in Thread /\ \A g \in Gap : g \in Thread /\ g # Startup
    BY BackfillAssumption DEF Thread
<1>1. CASE UNCHANGED <<th, conn, running, connectedOnce, replay>>
    BY <1>1 DEF Waits
<1>2. CASE Launch
    <2>1. Goes(Startup, th[Startup].pc, MamSinceFor(WindowStart), th[Startup].scope, th[Startup].got)
        BY <1>2, Moves
    <2>2. ~running /\ replay' = "armed" /\ UNCHANGED <<conn, connectedOnce>>
        BY <1>2 DEF Launch
    <2>3. /\ \A t \in Thread : th[t].pc = "idle"
          /\ conn = "down"
        BY <2>2 DEF Modes, Idle
    <2>4. \A t \in Thread : th'[t].pc = "idle"
        BY <2>1, <2>3, <1>0 DEF Goes
    <2> QED BY <1>0, <2>2, <2>3, <2>4 DEF Waits
<1>3. CASE Connect
    <2>1. /\ running /\ UNCHANGED <<th, connectedOnce, running>>
          /\ replay' = IF replay = "armed" THEN "open" ELSE replay
        BY <1>3 DEF Connect
    <2>2. replay \in {"off", "armed", "open", "closed"}
        BY DEF TypeOK
    <2> QED BY <2>1, <2>2 DEF Waits
<1>4. CASE OnXMPPConnected
    <2>1. conn = "up" /\ conn' = "serving" /\ UNCHANGED replay
        BY <1>4 DEF OnXMPPConnected
    <2>2. CASE OnFirstConnect
        <3>1. Goes(Startup, "fetch", th[Startup].since, th[Startup].scope, th[Startup].got)
            BY <2>2, Moves
        <3>2. ~connectedOnce /\ connectedOnce'
            BY <2>2 DEF OnFirstConnect
        <3>3. replay \in {"open", "closed"}
            BY <2>1, <3>2 DEF Waits
        <3> QED BY <1>0, <2>1, <3>1, <3>2, <3>3, WaitsGoes
    <2>3. CASE OnReconnect
        <3>1. PICK g \in Gap : Goes(g, "begin", Never, 1, <<>>)
            BY <2>3, Moves
        <3>2. connectedOnce'
            BY <2>3 DEF OnReconnect
        <3> QED BY <1>0, <2>1, <3>1, <3>2, WaitsGoes
    <2> QED BY <1>4, <2>2, <2>3 DEF OnXMPPConnected
<1>5. CASE Drop
    BY <1>5 DEF Drop, Waits, process
<1>6. CASE GraceEnds
    BY <1>6 DEF GraceEnds, Waits
<1>7. CASE Stop \/ Crash
    <2>1. /\ th' = [t \in Thread |-> Idle] /\ running' = FALSE /\ conn' = "down"
        BY <1>7 DEF Stop, Crash, Ends
    <2>2. \A t \in Thread : th'[t].pc = "idle"
        BY <2>1 DEF Idle
    <2> QED BY <1>0, <2>1, <2>2 DEF Waits
<1>8. CASE Receive
    <2> DEFINE i == Head(stream)
    <2>1. /\ UNCHANGED <<conn, running, connectedOnce, replay>>
          /\ \/ th' = th
             \/ /\ i.to \in Thread /\ th[i.to].pc = "wait"
                /\ Onward(i.to, th[i.to].got \o Only(i.page, Direct \union Room))
        BY <1>8, ReceiveFacts
    <2> HIDE DEF i
    <2>2. CASE th' = th
        BY <1>1, <2>1, <2>2
    <2> QED BY <2>1, <2>2, WaitsOnward
<1>9. ASSUME NEW t \in Thread,
             \/ t # Startup /\ (GapBegins(t) \/ GapLocks(t))
             \/ Fetch(t) \/ FetchFails(t) \/ FetchRefused(t) \/ Check(t) \/ Hand(t) \/ Mark(t)
             \/ t = Startup /\ (SeedMarker \/ Drain)
      PROVE  Waits'
    <2>1. /\ connectedOnce /\ UNCHANGED <<connectedOnce, conn>>
          /\ replay' = IF t = Startup /\ Drain THEN "off" ELSE replay
        BY <1>9, ThreadStep
    <2>2. CASE FetchFails(t) \/ FetchRefused(t)
        <3>1. Skip(t) /\ th[t].pc \in {"fetch", "wait"} /\ ~Drain
            BY <2>2 DEF FetchFails, QueryFails, FetchRefused, Skip, Drain, process
        <3> QED BY <2>1, <3>1, Moves, WaitsOnward
    <2>3. CASE Fetch(t)
        <3>1. Goes(t, "wait", th[t].since, th[t].scope, th[t].got)
            BY <2>3, Moves
        <3>2. th[t].pc = "fetch" /\ th[t].since # Never /\ UNCHANGED replay
            BY <2>3 DEF Fetch, process
        <3>3. t = Startup => replay \in {"open", "closed"}
            BY <3>2 DEF Waits
        <3> QED BY <2>1, <3>1, <3>2, <3>3, WaitsGoes
    <2>4. CASE t # Startup /\ GapBegins(t)
        <3>1. t \in Gap /\ UNCHANGED replay
            BY <2>4 DEF Thread, GapBegins, process
        <3>2. CASE ReconnectSince = Never
            <4>1. Goes(t, "idle", Never, 1, <<>>)
                BY <2>4, <3>1, <3>2, Moves
            <4> QED BY <2>1, <2>4, <3>1, <4>1, WaitsGoes
        <3>3. CASE ReconnectSince # Never
            <4>1. Goes(t, "lock", ReconnectSince, th[t].scope, th[t].got)
                BY <2>4, <3>1, <3>3, Moves
            <4> QED BY <2>1, <2>4, <3>1, <3>3, <4>1, WaitsGoes
        <3> QED BY <3>2, <3>3
    <2>5. CASE t # Startup /\ GapLocks(t)
        <3>1. t \in Gap /\ UNCHANGED replay /\ th[t].pc = "lock"
            BY <2>5 DEF Thread, GapLocks, process
        <3>2. Goes(t, "fetch", th[t].since, th[t].scope, th[t].got)
            BY <2>5, <3>1, Moves
        <3>3. th[t].since # Never
            BY <2>5, <3>1 DEF Waits
        <3> QED BY <2>1, <2>5, <3>1, <3>2, <3>3, WaitsGoes
    <2>6. CASE t = Startup /\ SeedMarker
        <3>1. Goes(t, "drain", th[t].since, th[t].scope, th[t].got)
            BY <2>6, Moves
        <3>2. th[t].pc = "fetch" /\ UNCHANGED replay
            BY <2>6 DEF SeedMarker, process
        <3>3. replay \in {"open", "closed"}
            BY <2>6, <3>2 DEF Waits
        <3> QED BY <2>1, <3>1, <3>2, <3>3, WaitsGoes
    <2>7. CASE t = Startup /\ Drain
        <3>1. Goes(t, "check", th[t].since, th[t].scope, BufferReplay(th[t].got))
            BY <2>7, Moves
        <3>2. th'[Startup].pc = "check"
            BY <2>7, <3>1 DEF Goes
        <3> QED BY <2>1, <3>1, <3>2, WaitsGoes
    <2>8. CASE Check(t) \/ Hand(t) \/ Mark(t)
        <3>1. UNCHANGED replay
            BY <2>8 DEF Check, Hand, Mark, process
        <3>2. PICK pc, since, scope, got : /\ pc \in {"idle", "mark", "hand"}
                                           /\ Goes(t, pc, since, scope, got)
            BY <2>8, Moves
        <3> QED BY <2>1, <3>1, <3>2, WaitsGoes
    <2> QED BY <1>9, <2>2, <2>3, <2>4, <2>5, <2>6, <2>7, <2>8
<1>10. CASE Tick \/ ConnectFails \/ Speak \/ (\E m \in Message : SendMsg(m)) \/ UNCHANGED vars
    <2>1. UNCHANGED <<th, conn, process>>
        BY <1>10 DEF Tick, ConnectFails, Speak, SendMsg, vars
    <2> QED BY <1>1, <2>1 DEF process
<1> QED BY <1>2, <1>3, <1>4, <1>5, <1>6, <1>7, <1>8, <1>9, <1>10, Kinds

\* Whatever waits, it or what it waits for can go on: a query by its answer, by the
\* read loop or by its time-out, the drain by the grace period, and who waits for
\* backfillMu by the recovery that holds it (bridge.go:4477, 4528-4533).
THEOREM NeverStandsStill == Spec => []NoStandstill
<1>1. Init => Waits
    BY Initially DEF Init, Waits, Idle, Thread
<1>2. IInv /\ Waits /\ [Next]_vars => Waits'
    BY WaitsStep DEF IInv
<1>3. IInv /\ Waits => NoStandstill
    <2> SUFFICES ASSUME IInv, Waits PROVE NoStandstill
        OBVIOUS
    <2>0. \A g \in Gap : g \in Thread /\ g # Startup
        BY BackfillAssumption DEF Thread
    <2>1. ASSUME NEW t \in Thread, th[t].pc # "idle", th[t].pc # "lock"
          PROVE  CanGo(t)
        <3>1. /\ th[t].pc \in {"begin", "fetch", "wait", "drain", "check", "hand", "mark"}
              /\ conn \in {"down", "up", "serving"}
            BY <2>1 DEF IInv, TypeOK, ThreadState
        <3>2. th[t].pc = "hand" => th[t].got # <<>>
            BY DEF IInv, Threads
        <3>3. th[t].pc = "fetch" => th[t].since # Never \/ t = Startup
            BY DEF Waits
        <3>4. th[t].pc = "wait" => th[t].since # Never
            BY DEF Waits
        <3>5. th[t].pc = "drain" => replay \in {"open", "closed"}
            BY DEF Waits, IInv, Threads
        <3> QED BY <3>1, <3>2, <3>3, <3>4, <3>5 DEF CanGo, QueryFails
    <2>2. LockComesFree
        BY <2>0, <2>1 DEF LockComesFree, BackfillFree, Holds
    <2> QED BY <2>1, <2>2 DEF NoStandstill
<1> QED BY <1>1, <1>2, <1>3, Invariant, PTL DEF Spec
=============================================================================
