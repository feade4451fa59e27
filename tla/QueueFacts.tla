-------------------------------- MODULE QueueFacts -------------------------------
(***************************************************************************)
(* Facts about queues: how many entries are of one sort, and what adding   *)
(* an entry at the end and taking one from the front does to that number;  *)
(* and what Only and Listed of Subsequences keep of a sequence.            *)
(***************************************************************************)
EXTENDS Integers, Sequences, FiniteSets, Subsequences, FiniteSetTheorems, TLAPS

-----------------------------------------------------------------------------
(* Entries of one sort.                                                      *)

Hits(q, P) == {i \in DOMAIN q : q[i] \in P}
One(condition) == IF condition THEN 1 ELSE 0

\* A queue holds finitely many entries of a sort.
LEMMA HitsFinite ==
    ASSUME NEW S, NEW q \in Seq(S), NEW P
    PROVE  IsFiniteSet(Hits(q, P)) /\ Cardinality(Hits(q, P)) \in Nat
<1>1. Hits(q, P) \subseteq 1..Len(q)
    BY DEF Hits
<1>2. IsFiniteSet(1..Len(q))
    BY FS_Interval
<1> QED BY <1>1, <1>2, FS_Subset, FS_CardinalityType

\* An entry added at the end counts when it is of the sort.
LEMMA HitsAppend ==
    ASSUME NEW S, NEW q \in Seq(S), NEW x \in S, NEW P
    PROVE  Cardinality(Hits(Append(q, x), P)) = Cardinality(Hits(q, P)) + One(x \in P)
<1>1. IsFiniteSet(Hits(q, P)) /\ Cardinality(Hits(q, P)) \in Nat
    BY HitsFinite
<1>2. CASE x \in P
    <2>1. Hits(Append(q, x), P) = Hits(q, P) \union {Len(q) + 1}
        BY <1>2 DEF Hits
    <2>2. Len(q) + 1 \notin Hits(q, P)
        BY DEF Hits
    <2> QED BY <1>1, <1>2, <2>1, <2>2, FS_AddElement DEF One
<1>3. CASE x \notin P
    <2>1. Hits(Append(q, x), P) = Hits(q, P)
        BY <1>3 DEF Hits
    <2> QED BY <1>1, <1>3, <2>1 DEF One
<1> QED BY <1>2, <1>3

\* The entry taken from the front no longer counts.
LEMMA HitsTail ==
    ASSUME NEW S, NEW q \in Seq(S), q # <<>>, NEW P
    PROVE  Cardinality(Hits(q, P)) = Cardinality(Hits(Tail(q), P)) + One(Head(q) \in P)
<1> DEFINE T == Hits(Tail(q), P)
           f == [i \in T |-> i + 1]
<1>1. IsFiniteSet(T) /\ Cardinality(T) \in Nat
    <2>1. Tail(q) \in Seq(S)
        OBVIOUS
    <2> QED BY <2>1, HitsFinite
<1>2. f \in Bijection(T, Hits(q, P) \ {1})
    <2>1. T = {i \in 1..(Len(q) - 1) : q[i + 1] \in P}
        BY DEF Hits
    <2>2. Hits(q, P) \ {1} = {i \in 2..Len(q) : q[i] \in P}
        BY DEF Hits
    <2>3. f \in [T -> Hits(q, P) \ {1}]
        BY <2>1, <2>2
    <2>4. \A i, j \in T : f[i] = f[j] => i = j
        BY <2>1
    <2>5. ASSUME NEW j \in Hits(q, P) \ {1} PROVE \E i \in T : f[i] = j
        <3>1. j \in 2..Len(q) /\ q[j] \in P
            BY <2>2
        <3>2. j - 1 \in 1..(Len(q) - 1) /\ (j - 1) + 1 = j
            BY <3>1
        <3>3. j - 1 \in T
            BY <2>1, <3>1, <3>2
        <3> QED BY <3>2, <3>3
    <2> HIDE DEF f, T
    <2>6. f \in Injection(T, Hits(q, P) \ {1})
        BY <2>3, <2>4 DEF Injection, IsInjective
    <2>7. f \in Surjection(T, Hits(q, P) \ {1})
        BY <2>3, <2>5 DEF Surjection
    <2> QED BY <2>6, <2>7 DEF Bijection
<1>3. Cardinality(Hits(q, P) \ {1}) = Cardinality(T)
    BY <1>1, <1>2, FS_Bijection DEF ExistsBijection
<1>4. IsFiniteSet(Hits(q, P)) /\ Cardinality(Hits(q, P)) \in Nat
    BY HitsFinite
<1>5. 1 \in Hits(q, P) <=> Head(q) \in P
    BY DEF Hits
<1>6. Cardinality(Hits(q, P) \ {1})
        = IF 1 \in Hits(q, P) THEN Cardinality(Hits(q, P)) - 1 ELSE Cardinality(Hits(q, P))
    BY <1>4, FS_RemoveElement
<1> QED BY <1>1, <1>3, <1>4, <1>5, <1>6 DEF One

\* A queue that stays, grows by an entry of another sort or loses one of another
\* sort.
Spares(q, r, S, P) ==
    \/ r = q
    \/ \E x \in S \ P : r = Append(q, x)
    \/ q # <<>> /\ Head(q) \notin P /\ r = Tail(q)

\* It holds as many of the sort as before.
LEMMA SparedHits ==
    ASSUME NEW S, NEW P, NEW q \in Seq(S), NEW r, Spares(q, r, S, P)
    PROVE  r \in Seq(S) /\ Cardinality(Hits(r, P)) = Cardinality(Hits(q, P))
<1>0. Cardinality(Hits(q, P)) \in Nat
    BY HitsFinite
<1>1. CASE r = q
    BY <1>1
<1>2. ASSUME NEW x \in S \ P, r = Append(q, x)
      PROVE  r \in Seq(S) /\ Cardinality(Hits(r, P)) = Cardinality(Hits(q, P))
    <2>1. Cardinality(Hits(r, P)) = Cardinality(Hits(q, P)) + One(x \in P)
        BY <1>2, HitsAppend
    <2> QED BY <1>0, <1>2, <2>1 DEF One
<1>3. CASE q # <<>> /\ Head(q) \notin P /\ r = Tail(q)
    <2>1. r \in Seq(S)
        BY <1>3
    <2>2. Cardinality(Hits(q, P)) = Cardinality(Hits(r, P)) + One(Head(q) \in P)
        BY <1>3, HitsTail
    <2>3. Cardinality(Hits(r, P)) \in Nat
        BY <2>1, HitsFinite
    <2> QED BY <1>3, <2>1, <2>2, <2>3 DEF One
<1> QED BY <1>1, <1>2, <1>3 DEF Spares

-----------------------------------------------------------------------------
(* Members picked from a sequence.                                           *)

Members(s) == {s[i] : i \in DOMAIN s}

\* s holds nothing twice.
Distinct(s) == \A i, j \in DOMAIN s : s[i] = s[j] => i = j

\* before puts the finite set I of positions in a strict total order.
Orders(before, I) ==
    /\ IsFiniteSet(I) /\ before \in [I -> SUBSET I]
    /\ \A i \in I : i \notin before[i]
    /\ \A i, j \in I : i # j => i \in before[j] \/ j \in before[i]
    /\ \A i, j \in I : j \in before[i] => before[j] \subseteq before[i]

\* Of two positions the later has the greater rank, and every number below the
\* size of I is the rank of one position.
LEMMA Ranks ==
    ASSUME NEW I, NEW before, Orders(before, I)
    PROVE  /\ Cardinality(I) \in Nat
           /\ \A i \in I : Cardinality(before[i]) + 1 \in 1..Cardinality(I)
           /\ \A i, j \in I : Cardinality(before[i]) = Cardinality(before[j]) => i = j
           /\ \A k \in 1..Cardinality(I) : \E i \in I : Cardinality(before[i]) = k - 1
<1> DEFINE n == Cardinality(I)
           rank == [i \in I |-> Cardinality(before[i]) + 1]
<1>1. IsFiniteSet(I) /\ n \in Nat
    BY FS_CardinalityType DEF Orders
<1>2. \A i \in I : IsFiniteSet(before[i]) /\ Cardinality(before[i]) \in Nat
                   /\ Cardinality(before[i]) =< n /\ Cardinality(before[i]) # n
    <2> SUFFICES ASSUME NEW i \in I
                 PROVE  IsFiniteSet(before[i]) /\ Cardinality(before[i]) \in Nat
                        /\ Cardinality(before[i]) =< n /\ Cardinality(before[i]) # n
        OBVIOUS
    <2>1. before[i] \in SUBSET I /\ i \notin before[i]
        BY DEF Orders
    <2>2. IsFiniteSet(before[i]) /\ Cardinality(before[i]) =< n
          /\ (n = Cardinality(before[i]) => I = before[i])
        BY <1>1, <2>1, FS_Subset
    <2> QED BY <2>1, <2>2, FS_CardinalityType
<1>3. \A i \in I : rank[i] \in 1..n
    BY <1>1, <1>2
<1>4. \A i, j \in I : j \in before[i] => Cardinality(before[j]) # Cardinality(before[i])
    <2> SUFFICES ASSUME NEW i \in I, NEW j \in I, j \in before[i],
                        Cardinality(before[j]) = Cardinality(before[i])
                 PROVE  FALSE
        OBVIOUS
    <2>1. before[j] \in SUBSET before[i] /\ j \notin before[j]
        BY DEF Orders
    <2>2. before[i] = before[j]
        BY <1>2, <2>1, FS_Subset
    <2> QED BY <2>1, <2>2
<1>5. \A i, j \in I : Cardinality(before[i]) = Cardinality(before[j]) => i = j
    BY <1>4 DEF Orders
<1>6. rank \in Injection(I, 1..n)
    <2>1. rank \in [I -> 1..n]
        BY <1>3
    <2>2. \A i, j \in I : rank[i] = rank[j] => i = j
        BY <1>2, <1>5
    <2> QED BY <2>1, <2>2 DEF Injection, IsInjective
<1>7. IsFiniteSet(1..n) /\ Cardinality(1..n) = n
    BY <1>1, FS_Interval
<1>8. rank \in Surjection(I, 1..n)
    BY <1>6, <1>7, FS_Injection
<1>9. \A k \in 1..n : \E i \in I : Cardinality(before[i]) + 1 = k
    BY <1>8 DEF Surjection
<1>10. \A k \in 1..n : \E i \in I : Cardinality(before[i]) = k - 1
    BY <1>2, <1>9
<1> QED BY <1>1, <1>3, <1>5, <1>10

\* A finite set that is not empty has a last member in every strict total order.
LEMMA LastRank ==
    ASSUME NEW I, NEW before, Orders(before, I), I # {}
    PROVE  \E k \in I : \A i \in I : i \in before[k] \/ i = k
<1>1. /\ Cardinality(I) \in Nat
      /\ \A i \in I : Cardinality(before[i]) + 1 \in 1..Cardinality(I)
      /\ \A i, j \in I : Cardinality(before[i]) = Cardinality(before[j]) => i = j
      /\ \A k \in 1..Cardinality(I) : \E i \in I : Cardinality(before[i]) = k - 1
    BY Ranks
<1>2. Cardinality(I) # 0
    BY FS_EmptySet DEF Orders
<1>3. PICK k \in I : Cardinality(before[k]) = Cardinality(I) - 1
    BY <1>1, <1>2
<1>4. /\ IsFiniteSet(before[k]) /\ Cardinality(before[k]) \in Nat
      /\ k \notin before[k] /\ before[k] \union {k} \in SUBSET I /\ IsFiniteSet(I)
    <2>1. before[k] \in SUBSET I /\ k \notin before[k] /\ IsFiniteSet(I)
        BY DEF Orders
    <2> QED BY <2>1, FS_Subset, FS_CardinalityType
<1>5. Cardinality(before[k] \union {k}) = Cardinality(I)
    <2>1. Cardinality(before[k] \union {k}) = Cardinality(before[k]) + 1
        BY <1>4, FS_AddElement
    <2> QED BY <1>1, <1>3, <1>4, <2>1
<1>6. before[k] \union {k} = I
    BY <1>4, <1>5, FS_Subset
<1> QED BY <1>6

\* A finite set of numbers that is not empty has a greatest member.
LEMMA Greatest ==
    ASSUME NEW I \in SUBSET Nat, IsFiniteSet(I), I # {}
    PROVE  \E k \in I : \A i \in I : i =< k
<1> DEFINE before == [i \in I |-> {j \in I : j < i}]
<1>1. Orders(before, I)
    <2>1. \A i \in I : i \in Nat
        OBVIOUS
    <2>2. \A i, j \in I : ~(i < i) /\ (i # j => i < j \/ j < i)
        BY <2>1
    <2>3. \A i, j, l \in I : l < j /\ j < i => l < i
        BY <2>1
    <2>4. before \in [I -> SUBSET I]
        OBVIOUS
    <2>5. \A i, j \in I : j \in before[i] <=> j < i
        OBVIOUS
    <2> HIDE DEF before
    <2> QED BY <2>2, <2>3, <2>4, <2>5 DEF Orders
<1>2. \A i \in I : before[i] = {j \in I : j < i}
    OBVIOUS
<1> HIDE DEF before
<1>3. PICK k \in I : \A i \in I : i \in before[k] \/ i = k
    BY <1>1, LastRank
<1>4. ASSUME NEW i \in I PROVE i =< k
    <2>1. i \in Nat /\ k \in Nat /\ (i < k \/ i = k)
        BY <1>2, <1>3
    <2> QED BY <2>1
<1> QED BY <1>4

\* What Listed returns for the positions I: their members, each once, in their order.
ListedSpec(s, S, I, before) ==
    /\ Listed(s, before) \in Seq(S)
    /\ \A k \in DOMAIN Listed(s, before) : \E i \in I : Listed(s, before)[k] = s[i]
    /\ \A i \in I : \E k \in DOMAIN Listed(s, before) : Listed(s, before)[k] = s[i]
    /\ Len(Listed(s, before)) = Cardinality(I)
    /\ \A k, l \in DOMAIN Listed(s, before) : k < l =>
          \E i, j \in I : i \in before[j] /\ Listed(s, before)[k] = s[i] /\ Listed(s, before)[l] = s[j]
    /\ (\A i, j \in I : s[i] = s[j] => i = j)
       => \A k, l \in DOMAIN Listed(s, before) :
             Listed(s, before)[k] = Listed(s, before)[l] => k = l

\* Listed does so for every strict total order.
LEMMA ListedFacts ==
    ASSUME NEW S, NEW s \in Seq(S), NEW I \in SUBSET DOMAIN s, NEW before, Orders(before, I)
    PROVE  ListedSpec(s, S, I, before)
<1> DEFINE n == Cardinality(I)
           at == [k \in 1..n |-> CHOOSE i \in I : Cardinality(before[i]) = k - 1]
           q == Listed(s, before)
<1>1. DOMAIN before = I
    BY DEF Orders
<1>2. q = [k \in 1..n |-> s[at[k]]]
    BY <1>1 DEF Listed
<1>3. /\ n \in Nat
      /\ \A i \in I : Cardinality(before[i]) + 1 \in 1..n
      /\ \A i, j \in I : Cardinality(before[i]) = Cardinality(before[j]) => i = j
      /\ \A k \in 1..n : \E i \in I : Cardinality(before[i]) = k - 1
    BY Ranks
<1>4. \A k \in 1..n : at[k] \in I /\ Cardinality(before[at[k]]) = k - 1
    BY <1>3
<1>5. \A i \in I : Cardinality(before[i]) \in Nat
    <2>1. \A i \in I : IsFiniteSet(before[i])
        BY FS_Subset DEF Orders
    <2> QED BY <2>1, FS_CardinalityType
<1>6. \A i \in I : at[Cardinality(before[i]) + 1] = i
    <2> SUFFICES ASSUME NEW i \in I PROVE at[Cardinality(before[i]) + 1] = i
        OBVIOUS
    <2>1. Cardinality(before[at[Cardinality(before[i]) + 1]]) = Cardinality(before[i])
        BY <1>3, <1>4, <1>5
    <2> QED BY <1>3, <1>4, <2>1
<1>7. \A k, l \in 1..n : at[k] = at[l] => k = l
    BY <1>4
<1>13. ASSUME NEW k \in 1..n, NEW l \in 1..n, k < l PROVE at[k] \in before[at[l]]
    <2>1. /\ at[k] \in I /\ Cardinality(before[at[k]]) = k - 1
          /\ at[l] \in I /\ Cardinality(before[at[l]]) = l - 1 /\ at[k] # at[l]
        BY <1>4, <1>7, <1>13
    <2>2. ASSUME at[k] \notin before[at[l]] PROVE FALSE
        <3>1. before[at[l]] \subseteq before[at[k]] /\ before[at[k]] \in SUBSET I /\ IsFiniteSet(I)
            BY <2>1, <2>2 DEF Orders
        <3>2. Cardinality(before[at[l]]) =< Cardinality(before[at[k]])
            BY <3>1, FS_Subset
        <3> QED BY <1>13, <2>1, <3>2
    <2> QED BY <2>2
<1> HIDE DEF n, at, q
<1>8. \A k \in 1..n : s[at[k]] \in S
    BY <1>4
<1>9. q \in Seq(S) /\ Len(q) = n /\ DOMAIN q = 1..n
    BY <1>2, <1>3, <1>8
<1>10. \A k \in DOMAIN q : \E i \in I : q[k] = s[i]
    BY <1>2, <1>4, <1>9
<1>11. \A i \in I : \E k \in DOMAIN q : q[k] = s[i]
    BY <1>2, <1>3, <1>6, <1>9
<1>12. ASSUME \A i, j \in I : s[i] = s[j] => i = j
       PROVE  \A k, l \in DOMAIN q : q[k] = q[l] => k = l
    BY <1>2, <1>4, <1>7, <1>9, <1>12
<1>14. \A k, l \in DOMAIN q : k < l =>
          \E i, j \in I : i \in before[j] /\ q[k] = s[i] /\ q[l] = s[j]
    <2> SUFFICES ASSUME NEW k \in 1..n, NEW l \in 1..n, k < l
                 PROVE  \E i, j \in I : i \in before[j] /\ q[k] = s[i] /\ q[l] = s[j]
        BY <1>9
    <2> QED BY <1>2, <1>4, <1>13
<1> QED BY <1>9, <1>10, <1>11, <1>12, <1>14 DEF q, n, ListedSpec

\* What Only returns: the members of s in P, in the order of s, none repeated that
\* s does not repeat.
OnlySpec(s, S, P) ==
    /\ Only(s, P) \in Seq(S) /\ Members(Only(s, P)) = Members(s) \cap P
    /\ Len(Only(s, P)) =< Len(s)
    /\ \A k, l \in DOMAIN Only(s, P) : k < l =>
          \E i, j \in DOMAIN s : i < j /\ Only(s, P)[k] = s[i] /\ Only(s, P)[l] = s[j]
    /\ Distinct(s) => Distinct(Only(s, P))

\* Only does so for every sequence.
LEMMA OnlyKeeps ==
    ASSUME NEW S, NEW s \in Seq(S), NEW P
    PROVE  OnlySpec(s, S, P)
<1> DEFINE I == {i \in DOMAIN s : s[i] \in P}
           before == [i \in I |-> {j \in I : j < i}]
           q == Listed(s, before)
<1>1. DOMAIN s = 1..Len(s) /\ Len(s) \in Nat
    OBVIOUS
<1>2. IsFiniteSet(I) /\ Cardinality(I) =< Len(s)
    <2>1. IsFiniteSet(1..Len(s)) /\ I \in SUBSET (1..Len(s)) /\ Cardinality(1..Len(s)) = Len(s)
        BY <1>1, FS_Interval
    <2> QED BY <2>1, FS_Subset
<1>3. I \in SUBSET Nat /\ I \in SUBSET DOMAIN s
    BY <1>1
<1>4. Orders(before, I)
    BY <1>2, <1>3 DEF Orders
<1>5. Only(s, P) = q
    BY DEF Only
<1>6. \A i, j \in I : i \in before[j] => i < j
    OBVIOUS
<1>7. ListedSpec(s, S, I, before)
    <2>1. I \in SUBSET DOMAIN s
        BY <1>3
    <2> HIDE DEF before, I
    <2> QED BY <1>4, <2>1, ListedFacts
<1>8. /\ q \in Seq(S) /\ Len(q) =< Len(s)
      /\ \A k \in DOMAIN q : \E i \in I : q[k] = s[i]
      /\ \A i \in I : \E k \in DOMAIN q : q[k] = s[i]
      /\ (\A i, j \in I : s[i] = s[j] => i = j) => Distinct(q)
    <2> HIDE DEF before, I
    <2> QED BY <1>2, <1>7 DEF Distinct, ListedSpec
<1>9. \A k, l \in DOMAIN q : k < l => \E i, j \in DOMAIN s : i < j /\ q[k] = s[i] /\ q[l] = s[j]
    <2> HIDE DEF before, I
    <2>1. \A k, l \in DOMAIN q : k < l => \E i, j \in I : i \in before[j] /\ q[k] = s[i] /\ q[l] = s[j]
        BY <1>7 DEF ListedSpec
    <2> QED BY <1>3, <1>6, <2>1
<1> HIDE DEF q
<1>10. Members(q) = Members(s) \cap P
    BY <1>8 DEF Members
<1>11. Distinct(s) => Distinct(q)
    BY <1>8 DEF Distinct
<1> QED BY <1>5, <1>8, <1>9, <1>10, <1>11 DEF OnlySpec

-----------------------------------------------------------------------------
(* Sequences and sets in general.                                            *)

\* A function on the places of a sequence, with its values in S, is a sequence too.
LEMMA Placewise ==
    ASSUME NEW S, NEW T, NEW es \in Seq(T), NEW fs, fs = [i \in DOMAIN es |-> fs[i]],
           \A i \in DOMAIN es : fs[i] \in S
    PROVE  fs \in Seq(S) /\ DOMAIN fs = DOMAIN es /\ Len(fs) = Len(es)
<1>1. DOMAIN es = 1..Len(es) /\ Len(es) \in Nat
    OBVIOUS
<1> QED BY <1>1

\* Two sets are equal when they have the same members.
LEMMA SameMembers ==
    ASSUME NEW A, NEW B, \A m : m \in A <=> m \in B
    PROVE  A = B
OBVIOUS
=============================================================================
