---------------------------- MODULE ThingsProofs ----------------------------
(* Proofs about the names of things and the walks of their merges, for     *)
(* every finite set of things and every set of handles, whatever is        *)
(* renamed, merged, edited and captured before and after the repair.       *)
(*                                                                         *)
(* The operators walk the merge events by recursive functions; Induction   *)
(* states over sets of numbers what their proofs need.  OneClaimPerAddress *)
(* rests on where each walk has come to rest (Ends) and on the ids that    *)
(* events list (Listed).  WalksEnd rests on an order of the things in      *)
(* which no row means one folded before it (OldOrder), and which the       *)
(* repair and every merge turn into an order of the events (EventOrder).   *)
EXTENDS Things, FiniteSetTheorems, SequenceTheorems, WellFoundedInduction, TLAPS

-----------------------------------------------------------------------------
(* Numbers.                                                                *)

\* A set of numbers that is not empty has a least one.
LEMMA Least ==
    ASSUME NEW S \in SUBSET Nat, S # {}
    PROVE  \E m \in S : \A n \in S : m <= n
<1>1. PICK m \in S : \A n \in S : ~ (<<n, m>> \in OpToRel(<, Nat))
    BY WFMin, NatLessThanWellFounded
<1>2. \A n \in S : ~ (n < m)
    BY <1>1 DEF OpToRel
<1>3. QED
    BY <1>2

\* Induction, over a set of numbers.
LEMMA Induction ==
    ASSUME NEW S, 0 \in S, \A n \in Nat : n \in S => n + 1 \in S
    PROVE  Nat \subseteq S
<1> SUFFICES ASSUME Nat \ S # {} PROVE FALSE
    OBVIOUS
<1>1. PICK m \in Nat \ S : \A n \in Nat \ S : m <= n
    BY Least
<1>2. m # 0 /\ m - 1 \in Nat
    BY <1>1
<1>3. m - 1 \in S
    BY <1>1, <1>2
<1>4. (m - 1) + 1 \in S
    BY <1>2, <1>3
<1>5. QED
    BY <1>1, <1>2, <1>4

\* The greatest of some numbers that have a bound.
LEMMA Greatest ==
    ASSUME NEW S \in SUBSET Nat, S # {}, NEW n \in Nat, \A k \in S : k <= n
    PROVE  Max(S) \in S /\ \A k \in S : k <= Max(S)
<1> DEFINE below == {n - k : k \in S}
<1>1. below \in SUBSET Nat /\ below # {}
    OBVIOUS
<1> HIDE DEF below
<1>2. PICK b \in below : \A c \in below : b <= c
    BY <1>1, Least
<1>3. PICK m \in S : b = n - m
    BY <1>2 DEF below
<1>4. \A k \in S : m >= k
    <2> SUFFICES ASSUME NEW k \in S PROVE m >= k
        OBVIOUS
    <2>1. n - k \in below
        BY DEF below
    <2>2. n - m <= n - k
        BY <1>2, <1>3, <2>1
    <2>3. QED
        BY <2>2
<1>5. Max(S) \in S /\ \A k \in S : Max(S) >= k
    BY <1>3, <1>4 DEF Max
<1>6. QED
    BY <1>5

\* The least of some indices.
LEMMA Lowest ==
    ASSUME NEW S \in SUBSET Nat, S # {}
    PROVE  Min(S) \in S /\ \A k \in S : Min(S) <= k
<1>1. PICK m \in S : \A n \in S : m <= n
    BY Least
<1>2. QED
    BY <1>1 DEF Min

-----------------------------------------------------------------------------
(* Types.                                                                  *)

AtMostOne(S) == \A x, y \in S : x = y

Entry == [handle : Handle, badge : Thing]
IdMaps == UNION {[ids -> Nat] : ids \in SUBSET Nat}
Event == [folded : Thing, survivor : Thing, ids : IdMaps]

\* Names and the tables behind them.
Named ==
    /\ build \in {"old", "new"}
    /\ wears \in [Thing -> SUBSET Handle] /\ into \in [Thing -> SUBSET Handle]
    /\ \A t \in Thing : AtMostOne(wears[t]) /\ AtMostOne(into[t])
    /\ \A t, u \in Thing : \A h \in wears[t] : h \in wears[u] => t = u
    /\ former \in Seq(Entry) /\ writes \in Seq(Entry)

\* A name or a forwarding row is of a thing that was made.
OfMade ==
    /\ \A i \in 1 .. Len(former) : former[i].badge \in Made
    /\ \A i \in 1 .. Len(writes) : writes[i].badge \in Made
    /\ \A i \in 1 .. Len(events) : events[i].survivor \in Made
    /\ \A t \in Thing : Merged(t) => t \in Made

\* The merge events and the claims.
Stored ==
    /\ events \in Seq(Event)
    /\ facts \in [Thing -> SUBSET Nat]
    /\ \A t \in Thing : \E n \in Nat : \A i \in facts[t] : i <= n
    /\ build = "old" => events = <<>>

\* Only a merged thing was folded by an event.
FoldedMerged == \A t \in Thing : Folded(t) => Merged(t)

Tables == Named /\ OfMade /\ Stored /\ FoldedMerged

LEMMA SmallSet ==
    ASSUME NEW S \in SUBSET Thing, Cardinality(S) <= 1
    PROVE  AtMostOne(S)
<1> SUFFICES ASSUME NEW x \in S, NEW y \in S, x # y PROVE FALSE
    BY DEF AtMostOne
<1>1. IsFiniteSet(S)
    BY ThingsAssumption, FS_Subset
<1>2. IsFiniteSet({x}) /\ Cardinality({x}) = 1
    BY FS_Singleton
<1>3. Cardinality({x} \cup {y}) = 2
    BY <1>2, FS_AddElement
<1>4. {x} \cup {y} \in SUBSET S
    OBVIOUS
<1>5. Cardinality({x} \cup {y}) <= Cardinality(S) /\ Cardinality(S) \in Nat
    BY <1>1, <1>4, FS_Subset, FS_CardinalityType
<1>6. QED
    BY <1>3, <1>5

\* The positions of some entries.
LEMMA Positions ==
    ASSUME NEW T, NEW s \in Seq(T), NEW S \in SUBSET DOMAIN s, S # {}
    PROVE  /\ Max(S) \in S /\ \A k \in S : k <= Max(S)
           /\ Min(S) \in S /\ \A k \in S : Min(S) <= k
           /\ S \subseteq 1 .. Len(s) /\ Len(s) \in Nat
<1>1. DOMAIN s = 1 .. Len(s) /\ Len(s) \in Nat
    BY LenProperties
<1>2. S \in SUBSET Nat /\ \A k \in S : k <= Len(s)
    BY <1>1
<1>3. QED
    BY <1>1, <1>2, Greatest, Lowest

-----------------------------------------------------------------------------
(* What a name means.                                                      *)

\* What wears a handle or left it.
NamedBy(h) ==
    {t \in Thing : h \in wears[t]}
        \cup {former[i].badge : i \in {j \in DOMAIN former : former[j].handle = h}}

LEMMA NamedAreThings ==
    ASSUME Named
    PROVE  \A h : NamedBy(h) \in SUBSET Thing
<1>1. DOMAIN former = 1 .. Len(former) /\ \A i \in 1 .. Len(former) : former[i] \in Entry
    BY LenProperties, ElementOfSeq DEF Named
<1>2. \A i \in DOMAIN former : former[i].badge \in Thing
    BY <1>1 DEF Entry
<1>3. QED
    BY <1>2 DEF NamedBy

\* A forwarding row means at most one thing, of those that had the handle.
LEMMA WearerIsOne ==
    ASSUME Named, NEW h, NEW at
    PROVE  WearerOf(h, at) \subseteq NamedBy(h) /\ AtMostOne(WearerOf(h, at))
<1> DEFINE now   == {t \in Thing : h \in wears[t]}
           named == now \cup {former[i].badge : i \in {j \in DOMAIN former : former[j].handle = h}}
           gone  == named \ now
           others(t) == (wears[t] \cup {former[i].handle :
                           i \in {j \in DOMAIN former : former[j].badge = t}}) \ {h}
           leftAt(t) == Min({i \in DOMAIN writes :
                               writes[i].badge = t /\ writes[i].handle \in others(t)})
           arm(t) == IF Cardinality(others(t)) > 1 THEN {}
                     ELSE IF at < leftAt(t) THEN gone ELSE now
           told == UNION {arm(t) : t \in gone}
<1>1. named = NamedBy(h) /\ named \in SUBSET Thing
    BY NamedAreThings DEF NamedBy
<1>2. WearerOf(h, at) = IF Cardinality(named) <= 1 THEN named
                        ELSE IF now = {} \/ Cardinality(gone) > 1 THEN {} ELSE told
    BY DEF WearerOf
<1>3. told \subseteq named
    OBVIOUS
<1>4. AtMostOne(now)
    BY DEF Named, AtMostOne
<1>5. CASE Cardinality(named) <= 1
    BY <1>1, <1>2, <1>5, SmallSet
<1>7. ASSUME ~ (Cardinality(named) <= 1), now # {}, ~ (Cardinality(gone) > 1)
      PROVE  /\ AtMostOne(gone) /\ AtMostOne(told) /\ WearerOf(h, at) = told
    <2>1. IsFiniteSet(gone) /\ Cardinality(gone) \in Nat
        BY <1>1, ThingsAssumption, FS_Subset, FS_CardinalityType
    <2>2. AtMostOne(gone)
        <3>1. gone \in SUBSET Thing /\ Cardinality(gone) <= 1
            BY <1>1, <1>7, <2>1
        <3> HIDE DEF gone
        <3>2. QED
            BY <3>1, SmallSet
    <2>3. PICK all \in {{}, gone, now} : told = all
        <3>1. CASE gone = {}
            BY <3>1
        <3>2. ASSUME NEW t \in gone
              PROVE  told = IF Cardinality(others(t)) > 1 THEN {}
                            ELSE IF at < leftAt(t) THEN gone ELSE now
            <4>1. gone = {t}
                BY <2>2, <3>2 DEF AtMostOne
            <4> HIDE DEF arm
            <4>2. told = arm(t)
                BY <4>1
            <4>3. QED
                BY <4>2 DEF arm
        <3> HIDE DEF told, arm, others, leftAt
        <3>3. QED
            BY <3>1, <3>2
    <2>4. AtMostOne({})
        BY DEF AtMostOne
    <2>5. QED
        BY <1>2, <1>4, <1>7, <2>2, <2>3, <2>4
<1>8. QED
    <2>1. IsFiniteSet(named) /\ Cardinality(named) \in Nat
        BY <1>1, ThingsAssumption, FS_Subset, FS_CardinalityType
    <2> HIDE DEF named, now, gone, told, arm
    <2>2. CASE Cardinality(named) <= 1
        BY <1>1, <1>2, <1>5, <2>2
    <2>3. CASE ~ (Cardinality(named) <= 1) /\ (now = {} \/ Cardinality(gone) > 1)
        BY <1>2, <2>3 DEF AtMostOne
    <2>4. CASE ~ (Cardinality(named) <= 1) /\ ~ (now = {} \/ Cardinality(gone) > 1)
        BY <1>1, <1>3, <1>7, <2>4
    <2>5. QED
        BY <2>2, <2>3, <2>4

-----------------------------------------------------------------------------
(* Walks.                                                                  *)

Address == [home : Thing, id : Nat]

\* n steps can be taken from a.
Walkable(A, step, a, n) ==
    \E w \in [0 .. n -> A] : w[0] = a /\ \A k \in 1 .. n : w[k] = step[w[k - 1]]

\* A step can be taken again and again.
LEMMA Iterates ==
    \A A : \A step \in [A -> A] : \A a \in A : \A n \in Nat : Walkable(A, step, a, n)
<1> SUFFICES ASSUME NEW A, NEW step \in [A -> A], NEW a \in A
             PROVE  \A n \in Nat : Walkable(A, step, a, n)
    OBVIOUS
<1> DEFINE S == {n \in Nat : \E w \in [0 .. n -> A] :
                   w[0] = a /\ \A k \in 1 .. n : w[k] = step[w[k - 1]]}
<1>1. 0 \in S
    <2>1. /\ [k \in 0 .. 0 |-> a] \in [0 .. 0 -> A] /\ [k \in 0 .. 0 |-> a][0] = a
          /\ \A k \in 1 .. 0 : [i \in 0 .. 0 |-> a][k] = step[[i \in 0 .. 0 |-> a][k - 1]]
        OBVIOUS
    <2>2. QED
        BY <2>1
<1>2. ASSUME NEW n \in Nat, n \in S PROVE n + 1 \in S
    <2>1. PICK w \in [0 .. n -> A] : w[0] = a /\ \A k \in 1 .. n : w[k] = step[w[k - 1]]
        BY <1>2
    <2> DEFINE v == [k \in 0 .. n + 1 |-> IF k = n + 1 THEN step[w[n]] ELSE w[k]]
    <2>2. v \in [0 .. n + 1 -> A]
        BY <2>1
    <2>3. v[0] = a /\ v[n + 1] = step[w[n]] /\ \A k \in 0 .. n : v[k] = w[k]
        BY <2>1
    <2> HIDE DEF v
    <2>4. \A k \in 1 .. n + 1 : v[k] = step[v[k - 1]]
        <3> SUFFICES ASSUME NEW k \in 1 .. n + 1 PROVE v[k] = step[v[k - 1]]
            OBVIOUS
        <3>1. CASE k = n + 1
            <4>1. k - 1 = n /\ n \in 0 .. n
                BY <3>1
            <4>2. QED
                BY <2>3, <3>1, <4>1
        <3>2. CASE k # n + 1
            <4>1. k \in 1 .. n /\ k \in 0 .. n /\ k - 1 \in 0 .. n
                BY <3>2
            <4>2. QED
                BY <2>1, <2>3, <4>1
        <3>3. QED
            BY <3>1, <3>2
    <2>5. QED
        BY <2>2, <2>3, <2>4
<1> HIDE DEF S
<1>3. Nat \subseteq S
    BY <1>1, <1>2, Induction
<1>4. QED
    BY <1>3 DEF S, Walkable

\* An event that lists a claim gives it an address on its survivor.
LEMMA StepTyped ==
    ASSUME events \in Seq(Event), NEW a \in Address
    PROVE  ClaimStep(a) \in Address
<1> DEFINE lists == {i \in FoldsOf(a.home) : a.id \in DOMAIN events[i].ids}
           e     == events[Max(lists)]
<1>1. ClaimStep(a) = IF lists = {} THEN a ELSE [home |-> e.survivor, id |-> e.ids[a.id]]
    BY DEF ClaimStep
<1>2. lists \in SUBSET DOMAIN events
    BY DEF FoldsOf
<1>3. CASE lists # {}
    <2>1. Max(lists) \in lists /\ lists \subseteq 1 .. Len(events)
        BY <1>2, <1>3, Positions
    <2>2. e \in Event /\ a.id \in DOMAIN e.ids
        BY <2>1, ElementOfSeq
    <2> HIDE DEF e, lists
    <2>3. e.survivor \in Thing /\ e.ids[a.id] \in Nat
        BY <2>2 DEF Event, IdMaps
    <2>4. QED
        BY <1>1, <1>3, <2>3 DEF Address
<1>4. QED
    BY <1>1, <1>3

\* The walk of a claim's address.
IsWalk(w, a) ==
    /\ w \in [0 .. Len(events) -> Address]
    /\ w[0] = a
    /\ \A k \in 1 .. Len(events) : w[k] = ClaimStep(w[k - 1])

LEMMA ClaimWalks ==
    ASSUME events \in Seq(Event), NEW a \in Address
    PROVE  \E w : IsWalk(w, a) /\ ClaimEnd(a) = w[Len(events)]
<1> DEFINE L == Len(events)
           F(w) == [n \in 0 .. L |-> IF n = 0 THEN a ELSE ClaimStep(w[n - 1])]
           step == [x \in Address |-> ClaimStep(x)]
           walk[n \in 0 .. L] == IF n = 0 THEN a ELSE ClaimStep(walk[n - 1])
<1>1. L \in Nat
    BY LenProperties
<1>2. step \in [Address -> Address]
    BY StepTyped
<1>3. PICK v \in [0 .. L -> Address] : v[0] = a /\ \A k \in 1 .. L : v[k] = step[v[k - 1]]
    <2> HIDE DEF step, L
    <2>1. Walkable(Address, step, a, L)
        BY <1>1, <1>2, Iterates
    <2>2. QED
        BY <2>1 DEF Walkable
<1> HIDE DEF L
<1>4. \A k \in 1 .. L : v[k] = ClaimStep(v[k - 1])
    <2> SUFFICES ASSUME NEW k \in 1 .. L PROVE v[k] = ClaimStep(v[k - 1])
        OBVIOUS
    <2>1. k - 1 \in 0 .. L
        BY <1>1
    <2>2. QED
        BY <1>3, <2>1
<1>5. v = F(v)
    <2>1. \A n \in 0 .. L : v[n] = IF n = 0 THEN a ELSE ClaimStep(v[n - 1])
        BY <1>1, <1>3, <1>4
    <2>2. QED
        BY <1>3, <2>1
<1>6. walk = F(walk)
    BY <1>5
<1>7. ClaimEnd(a) = walk[L]
    BY DEF ClaimEnd, L
<1> HIDE DEF walk
<1>8. \A n \in 0 .. L : walk[n] = IF n = 0 THEN a ELSE ClaimStep(walk[n - 1])
    BY <1>6
<1> DEFINE S == {n \in Nat : n <= L => walk[n] = v[n]}
<1>9. Nat \subseteq S
    <2>1. 0 \in S
        BY <1>1, <1>3, <1>8
    <2>2. ASSUME NEW n \in Nat, n \in S PROVE n + 1 \in S
        <3>1. CASE n + 1 <= L
            <4>1. walk[n] = v[n] /\ n + 1 \in 0 .. L /\ n + 1 \in 1 .. L /\ (n + 1) - 1 = n
                BY <1>1, <2>2, <3>1
            <4>2. walk[n + 1] = ClaimStep(v[n])
                BY <1>8, <4>1
            <4>3. v[n + 1] = ClaimStep(v[n])
                BY <1>4, <4>1
            <4>4. QED
                BY <4>2, <4>3
        <3>2. QED
            BY <3>1
    <2> HIDE DEF S
    <2>3. QED
        BY <2>1, <2>2, Induction
<1>10. walk = v
    <2>1. \A n \in 0 .. L : walk[n] = v[n]
        BY <1>1, <1>9
    <2>2. QED
        BY <1>3, <1>6, <2>1
<1>11. QED
    BY <1>3, <1>4, <1>7, <1>10 DEF IsWalk, L

\* One hop from a merged thing leads to at most one thing that was made.
LEMMA SurvivorIsOne ==
    ASSUME Tables, NEW t \in Thing
    PROVE  /\ SurvivorOf(t) \subseteq Made /\ AtMostOne(SurvivorOf(t))
           /\ Folded(t) => SurvivorOf(t) # {}
<1>0. Named /\ OfMade /\ Stored
    BY DEF Tables
<1>1. CASE Folded(t)
    <2>1. Max(FoldsOf(t)) \in 1 .. Len(events)
        BY <1>0, <1>1, Positions DEF Folded, FoldsOf, Stored
    <2>2. QED
        BY <1>0, <1>1, <2>1 DEF SurvivorOf, OfMade, AtMostOne
<1>2. CASE ~Folded(t)
    <2>1. \A s : s \in SurvivorOf(t) <=>
                   (s \in Thing \ {t} /\ \E h \in into[t] : s \in WearerOf(h, Newest(t)))
        BY <1>2 DEF SurvivorOf
    <2>2. CASE into[t] = {}
        BY <1>2, <2>1, <2>2 DEF AtMostOne
    <2>3. ASSUME NEW h \in into[t] PROVE SurvivorOf(t) \subseteq Made /\ AtMostOne(SurvivorOf(t))
        <3>1. \A g \in into[t] : g = h
            BY <1>0 DEF Named, AtMostOne
        <3>2. SurvivorOf(t) \subseteq WearerOf(h, Newest(t))
            BY <2>1, <3>1
        <3>3. NamedBy(h) \subseteq Made
            BY <1>0, LenProperties DEF Named, OfMade, NamedBy, Made
        <3>4. QED
            BY <1>0, <3>2, <3>3, WearerIsOne DEF AtMostOne
    <2>4. QED
        BY <1>2, <2>2, <2>3
<1>3. QED
    BY <1>1, <1>2

-----------------------------------------------------------------------------
(* The names, step by step.                                                *)

\* A write of a row is one more moment.
LEMMA WriteAdded ==
    ASSUME Named, NEW u \in Thing, NEW g \in Handle, Writes(u, g)
    PROVE  /\ writes \in Seq(Entry) /\ writes' \in Seq(Entry)
           /\ Len(writes') = Len(writes) + 1 /\ Len(writes) \in Nat
           /\ \A i \in 1 .. Len(writes) : writes'[i] = writes[i]
           /\ writes'[Len(writes) + 1].badge = u /\ writes'[Len(writes) + 1].handle = g
<1>0. PICK e : e = [handle |-> g, badge |-> u]
    OBVIOUS
<1>1. e \in Entry /\ e.badge = u /\ e.handle = g
    BY <1>0 DEF Entry
<1>2. writes' = Append(writes, e) /\ writes \in Seq(Entry)
    BY <1>0 DEF Writes, Named
<1>3. /\ writes' \in Seq(Entry) /\ Len(writes') = Len(writes) + 1 /\ Len(writes) \in Nat
      /\ \A i \in 1 .. Len(writes) : writes'[i] = writes[i]
      /\ writes'[Len(writes) + 1] = e
    BY <1>1, <1>2, AppendProperties, LenProperties
<1>4. QED
    BY <1>1, <1>2, <1>3

\* A handle left is the newest of those left.
LEMMA FormerAdded ==
    ASSUME Named, NEW t \in Thing, NEW from \in wears[t],
           former' = Append(former, [handle |-> from, badge |-> t])
    PROVE  /\ former \in Seq(Entry) /\ former' \in Seq(Entry)
           /\ Len(former') = Len(former) + 1 /\ Len(former) \in Nat
           /\ \A i \in 1 .. Len(former) : former'[i] = former[i]
           /\ former'[Len(former) + 1].handle = from /\ former'[Len(former) + 1].badge = t
<1>0. PICK e : e = [handle |-> from, badge |-> t]
    OBVIOUS
<1>1. e \in Entry /\ e.handle = from /\ e.badge = t
    BY <1>0 DEF Named, Entry
<1>2. former' = Append(former, e) /\ former \in Seq(Entry)
    BY <1>0 DEF Named
<1>3. /\ former' \in Seq(Entry) /\ Len(former') = Len(former) + 1 /\ Len(former) \in Nat
      /\ \A i \in 1 .. Len(former) : former'[i] = former[i]
      /\ former'[Len(former) + 1] = e
    BY <1>1, <1>2, AppendProperties, LenProperties
<1>4. QED
    BY <1>1, <1>2, <1>3

\* Every moment is of a thing that was made.
LEMMA WritesGrow ==
    ASSUME Named, OfMade, NEW t \in Thing, NEW h \in Handle, Writes(t, h),
           Made \subseteq Made', t \in Made'
    PROVE  /\ writes' \in Seq(Entry)
           /\ \A i \in 1 .. Len(writes') : writes'[i].badge \in Made'
<1>1. /\ writes' \in Seq(Entry) /\ Len(writes') = Len(writes) + 1 /\ Len(writes) \in Nat
      /\ \A i \in 1 .. Len(writes) : writes'[i] = writes[i]
      /\ writes'[Len(writes) + 1].badge = t
    BY WriteAdded
<1>2. \A i \in 1 .. Len(writes') : i \in 1 .. Len(writes) \/ i = Len(writes) + 1
    BY <1>1
<1>3. QED
    BY <1>1, <1>2 DEF OfMade

LEMMA AddKeepsNames ==
    ASSUME Tables, NEW t \in Thing, NEW h \in Handle, Add(t, h)
    PROVE  Named' /\ OfMade'
<1>1. /\ Named /\ OfMade /\ wears[t] = {} /\ h \notin Worn
      /\ wears' = [wears EXCEPT ![t] = {h}] /\ Writes(t, h)
      /\ UNCHANGED <<build, into, former, events>>
    BY DEF Tables, Add
<1>2. wears'[t] = {h} /\ \A u \in Thing \ {t} : wears'[u] = wears[u]
    BY <1>1 DEF Named
<1>3. Made \subseteq Made' /\ t \in Made'
    BY <1>1, <1>2 DEF Made
<1>4. writes' \in Seq(Entry) /\ \A i \in 1 .. Len(writes') : writes'[i].badge \in Made'
    BY <1>1, <1>3, WritesGrow
<1>5. wears' \in [Thing -> SUBSET Handle]
    BY <1>1 DEF Named
<1>6. \A u \in Thing : AtMostOne(wears'[u])
    BY <1>1, <1>2 DEF Named, AtMostOne
<1>7. \A u, v \in Thing : \A g \in wears'[u] : g \in wears'[v] => u = v
    <2>1. \A u \in Thing : h \notin wears[u]
        BY <1>1 DEF Worn
    <2>2. QED
        BY <1>1, <1>2, <2>1 DEF Named
<1>8. Named'
    BY <1>1, <1>4, <1>5, <1>6, <1>7 DEF Named
<1>9. OfMade'
    BY <1>1, <1>3, <1>4 DEF OfMade, Merged
<1>10. QED
    BY <1>8, <1>9

LEMMA RenameKeepsNames ==
    ASSUME Tables, NEW t \in Thing, NEW h \in Handle, Rename(t, h)
    PROVE  Named' /\ OfMade'
<1>1. /\ Named /\ OfMade /\ t \in Made /\ ~Merged(t) /\ h \notin Worn
      /\ wears' = [wears EXCEPT ![t] = {h}] /\ Writes(t, h)
      /\ into' = [r \in Thing |-> IF build = "new" /\ r \in Carried(t) THEN {h} ELSE into[r]]
      /\ UNCHANGED <<build, events>>
    BY DEF Tables, Rename
<1>2. wears'[t] = {h} /\ \A u \in Thing \ {t} : wears'[u] = wears[u]
    BY <1>1 DEF Named
<1>3. Made \subseteq Made' /\ t \in Made'
    BY <1>1, <1>2 DEF Made
<1>4. writes' \in Seq(Entry) /\ \A i \in 1 .. Len(writes') : writes'[i].badge \in Made'
    BY <1>1, <1>3, WritesGrow
<1>5. wears' \in [Thing -> SUBSET Handle] /\ into' \in [Thing -> SUBSET Handle]
    BY <1>1 DEF Named
<1>6. \A u \in Thing : AtMostOne(wears'[u]) /\ AtMostOne(into'[u])
    BY <1>1, <1>2 DEF Named, AtMostOne
<1>7. \A u, v \in Thing : \A g \in wears'[u] : g \in wears'[v] => u = v
    <2>1. \A u \in Thing : h \notin wears[u]
        BY <1>1 DEF Worn
    <2>2. QED
        BY <1>1, <1>2, <2>1 DEF Named
<1>8. PICK from \in wears[t] : former' = Append(former, [handle |-> from, badge |-> t])
    BY DEF Rename
<1>9. former' \in Seq(Entry) /\ \A i \in 1 .. Len(former') : former'[i].badge \in Made'
    <2>1. /\ former' \in Seq(Entry) /\ Len(former') = Len(former) + 1 /\ Len(former) \in Nat
          /\ \A i \in 1 .. Len(former) : former'[i] = former[i]
          /\ former'[Len(former) + 1].badge = t
        BY <1>1, <1>8, FormerAdded
    <2>2. \A i \in 1 .. Len(former') : i \in 1 .. Len(former) \/ i = Len(former) + 1
        BY <2>1
    <2>3. QED
        BY <1>1, <1>3, <2>1, <2>2 DEF OfMade
<1>10. Named'
    BY <1>1, <1>4, <1>5, <1>6, <1>7, <1>9 DEF Named
<1>11. \A r \in Thing : Merged(r)' => r \in Made'
    <2>1. \A r \in Carried(t) : into[r] # {}
        BY DEF Carried
    <2>2. QED
        BY <1>1, <1>3, <2>1 DEF OfMade, Merged
<1>12. OfMade'
    BY <1>1, <1>3, <1>4, <1>9, <1>11 DEF OfMade
<1>13. QED
    BY <1>10, <1>12

\* A row that starts to forward, or is written again where it forwards.
LEMMA ForwardingKeepsNames ==
    ASSUME Tables, NEW t \in Made, NEW h \in wears[t], Writes(t, h),
           NEW to \in SUBSET Handle, AtMostOne(to), into' = [into EXCEPT ![t] = to],
           UNCHANGED <<wears, former>>, build' = build,
           \A i \in 1 .. Len(events') : events'[i].survivor \in Made
    PROVE  Named' /\ OfMade'
<1>1. Named /\ OfMade /\ t \in Thing /\ h \in Handle
    BY DEF Tables, Made, Named
<1>2. Made' = Made
    BY DEF Made
<1>3. writes' \in Seq(Entry) /\ \A i \in 1 .. Len(writes') : writes'[i].badge \in Made'
    BY <1>1, <1>2, WritesGrow
<1>4. into' \in [Thing -> SUBSET Handle] /\ \A u \in Thing \ {t} : into'[u] = into[u]
    BY <1>1 DEF Named
<1>5. \A u \in Thing : AtMostOne(into'[u])
    BY <1>1 DEF Named
<1>6. Named'
    BY <1>1, <1>3, <1>4, <1>5 DEF Named
<1>7. \A u \in Thing : Merged(u)' => u \in Made'
    BY <1>1, <1>2, <1>4 DEF OfMade, Merged
<1>8. OfMade'
    BY <1>1, <1>2, <1>3, <1>7 DEF OfMade
<1>9. QED
    BY <1>6, <1>8

-----------------------------------------------------------------------------
(* Claims and their ids.                                                   *)

LEMMA ClaimsAre ==
    \A c : c \in Claims <=> \E t \in Thing : \E i \in facts[t] : c = [home |-> t, id |-> i]
BY DEF Claims

LEMMA ServedAre ==
    ASSUME NEW t, ~Folded(t)
    PROVE  \A i : i \in ServedIds(t) <=> \E c \in Claims : ClaimEnd(c).home = t /\ ClaimEnd(c).id = i
BY DEF ServedIds

LEMMA EndTyped ==
    ASSUME events \in Seq(Event), NEW a \in Address
    PROVE  ClaimEnd(a) \in Address
<1>1. PICK w : IsWalk(w, a) /\ ClaimEnd(a) = w[Len(events)]
    BY ClaimWalks
<1>2. Len(events) \in 0 .. Len(events)
    BY LenProperties
<1>3. QED
    BY <1>1, <1>2 DEF IsWalk

LEMMA ClaimsTyped ==
    ASSUME Stored, NEW c \in Claims
    PROVE  /\ c \in Address /\ c.home \in Thing /\ c.id \in facts[c.home]
           /\ ClaimEnd(c) \in Address /\ ClaimEnd(c).home \in Thing /\ ClaimEnd(c).id \in Nat
<1>1. PICK t \in Thing : \E i \in facts[t] : c = [home |-> t, id |-> i]
    BY ClaimsAre
<1>2. PICK i \in facts[t] : c = [home |-> t, id |-> i]
    BY <1>1
<1>3. i \in Nat
    BY DEF Stored
<1>4. c \in Address
    BY <1>2, <1>3 DEF Address
<1>5. ClaimEnd(c) \in Address
    BY <1>4, EndTyped DEF Stored
<1>6. QED
    BY <1>2, <1>4, <1>5 DEF Address

\* The highest of some ids that have a bound.
LEMMA HighestIs ==
    ASSUME NEW ids \in SUBSET Nat, NEW n \in Nat, \A i \in ids : i <= n
    PROVE  /\ Highest(ids) \in 0 .. n
           /\ \A i \in ids : i <= Highest(ids)
<1>1. CASE ids = {}
    BY <1>1 DEF Highest
<1>2. CASE ids # {}
    <2>1. Max(ids) \in ids /\ \A i \in ids : i <= Max(ids)
        BY <1>2, Greatest
    <2>2. Highest(ids) = Max(ids)
        BY <1>2 DEF Highest
    <2>3. Highest(ids) \in ids /\ \A i \in ids : i <= Highest(ids)
        BY <2>1, <2>2
    <2>4. ASSUME NEW m \in ids PROVE m \in 0 .. n
        <3>1. m \in Nat /\ m <= n /\ n \in Nat
            OBVIOUS
        <3>2. QED
            BY <3>1
    <2>5. QED
        BY <2>3, <2>4
<1>3. QED
    BY <1>1, <1>2

LEMMA HighestOf ==
    ASSUME Stored, NEW t \in Thing
    PROVE  /\ Highest(facts[t]) \in Nat /\ \A i \in facts[t] : i <= Highest(facts[t])
           /\ facts[t] \subseteq Nat
<1>1. facts[t] \in SUBSET Nat
    BY DEF Stored
<1>2. PICK n \in Nat : \A i \in facts[t] : i <= n
    BY DEF Stored
<1>3. QED
    BY <1>1, <1>2, HighestIs

\* What a claim is served under is its own thing's or an id the merge gave.
Listed ==
    \A i \in 1 .. Len(events) : \A id \in DOMAIN events[i].ids :
        id <= Highest(facts[events[i].folded])

\* A claim's walk has come to rest, at an id no later one is given.
Ends ==
    \A c \in Claims :
        /\ ClaimStep(ClaimEnd(c)) = ClaimEnd(c)
        /\ ClaimEnd(c).id <= Highest(facts[ClaimEnd(c).home])

Inv == Tables /\ Listed /\ Ends /\ OneClaimPerAddress

LEMMA ServedFinite ==
    ASSUME Stored, Ends, NEW t \in Thing
    PROVE  /\ ServedIds(t) \subseteq Nat /\ IsFiniteSet(ServedIds(t))
           /\ Cardinality(ServedIds(t)) \in Nat
           /\ \A i \in ServedIds(t) : i <= Highest(facts[t])
<1>1. CASE Folded(t)
    <2>1. ServedIds(t) = {}
        BY <1>1 DEF ServedIds
    <2>2. QED
        BY <2>1, FS_EmptySet
<1>2. CASE ~Folded(t)
    <2>1. ServedIds(t) \subseteq Nat /\ \A i \in ServedIds(t) : i <= Highest(facts[t])
        BY <1>2, ServedAre, ClaimsTyped DEF Ends
    <2>2. Highest(facts[t]) \in Nat
        BY HighestOf
    <2>3. IsFiniteSet(ServedIds(t))
        BY <2>1, <2>2, FS_BoundedSetOfNaturals
    <2>4. QED
        BY <2>1, <2>3, FS_CardinalityType
<1>3. QED
    BY <1>1, <1>2

\* Counting the ids up to each gives ids in their order, and none twice.
LEMMA Counting ==
    ASSUME NEW ids \in SUBSET Nat, IsFiniteSet(ids)
    PROVE  /\ \A i \in ids : Cardinality({j \in ids : j <= i}) \in 1 .. Cardinality(ids)
           /\ \A i, k \in ids : i < k =>
                Cardinality({j \in ids : j <= i}) < Cardinality({j \in ids : j <= k})
<1> DEFINE upTo(i) == {j \in ids : j <= i}
<1>1. Cardinality(ids) \in Nat
    BY FS_CardinalityType
<1>2. \A i \in ids : upTo(i) \in SUBSET ids /\ i \in upTo(i)
    OBVIOUS
<1>3. ASSUME NEW i \in ids, NEW k \in ids, i < k
      PROVE  upTo(i) \in SUBSET upTo(k) /\ k \notin upTo(i)
    <2>1. \A j \in ids : j <= i => j <= k
        BY <1>3
    <2>2. ~ (k <= i)
        BY <1>3
    <2>3. QED
        BY <2>1, <2>2
<1> HIDE DEF upTo
<1>4. \A i \in ids : IsFiniteSet(upTo(i)) /\ Cardinality(upTo(i)) \in Nat
                     /\ Cardinality(upTo(i)) <= Cardinality(ids)
    BY <1>2, FS_Subset, FS_CardinalityType
<1>5. \A i \in ids : Cardinality(upTo(i)) # 0
    BY <1>2, <1>4, FS_EmptySet
<1>6. \A i, k \in ids : i < k => Cardinality(upTo(i)) < Cardinality(upTo(k))
    <2> SUFFICES ASSUME NEW i \in ids, NEW k \in ids, i < k
                 PROVE  Cardinality(upTo(i)) < Cardinality(upTo(k))
        OBVIOUS
    <2>1. upTo(i) \in SUBSET upTo(k) /\ upTo(i) # upTo(k)
        BY <1>2, <1>3
    <2>2. Cardinality(upTo(i)) <= Cardinality(upTo(k)) /\ Cardinality(upTo(i)) # Cardinality(upTo(k))
        BY <1>4, <2>1, FS_Subset
    <2>3. QED
        BY <1>4, <2>2
<1>7. QED
    BY <1>1, <1>4, <1>5, <1>6 DEF upTo

\* The ids a merge gives are free on the survivor, each another, and the
\* account takes one after them.
LEMMA GivenIsFree ==
    ASSUME Stored, Ends, NEW f \in Thing, NEW s \in Thing
    PROVE  /\ GivenIds(f, s) \in [ServedIds(f) -> Nat]
           /\ AccountId(f, s) \in Nat /\ AccountId(f, s) > Highest(facts[s])
           /\ \A i \in ServedIds(f) : /\ GivenIds(f, s)[i] > Highest(facts[s])
                                      /\ GivenIds(f, s)[i] < AccountId(f, s)
           /\ \A i, k \in ServedIds(f) : GivenIds(f, s)[i] = GivenIds(f, s)[k] => i = k
<1> DEFINE moving == ServedIds(f)
           top    == Highest(facts[s])
           count(i) == Cardinality({j \in moving : j <= i})
<1>1. moving \in SUBSET Nat /\ IsFiniteSet(moving) /\ Cardinality(moving) \in Nat /\ top \in Nat
    BY ServedFinite, HighestOf
<1>2. GivenIds(f, s) = [i \in moving |-> top + count(i)]
    BY DEF GivenIds
<1>3. AccountId(f, s) = top + Cardinality(moving) + 1
    BY DEF AccountId
<1> HIDE DEF moving, top
<1>4. /\ \A i \in moving : count(i) \in 1 .. Cardinality(moving)
      /\ \A i, k \in moving : i < k => count(i) < count(k)
    BY <1>1, Counting
<1> HIDE DEF count
<1>5. \A i, k \in moving : i < k \/ k < i \/ i = k
    BY <1>1
<1>6. \A i, k \in moving : top + count(i) = top + count(k) => i = k
    BY <1>1, <1>4, <1>5
<1>7. QED
    BY <1>1, <1>2, <1>3, <1>4, <1>6 DEF moving, top

-----------------------------------------------------------------------------
(* What a merge does to the walks.                                         *)

LEMMA EventAdded ==
    ASSUME Inv, NEW f \in Thing, NEW s \in Thing, Merge(f, s)
    PROVE  /\ f # s /\ ~Folded(f) /\ ~Folded(s) /\ f \in Made /\ s \in Made
           /\ events' \in Seq(Event)
           /\ Len(events') = Len(events) + 1 /\ Len(events) \in Nat
           /\ \A i \in 1 .. Len(events) : events'[i] = events[i]
           /\ events'[Len(events) + 1] = [folded |-> f, survivor |-> s, ids |-> GivenIds(f, s)]
<1>1. f # s /\ ~Folded(f) /\ ~Folded(s) /\ f \in Made /\ s \in Made
    BY DEF Merge, MergeSides, Inv, Tables, FoldedMerged
<1> DEFINE e == [folded |-> f, survivor |-> s, ids |-> GivenIds(f, s)]
<1>2. e \in Event
    <2>1. GivenIds(f, s) \in [ServedIds(f) -> Nat] /\ ServedIds(f) \subseteq Nat
        BY GivenIsFree, ServedFinite DEF Inv, Tables
    <2>2. GivenIds(f, s) \in IdMaps
        BY <2>1 DEF IdMaps
    <2>3. QED
        BY <2>2 DEF Event
<1>3. events' = Append(events, e) /\ events \in Seq(Event)
    BY DEF Merge, Inv, Tables, Stored
<1> HIDE DEF e
<1>4. /\ events' \in Seq(Event) /\ Len(events') = Len(events) + 1 /\ Len(events) \in Nat
      /\ \A i \in 1 .. Len(events) : events'[i] = events[i]
      /\ events'[Len(events) + 1] = e
    BY <1>2, <1>3, AppendProperties, LenProperties
<1>5. QED
    BY <1>1, <1>4 DEF e

\* Where an address goes in one step once f is merged into s.
Onward(f, s, a) ==
    IF a.home # f THEN ClaimStep(a)
    ELSE IF a.id \in ServedIds(f) THEN [home |-> s, id |-> GivenIds(f, s)[a.id]] ELSE a

LEMMA RestsUnfolded ==
    ASSUME NEW a, ~Folded(a.home)
    PROVE  ClaimStep(a) = a
BY DEF ClaimStep, Folded

LEMMA MergeSteps ==
    ASSUME Inv, NEW f \in Thing, NEW s \in Thing, Merge(f, s), NEW a \in Address
    PROVE  ClaimStep(a)' = Onward(f, s, a)
<1> DEFINE L == Len(events)
           lists == {i \in FoldsOf(a.home) : a.id \in DOMAIN events[i].ids}
           lists2 == {i \in FoldsOf(a.home)' : a.id \in DOMAIN events'[i].ids}
<1>1. /\ f # s /\ ~Folded(f) /\ L \in Nat /\ Len(events') = L + 1
      /\ \A i \in 1 .. L : events'[i] = events[i]
      /\ events'[L + 1] = [folded |-> f, survivor |-> s, ids |-> GivenIds(f, s)]
      /\ events \in Seq(Event) /\ events' \in Seq(Event)
    BY EventAdded DEF Inv, Tables, Stored
<1>2. DOMAIN events = 1 .. L /\ DOMAIN events' = 1 .. (L + 1)
    BY <1>1, LenProperties
<1> HIDE DEF L
<1>3. \A i \in 1 .. (L + 1) : i \in 1 .. L \/ i = L + 1
    BY <1>1
<1>4. ClaimStep(a)' = IF lists2 = {} THEN a
                      ELSE [home |-> events'[Max(lists2)].survivor,
                            id |-> events'[Max(lists2)].ids[a.id]]
    BY DEF ClaimStep
<1>5. ClaimStep(a) = IF lists = {} THEN a
                     ELSE [home |-> events[Max(lists)].survivor,
                           id |-> events[Max(lists)].ids[a.id]]
    BY DEF ClaimStep
<1>6. CASE a.home # f
    <2>1. lists2 = lists
        BY <1>1, <1>2, <1>3, <1>6 DEF FoldsOf
    <2>2. ASSUME lists # {} PROVE events'[Max(lists)] = events[Max(lists)]
        <3>1. lists \in SUBSET DOMAIN events
            BY DEF FoldsOf
        <3> HIDE DEF lists
        <3>2. Max(lists) \in DOMAIN events
            BY <1>1, <2>2, <3>1, Positions
        <3>3. QED
            BY <1>1, <1>2, <3>2
    <2> HIDE DEF lists, lists2
    <2>3. QED
        BY <1>4, <1>5, <1>6, <2>1, <2>2 DEF Onward
<1>7. CASE a.home = f
    <2>1. FoldsOf(f)' = {L + 1}
        <3>1. \A i \in 1 .. L : events[i].folded # f
            BY <1>1, <1>2 DEF Folded, FoldsOf
        <3>2. L + 1 \in 1 .. (L + 1)
            BY <1>1
        <3>3. QED
            BY <1>1, <1>2, <1>3, <3>1, <3>2 DEF FoldsOf
    <2>2. DOMAIN events'[L + 1].ids = ServedIds(f)
        BY <1>1, GivenIsFree DEF Inv, Tables
    <2>3. CASE a.id \in ServedIds(f)
        <3>1. lists2 = {L + 1}
            BY <1>7, <2>1, <2>2, <2>3
        <3>2. Max({L + 1}) = L + 1
            <4>1. \A x \in {L + 1} : x = L + 1
                OBVIOUS
            <4>2. L + 1 \in {L + 1} /\ \A y \in {L + 1} : L + 1 >= y
                BY <1>1
            <4>3. QED
                BY <4>1, <4>2 DEF Max
        <3> HIDE DEF lists2
        <3>3. QED
            BY <1>1, <1>4, <1>7, <2>3, <3>1, <3>2 DEF Onward
    <2>4. CASE a.id \notin ServedIds(f)
        <3>1. lists2 = {}
            BY <1>7, <2>1, <2>2, <2>4
        <3>2. QED
            BY <1>4, <1>7, <2>4, <3>1 DEF Onward
    <2>5. QED
        BY <2>3, <2>4
<1>8. QED
    BY <1>6, <1>7

\* The walk of an address, as an implication so that it can be primed.
LEMMA ClaimWalksAll ==
    events \in Seq(Event) =>
        \A a \in Address : \E w : IsWalk(w, a) /\ ClaimEnd(a) = w[Len(events)]
BY ClaimWalks

LEMMA ClaimWalksNext ==
    (events \in Seq(Event) =>
        \A a \in Address : \E w : IsWalk(w, a) /\ ClaimEnd(a) = w[Len(events)])'
BY ClaimWalksAll, PTL

\* A walk ends where it ended before, or one step on.
LEMMA MergeEnds ==
    ASSUME Inv, NEW f \in Thing, NEW s \in Thing, Merge(f, s), NEW a \in Address
    PROVE  ClaimEnd(a)' = Onward(f, s, ClaimEnd(a))
<1> DEFINE L == Len(events)
           on(x) == Onward(f, s, x)
<1>1. /\ f # s /\ ~Folded(f) /\ ~Folded(s) /\ L \in Nat /\ Len(events') = L + 1
      /\ events \in Seq(Event) /\ events' \in Seq(Event)
    BY EventAdded DEF Inv, Tables, Stored
<1>2. PICK w : IsWalk(w, a) /\ ClaimEnd(a) = w[L]
    BY <1>1, ClaimWalks
<1>3. \E w2 : IsWalk(w2, a)' /\ ClaimEnd(a)' = w2[Len(events)']
    BY <1>1, ClaimWalksNext
<1>4. PICK v : IsWalk(v, a)' /\ ClaimEnd(a)' = v[L + 1]
    BY <1>1, <1>3
<1> HIDE DEF L
<1>5. /\ w \in [0 .. L -> Address] /\ w[0] = a
      /\ \A k \in 1 .. L : w[k] = ClaimStep(w[k - 1])
    BY <1>2 DEF IsWalk, L
<1>6. /\ v \in [0 .. L + 1 -> Address] /\ v[0] = a
      /\ \A k \in 1 .. L + 1 : v[k] = on(v[k - 1])
    <2>1. /\ v \in [0 .. L + 1 -> Address] /\ v[0] = a
          /\ \A k \in 1 .. L + 1 : v[k] = ClaimStep(v[k - 1])'
        BY <1>1, <1>4 DEF IsWalk
    <2>2. \A k \in 1 .. L + 1 : v[k - 1] \in Address
        BY <1>1, <2>1
    <2>3. QED
        BY <2>1, <2>2, MergeSteps
\* An address of f goes on once and then stays.
<1>7. \A x \in Address : x.home = f => on(on(x)) = on(x) /\ ClaimStep(x) = x
    BY <1>1, RestsUnfolded DEF Onward
<1>8. \A x \in Address : x.home # f => on(x) = ClaimStep(x)
    BY DEF Onward
<1> HIDE DEF on
<1> DEFINE Same(n) == v[n] = w[n] \/ (w[n].home = f /\ v[n] = on(w[n]))
           S == {n \in Nat : n <= L => Same(n)}
<1>9. Nat \subseteq S
    <2>1. 0 \in S
        BY <1>5, <1>6
    <2>2. ASSUME NEW n \in Nat, n \in S PROVE n + 1 \in S
        <3>1. CASE n + 1 <= L
            <4>1. /\ Same(n) /\ n \in 0 .. L /\ n + 1 \in 1 .. L /\ n + 1 \in 1 .. L + 1
                  /\ (n + 1) - 1 = n
                BY <1>1, <2>2, <3>1
            <4>2. w[n] \in Address /\ w[n + 1] = ClaimStep(w[n]) /\ v[n + 1] = on(v[n])
                BY <1>5, <1>6, <4>1
            <4>3. CASE w[n].home # f
                BY <1>8, <4>1, <4>2, <4>3
            <4>4. CASE w[n].home = f
                BY <1>7, <4>1, <4>2, <4>4
            <4>5. QED
                BY <4>3, <4>4
        <3>2. QED
            BY <3>1
    <2> HIDE DEF S
    <2>3. QED
        BY <2>1, <2>2, Induction
<1>10. Same(L) /\ w[L] \in Address /\ v[L + 1] = on(v[L])
    <2>1. L \in 0 .. L /\ L + 1 \in 1 .. L + 1 /\ (L + 1) - 1 = L
        BY <1>1
    <2>2. QED
        BY <1>1, <1>5, <1>6, <1>9, <2>1
<1>11. v[L + 1] = on(w[L])
    BY <1>7, <1>10
<1>12. QED
    BY <1>2, <1>4, <1>11 DEF on

-----------------------------------------------------------------------------
(* Addresses at rest.                                                      *)

\* A walk from where no event leads on ends where it starts.
LEMMA RestEnds ==
    ASSUME events \in Seq(Event), NEW a \in Address, ClaimStep(a) = a
    PROVE  ClaimEnd(a) = a
<1> DEFINE L == Len(events)
<1>1. PICK w : IsWalk(w, a) /\ ClaimEnd(a) = w[L]
    BY ClaimWalks
<1>2. L \in Nat
    BY LenProperties
<1>3. w[0] = a /\ \A k \in 1 .. L : w[k] = ClaimStep(w[k - 1])
    BY <1>1 DEF IsWalk
<1> HIDE DEF L
<1> DEFINE S == {n \in Nat : n <= L => w[n] = a}
<1>4. Nat \subseteq S
    <2>1. 0 \in S
        BY <1>3
    <2>2. ASSUME NEW n \in Nat, n \in S PROVE n + 1 \in S
        <3>1. CASE n + 1 <= L
            <4>1. w[n] = a /\ n + 1 \in 1 .. L /\ (n + 1) - 1 = n
                BY <1>2, <2>2, <3>1
            <4>2. w[n + 1] = ClaimStep(w[n])
                BY <1>3, <4>1
            <4>3. QED
                BY <4>1, <4>2
        <3>2. QED
            BY <3>1
    <2> HIDE DEF S
    <2>3. QED
        BY <2>1, <2>2, Induction
<1>5. w[L] = a
    BY <1>2, <1>4
<1>6. QED
    BY <1>1, <1>5

LEMMA RestEndsAll ==
    events \in Seq(Event) => \A a \in Address : ClaimStep(a) = a => ClaimEnd(a) = a
BY RestEnds

LEMMA RestEndsNext ==
    (events \in Seq(Event) => \A a \in Address : ClaimStep(a) = a => ClaimEnd(a) = a)'
BY RestEndsAll, PTL

\* Before the repair nothing leads on.
LEMMA OldRests ==
    ASSUME Stored, build = "old"
    PROVE  /\ \A t : ~Folded(t)
           /\ \A a \in Address : ClaimStep(a) = a /\ ClaimEnd(a) = a
<1>1. events = <<>> /\ DOMAIN events = {}
    BY DEF Stored
<1>2. \A t : ~Folded(t)
    BY <1>1 DEF Folded, FoldsOf
<1>3. \A a \in Address : ClaimStep(a) = a
    BY <1>2, RestsUnfolded
<1>4. \A a \in Address : ClaimEnd(a) = a
    BY <1>3, RestEnds DEF Stored
<1>5. QED
    BY <1>2, <1>3, <1>4

\* Where claims end is a matter of the events alone.
LEMMA EndsByEvents ==
    ASSUME UNCHANGED events
    PROVE  /\ \A a : ClaimStep(a)' = ClaimStep(a) /\ ClaimEnd(a)' = ClaimEnd(a)
           /\ \A t : Folded(t)' = Folded(t)
BY DEF ClaimStep, ClaimEnd, FoldsOf, Folded

\* More ids, no lower highest.
LEMMA HighestGrows ==
    ASSUME NEW T \in SUBSET Nat, NEW n \in Nat, \A i \in T : i <= n, NEW S \in SUBSET T
    PROVE  Highest(S) <= Highest(T) /\ Highest(S) \in Nat /\ Highest(T) \in Nat
<1>1. Highest(T) \in 0 .. n /\ \A i \in T : i <= Highest(T)
    BY HighestIs
<1>2. S \in SUBSET Nat /\ Highest(T) \in Nat /\ \A i \in S : i <= Highest(T)
    BY <1>1
<1>3. Highest(S) \in 0 .. Highest(T)
    BY <1>2, HighestIs
<1>4. QED
    BY <1>2, <1>3

-----------------------------------------------------------------------------
(* The tables, step by step.                                               *)

\* A claim filed under a badge.
LEMMA FactAdded ==
    ASSUME Stored, NEW t \in Thing, NEW i \in Nat, facts' = [facts EXCEPT ![t] = @ \cup {i}]
    PROVE  /\ facts' \in [Thing -> SUBSET Nat]
           /\ \A u \in Thing : \E n \in Nat : \A k \in facts'[u] : k <= n
           /\ facts'[t] = facts[t] \cup {i} /\ \A u \in Thing \ {t} : facts'[u] = facts[u]
           /\ \A u \in Thing : Highest(facts[u]) <= Highest(facts'[u])
           /\ \A u \in Thing : Highest(facts'[u]) \in Nat /\ \A k \in facts'[u] : k <= Highest(facts'[u])
<1>1. /\ facts' \in [Thing -> SUBSET Nat]
      /\ facts'[t] = facts[t] \cup {i} /\ \A u \in Thing \ {t} : facts'[u] = facts[u]
    BY DEF Stored
<1>2. \A u \in Thing : \E n \in Nat : \A k \in facts'[u] : k <= n
    <2> SUFFICES ASSUME NEW u \in Thing PROVE \E n \in Nat : \A k \in facts'[u] : k <= n
        OBVIOUS
    <2>1. PICK n \in Nat : \A k \in facts[u] : k <= n
        BY DEF Stored
    <2>2. facts[u] \subseteq Nat
        BY DEF Stored
    <2>3. \A k \in facts'[u] : k <= n + i
        BY <1>1, <2>1, <2>2
    <2>4. QED
        BY <2>3
<1>3. ASSUME NEW u \in Thing
      PROVE  /\ Highest(facts[u]) <= Highest(facts'[u]) /\ Highest(facts'[u]) \in Nat
             /\ \A k \in facts'[u] : k <= Highest(facts'[u])
    <2>1. PICK n \in Nat : \A k \in facts'[u] : k <= n
        BY <1>2
    <2>2. facts'[u] \in SUBSET Nat /\ facts[u] \in SUBSET facts'[u]
        BY <1>1
    <2>3. QED
        BY <2>1, <2>2, HighestGrows, HighestIs
<1>4. QED
    BY <1>1, <1>2, <1>3

LEMMA MergeKeepsTables ==
    ASSUME Inv, NEW f \in Thing, NEW s \in Thing, Merge(f, s)
    PROVE  Tables'
<1>1. /\ Tables /\ build = "new" /\ f \in Made /\ s \in Made /\ f # s
      /\ into' = [into EXCEPT ![f] = wears[s]] /\ UNCHANGED <<build, wears, former>>
      /\ facts' = [facts EXCEPT ![s] = @ \cup {AccountId(f, s)}]
    BY DEF Inv, Merge, MergeSides, Forwards
<1>2. PICK h \in wears[f] : Writes(f, h)
    BY DEF Merge, Forwards
<1>3. /\ events' \in Seq(Event)
      /\ Len(events') = Len(events) + 1 /\ Len(events) \in Nat
      /\ \A i \in 1 .. Len(events) : events'[i] = events[i]
      /\ events'[Len(events) + 1].survivor = s /\ events'[Len(events) + 1].folded = f
    <2>1. events'[Len(events) + 1] = [folded |-> f, survivor |-> s, ids |-> GivenIds(f, s)]
        BY EventAdded
    <2>2. QED
        BY <2>1, EventAdded
<1>4. \A i \in 1 .. Len(events') : i \in 1 .. Len(events) \/ i = Len(events) + 1
    BY <1>3
<1>5. \A i \in 1 .. Len(events') : events'[i].survivor \in Made
    BY <1>1, <1>3, <1>4 DEF Tables, OfMade
<1>6. wears[s] \in SUBSET Handle /\ AtMostOne(wears[s]) /\ wears[s] # {}
    BY <1>1 DEF Tables, Named, Made
<1>7. Named' /\ OfMade'
    BY <1>1, <1>2, <1>5, <1>6, ForwardingKeepsNames
<1>8. Stored'
    <2>1. AccountId(f, s) \in Nat
        BY GivenIsFree DEF Inv, Tables
    <2>2. Stored
        BY <1>1 DEF Tables
    <2>3. /\ facts' \in [Thing -> SUBSET Nat]
          /\ \A u \in Thing : \E n \in Nat : \A k \in facts'[u] : k <= n
        BY <1>1, <2>1, <2>2, FactAdded
    <2>4. QED
        BY <1>1, <1>3, <2>3 DEF Stored
<1>9. FoldedMerged'
    <2>1. \A u \in Thing : Folded(u)' => Folded(u) \/ u = f
        BY <1>3, <1>4, LenProperties DEF Folded, FoldsOf, Tables, Stored
    <2>2. \A u \in Thing : Merged(u) \/ u = f => Merged(u)'
        BY <1>1, <1>6 DEF Merged, Tables, Named
    <2>3. QED
        BY <1>1, <2>1, <2>2 DEF FoldedMerged, Tables
<1>10. QED
    BY <1>7, <1>8, <1>9 DEF Tables

LEMMA MergeOldKeepsTables ==
    ASSUME Inv, NEW f \in Thing, NEW s \in Thing, MergeOld(f, s)
    PROVE  Tables'
<1>1. /\ Tables /\ build = "old" /\ f \in Made /\ s \in Made /\ f # s
      /\ into' = [into EXCEPT ![f] = wears[s]] /\ UNCHANGED <<build, wears, former, events>>
      /\ facts' = [facts EXCEPT ![f] = {},
                                ![s] = @ \cup Range(GivenIds(f, s)) \cup {AccountId(f, s)}]
    BY DEF Inv, MergeOld, MergeSides, Forwards
<1>2. PICK h \in wears[f] : Writes(f, h)
    BY DEF MergeOld, Forwards
<1>3. wears[s] \in SUBSET Handle /\ AtMostOne(wears[s]) /\ wears[s] # {}
    BY <1>1 DEF Tables, Named, Made
<1>4. Named' /\ OfMade'
    <2>1. \A i \in 1 .. Len(events') : events'[i].survivor \in Made
        BY <1>1 DEF Tables, OfMade
    <2>2. QED
        BY <1>1, <1>2, <1>3, <2>1, ForwardingKeepsNames
<1>5. Stored'
    <2> DEFINE moved == Range(GivenIds(f, s)) \cup {AccountId(f, s)}
    <2>1. /\ GivenIds(f, s) \in [ServedIds(f) -> Nat] /\ AccountId(f, s) \in Nat
          /\ \A i \in ServedIds(f) : GivenIds(f, s)[i] < AccountId(f, s)
          /\ AccountId(f, s) > Highest(facts[s]) /\ Highest(facts[s]) \in Nat
          /\ \A i \in facts[s] : i <= Highest(facts[s])
        BY GivenIsFree, HighestOf DEF Inv, Tables
    <2>2. moved \in SUBSET Nat /\ \A i \in moved : i <= AccountId(f, s)
        BY <2>1 DEF Range
    <2> HIDE DEF moved
    <2>3. facts \in [Thing -> SUBSET Nat]
        BY <1>1 DEF Tables, Stored
    <2>4. /\ facts'[s] = facts[s] \cup moved /\ facts'[f] = {}
          /\ \A u \in Thing \ {f, s} : facts'[u] = facts[u]
          /\ facts' \in [Thing -> SUBSET Nat]
        <3>1. facts' = [facts EXCEPT ![f] = {}, ![s] = @ \cup moved]
            BY <1>1 DEF moved
        <3>2. QED
            BY <1>1, <2>2, <2>3, <3>1
    <2>5. \A i \in facts'[s] : i <= AccountId(f, s)
        BY <2>1, <2>2, <2>3, <2>4
    <2>6. \A u \in Thing : \E n \in Nat : \A k \in facts'[u] : k <= n
        BY <1>1, <2>1, <2>4, <2>5 DEF Tables, Stored
    <2>7. QED
        BY <1>1, <2>4, <2>6 DEF Tables, Stored
<1>6. FoldedMerged'
    <2>1. \A u \in Thing : ~Folded(u)'
        BY <1>1, OldRests, EndsByEvents DEF Tables
    <2>2. QED
        BY <2>1 DEF FoldedMerged
<1>7. QED
    BY <1>4, <1>5, <1>6 DEF Tables

\* What an edit of a folded row leaves it forwarding to.
LEMMA EditForwards ==
    ASSUME Tables, NEW t \in Thing, Edit(t)
    PROVE  \E to \in SUBSET Handle :
              /\ AtMostOne(to) /\ to # {} /\ into' = [into EXCEPT ![t] = to]
              /\ to = into[t] \/ \E s \in SurvivorOf(t) : to = wears[s]
<1> DEFINE met == UNION {wears[s] : s \in SurvivorOf(t)}
           to  == IF SurvivorOf(t) # {} THEN met ELSE into[t]
<1>1. Merged(t) /\ into' = [into EXCEPT ![t] = to]
    BY DEF Edit, Tables, Named
<1>2. SurvivorOf(t) \subseteq Made /\ AtMostOne(SurvivorOf(t))
    BY SurvivorIsOne
<1>3. CASE SurvivorOf(t) = {}
    <2>1. into[t] \in SUBSET Handle /\ AtMostOne(into[t]) /\ into[t] # {} /\ to = into[t]
        BY <1>1, <1>3 DEF Tables, Named, Merged
    <2>2. QED
        BY <1>1, <2>1
<1>4. ASSUME NEW s \in SurvivorOf(t)
      PROVE  to \in SUBSET Handle /\ AtMostOne(to) /\ to # {} /\ to = wears[s]
    <2>1. s \in Thing /\ wears[s] # {} /\ AtMostOne(wears[s]) /\ wears[s] \in SUBSET Handle
        BY <1>2 DEF Made, Tables, Named
    <2>2. SurvivorOf(t) = {s}
        BY <1>2 DEF AtMostOne
    <2>3. met = wears[s]
        BY <2>2
    <2> HIDE DEF met
    <2>4. QED
        BY <2>1, <2>3
<1> HIDE DEF to
<1>5. QED
    BY <1>1, <1>3, <1>4

LEMMA EditKeepsTables ==
    ASSUME Tables, NEW t \in Thing, Edit(t)
    PROVE  Tables'
<1>1. Merged(t) /\ UNCHANGED <<build, wears, former, events, facts>>
    BY DEF Edit
<1>2. PICK h \in wears[t] : Writes(t, h)
    BY DEF Edit
<1>3. PICK to \in SUBSET Handle : AtMostOne(to) /\ to # {} /\ into' = [into EXCEPT ![t] = to]
    BY EditForwards
<1>4. t \in Made
    BY <1>1 DEF Tables, OfMade
<1>5. \A i \in 1 .. Len(events') : events'[i].survivor \in Made
    BY <1>1 DEF Tables, OfMade
<1>6. Named' /\ OfMade'
    BY <1>1, <1>2, <1>3, <1>4, <1>5, ForwardingKeepsNames
<1>7. Stored'
    BY <1>1 DEF Tables, Stored
<1>8. FoldedMerged'
    <2>1. \A u \in Thing : Merged(u) => Merged(u)'
        BY <1>1, <1>3 DEF Merged, Tables, Named
    <2>2. QED
        BY <1>1, <2>1, EndsByEvents DEF FoldedMerged, Tables
<1>9. QED
    BY <1>6, <1>7, <1>8 DEF Tables

LEMMA SetProseKeepsTables ==
    ASSUME Tables, NEW t \in Thing, SetProse(t)
    PROVE  Tables'
<1>1. /\ Merged(t) /\ UNCHANGED <<build, wears, into, former, events, facts>>
    BY DEF SetProse
<1>2. PICK h \in wears[t] : Writes(t, h)
    BY DEF SetProse
<1>3. t \in Made /\ into[t] \in SUBSET Handle /\ AtMostOne(into[t])
    BY <1>1 DEF Tables, OfMade, Named
<1>4. into' = [into EXCEPT ![t] = into[t]]
    BY <1>1 DEF Tables, Named
<1>5. \A i \in 1 .. Len(events') : events'[i].survivor \in Made
    BY <1>1 DEF Tables, OfMade
<1>6. Named' /\ OfMade'
    BY <1>1, <1>2, <1>3, <1>4, <1>5, ForwardingKeepsNames
<1>7. Stored' /\ FoldedMerged'
    BY <1>1, EndsByEvents DEF Tables, Stored, FoldedMerged, Merged
<1>8. QED
    BY <1>6, <1>7 DEF Tables

\* A handle names a thing.
LEMMA ResolvesToThings ==
    ASSUME Named
    PROVE  \A h : Resolve(h) \in SUBSET Thing
<1> SUFFICES ASSUME NEW h PROVE Resolve(h) \in SUBSET Thing
    OBVIOUS
<1> DEFINE left == {i \in DOMAIN former : former[i].handle = h}
<1>1. LastToLeave(h) = IF left = {} THEN {} ELSE {former[Max(left)].badge}
    BY DEF LastToLeave
<1>2. ASSUME left # {} PROVE former[Max(left)].badge \in Thing
    <2>1. left \in SUBSET DOMAIN former /\ former \in Seq(Entry)
        BY DEF Named
    <2>2. Max(left) \in 1 .. Len(former)
        <3> HIDE DEF left
        <3>1. QED
            BY <1>2, <2>1, Positions
    <2> HIDE DEF left
    <2>3. former[Max(left)] \in Entry
        BY <2>1, <2>2, ElementOfSeq
    <2>4. QED
        BY <2>3 DEF Entry
<1> HIDE DEF left
<1>3. QED
    BY <1>1, <1>2 DEF Resolve

LEMMA CaptureKeepsTables ==
    ASSUME Tables, NEW t \in Thing, facts' = [facts EXCEPT ![t] = @ \cup {Mint(t)}],
           UNCHANGED <<build, wears, into, former, writes, events>>
    PROVE  Tables'
<1>1. Stored /\ Mint(t) \in Nat
    BY HighestOf DEF Tables, Mint
<1>2. /\ facts' \in [Thing -> SUBSET Nat]
      /\ \A u \in Thing : \E n \in Nat : \A k \in facts'[u] : k <= n
    BY <1>1, FactAdded
<1>3. Stored'
    BY <1>1, <1>2 DEF Stored
<1>4. Made' = Made /\ \A u \in Thing : Merged(u)' = Merged(u)
    BY DEF Made, Merged
<1>5. Named' /\ OfMade' /\ FoldedMerged'
    BY <1>4, EndsByEvents DEF Tables, Named, OfMade, FoldedMerged
<1>6. QED
    BY <1>3, <1>5 DEF Tables

\* The events of the repair list no ids.
LEMMA Repaired ==
    ASSUME Tables, Boot
    PROVE  /\ events' \in Seq(Event)
           /\ \A i \in 1 .. Len(events') : events'[i].survivor \in Made
           /\ \A i \in 1 .. Len(events') : Merged(events'[i].folded)
           /\ \A i \in 1 .. Len(events') : DOMAIN events'[i].ids = {}
           /\ \A i \in 1 .. Len(events') :
                 \E h \in into[events'[i].folded] : h \in wears[events'[i].survivor]
<1>1. PICK order \in SetToSeqs(OldMerges) : events' = [i \in DOMAIN order |->
            [folded |-> order[i], survivor |-> RepairedSurvivor(order[i]), ids |-> <<>>]]
    BY DEF Boot
<1> DEFINE n == Cardinality(OldMerges)
<1>2. n \in Nat
    <2>1. OldMerges \in SUBSET Thing
        BY DEF OldMerges
    <2>2. QED
        BY <2>1, ThingsAssumption, FS_Subset, FS_CardinalityType
<1>3. order \in [1 .. n -> OldMerges]
    BY DEF SetToSeqs
<1> HIDE DEF n
<1>4. ASSUME NEW t \in OldMerges
      PROVE  RepairedSurvivor(t) \in Made /\ \E h \in into[t] : h \in wears[RepairedSurvivor(t)]
    <2>1. t \in Thing /\ into[t] # {} /\ into[t] \subseteq Worn /\ AtMostOne(into[t])
        BY DEF OldMerges, Merged, Tables, Named
    <2>2. PICK h \in into[t] : TRUE
        BY <2>1
    <2>3. PICK s \in Thing : h \in wears[s]
        BY <2>1 DEF Worn
    <2>4. AtMostOne(wears[s])
        BY DEF Tables, Named
    <2>5. into[t] = wears[s]
        BY <2>1, <2>3, <2>4 DEF AtMostOne
    <2>6. RepairedSurvivor(t) \in Thing /\ into[t] = wears[RepairedSurvivor(t)]
        BY <2>5 DEF RepairedSurvivor
    <2>7. QED
        BY <2>1, <2>2, <2>6 DEF Made
<1>5. PICK none : none = <<>>
    OBVIOUS
<1>a. none \in IdMaps /\ DOMAIN none = {}
    <2>1. none \in [{} -> Nat] /\ {} \in SUBSET Nat
        BY <1>5
    <2>2. QED
        BY <2>1 DEF IdMaps
<1>6. ASSUME NEW i \in 1 .. n
      PROVE  /\ events'[i] = [folded |-> order[i], survivor |-> RepairedSurvivor(order[i]), ids |-> none]
             /\ order[i] \in OldMerges
    BY <1>1, <1>3, <1>5
<1>7. ASSUME NEW i \in 1 .. n
      PROVE  /\ events'[i].survivor \in Made /\ Merged(events'[i].folded)
             /\ DOMAIN events'[i].ids = {} /\ events'[i] \in Event
             /\ \E h \in into[events'[i].folded] : h \in wears[events'[i].survivor]
    <2>1. PICK t : t = order[i]
        OBVIOUS
    <2>2. PICK u : u = RepairedSurvivor(t)
        OBVIOUS
    <2>3. events'[i] = [folded |-> t, survivor |-> u, ids |-> none] /\ t \in OldMerges
        BY <1>6, <2>1, <2>2
    <2>4. /\ u \in Made /\ u \in Thing /\ t \in Thing /\ Merged(t)
          /\ \E h \in into[t] : h \in wears[u]
        BY <1>4, <2>2, <2>3 DEF Made, OldMerges
    <2>5. events'[i].folded = t /\ events'[i].survivor = u /\ events'[i].ids = none
        BY <2>3
    <2>6. events'[i] \in Event
        BY <1>a, <2>3, <2>4 DEF Event
    <2>7. QED
        BY <1>a, <2>4, <2>5, <2>6
<1>8. DOMAIN events' = 1 .. n
    BY <1>1, <1>3
<1>9. events' = [i \in 1 .. n |-> events'[i]]
    BY <1>1, <1>3
<1>10. events' \in Seq(Event)
    BY <1>2, <1>7, <1>9, IsASeq
<1>11. Len(events') = n
    BY <1>2, <1>8, <1>10, LenProperties
<1>12. QED
    BY <1>7, <1>10, <1>11

LEMMA BootKeepsTables ==
    ASSUME Tables, Boot
    PROVE  Tables'
<1>1. build' = "new" /\ UNCHANGED <<wears, into, former, writes, facts>>
    BY DEF Boot
<1>2. Made' = Made /\ \A u \in Thing : Merged(u)' = Merged(u)
    BY <1>1 DEF Made, Merged
<1>3. Named' /\ OfMade'
    BY <1>1, <1>2, Repaired DEF Tables, Named, OfMade
<1>4. Stored'
    BY <1>1, Repaired DEF Tables, Stored
<1>5. FoldedMerged'
    <2>1. DOMAIN events' = 1 .. Len(events')
        BY Repaired, LenProperties
    <2>2. \A u \in Thing : Folded(u)' => Merged(u)
        BY <2>1, Repaired DEF Folded, FoldsOf
    <2>3. QED
        BY <1>2, <2>2 DEF FoldedMerged
<1>6. QED
    BY <1>3, <1>4, <1>5 DEF Tables

\* Only the names of a row change.
LEMMA NamesKeepTables ==
    ASSUME Tables, Named', OfMade', UNCHANGED <<build, events, facts>>,
           \A u \in Thing : Merged(u) => Merged(u)'
    PROVE  Tables'
BY EndsByEvents DEF Tables, Stored, FoldedMerged

LEMMA TablesKept ==
    ASSUME Inv, [Next]_vars
    PROVE  Tables'
<1>1. Tables
    BY DEF Inv
<1>2. ASSUME NEW t \in Thing, NEW h \in Handle, Add(t, h)
      PROVE  Tables'
    <2>1. UNCHANGED <<build, into, events, facts>>
        BY <1>2 DEF Add
    <2>2. \A u \in Thing : Merged(u) => Merged(u)'
        BY <2>1 DEF Merged
    <2>3. QED
        BY <1>1, <1>2, <2>1, <2>2, AddKeepsNames, NamesKeepTables
<1>3. ASSUME NEW t \in Thing, NEW h \in Handle, Rename(t, h)
      PROVE  Tables'
    <2>1. /\ UNCHANGED <<build, events, facts>>
          /\ into' = [r \in Thing |-> IF build = "new" /\ r \in Carried(t) THEN {h} ELSE into[r]]
        BY <1>3 DEF Rename
    <2>2. \A u \in Thing : Merged(u) => Merged(u)'
        BY <2>1 DEF Merged
    <2>3. QED
        BY <1>1, <1>3, <2>1, <2>2, RenameKeepsNames, NamesKeepTables
<1>4. ASSUME NEW f \in Thing, NEW s \in Thing, Merge(f, s) \/ MergeOld(f, s)
      PROVE  Tables'
    BY <1>4, MergeKeepsTables, MergeOldKeepsTables
<1>5. ASSUME NEW t \in Thing, Edit(t) \/ SetProse(t)
      PROVE  Tables'
    BY <1>1, <1>5, EditKeepsTables, SetProseKeepsTables
<1>6. ASSUME NEW h \in Handle, Capture(h)
      PROVE  Tables'
    <2>1. PICK t \in Resolve(h) : /\ facts' = [facts EXCEPT ![t] = @ \cup {Mint(t)}]
                                  /\ UNCHANGED <<build, wears, into, former, writes, events>>
        BY <1>6 DEF Capture
    <2>2. t \in Thing
        BY <1>1, ResolvesToThings DEF Tables
    <2>3. QED
        BY <1>1, <2>1, <2>2, CaptureKeepsTables
<1>7. CASE Boot
    BY <1>1, <1>7, BootKeepsTables
<1>8. CASE UNCHANGED vars
    <2>1. Named' /\ OfMade'
        BY <1>1, <1>8 DEF Tables, Named, OfMade, Made, Merged, vars
    <2>2. QED
        BY <1>1, <1>8, <2>1, NamesKeepTables DEF Merged, vars
<1>9. QED
    BY <1>2, <1>3, <1>4, <1>5, <1>6, <1>7, <1>8 DEF Next

-----------------------------------------------------------------------------
(* The walks, step by step.                                                *)

Walks == Listed /\ Ends /\ OneClaimPerAddress

\* Neither the events nor the claims change.
LEMMA WalksStand ==
    ASSUME Inv, UNCHANGED <<events, facts>>
    PROVE  Walks'
<1>1. Claims' = Claims
    BY DEF Claims
<1>2. Listed'
    BY DEF Inv, Listed
<1>3. Ends'
    BY <1>1, EndsByEvents DEF Inv, Ends
<1>4. OneClaimPerAddress'
    BY <1>1, EndsByEvents DEF Inv, OneClaimPerAddress
<1>5. QED
    BY <1>2, <1>3, <1>4 DEF Walks

\* What one more claim under a badge leaves.
LEMMA ClaimAdded ==
    ASSUME Stored, NEW t \in Thing, NEW i \in Nat, facts' = [facts EXCEPT ![t] = @ \cup {i}]
    PROVE  /\ Claims' = Claims \cup {[home |-> t, id |-> i]}
           /\ [home |-> t, id |-> i] \in Address
<1>1. facts'[t] = facts[t] \cup {i} /\ \A u \in Thing \ {t} : facts'[u] = facts[u]
    BY FactAdded
<1>2. \A c : c \in Claims' <=> \E u \in Thing : \E k \in facts'[u] : c = [home |-> u, id |-> k]
    BY DEF Claims
<1>3. \A c : c \in Claims' <=> c \in Claims \/ c = [home |-> t, id |-> i]
    BY <1>1, <1>2, ClaimsAre
<1>4. QED
    BY <1>3 DEF Address

\* A step from the end of a walk.
LEMMA StepAtEnd ==
    ASSUME NEW c, NEW to, ClaimEnd(c)' = to, ClaimStep(to)' = to
    PROVE  (ClaimStep(ClaimEnd(c)) = ClaimEnd(c))'
BY DEF ClaimStep, FoldsOf

LEMMA MergeKeepsWalks ==
    ASSUME Inv, NEW f \in Thing, NEW s \in Thing, Merge(f, s)
    PROVE  Walks'
<1>a. PICK account : account = AccountId(f, s)
    OBVIOUS
<1>b. PICK given : given = GivenIds(f, s)
    OBVIOUS
<1>c. PICK acct : acct = [home |-> s, id |-> account]
    OBVIOUS
<1>1. /\ Stored /\ Listed /\ Ends /\ OneClaimPerAddress
      /\ facts' = [facts EXCEPT ![s] = @ \cup {account}]
    BY <1>a DEF Inv, Tables, Merge
<1>2. /\ f # s /\ ~Folded(f) /\ ~Folded(s)
      /\ events' \in Seq(Event)
      /\ Len(events') = Len(events) + 1 /\ Len(events) \in Nat
      /\ \A i \in 1 .. Len(events) : events'[i] = events[i]
      /\ events'[Len(events) + 1] = [folded |-> f, survivor |-> s, ids |-> given]
    BY <1>b, EventAdded
<1>3. /\ given \in [ServedIds(f) -> Nat]
      /\ account \in Nat /\ account > Highest(facts[s])
      /\ \A i \in ServedIds(f) : given[i] > Highest(facts[s]) /\ given[i] < account
      /\ \A i, k \in ServedIds(f) : given[i] = given[k] => i = k
    BY <1>1, <1>a, <1>b, GivenIsFree
<1>4. /\ Claims' = Claims \cup {acct} /\ acct \in Address
      /\ facts'[s] = facts[s] \cup {account} /\ \A u \in Thing \ {s} : facts'[u] = facts[u]
      /\ \A u \in Thing : Highest(facts[u]) <= Highest(facts'[u]) /\ Highest(facts[u]) \in Nat
      /\ \A u \in Thing : Highest(facts'[u]) \in Nat /\ \A k \in facts'[u] : k <= Highest(facts'[u])
    BY <1>1, <1>3, <1>c, FactAdded, ClaimAdded, HighestOf
<1>5. /\ \A a \in Address : ClaimStep(a)' = Onward(f, s, a)
      /\ \A a \in Address : ClaimEnd(a)' = Onward(f, s, ClaimEnd(a))
    BY MergeSteps, MergeEnds
<1>6. \A c \in Claims : /\ c \in Address /\ ClaimEnd(c) \in Address
                        /\ ClaimEnd(c).home \in Thing /\ ClaimEnd(c).id \in Nat
    BY <1>1, ClaimsTyped
<1>7. \A a \in Address : a.home = s => ClaimStep(a) = a /\ Onward(f, s, a) = a
    BY <1>2, RestsUnfolded DEF Onward
\* The account rests where it is filed.
<1>8. acct.home = s /\ acct.id = account /\ ClaimEnd(acct)' = acct /\ ClaimStep(acct)' = acct
    <2>1. acct.home = s /\ acct.id = account
        BY <1>c
    <2>2. ClaimEnd(acct) = acct
        BY <1>1, <1>4, <1>7, <2>1, RestEnds DEF Stored
    <2>3. QED
        BY <1>4, <1>5, <1>7, <2>1, <2>2
\* A claim the folded thing served goes to its new id.
<1>9. ASSUME NEW c \in Claims, ClaimEnd(c).home = f
      PROVE  /\ ClaimEnd(c).id \in ServedIds(f)
             /\ ClaimEnd(c)' = [home |-> s, id |-> given[ClaimEnd(c).id]]
    <2>1. ClaimEnd(c).id \in ServedIds(f)
        BY <1>2, <1>9, ServedAre
    <2>2. QED
        BY <1>5, <1>6, <1>9, <1>b, <2>1 DEF Onward
\* The others stay.
<1>10. ASSUME NEW c \in Claims, ClaimEnd(c).home # f
       PROVE  ClaimEnd(c)' = ClaimEnd(c)
    BY <1>1, <1>5, <1>6, <1>10 DEF Onward, Ends
<1>11. Listed'
    <2> SUFFICES ASSUME NEW i \in 1 .. Len(events'), NEW id \in DOMAIN events'[i].ids
                 PROVE  id <= Highest(facts'[events'[i].folded])
        BY DEF Listed
    <2>1. CASE i \in 1 .. Len(events)
        <3>1. events[i] \in Event /\ events'[i] = events[i]
            BY <1>1, <1>2, <2>1, ElementOfSeq DEF Stored
        <3>2. events[i].folded \in Thing /\ events[i].ids \in IdMaps
            BY <3>1 DEF Event
        <3>3. id \in Nat
            BY <3>1, <3>2 DEF IdMaps
        <3>4. id <= Highest(facts[events[i].folded])
            BY <1>1, <2>1, <3>1 DEF Listed
        <3>5. QED
            BY <1>4, <3>1, <3>2, <3>3, <3>4
    <2>2. CASE i = Len(events) + 1
        <3>1. events'[i].folded = f /\ id \in ServedIds(f)
            BY <1>2, <1>3, <2>2
        <3>2. id <= Highest(facts[f]) /\ facts'[f] = facts[f]
            BY <1>1, <1>2, <1>4, <3>1, ServedFinite
        <3>3. QED
            BY <3>1, <3>2
    <2>3. QED
        BY <1>2, <2>1, <2>2
<1>12. Ends'
    <2> SUFFICES ASSUME NEW c \in Claims'
                 PROVE  /\ (ClaimStep(ClaimEnd(c)) = ClaimEnd(c))'
                        /\ ClaimEnd(c)'.id <= Highest(facts'[ClaimEnd(c)'.home])
        BY DEF Ends
    <2>1. CASE c = acct
        <3>1. account \in facts'[s]
            BY <1>4
        <3>2. ClaimStep(acct)' = acct /\ ClaimEnd(acct)' = acct /\ acct.home = s /\ acct.id = account
            BY <1>8
        <3>3. (ClaimStep(ClaimEnd(c)) = ClaimEnd(c))'
            BY <2>1, <3>2, StepAtEnd
        <3>4. QED
            BY <1>4, <2>1, <3>1, <3>2, <3>3
    <2>2. ASSUME c \in Claims, ClaimEnd(c).home = f
          PROVE  /\ (ClaimStep(ClaimEnd(c)) = ClaimEnd(c))'
                 /\ ClaimEnd(c)'.id <= Highest(facts'[ClaimEnd(c)'.home])
        <3>0. PICK to : to = [home |-> s, id |-> given[ClaimEnd(c).id]]
            OBVIOUS
        <3>1. ClaimEnd(c).id \in ServedIds(f) /\ ClaimEnd(c)' = to
            BY <1>9, <2>2, <3>0
        <3>2. to \in Address /\ to.home = s /\ to.id < account /\ to.id \in Nat
            BY <1>3, <3>0, <3>1 DEF Address
        <3>3. ClaimStep(to)' = to
            BY <1>5, <1>7, <3>2
        <3>4. (ClaimStep(ClaimEnd(c)) = ClaimEnd(c))'
            BY <3>1, <3>3, StepAtEnd
        <3>5. account <= Highest(facts'[s]) /\ Highest(facts'[s]) \in Nat
            BY <1>4
        <3>6. QED
            BY <1>3, <3>1, <3>2, <3>4, <3>5
    <2>3. ASSUME c \in Claims, ClaimEnd(c).home # f
          PROVE  /\ (ClaimStep(ClaimEnd(c)) = ClaimEnd(c))'
                 /\ ClaimEnd(c)'.id <= Highest(facts'[ClaimEnd(c)'.home])
        <3>0. PICK to : to = ClaimEnd(c)
            OBVIOUS
        <3>1. ClaimEnd(c)' = ClaimEnd(c) /\ ClaimEnd(c) \in Address
            BY <1>6, <1>10, <2>3
        <3>2. ClaimStep(ClaimEnd(c)) = ClaimEnd(c)
            BY <1>1, <2>3 DEF Ends
        <3>3. to \in Address /\ to.home # f /\ ClaimStep(to) = to /\ ClaimEnd(c)' = to
            BY <2>3, <3>0, <3>1, <3>2
        <3>4. ClaimStep(to)' = to
            BY <1>5, <3>3 DEF Onward
        <3>5. (ClaimStep(ClaimEnd(c)) = ClaimEnd(c))'
            BY <3>3, <3>4, StepAtEnd
        <3>6. to.id <= Highest(facts[to.home]) /\ to.home \in Thing /\ to.id \in Nat
            BY <1>1, <1>6, <2>3, <3>0 DEF Ends
        <3>7. QED
            BY <1>4, <3>3, <3>5, <3>6
    <2>4. QED
        BY <1>4, <2>1, <2>2, <2>3
<1>13. OneClaimPerAddress'
    <2>1. ASSUME NEW c \in Claims, ClaimEnd(c)' = acct PROVE FALSE
        <3>1. CASE ClaimEnd(c).home = f
            <4>1. ClaimEnd(c).id \in ServedIds(f) /\ given[ClaimEnd(c).id] = account
                BY <1>8, <1>9, <2>1, <3>1
            <4>2. QED
                BY <1>3, <4>1
        <3>2. CASE ClaimEnd(c).home # f
            <4>1. ClaimEnd(c).home = s /\ ClaimEnd(c).id = account
                BY <1>8, <1>10, <2>1, <3>2
            <4>2. account <= Highest(facts[s])
                BY <1>1, <4>1 DEF Ends
            <4>3. QED
                BY <1>3, <1>4, <4>2
        <3>3. QED
            BY <3>1, <3>2
    <2>2. ASSUME NEW c \in Claims, NEW d \in Claims, ClaimEnd(c)' = ClaimEnd(d)',
                 ClaimEnd(c).home = f, ClaimEnd(d).home # f
          PROVE  FALSE
        <3>1. ClaimEnd(c).id \in ServedIds(f)
            BY <1>9, <2>2
        <3>2. ClaimEnd(d) = [home |-> s, id |-> given[ClaimEnd(c).id]]
            BY <1>9, <1>10, <2>2
        <3>3. ClaimEnd(d).home = s /\ ClaimEnd(d).id = given[ClaimEnd(c).id]
            BY <3>2
        <3>4. given[ClaimEnd(c).id] <= Highest(facts[s])
            BY <1>1, <3>3 DEF Ends
        <3>5. QED
            BY <1>3, <1>4, <3>1, <3>4
    <2>3. ASSUME NEW c \in Claims, NEW d \in Claims, ClaimEnd(c)' = ClaimEnd(d)',
                 ClaimEnd(c).home = f, ClaimEnd(d).home = f
          PROVE  c = d
        <3>1. /\ ClaimEnd(c).id \in ServedIds(f) /\ ClaimEnd(d).id \in ServedIds(f)
              /\ given[ClaimEnd(c).id] = given[ClaimEnd(d).id]
            BY <1>9, <2>3
        <3>2. ClaimEnd(c).id = ClaimEnd(d).id /\ ClaimEnd(c).home = ClaimEnd(d).home
            BY <1>3, <2>3, <3>1
        <3>3. \A x, y \in Address : x.id = y.id /\ x.home = y.home => x = y
            BY DEF Address
        <3>4. ClaimEnd(c) = ClaimEnd(d)
            BY <1>6, <3>2, <3>3
        <3>5. QED
            BY <1>1, <3>4 DEF OneClaimPerAddress
    <2>4. ASSUME NEW c \in Claims, NEW d \in Claims, ClaimEnd(c)' = ClaimEnd(d)' PROVE c = d
        <3>1. CASE ClaimEnd(c).home # f /\ ClaimEnd(d).home # f
            BY <1>1, <1>10, <2>4, <3>1 DEF OneClaimPerAddress
        <3>2. QED
            BY <2>2, <2>3, <2>4, <3>1
    <2>5. QED
        BY <1>4, <1>8, <2>1, <2>4 DEF OneClaimPerAddress
<1>14. QED
    BY <1>11, <1>12, <1>13 DEF Walks

\* A claim filed takes an id no walk ends at.
LEMMA CaptureKeepsWalks ==
    ASSUME Inv, NEW t \in Thing, facts' = [facts EXCEPT ![t] = @ \cup {Mint(t)}],
           UNCHANGED events
    PROVE  Walks'
<1>a. PICK i : i = Mint(t)
    OBVIOUS
<1>b. PICK new : new = [home |-> t, id |-> i]
    OBVIOUS
<1>1. /\ Stored /\ Listed /\ Ends /\ OneClaimPerAddress
      /\ i \in Nat /\ i > Highest(facts[t]) /\ Highest(facts[t]) \in Nat
      /\ facts' = [facts EXCEPT ![t] = @ \cup {i}]
    BY <1>a, HighestOf DEF Inv, Tables, Mint
<1>2. /\ Claims' = Claims \cup {new} /\ new \in Address
      /\ facts'[t] = facts[t] \cup {i} /\ \A u \in Thing \ {t} : facts'[u] = facts[u]
      /\ \A u \in Thing : Highest(facts[u]) <= Highest(facts'[u]) /\ Highest(facts[u]) \in Nat
      /\ \A u \in Thing : Highest(facts'[u]) \in Nat /\ \A k \in facts'[u] : k <= Highest(facts'[u])
    BY <1>1, <1>b, FactAdded, ClaimAdded, HighestOf
<1>c. \A u \in Thing : \A k \in Nat : k <= Highest(facts[u]) => k <= Highest(facts'[u])
    <2> SUFFICES ASSUME NEW u \in Thing, NEW k \in Nat, k <= Highest(facts[u])
                 PROVE  k <= Highest(facts'[u])
        OBVIOUS
    <2>1. /\ Highest(facts[u]) \in Nat /\ Highest(facts'[u]) \in Nat
          /\ Highest(facts[u]) <= Highest(facts'[u])
        BY <1>2
    <2>2. QED
        BY <2>1
<1>3. \A c \in Claims : /\ ClaimEnd(c) \in Address
                        /\ ClaimEnd(c).home \in Thing /\ ClaimEnd(c).id \in Nat
    BY <1>1, ClaimsTyped
<1>4. new.home = t /\ new.id = i
    BY <1>b
<1>5. ClaimStep(new) = new /\ ClaimEnd(new) = new
    <2> DEFINE lists == {k \in FoldsOf(new.home) : new.id \in DOMAIN events[k].ids}
    <2>1. lists = {}
        <3> SUFFICES ASSUME NEW k \in lists PROVE FALSE
            OBVIOUS
        <3>1. k \in 1 .. Len(events) /\ events[k].folded = t /\ i \in DOMAIN events[k].ids
            BY <1>1, <1>4, LenProperties DEF FoldsOf, Stored
        <3>2. i <= Highest(facts[t])
            BY <1>1, <3>1 DEF Listed
        <3>3. QED
            BY <1>1, <3>2
    <2>2. ClaimStep(new) = IF lists = {} THEN new
                           ELSE [home |-> events[Max(lists)].survivor,
                                 id |-> events[Max(lists)].ids[new.id]]
        BY DEF ClaimStep
    <2>3. ClaimStep(new) = new
        BY <2>1, <2>2
    <2>4. QED
        BY <1>1, <1>2, <2>3, RestEnds DEF Stored
<1>6. Listed'
    <2> SUFFICES ASSUME NEW k \in 1 .. Len(events), NEW id \in DOMAIN events[k].ids
                 PROVE  id <= Highest(facts'[events[k].folded])
        BY DEF Listed
    <2>1. events[k] \in Event
        BY <1>1, ElementOfSeq DEF Stored
    <2>2. events[k].folded \in Thing /\ events[k].ids \in IdMaps
        BY <2>1 DEF Event
    <2>3. id \in Nat
        BY <2>2 DEF IdMaps
    <2>4. id <= Highest(facts[events[k].folded])
        BY <1>1 DEF Listed
    <2>5. QED
        BY <1>c, <2>2, <2>3, <2>4
<1>7. Ends'
    <2> SUFFICES ASSUME NEW c \in Claims'
                 PROVE  /\ ClaimStep(ClaimEnd(c)) = ClaimEnd(c)
                        /\ ClaimEnd(c).id <= Highest(facts'[ClaimEnd(c).home])
        BY EndsByEvents DEF Ends
    <2>1. CASE c = new
        BY <1>2, <1>4, <1>5, <2>1
    <2>2. ASSUME c \in Claims
          PROVE  /\ ClaimStep(ClaimEnd(c)) = ClaimEnd(c)
                 /\ ClaimEnd(c).id <= Highest(facts'[ClaimEnd(c).home])
        <3>1. /\ ClaimStep(ClaimEnd(c)) = ClaimEnd(c)
              /\ ClaimEnd(c).id <= Highest(facts[ClaimEnd(c).home])
            BY <1>1, <2>2 DEF Ends
        <3>2. QED
            BY <1>c, <1>3, <2>2, <3>1
    <2>3. QED
        BY <1>2, <2>1, <2>2
<1>8. OneClaimPerAddress'
    <2>1. ASSUME NEW c \in Claims, ClaimEnd(c) = new PROVE FALSE
        <3>1. i <= Highest(facts[t])
            BY <1>1, <1>4, <2>1 DEF Ends
        <3>2. QED
            BY <1>1, <3>1
    <2>2. \A c, d \in Claims \cup {new} : ClaimEnd(c) = ClaimEnd(d) => c = d
        BY <1>1, <1>5, <2>1 DEF OneClaimPerAddress
    <2>3. QED
        BY <1>2, <2>2, EndsByEvents DEF OneClaimPerAddress
<1>9. QED
    BY <1>6, <1>7, <1>8 DEF Walks

\* Where nothing leads on, claims end where they are.
LEMMA RestingWalks ==
    Stored /\ (\A i \in 1 .. Len(events) : DOMAIN events[i].ids = {}) => Walks
<1> SUFFICES ASSUME Stored, \A i \in 1 .. Len(events) : DOMAIN events[i].ids = {}
             PROVE  Walks
    OBVIOUS
<1>1. Listed
    BY DEF Listed
<1>2. ASSUME NEW a \in Address PROVE ClaimStep(a) = a /\ ClaimEnd(a) = a
    <2>1. DOMAIN events = 1 .. Len(events)
        BY LenProperties DEF Stored
    <2>2. {i \in FoldsOf(a.home) : a.id \in DOMAIN events[i].ids} = {}
        BY <2>1 DEF FoldsOf
    <2>3. ClaimStep(a) = a
        BY <2>2 DEF ClaimStep
    <2>4. QED
        BY <2>3, RestEnds DEF Stored
<1>3. Ends
    <2> SUFFICES ASSUME NEW c \in Claims
                 PROVE  ClaimStep(ClaimEnd(c)) = ClaimEnd(c) /\ ClaimEnd(c).id <= Highest(facts[ClaimEnd(c).home])
        BY DEF Ends
    <2>1. c \in Address /\ c.home \in Thing /\ c.id \in facts[c.home]
        BY ClaimsTyped
    <2>2. QED
        BY <1>2, <2>1, HighestOf
<1>4. OneClaimPerAddress
    BY <1>2, ClaimsTyped DEF OneClaimPerAddress
<1>5. QED
    BY <1>1, <1>3, <1>4 DEF Walks

LEMMA RestingWalksNext ==
    (Stored /\ (\A i \in 1 .. Len(events) : DOMAIN events[i].ids = {}) => Walks)'
BY RestingWalks, PTL

LEMMA BootKeepsWalks ==
    ASSUME Inv, Boot
    PROVE  Walks'
<1>1. Stored' /\ \A i \in 1 .. Len(events') : DOMAIN events'[i].ids = {}
    BY Repaired, BootKeepsTables DEF Inv, Tables
<1>2. QED
    BY <1>1, RestingWalksNext

LEMMA MergeOldKeepsWalks ==
    ASSUME Inv, NEW f \in Thing, NEW s \in Thing, MergeOld(f, s)
    PROVE  Walks'
<1>1. events' = <<>>
    BY DEF MergeOld, Inv, Tables, Stored
<1>2. Stored'
    BY MergeOldKeepsTables DEF Tables
<1>3. QED
    BY <1>1, <1>2, RestingWalksNext

LEMMA Invariance ==
    Spec => []Inv
<1>1. Init => Inv
    <2> SUFFICES ASSUME Init PROVE Inv
        OBVIOUS
    <2>1. Named
        BY DEF Init, Named, AtMostOne
    <2>2. OfMade
        BY DEF Init, OfMade, Merged
    <2>3. Stored
        BY DEF Init, Stored
    <2>4. FoldedMerged
        BY DEF Init, FoldedMerged, Folded, FoldsOf
    <2>5. Walks
        <3>1. events = <<>>
            BY DEF Init
        <3>2. QED
            BY <2>3, <3>1, RestingWalks
    <2>6. QED
        BY <2>1, <2>2, <2>3, <2>4, <2>5 DEF Inv, Tables, Walks
<1>2. Inv /\ [Next]_vars => Inv'
    <2> SUFFICES ASSUME Inv, [Next]_vars PROVE Inv'
        OBVIOUS
    <2>1. Tables'
        BY TablesKept
    <2>2. ASSUME NEW t \in Thing, NEW h \in Handle, Add(t, h) \/ Rename(t, h)
          PROVE  Walks'
        BY <2>2, WalksStand DEF Add, Rename
    <2>3. ASSUME NEW f \in Thing, NEW s \in Thing, Merge(f, s) \/ MergeOld(f, s)
          PROVE  Walks'
        BY <2>3, MergeKeepsWalks, MergeOldKeepsWalks
    <2>4. ASSUME NEW t \in Thing, Edit(t) \/ SetProse(t)
          PROVE  Walks'
        BY <2>4, WalksStand DEF Edit, SetProse
    <2>5. ASSUME NEW h \in Handle, Capture(h)
          PROVE  Walks'
        <3>1. PICK t \in Resolve(h) : /\ facts' = [facts EXCEPT ![t] = @ \cup {Mint(t)}]
                                      /\ UNCHANGED events
            BY <2>5 DEF Capture
        <3>2. t \in Thing
            BY ResolvesToThings DEF Inv, Tables
        <3>3. QED
            BY <3>1, <3>2, CaptureKeepsWalks
    <2>6. ASSUME Boot PROVE Walks'
        BY <2>6, BootKeepsWalks
    <2>7. ASSUME UNCHANGED vars PROVE Walks'
        BY <2>7, WalksStand DEF vars
    <2>8. Walks'
        BY <2>2, <2>3, <2>4, <2>5, <2>6, <2>7 DEF Next
    <2>9. QED
        BY <2>1, <2>8 DEF Inv, Walks
<1>3. QED
    BY <1>1, <1>2, PTL DEF Spec

\* No two claims are served at one address: a merge gives ids no claim of the
\* survivor's has or was moved to, and a capture takes one above them all.
THEOREM OneClaim ==
    Spec => []OneClaimPerAddress
<1>1. Inv => OneClaimPerAddress
    BY DEF Inv
<1>2. QED
    BY <1>1, Invariance, PTL

-----------------------------------------------------------------------------
(* What a step may never do.                                               *)

\* Whether the thing at the end of a walk was folded.
LEMMA NotFoldedThere ==
    ASSUME NEW a, NEW t, ClaimEnd(a)'.home = t, ~Folded(t)'
    PROVE  ~(Folded(ClaimEnd(a).home))'
BY DEF Folded, FoldsOf

\* A claim that some thing serves is served ever after: the merge that folds
\* the thing takes the claim along to one that no event folded.
THEOREM Served ==
    Spec => ServedStays
<1> DEFINE Kept == build = "new" =>
                \A c \in Claims : ~Folded(ClaimEnd(c).home)
                    => c \in Claims' /\ ~(Folded(ClaimEnd(c).home))'
<1>1. Inv /\ [Next]_vars => Kept
    <2> SUFFICES ASSUME Inv, [Next]_vars, build = "new", NEW c \in Claims,
                        ~Folded(ClaimEnd(c).home)
                 PROVE  c \in Claims' /\ ~(Folded(ClaimEnd(c).home))'
        OBVIOUS
    <2>1. ASSUME UNCHANGED events, Claims \subseteq Claims'
          PROVE  c \in Claims' /\ ~(Folded(ClaimEnd(c).home))'
        <3>1. PICK e : e = ClaimEnd(c)
            OBVIOUS
        <3>2. ClaimEnd(c)' = e /\ ~Folded(e.home)'
            BY <2>1, <3>1, EndsByEvents
        <3>3. QED
            BY <2>1, <3>2, NotFoldedThere
    <2>2. ASSUME UNCHANGED <<events, facts>>
          PROVE  c \in Claims' /\ ~(Folded(ClaimEnd(c).home))'
        BY <2>1, <2>2 DEF Claims
    <2>3. ASSUME NEW f \in Thing, NEW s \in Thing, Merge(f, s)
          PROVE  c \in Claims' /\ ~(Folded(ClaimEnd(c).home))'
        <3>1. AccountId(f, s) \in Nat /\ facts' = [facts EXCEPT ![s] = @ \cup {AccountId(f, s)}]
            BY <2>3, GivenIsFree DEF Merge, Inv, Tables
        <3>2. c \in Claims'
            BY <3>1, ClaimAdded DEF Inv, Tables
        <3>3. /\ f # s /\ ~Folded(s) /\ events' \in Seq(Event)
              /\ Len(events') = Len(events) + 1 /\ Len(events) \in Nat
              /\ \A i \in 1 .. Len(events) : events'[i] = events[i]
              /\ events'[Len(events) + 1] = [folded |-> f, survivor |-> s, ids |-> GivenIds(f, s)]
            BY <2>3, EventAdded
        <3>4. \A t : Folded(t)' => Folded(t) \/ t = f
            <4>1. events'[Len(events) + 1].folded = f
                BY <3>3
            <4>2. \A i \in 1 .. Len(events') : i \in 1 .. Len(events) \/ i = Len(events) + 1
                BY <3>3
            <4>3. DOMAIN events' = 1 .. Len(events') /\ DOMAIN events = 1 .. Len(events)
                BY <3>3, LenProperties DEF Inv, Tables, Stored
            <4>4. QED
                BY <3>3, <4>1, <4>2, <4>3 DEF Folded, FoldsOf
        <3>5. c \in Address
            BY ClaimsTyped DEF Inv, Tables
        <3>6. PICK e : e = ClaimEnd(c)
            OBVIOUS
        <3>7. ClaimEnd(c)' = Onward(f, s, e)
            BY <2>3, <3>5, <3>6, MergeEnds
        <3>8. CASE e.home = f
            <4>1. e.id \in ServedIds(f)
                BY <3>6, <3>8, ServedAre
            <4>2. ClaimEnd(c)' = [home |-> s, id |-> GivenIds(f, s)[e.id]]
                BY <3>7, <3>8, <4>1 DEF Onward
            <4>3. ClaimEnd(c)'.home = s /\ ~Folded(s)'
                BY <3>3, <3>4, <4>2
            <4>4. QED
                BY <3>2, <4>3, NotFoldedThere
        <3>9. CASE e.home # f
            <4>1. ClaimEnd(c)' = e
                BY <3>6, <3>7, <3>9 DEF Onward, Inv, Ends
            <4>2. ~Folded(e.home)'
                BY <3>4, <3>6, <3>9
            <4>3. QED
                BY <3>2, <4>1, <4>2, NotFoldedThere
        <3>10. QED
            BY <3>8, <3>9
    <2>4. ASSUME NEW h \in Handle, Capture(h)
          PROVE  c \in Claims' /\ ~(Folded(ClaimEnd(c).home))'
        <3>1. PICK t \in Resolve(h) : /\ facts' = [facts EXCEPT ![t] = @ \cup {Mint(t)}]
                                      /\ UNCHANGED events
            BY <2>4 DEF Capture
        <3>2. t \in Thing
            BY ResolvesToThings DEF Inv, Tables
        <3>3. Mint(t) \in Nat
            BY <3>2, HighestOf DEF Inv, Tables, Mint
        <3>4. Claims \subseteq Claims'
            BY <3>1, <3>2, <3>3, ClaimAdded DEF Inv, Tables
        <3>5. QED
            BY <2>1, <3>1, <3>4
    <2>5. QED
        BY <2>2, <2>3, <2>4
           DEF Next, Add, Rename, Edit, SetProse, MergeOld, Boot, vars
<1>2. QED
    BY <1>1, Invariance, PTL DEF Spec, ServedStays

\* Only a rename and a new row change what a handle names.
LEMMA SameNames ==
    ASSUME UNCHANGED <<wears, former>>
    PROVE  \A h : Resolve(h)' = Resolve(h)
BY DEF Resolve, Worn, LastToLeave

\* A handle goes on naming the thing it named until another takes it: a
\* rename away from it leaves it last, and no other leaves it after.
THEOREM Answers ==
    Spec => HandleAnswers
<1> DEFINE Kept == \A h \in Handle : Resolve(h) # {}
                => Resolve(h)' = Resolve(h) \/ \E t \in Thing : h \in wears'[t] \ wears[t]
<1>1. Inv /\ [Next]_vars => Kept
    <2> SUFFICES ASSUME Inv, [Next]_vars, NEW h \in Handle,
                        \A t \in Thing : h \in wears'[t] => h \in wears[t]
                 PROVE  Resolve(h)' = Resolve(h)
        OBVIOUS
    <2>1. ASSUME NEW t \in Thing, NEW g \in Handle, Add(t, g)
          PROVE  Resolve(h)' = Resolve(h)
        <3>1. wears[t] = {} /\ wears' = [wears EXCEPT ![t] = {g}] /\ UNCHANGED former
            BY <2>1 DEF Add
        <3>2. wears'[t] = {g} /\ \A u \in Thing \ {t} : wears'[u] = wears[u]
            BY <3>1 DEF Inv, Tables, Named
        <3>3. h # g
            BY <3>1, <3>2
        <3>4. \A u \in Thing : h \in wears'[u] <=> h \in wears[u]
            BY <3>1, <3>2, <3>3
        <3>5. QED
            BY <3>1, <3>4 DEF Resolve, Worn, LastToLeave
    <2>2. ASSUME NEW t \in Thing, NEW g \in Handle, Rename(t, g)
          PROVE  Resolve(h)' = Resolve(h)
        <3>1. /\ g \notin Worn /\ wears' = [wears EXCEPT ![t] = {g}]
              /\ Named
            BY <2>2 DEF Rename, Inv, Tables
        <3>2. wears'[t] = {g} /\ \A u \in Thing \ {t} : wears'[u] = wears[u]
            BY <3>1 DEF Named
        <3>3. h # g
            BY <3>1, <3>2 DEF Worn
        <3>4. PICK from \in wears[t] : former' = Append(former, [handle |-> from, badge |-> t])
            BY <2>2 DEF Rename
        <3> DEFINE last == Len(former) + 1
        <3>5. /\ former \in Seq(Entry) /\ former' \in Seq(Entry)
              /\ Len(former') = last /\ Len(former) \in Nat
              /\ \A i \in 1 .. Len(former) : former'[i] = former[i]
              /\ former'[last].handle = from /\ former'[last].badge = t
            BY <3>1, <3>4, FormerAdded
        <3>6. DOMAIN former = 1 .. Len(former) /\ DOMAIN former' = 1 .. last
            BY <3>5, LenProperties
        <3>7. former'[last].handle = from /\ former'[last].badge = t
            BY <3>5
        <3>8. \A i \in 1 .. last : i \in 1 .. Len(former) \/ i = last
            BY <3>5
        <3> DEFINE left  == {i \in DOMAIN former : former[i].handle = h}
                   left2 == {i \in DOMAIN former' : former'[i].handle = h}
        <3>9. /\ LastToLeave(h) = IF left = {} THEN {} ELSE {former[Max(left)].badge}
              /\ LastToLeave(h)' = IF left2 = {} THEN {} ELSE {former'[Max(left2)].badge}
            BY DEF LastToLeave
        <3>10. CASE h = from
            <4>1. Resolve(h) = {t}
                BY <3>1, <3>4, <3>10 DEF Resolve, Worn, Named
            <4>2. \A u \in Thing : h \notin wears'[u]
                BY <3>1, <3>2, <3>3, <3>4, <3>10 DEF Named
            <4>3. Resolve(h)' = LastToLeave(h)'
                BY <4>2 DEF Resolve, Worn
            <4>4. last \in left2 /\ left2 \in SUBSET DOMAIN former'
                BY <3>5, <3>6, <3>7, <3>10
            <4>5. Max(left2) = last
                <5> HIDE DEF left2
                <5>1. Max(left2) \in left2 /\ \A k \in left2 : k <= Max(left2)
                    BY <3>5, <4>4, Positions
                <5>2. Max(left2) \in 1 .. last /\ last <= Max(left2)
                    BY <3>6, <4>4, <5>1
                <5>3. QED
                    BY <3>5, <5>2
            <4> HIDE DEF left2, last
            <4>6. QED
                BY <3>7, <3>9, <4>1, <4>3, <4>4, <4>5
        <3>11. CASE h # from
            <4>1. \A u \in Thing : h \in wears'[u] <=> h \in wears[u]
                BY <3>1, <3>2, <3>3, <3>4, <3>11 DEF Named, AtMostOne
            <4>2. left2 = left
                BY <3>5, <3>6, <3>7, <3>8, <3>11
            <4>3. ASSUME left # {} PROVE former'[Max(left)] = former[Max(left)]
                <5>1. left \in SUBSET DOMAIN former
                    OBVIOUS
                <5> HIDE DEF left
                <5>2. Max(left) \in DOMAIN former
                    BY <3>5, <4>3, <5>1, Positions
                <5>3. QED
                    BY <3>5, <3>6, <5>2
            <4> HIDE DEF left, left2
            <4>4. LastToLeave(h)' = LastToLeave(h)
                BY <3>9, <4>2, <4>3
            <4>5. QED
                BY <4>1, <4>4 DEF Resolve, Worn
        <3>12. QED
            BY <3>10, <3>11
    <2>3. ASSUME UNCHANGED <<wears, former>>
          PROVE  Resolve(h)' = Resolve(h)
        BY <2>3, SameNames
    <2>4. QED
        BY <2>1, <2>2, <2>3
           DEF Next, Merge, MergeOld, Forwards, Edit, SetProse, Capture, Boot, vars
<1>2. QED
    BY <1>1, Invariance, PTL DEF Spec, HandleAnswers

-----------------------------------------------------------------------------
(* The order of the merges.  Where the old build folded things it kept no  *)
(* event, and the repair goes by the handles of the day it runs.  Rows     *)
(* forward by handle, handles are freed and taken, edits rewrite the rows; *)
(* what keeps the repaired events without a loop is that, in the order the *)
(* things were folded, no row means one folded before it.                  *)

\* Every handle a row wears was written.
Wrote ==
    \A t \in Thing : \A h \in wears[t] :
        \E i \in 1 .. Len(writes) : writes[i].badge = t /\ writes[i].handle = h

\* By the m-th write, x wore what it wears.
Settled(x, m) ==
    \E i \in 1 .. Len(writes) : i <= m /\ writes[i].badge = x /\ writes[i].handle \in wears[x]

\* A row that forwards by h means none of the things folded before: none
\* wears h, each that left h had done so when the row was last written, and
\* another was named by it.
Points(early, t, h) ==
    /\ \A x \in early : h \notin wears[x]
    /\ \A x \in early : x \in NamedBy(h) => Settled(x, Newest(t))
    /\ \E x \in Thing : x \in NamedBy(h) /\ x \notin early

\* The things folded no later than t, in the order of their ranks.
Early(rank, t) == {x \in Thing : Merged(x) /\ rank[x] <= rank[t]}

OldOrder(rank) == \A t \in Thing : \A h \in into[t] : Points(Early(rank, t), t, h)

\* What an event folds ranks below its survivor.
EventOrder(rank) ==
    \A i \in 1 .. Len(events) : rank[events[i].folded] < rank[events[i].survivor]

InOrder(n, rank) ==
    /\ rank \in [Thing -> 0 .. n]
    /\ build = "old" => OldOrder(rank)
    /\ EventOrder(rank)

Ranked == Wrote /\ \E n \in Nat : \E rank : InOrder(n, rank)

LEMMA NewestGrows ==
    ASSUME Named, NEW u \in Thing, NEW g \in Handle, Writes(u, g),
           NEW t \in Thing, \E i \in 1 .. Len(writes) : writes[i].badge = t
    PROVE  /\ Newest(t) \in 1 .. Len(writes) /\ Newest(t)' \in Nat /\ Newest(t) <= Newest(t)'
           /\ t = u => Newest(t)' = Len(writes) + 1
<1> DEFINE mine  == {i \in DOMAIN writes : writes[i].badge = t}
           mine2 == {i \in DOMAIN writes' : writes'[i].badge = t}
<1>1. /\ writes \in Seq(Entry) /\ writes' \in Seq(Entry)
      /\ Len(writes') = Len(writes) + 1 /\ Len(writes) \in Nat
      /\ \A i \in 1 .. Len(writes) : writes'[i] = writes[i]
      /\ writes'[Len(writes) + 1].badge = u
    BY WriteAdded
<1>2. DOMAIN writes = 1 .. Len(writes) /\ DOMAIN writes' = 1 .. Len(writes) + 1
    BY <1>1, LenProperties
<1>3. /\ mine \in SUBSET DOMAIN writes /\ mine # {}
      /\ mine2 \in SUBSET DOMAIN writes' /\ mine \subseteq mine2
      /\ t = u => Len(writes) + 1 \in mine2
    BY <1>1, <1>2
<1>4. Newest(t) = Max(mine) /\ Newest(t)' = Max(mine2)
    BY DEF Newest
<1> HIDE DEF mine, mine2
<1>5. /\ Max(mine) \in mine /\ Max(mine2) \in mine2 /\ \A k \in mine2 : k <= Max(mine2)
    BY <1>1, <1>3, Positions
<1>6. QED
    BY <1>1, <1>2, <1>3, <1>4, <1>5

LEMMA WroteOne ==
    ASSUME Named, Wrote, NEW u \in Thing, NEW g \in Handle, Writes(u, g),
           \A t \in Thing : \A h \in wears'[t] : h \in wears[t] \/ (t = u /\ h = g)
    PROVE  Wrote'
<1>1. /\ Len(writes') = Len(writes) + 1 /\ Len(writes) \in Nat
      /\ \A i \in 1 .. Len(writes) : writes'[i] = writes[i]
      /\ writes'[Len(writes) + 1].badge = u /\ writes'[Len(writes) + 1].handle = g
    BY WriteAdded
<1>2. \A i \in 1 .. Len(writes) : i \in 1 .. Len(writes')
    BY <1>1
<1>3. Len(writes) + 1 \in 1 .. Len(writes')
    BY <1>1
<1>4. QED
    BY <1>1, <1>2, <1>3 DEF Wrote

\* What was made was written.
LEMMA MadeWrote ==
    ASSUME Wrote, NEW t \in Made
    PROVE  \E i \in 1 .. Len(writes) : writes[i].badge = t
BY DEF Wrote, Made

\* What a row means stands while the things folded before keep their handles.
LEMMA PointsKept ==
    ASSUME Tables, Wrote, NEW r \in Made, NEW early \in SUBSET Thing, NEW h, Points(early, r, h),
           NEW u \in Thing, NEW g \in Handle, Writes(u, g),
           \A x \in early : wears'[x] = wears[x],
           NamedBy(h) \subseteq NamedBy(h)',
           \A x \in early : x \in NamedBy(h)' => x \in NamedBy(h)
    PROVE  Points(early, r, h)'
<1>1. /\ Len(writes') = Len(writes) + 1 /\ Len(writes) \in Nat
      /\ \A i \in 1 .. Len(writes) : writes'[i] = writes[i]
    BY WriteAdded DEF Tables
<1>2. Newest(r) \in 1 .. Len(writes) /\ Newest(r)' \in Nat /\ Newest(r) <= Newest(r)'
    BY MadeWrote, NewestGrows DEF Tables, Made
<1>3. ASSUME NEW x \in early, Settled(x, Newest(r)) PROVE Settled(x, Newest(r))'
    <2>1. PICK i \in 1 .. Len(writes) :
              i <= Newest(r) /\ writes[i].badge = x /\ writes[i].handle \in wears[x]
        BY <1>3 DEF Settled
    <2>2. i \in 1 .. Len(writes') /\ i <= Newest(r)'
        BY <1>1, <1>2, <2>1
    <2>3. QED
        BY <1>1, <2>1, <2>2 DEF Settled
<1>4. QED
    BY <1>3 DEF Points

\* A row written anew that forwards by the handle of a thing not folded before.
LEMMA PointsAnew ==
    ASSUME Tables, Wrote, NEW t \in Made, NEW g \in Handle, Writes(t, g), UNCHANGED <<wears, former>>,
           NEW early \in SUBSET Made, NEW x \in Thing \ early, NEW h \in wears[x]
    PROVE  Points(early, t, h)'
<1>1. /\ Len(writes') = Len(writes) + 1 /\ Len(writes) \in Nat
      /\ \A i \in 1 .. Len(writes) : writes'[i] = writes[i]
    BY WriteAdded DEF Tables, Made
<1>2. Newest(t)' = Len(writes) + 1
    BY MadeWrote, NewestGrows DEF Tables, Made
<1>3. ASSUME NEW y \in early PROVE h \notin wears'[y] /\ Settled(y, Newest(t))'
    <2>1. y \in Thing /\ wears[y] # {}
        BY DEF Made
    <2>2. h \notin wears[y]
        BY <2>1 DEF Tables, Named
    <2>3. PICK i \in 1 .. Len(writes) : writes[i].badge = y /\ writes[i].handle \in wears[y]
        BY <2>1 DEF Wrote
    <2>4. i \in 1 .. Len(writes') /\ i <= Newest(t)'
        BY <1>1, <1>2
    <2>5. QED
        BY <1>1, <2>2, <2>3, <2>4 DEF Settled
<1>4. x \in NamedBy(h)' /\ x \in Thing
    BY DEF NamedBy
<1>5. QED
    BY <1>3, <1>4 DEF Points

LEMMA NewestTyped ==
    ASSUME Named, Wrote, NEW t \in Made
    PROVE  Newest(t) \in Nat
<1> DEFINE mine == {i \in DOMAIN writes : writes[i].badge = t}
<1>1. writes \in Seq(Entry) /\ DOMAIN writes = 1 .. Len(writes)
    BY LenProperties DEF Named
<1>2. mine \in SUBSET DOMAIN writes /\ mine # {} /\ Newest(t) = Max(mine)
    BY <1>1, MadeWrote DEF Newest
<1> HIDE DEF mine
<1>3. QED
    BY <1>1, <1>2, Positions

\* So an edit forwards it to none folded before.
LEMMA EditLater ==
    ASSUME Tables, Wrote, NEW t \in Made, NEW h, NEW early \in SUBSET Made, Points(early, t, h),
           NEW x \in WearerOf(h, Newest(t))
    PROVE  x \notin early
<1> SUFFICES ASSUME x \in early PROVE FALSE
    OBVIOUS
<1> DEFINE now   == {y \in Thing : h \in wears[y]}
           named == now \cup {former[i].badge : i \in {j \in DOMAIN former : former[j].handle = h}}
           gone  == named \ now
           others(y) == (wears[y] \cup {former[i].handle :
                           i \in {j \in DOMAIN former : former[j].badge = y}}) \ {h}
           moved(y) == {i \in DOMAIN writes :
                               writes[i].badge = y /\ writes[i].handle \in others(y)}
           leftAt(y) == Min(moved(y))
           at == Newest(t)
           arm(y) == IF Cardinality(others(y)) > 1 THEN {}
                     ELSE IF at < leftAt(y) THEN gone ELSE now
           told == UNION {arm(y) : y \in gone}
<1>1. named = NamedBy(h) /\ named \in SUBSET Thing
    BY NamedAreThings DEF NamedBy, Tables
<1>2. WearerOf(h, at) = IF Cardinality(named) <= 1 THEN named
                        ELSE IF now = {} \/ Cardinality(gone) > 1 THEN {} ELSE told
    BY DEF WearerOf
<1>3. x \notin now /\ x \in NamedBy(h) /\ h \notin wears[x]
    BY WearerIsOne DEF Points, Tables
<1>4. PICK i \in 1 .. Len(writes) :
          i <= at /\ writes[i].badge = x /\ writes[i].handle \in wears[x]
    BY <1>3 DEF Points, Settled
<1>5. writes \in Seq(Entry) /\ DOMAIN writes = 1 .. Len(writes)
    BY LenProperties DEF Tables, Named
<1>6. i \in moved(x)
    BY <1>3, <1>4, <1>5
<1>7. leftAt(x) <= i /\ leftAt(x) \in Nat /\ i \in Nat
    <2>1. moved(x) \in SUBSET DOMAIN writes /\ moved(x) # {}
        BY <1>6
    <2> HIDE DEF moved
    <2>2. Min(moved(x)) \in moved(x) /\ \A k \in moved(x) : Min(moved(x)) <= k
        BY <1>5, <2>1, Positions
    <2>3. QED
        BY <1>5, <1>6, <2>1, <2>2
<1>8. at \in Nat
    BY NewestTyped DEF Tables, Made
<1>9. CASE Cardinality(named) <= 1
    <2>1. AtMostOne(named)
        <3> HIDE DEF named
        <3>1. QED
            BY <1>1, <1>9, SmallSet
    <2>2. PICK y \in NamedBy(h) : y \notin early
        BY DEF Points
    <2>3. QED
        BY <1>1, <1>3, <2>1, <2>2 DEF AtMostOne
<1>10. CASE ~ (Cardinality(named) <= 1)
    <2>1. ~ (Cardinality(gone) > 1) /\ x \in told
        BY <1>2, <1>10
    <2>2. AtMostOne(gone)
        <3>1. gone \in SUBSET Thing
            BY <1>1
        <3> HIDE DEF gone
        <3>2. IsFiniteSet(gone) /\ Cardinality(gone) \in Nat
            BY <3>1, ThingsAssumption, FS_Subset, FS_CardinalityType
        <3>3. Cardinality(gone) <= 1
            BY <2>1, <3>2
        <3>4. QED
            BY <3>1, <3>3, SmallSet
    <2>3. PICK y \in gone : x \in arm(y)
        BY <2>1
    <2>4. x \in gone
        BY <1>1, <1>3
    <2>5. y = x
        BY <2>2, <2>3, <2>4 DEF AtMostOne
    <2> HIDE DEF gone, now, leftAt, others
    <2>6. at < leftAt(x)
        BY <1>3, <2>3, <2>5
    <2>7. QED
        BY <1>4, <1>7, <1>8, <2>6
<1>11. QED
    BY <1>9, <1>10

\* The names of folded things stand, and no other name is theirs.
LEMMA OrderStands ==
    ASSUME Tables, Wrote, NEW n \in Nat, NEW rank, InOrder(n, rank),
           NEW u \in Thing, NEW g \in Handle, Writes(u, g),
           build' = build, UNCHANGED events, build = "old" => UNCHANGED into,
           \A x \in Thing : Merged(x) => wears'[x] = wears[x],
           \A h : NamedBy(h) \subseteq NamedBy(h)',
           \A h : \A x \in Thing : Merged(x) /\ x \in NamedBy(h)' => x \in NamedBy(h)
    PROVE  InOrder(n, rank)'
<1>1. EventOrder(rank)'
    BY DEF InOrder, EventOrder
<1>2. ASSUME build = "old" PROVE OldOrder(rank)'
    <2> SUFFICES ASSUME NEW r \in Thing, NEW h \in into'[r]
                 PROVE  Points(Early(rank, r), r, h)'
        BY DEF OldOrder
    <2>0. PICK early : early = Early(rank, r)
        OBVIOUS
    <2>1. UNCHANGED into /\ h \in into[r] /\ Points(early, r, h)
        BY <1>2, <2>0 DEF InOrder, OldOrder
    <2>2. Early(rank, r)' = early
        BY <2>0, <2>1 DEF Early, Merged
    <2>3. early \in SUBSET Thing /\ \A x \in early : Merged(x)
        BY <2>0 DEF Early
    <2>4. r \in Made
        BY <2>1 DEF Tables, OfMade, Merged
    <2>5. Points(early, r, h)'
        BY <2>1, <2>3, <2>4, PointsKept
    <2>6. QED
        BY <2>2, <2>5 DEF Points
<1>3. QED
    BY <1>1, <1>2 DEF InOrder

LEMMA AddKeepsOrder ==
    ASSUME Tables, Ranked, NEW t \in Thing, NEW h \in Handle, Add(t, h)
    PROVE  Ranked'
<1>1. /\ Writes(t, h) /\ UNCHANGED <<build, into, former, events>> /\ Named /\ Wrote
      /\ wears[t] = {} /\ wears' = [wears EXCEPT ![t] = {h}]
    BY DEF Add, Tables, Ranked
<1>2. wears'[t] = {h} /\ \A u \in Thing \ {t} : wears'[u] = wears[u]
    BY <1>1 DEF Named
<1>3. Wrote'
    BY <1>1, <1>2, WroteOne
<1>4. ~Merged(t)
    BY <1>1 DEF Tables, OfMade, Made
<1>5. PICK n \in Nat : \E rank : InOrder(n, rank)
    BY DEF Ranked
<1>6. PICK rank : InOrder(n, rank)
    BY <1>5
<1>7. \A x \in Thing : Merged(x) => wears'[x] = wears[x]
    BY <1>2, <1>4
<1>8. \A g : NamedBy(g) \subseteq NamedBy(g)'
    BY <1>1, <1>2 DEF NamedBy
<1>9. \A g : \A x \in Thing : Merged(x) /\ x \in NamedBy(g)' => x \in NamedBy(g)
    BY <1>1, <1>7 DEF NamedBy
<1>10. InOrder(n, rank)'
    BY <1>1, <1>6, <1>7, <1>8, <1>9, OrderStands
<1>11. QED
    BY <1>3, <1>10 DEF Ranked

LEMMA RenameKeepsOrder ==
    ASSUME Tables, Ranked, NEW t \in Thing, NEW h \in Handle, Rename(t, h)
    PROVE  Ranked'
<1>1. /\ Writes(t, h) /\ UNCHANGED <<build, events>> /\ Named /\ Wrote
      /\ ~Merged(t) /\ wears' = [wears EXCEPT ![t] = {h}]
      /\ into' = [r \in Thing |-> IF build = "new" /\ r \in Carried(t) THEN {h} ELSE into[r]]
    BY DEF Rename, Tables, Ranked
<1>2. wears'[t] = {h} /\ \A u \in Thing \ {t} : wears'[u] = wears[u]
    BY <1>1 DEF Named
<1>3. Wrote'
    BY <1>1, <1>2, WroteOne
<1>4. build = "old" => UNCHANGED into
    BY <1>1 DEF Named
<1>5. PICK n \in Nat : \E rank : InOrder(n, rank)
    BY DEF Ranked
<1>6. PICK rank : InOrder(n, rank)
    BY <1>5
<1>7. \A x \in Thing : Merged(x) => wears'[x] = wears[x]
    BY <1>1, <1>2
<1>8. PICK from \in wears[t] : former' = Append(former, [handle |-> from, badge |-> t])
    BY DEF Rename
<1> DEFINE last == Len(former) + 1
<1>9. /\ former \in Seq(Entry) /\ former' \in Seq(Entry)
      /\ Len(former') = last /\ Len(former) \in Nat
      /\ \A i \in 1 .. Len(former) : former'[i] = former[i]
      /\ former'[last].handle = from /\ former'[last].badge = t
    BY <1>1, <1>8, FormerAdded
<1>10. DOMAIN former = 1 .. Len(former) /\ DOMAIN former' = 1 .. last
    BY <1>9, LenProperties
<1>11. \A i \in 1 .. last : i \in 1 .. Len(former) \/ i = last
    BY <1>9
<1>12. last \in 1 .. last /\ \A i \in 1 .. Len(former) : i \in 1 .. last
    BY <1>9
<1> HIDE DEF last
<1>13. ASSUME NEW g PROVE NamedBy(g) \subseteq NamedBy(g)'
    <2> SUFFICES ASSUME NEW x \in NamedBy(g) PROVE x \in NamedBy(g)'
        OBVIOUS
    <2>1. CASE x \in Thing /\ g \in wears[x] /\ x # t
        BY <1>2, <2>1 DEF NamedBy
    <2>2. CASE x = t /\ g \in wears[t]
        <3>1. g = from
            BY <1>1, <1>8, <2>2 DEF Named, AtMostOne
        <3>2. QED
            BY <1>9, <1>10, <1>12, <2>2, <3>1 DEF NamedBy
    <2>3. CASE \E i \in DOMAIN former : former[i].handle = g /\ x = former[i].badge
        BY <1>9, <1>10, <1>12, <2>3 DEF NamedBy
    <2>4. QED
        BY <2>1, <2>2, <2>3 DEF NamedBy
<1>14. ASSUME NEW g, NEW x \in Thing, Merged(x), x \in NamedBy(g)' PROVE x \in NamedBy(g)
    <2>1. x # t
        BY <1>1, <1>14
    <2>2. CASE g \in wears'[x]
        BY <1>2, <2>1, <2>2 DEF NamedBy
    <2>3. CASE \E i \in DOMAIN former' : former'[i].handle = g /\ x = former'[i].badge
        BY <1>9, <1>10, <1>11, <2>1, <2>3 DEF NamedBy
    <2>4. QED
        BY <1>14, <2>2, <2>3 DEF NamedBy
<1>15. InOrder(n, rank)'
    BY <1>1, <1>4, <1>6, <1>7, <1>13, <1>14, OrderStands
<1>16. QED
    BY <1>3, <1>15 DEF Ranked

LEMMA SetProseKeepsOrder ==
    ASSUME Tables, Ranked, NEW t \in Thing, SetProse(t)
    PROVE  Ranked'
<1>1. PICK h \in wears[t] : Writes(t, h)
    BY DEF SetProse
<1>2. /\ h \in Handle /\ UNCHANGED <<build, wears, into, former, events>> /\ Named /\ Wrote
    BY DEF SetProse, Tables, Named, Ranked
<1>3. Wrote'
    BY <1>1, <1>2, WroteOne
<1>4. PICK n \in Nat : \E rank : InOrder(n, rank)
    BY DEF Ranked
<1>5. PICK rank : InOrder(n, rank)
    BY <1>4
<1>6. \A g : NamedBy(g)' = NamedBy(g)
    BY <1>2 DEF NamedBy
<1>7. InOrder(n, rank)'
    BY <1>1, <1>2, <1>5, <1>6, OrderStands
<1>8. QED
    BY <1>3, <1>7 DEF Ranked

LEMMA EditKeepsOrder ==
    ASSUME Tables, Ranked, NEW t \in Thing, Edit(t)
    PROVE  Ranked'
<1>1. PICK g \in wears[t] : Writes(t, g)
    BY DEF Edit
<1>2. /\ g \in Handle /\ UNCHANGED <<build, wears, former, events>> /\ Named /\ Wrote
      /\ Merged(t) /\ t \in Made
    BY DEF Edit, Tables, Named, OfMade, Ranked
<1>3. Wrote'
    BY <1>1, <1>2, WroteOne
<1>4. PICK n \in Nat : \E rank : InOrder(n, rank)
    BY DEF Ranked
<1>5. PICK rank : InOrder(n, rank)
    BY <1>4
<1>6. PICK to \in SUBSET Handle :
          /\ AtMostOne(to) /\ to # {} /\ into' = [into EXCEPT ![t] = to]
          /\ to = into[t] \/ \E s \in SurvivorOf(t) : to = wears[s]
    BY EditForwards
<1>7. into'[t] = to /\ \A r \in Thing \ {t} : into'[r] = into[r]
    BY <1>2, <1>6 DEF Named
<1>8. \A x \in Thing : Merged(x)' <=> Merged(x)
    BY <1>2, <1>6, <1>7 DEF Merged
<1>9. ASSUME build = "old" PROVE OldOrder(rank)'
    <2> SUFFICES ASSUME NEW r \in Thing, NEW h \in into'[r]
                 PROVE  Points(Early(rank, r), r, h)'
        BY DEF OldOrder
    <2>0. PICK early : early = Early(rank, r)
        OBVIOUS
    <2>1. Early(rank, r)' = early
        BY <1>8, <2>0 DEF Early
    <2>2. early \in SUBSET Made
        BY <2>0 DEF Early, Tables, OfMade
    <2>3. \A k \in into[r] : Points(early, r, k)
        BY <1>5, <1>9, <2>0 DEF InOrder, OldOrder
    <2>4. r \in Made
        BY <1>2, <1>7 DEF Tables, OfMade, Merged
    <2>5. Points(early, r, h)'
        <3>1. CASE h \in into[r]
            <4>1. NamedBy(h)' = NamedBy(h)
                BY <1>2 DEF NamedBy
            <4>2. QED
                BY <1>1, <1>2, <2>2, <2>3, <2>4, <3>1, <4>1, PointsKept DEF Made
        <3>2. CASE h \notin into[r]
            <4>1. r = t
                BY <1>7, <3>2
            <4>2. PICK s \in SurvivorOf(t) : h \in wears[s]
                BY <1>6, <1>7, <3>2, <4>1
            <4>3. ~Folded(t)
                BY <1>9, OldRests DEF Tables
            <4>4. PICK k \in into[t] : s \in WearerOf(k, Newest(t)) /\ s \in Thing
                BY <4>2, <4>3 DEF SurvivorOf
            <4>5. s \notin early
                BY <1>2, <2>2, <2>3, <4>1, <4>4, EditLater
            <4>6. QED
                BY <1>1, <1>2, <2>2, <4>1, <4>2, <4>4, <4>5, PointsAnew
        <3>3. QED
            BY <3>1, <3>2
    <2>6. QED
        BY <2>1, <2>5 DEF Points
<1>10. EventOrder(rank)'
    BY <1>2, <1>5 DEF InOrder, EventOrder
<1>11. InOrder(n, rank)'
    BY <1>2, <1>5, <1>9, <1>10 DEF InOrder
<1>12. QED
    BY <1>3, <1>11 DEF Ranked

\* The thing the old build folds comes after all it folded.
LEMMA MergeOldKeepsOrder ==
    ASSUME Tables, Ranked, NEW f \in Thing, NEW s \in Thing, MergeOld(f, s)
    PROVE  Ranked'
<1>1. PICK g \in wears[f] : Writes(f, g)
    BY DEF MergeOld, Forwards
<1>2. /\ g \in Handle /\ UNCHANGED <<build, wears, former, events>> /\ Named /\ Wrote /\ build = "old"
      /\ ~Merged(f) /\ ~Merged(s) /\ f # s /\ f \in Made /\ s \in Made
      /\ into' = [into EXCEPT ![f] = wears[s]]
    BY DEF MergeOld, MergeSides, Forwards, Tables, Named, Ranked
<1>3. Wrote'
    BY <1>1, <1>2, WroteOne
<1>4. PICK n \in Nat : \E rank : InOrder(n, rank)
    BY DEF Ranked
<1>5. PICK rank : InOrder(n, rank)
    BY <1>4
<1>6. into'[f] = wears[s] /\ \A r \in Thing \ {f} : into'[r] = into[r]
    BY <1>2 DEF Named
<1>7. Merged(f)' /\ \A x \in Thing \ {f} : Merged(x)' <=> Merged(x)
    BY <1>2, <1>6 DEF Merged, Made
<1> DEFINE later == [rank EXCEPT ![f] = n + 1]
<1>8. /\ rank \in [Thing -> 0 .. n] /\ later \in [Thing -> 0 .. n + 1]
      /\ later[f] = n + 1 /\ \A x \in Thing \ {f} : later[x] = rank[x]
    <2>1. rank \in [Thing -> 0 .. n] /\ \A x \in Thing : rank[x] \in 0 .. n + 1
        BY <1>5 DEF InOrder
    <2>2. QED
        BY <2>1
<1> HIDE DEF later
<1>9. OldOrder(later)'
    <2> SUFFICES ASSUME NEW r \in Thing, NEW h \in into'[r]
                 PROVE  Points(Early(later, r), r, h)'
        BY DEF OldOrder
    <2>1. CASE r = f
        <3>0. PICK early : early = {x \in Thing : Merged(x) \/ x = f}
            OBVIOUS
        <3>1. Early(later, f)' = early
            <4>1. \A x \in Thing : later[x] <= later[f]
                BY <1>8
            <4>2. QED
                BY <1>7, <3>0, <4>1 DEF Early
        <3>2. early \in SUBSET Made /\ s \in Thing \ early
            BY <1>2, <3>0 DEF Tables, OfMade
        <3>3. h \in wears[s]
            BY <1>6, <2>1
        <3>4. Points(early, f, h)'
            BY <1>1, <1>2, <3>2, <3>3, PointsAnew
        <3>5. QED
            BY <2>1, <3>1, <3>4 DEF Points
    <2>2. CASE r # f
        <3>0. PICK early : early = Early(rank, r)
            OBVIOUS
        <3>1. Early(later, r)' = early
            <4>1. later[r] = rank[r] /\ ~ (later[f] <= later[r])
                BY <1>8, <2>2
            <4>2. QED
                BY <1>2, <1>7, <1>8, <3>0, <4>1 DEF Early
        <3>2. early \in SUBSET Thing
            BY <3>0 DEF Early
        <3>3. h \in into[r] /\ r \in Made
            BY <1>6, <2>2 DEF Tables, OfMade, Merged
        <3>4. Points(early, r, h)
            BY <1>2, <1>5, <3>0, <3>3 DEF InOrder, OldOrder
        <3>5. NamedBy(h)' = NamedBy(h)
            BY <1>2 DEF NamedBy
        <3>6. Points(early, r, h)'
            BY <1>1, <1>2, <3>2, <3>3, <3>4, <3>5, PointsKept
        <3>7. QED
            BY <3>1, <3>6 DEF Points
    <2>3. QED
        BY <2>1, <2>2
<1>10. EventOrder(later)'
    BY <1>2 DEF EventOrder, Tables, Stored
<1>11. n + 1 \in Nat /\ InOrder(n + 1, later)'
    BY <1>8, <1>9, <1>10 DEF InOrder
<1>12. QED
    BY <1>3, <1>11 DEF Ranked

\* The thing a merge folds into comes after all.
LEMMA MergeKeepsOrder ==
    ASSUME Inv, Ranked, NEW f \in Thing, NEW s \in Thing, Merge(f, s)
    PROVE  Ranked'
<1>1. PICK g \in wears[f] : Writes(f, g)
    BY DEF Merge, Forwards
<1>2. /\ g \in Handle /\ UNCHANGED <<build, wears>> /\ Named /\ Wrote /\ build = "new"
    BY DEF Merge, Forwards, Inv, Tables, Named, Ranked
<1>3. Wrote'
    BY <1>1, <1>2, WroteOne
<1>4. PICK n \in Nat : \E rank : InOrder(n, rank)
    BY DEF Ranked
<1>5. PICK rank : InOrder(n, rank)
    BY <1>4
<1> DEFINE later == [rank EXCEPT ![s] = n + 1]
<1>6. /\ rank \in [Thing -> 0 .. n] /\ later \in [Thing -> 0 .. n + 1]
      /\ later[s] = n + 1 /\ \A x \in Thing \ {s} : later[x] = rank[x] /\ later[x] < n + 1
    <2>1. rank \in [Thing -> 0 .. n] /\ \A x \in Thing : rank[x] \in 0 .. n + 1 /\ rank[x] < n + 1
        BY <1>5 DEF InOrder
    <2>2. QED
        BY <2>1
<1> HIDE DEF later
<1>7. EventOrder(later)'
    <2>1. /\ f # s /\ ~Folded(s) /\ events' \in Seq(Event)
          /\ Len(events') = Len(events) + 1 /\ Len(events) \in Nat
          /\ \A i \in 1 .. Len(events) : events'[i] = events[i]
          /\ events'[Len(events) + 1] = [folded |-> f, survivor |-> s, ids |-> GivenIds(f, s)]
        BY EventAdded
    <2>2. events'[Len(events) + 1].folded = f /\ events'[Len(events) + 1].survivor = s
        BY <2>1
    <2> SUFFICES ASSUME NEW i \in 1 .. Len(events')
                 PROVE  later[events'[i].folded] < later[events'[i].survivor]
        BY DEF EventOrder
    <2>3. CASE i = Len(events) + 1
        BY <1>6, <2>1, <2>2, <2>3
    <2>4. CASE i \in 1 .. Len(events)
        <3>1. events[i] \in Event
            BY <2>4, ElementOfSeq DEF Inv, Tables, Stored
        <3>2. PICK t \in Thing : t = events[i].folded
            BY <3>1 DEF Event
        <3>3. PICK u \in Thing : u = events[i].survivor
            BY <3>1 DEF Event
        <3>4. t # s
            BY <2>1, <2>4, <3>2, LenProperties DEF Folded, FoldsOf, Inv, Tables, Stored
        <3>5. rank[t] < rank[u]
            BY <1>5, <2>4, <3>2, <3>3 DEF InOrder, EventOrder
        <3>6. later[t] < later[u]
            <4>1. CASE u = s
                BY <1>6, <3>4, <4>1
            <4>2. CASE u # s
                BY <1>6, <3>4, <3>5, <4>2
            <4>3. QED
                BY <4>1, <4>2
        <3>7. QED
            BY <2>1, <2>4, <3>2, <3>3, <3>6
    <2>5. QED
        BY <2>1, <2>3, <2>4
<1>8. n + 1 \in Nat /\ InOrder(n + 1, later)'
    BY <1>2, <1>6, <1>7 DEF InOrder
<1>9. QED
    BY <1>3, <1>8 DEF Ranked

\* The repair's events go from each thing to one folded after it, or to one
\* that was not folded.
LEMMA BootKeepsOrder ==
    ASSUME Tables, Ranked, Boot
    PROVE  Ranked'
<1>1. build = "old" /\ build' = "new" /\ UNCHANGED <<wears, into, former, writes, facts>>
    BY DEF Boot
<1>2. Wrote'
    BY <1>1 DEF Ranked, Wrote
<1>3. PICK n \in Nat : \E rank : InOrder(n, rank)
    BY DEF Ranked
<1>4. PICK rank : InOrder(n, rank)
    BY <1>3
<1>a. PICK later : later = [x \in Thing |-> IF Merged(x) THEN rank[x] ELSE n + 1]
    OBVIOUS
<1>5. /\ rank \in [Thing -> 0 .. n] /\ later \in [Thing -> 0 .. n + 1]
      /\ \A x \in Thing : Merged(x) => later[x] = rank[x] /\ later[x] < n + 1
      /\ \A x \in Thing : ~Merged(x) => later[x] = n + 1
    <2>1. rank \in [Thing -> 0 .. n] /\ \A x \in Thing : rank[x] \in 0 .. n + 1 /\ rank[x] < n + 1
        BY <1>4 DEF InOrder
    <2>2. QED
        BY <1>a, <2>1
<1>6. EventOrder(later)'
    <2> SUFFICES ASSUME NEW i \in 1 .. Len(events')
                 PROVE  later[events'[i].folded] < later[events'[i].survivor]
        BY DEF EventOrder
    <2>1. events'[i] \in Event
        BY Repaired, ElementOfSeq
    <2>2. PICK t \in Thing : t = events'[i].folded
        BY <2>1 DEF Event
    <2>3. PICK u \in Thing : u = events'[i].survivor
        BY <2>1 DEF Event
    <2>4. PICK h \in into[t] : h \in wears[u]
        BY <2>2, <2>3, Repaired
    <2>5. Merged(t)
        BY <2>4 DEF Merged
    <2>6. u \notin Early(rank, t)
        BY <1>1, <1>4, <2>4 DEF InOrder, OldOrder, Points
    <2>7. Merged(u) => rank[t] < rank[u]
        <3>1. rank[t] \in 0 .. n /\ rank[u] \in 0 .. n
            BY <1>5
        <3>2. Merged(u) => ~ (rank[u] <= rank[t])
            BY <2>6 DEF Early
        <3>3. QED
            BY <3>1, <3>2
    <2>8. later[t] < later[u]
        BY <1>5, <2>5, <2>7
    <2>9. QED
        BY <2>2, <2>3, <2>8
<1>7. n + 1 \in Nat /\ InOrder(n + 1, later)'
    BY <1>1, <1>5, <1>6 DEF InOrder
<1>8. QED
    BY <1>2, <1>7 DEF Ranked

\* Neither a capture nor a stuttering step tells in the order.
LEMMA OrderSame ==
    ASSUME Ranked, UNCHANGED <<build, wears, into, former, writes, events>>
    PROVE  Ranked'
<1>1. PICK n \in Nat : \E rank : InOrder(n, rank)
    BY DEF Ranked
<1>2. PICK rank : InOrder(n, rank)
    BY <1>1
<1>3. Wrote'
    BY DEF Ranked, Wrote
<1>4. EventOrder(rank)'
    BY <1>2 DEF InOrder, EventOrder
<1>5. ASSUME NEW early, NEW t, NEW h, Points(early, t, h) PROVE Points(early, t, h)'
    BY <1>5 DEF Points, NamedBy, Settled, Newest
<1>6. ASSUME build = "old" PROVE OldOrder(rank)'
    <2> SUFFICES ASSUME NEW t \in Thing, NEW h \in into[t]
                 PROVE  Points(Early(rank, t), t, h)'
        BY DEF OldOrder
    <2>1. PICK early : early = Early(rank, t)
        OBVIOUS
    <2>2. Early(rank, t)' = early
        BY <2>1 DEF Early, Merged
    <2>3. Points(early, t, h)'
        BY <1>2, <1>5, <1>6, <2>1 DEF InOrder, OldOrder
    <2>4. QED
        BY <2>2, <2>3 DEF Points
<1>7. InOrder(n, rank)'
    BY <1>2, <1>4, <1>6 DEF InOrder
<1>8. QED
    BY <1>3, <1>7 DEF Ranked

LEMMA OrderInvariance ==
    Spec => []Ranked
<1>1. Init => Ranked
    <2> SUFFICES ASSUME Init PROVE Ranked
        OBVIOUS
    <2>1. Wrote
        BY DEF Init, Wrote
    <2>2. PICK rank : rank = [t \in Thing |-> 0]
        OBVIOUS
    <2>3. rank \in [Thing -> 0 .. 0]
        BY <2>2
    <2>4. OldOrder(rank) /\ EventOrder(rank)
        BY DEF Init, OldOrder, EventOrder
    <2>5. InOrder(0, rank)
        BY <2>3, <2>4 DEF InOrder
    <2>6. QED
        BY <2>1, <2>5 DEF Ranked
<1>2. Inv /\ Ranked /\ [Next]_vars => Ranked'
    <2> SUFFICES ASSUME Inv, Ranked, [Next]_vars PROVE Ranked'
        OBVIOUS
    <2>1. Tables
        BY DEF Inv
    <2>2. ASSUME NEW t \in Thing, NEW h \in Handle, Add(t, h) \/ Rename(t, h)
          PROVE  Ranked'
        BY <2>1, <2>2, AddKeepsOrder, RenameKeepsOrder
    <2>3. ASSUME NEW f \in Thing, NEW s \in Thing, Merge(f, s) \/ MergeOld(f, s)
          PROVE  Ranked'
        BY <2>1, <2>3, MergeKeepsOrder, MergeOldKeepsOrder
    <2>4. ASSUME NEW t \in Thing, Edit(t) \/ SetProse(t)
          PROVE  Ranked'
        BY <2>1, <2>4, EditKeepsOrder, SetProseKeepsOrder
    <2>5. ASSUME NEW h \in Handle, Capture(h)
          PROVE  Ranked'
        BY <2>5, OrderSame DEF Capture
    <2>6. CASE Boot
        BY <2>1, <2>6, BootKeepsOrder
    <2>7. CASE UNCHANGED vars
        BY <2>7, OrderSame DEF vars
    <2>8. QED
        BY <2>2, <2>3, <2>4, <2>5, <2>6, <2>7 DEF Next
<1>3. QED
    BY <1>1, <1>2, Invariance, PTL DEF Spec

\* The walks of the events end: each step is to a higher rank, so a walk that
\* went on for as many steps as there are events would use one twice.
THEOREM WalksAllEnd ==
    Spec => []WalksEnd
<1>1. Inv /\ Ranked => WalksEnd
    <2> SUFFICES ASSUME Inv, Ranked, NEW t \in Thing
                 PROVE  LET walk[n \in 0 .. Len(events)] ==
                                IF n = 0 THEN t
                                ELSE IF Folded(walk[n - 1]) THEN events[Max(FoldsOf(walk[n - 1]))].survivor
                                ELSE walk[n - 1]
                        IN  ~Folded(walk[Len(events)])
        BY DEF WalksEnd
    <2>1. PICK m \in Nat : \E rank : InOrder(m, rank)
        BY DEF Ranked
    <2>2. PICK rank : InOrder(m, rank)
        BY <2>1
    <2> DEFINE L == Len(events)
               hop(x) == IF Folded(x) THEN events[Max(FoldsOf(x))].survivor ELSE x
               F(w) == [n \in 0 .. L |-> IF n = 0 THEN t ELSE hop(w[n - 1])]
               step == [x \in Thing |-> hop(x)]
               walk[n \in 0 .. L] == IF n = 0 THEN t ELSE hop(walk[n - 1])
    <2>3. events \in Seq(Event) /\ L \in Nat /\ DOMAIN events = 1 .. L
        BY LenProperties DEF Inv, Tables, Stored
    <2>4. ASSUME NEW x \in Thing, Folded(x)
          PROVE  /\ Max(FoldsOf(x)) \in 1 .. L /\ events[Max(FoldsOf(x))].folded = x
                 /\ hop(x) \in Thing /\ rank[x] < rank[hop(x)]
        <3>1. FoldsOf(x) \in SUBSET DOMAIN events /\ FoldsOf(x) # {}
            BY <2>4 DEF FoldsOf, Folded
        <3>2. Max(FoldsOf(x)) \in FoldsOf(x)
            BY <2>3, <3>1, Positions
        <3>3. Max(FoldsOf(x)) \in 1 .. L /\ events[Max(FoldsOf(x))].folded = x
            BY <2>3, <3>2 DEF FoldsOf
        <3>4. events[Max(FoldsOf(x))] \in Event
            BY <2>3, <3>3, ElementOfSeq
        <3>5. hop(x) = events[Max(FoldsOf(x))].survivor
            BY <2>4
        <3>6. hop(x) \in Thing
            BY <3>4, <3>5 DEF Event
        <3>7. rank[x] < rank[hop(x)]
            BY <2>2, <3>3, <3>5 DEF InOrder, EventOrder
        <3>8. QED
            BY <3>3, <3>6, <3>7
    <2>5. \A x \in Thing : hop(x) \in Thing /\ (~Folded(x) => hop(x) = x)
        BY <2>4
    <2> HIDE DEF hop
    <2>6. PICK v \in [0 .. L -> Thing] : v[0] = t /\ \A k \in 1 .. L : v[k] = step[v[k - 1]]
        <3>1. step \in [Thing -> Thing]
            BY <2>5
        <3> HIDE DEF step, L
        <3>2. Walkable(Thing, step, t, L)
            BY <2>3, <3>1, Iterates
        <3>3. QED
            BY <3>2 DEF Walkable
    <2> HIDE DEF L
    <2>7. v = F(v)
        <3>1. \A k \in 1 .. L : k - 1 \in 0 .. L
            BY <2>3
        <3>2. \A k \in 1 .. L : v[k] = hop(v[k - 1])
            BY <2>6, <3>1
        <3>3. \A n \in 0 .. L : v[n] = IF n = 0 THEN t ELSE hop(v[n - 1])
            BY <2>3, <2>6, <3>2
        <3>4. QED
            BY <2>6, <3>3
    <2>8. walk = F(walk)
        BY <2>7
    <2>9. (~Folded(walk[L])) <=>
              LET w[n \in 0 .. Len(events)] ==
                      IF n = 0 THEN t
                      ELSE IF Folded(w[n - 1]) THEN events[Max(FoldsOf(w[n - 1]))].survivor
                      ELSE w[n - 1]
              IN  ~Folded(w[Len(events)])
        BY DEF L, hop
    <2> HIDE DEF walk
    <2>10. walk[0] = t /\ \A n \in 1 .. L : walk[n] = hop(walk[n - 1])
        BY <2>3, <2>8
    <2>12. \A k \in Nat : k <= L => walk[k] \in Thing
        <3> DEFINE T == {k \in Nat : k <= L => walk[k] \in Thing}
        <3>1. 0 \in T
            BY <2>10
        <3>2. ASSUME NEW k \in Nat, k \in T PROVE k + 1 \in T
            <4>1. CASE k + 1 <= L
                <5>1. k <= L /\ k + 1 \in 1 .. L /\ (k + 1) - 1 = k
                    BY <2>3, <4>1
                <5>2. QED
                    BY <2>5, <2>10, <3>2, <5>1
            <4>2. QED
                BY <4>1
        <3> HIDE DEF T
        <3>3. Nat \subseteq T
            BY <3>1, <3>2, Induction
        <3>4. QED
            BY <3>3 DEF T
    \* At each point of a walk that goes on, it has climbed from every point
    \* before.
    <2> DEFINE Climbed(k) == Folded(walk[k]) =>
                    \A j \in 0 .. k - 1 : Folded(walk[j]) /\ rank[walk[j]] < rank[walk[k]]
               S == {k \in Nat : k <= L => Climbed(k)}
    <2>11. Nat \subseteq S
        <3>1. 0 \in S
            BY <2>10
        <3>2. ASSUME NEW k \in Nat, k \in S PROVE k + 1 \in S
            <4>1. CASE ~ (k + 1 <= L)
                BY <4>1
            <4>2. ASSUME k + 1 <= L
                  PROVE  Folded(walk[k + 1]) =>
                             \A j \in 0 .. k : Folded(walk[j]) /\ rank[walk[j]] < rank[walk[k + 1]]
                <5>1. walk[k] \in Thing /\ walk[k + 1] = hop(walk[k])
                    <6>1. k <= L /\ k + 1 \in 1 .. L /\ (k + 1) - 1 = k
                        BY <2>3, <4>2
                    <6>2. QED
                        BY <2>10, <2>12, <6>1
                <5>2. walk[k + 1] \in Thing
                    BY <2>5, <5>1
                <5>3. ASSUME Folded(walk[k + 1])
                      PROVE  \A j \in 0 .. k : Folded(walk[j]) /\ rank[walk[j]] < rank[walk[k + 1]]
                    <6>1. Folded(walk[k])
                        BY <2>5, <5>1, <5>3
                    <6>2. rank[walk[k]] < rank[walk[k + 1]]
                        BY <2>4, <5>1, <6>1
                    <6>3. \A j \in 0 .. k - 1 : Folded(walk[j]) /\ rank[walk[j]] < rank[walk[k]]
                        BY <2>3, <3>2, <4>2, <6>1
                    <6> SUFFICES ASSUME NEW j \in 0 .. k
                                 PROVE  Folded(walk[j]) /\ rank[walk[j]] < rank[walk[k + 1]]
                        OBVIOUS
                    <6>4. CASE j = k
                        BY <6>1, <6>2, <6>4
                    <6>5. CASE j \in 0 .. k - 1
                        <7>1. j <= L /\ j \in Nat
                            BY <2>3, <4>2
                        <7>2. rank \in [Thing -> 0 .. m]
                            BY <2>2 DEF InOrder
                        <7>3. walk[j] \in Thing
                            BY <2>12, <7>1
                        <7>4. rank[walk[j]] \in Nat /\ rank[walk[k]] \in Nat /\ rank[walk[k + 1]] \in Nat
                            BY <5>1, <5>2, <7>2, <7>3
                        <7>5. QED
                            BY <6>2, <6>3, <6>5, <7>4
                    <6>6. QED
                        BY <6>4, <6>5
                <5>4. QED
                    BY <5>3
            <4>3. (k + 1) - 1 = k
                OBVIOUS
            <4>4. QED
                BY <4>1, <4>2, <4>3
        <3> HIDE DEF S
        <3>3. QED
            BY <3>1, <3>2, Induction
    <2>13. ~Folded(walk[L])
        <3> SUFFICES ASSUME Folded(walk[L]) PROVE FALSE
            OBVIOUS
        <3>1. \A k \in 0 .. L : walk[k] \in Thing /\ Folded(walk[k])
            <4>1. \A k \in 0 .. L : k \in Nat /\ k <= L /\ (k = L \/ k \in 0 .. L - 1)
                BY <2>3
            <4>2. L \in S
                BY <2>3, <2>11
            <4>3. \A j \in 0 .. L - 1 : Folded(walk[j])
                BY <2>3, <4>2
            <4>4. QED
                BY <2>12, <4>1, <4>3
        <3>2. \A k \in 0 .. L : \A j \in 0 .. k - 1 : rank[walk[j]] < rank[walk[k]]
            <4>1. \A k \in 0 .. L : k \in S /\ k <= L
                BY <2>3, <2>11
            <4>2. QED
                BY <3>1, <4>1
        <3>3. PICK used : used = [k \in 0 .. L |-> Max(FoldsOf(walk[k]))]
            OBVIOUS
        <3>4. used \in [0 .. L -> 1 .. L]
            BY <2>4, <3>1, <3>3
        <3>5. /\ IsFiniteSet(0 .. L) /\ Cardinality(0 .. L) = L + 1
              /\ IsFiniteSet(1 .. L) /\ Cardinality(1 .. L) = L
            BY <2>3, FS_Interval
        <3>6. PICK x \in 0 .. L, y \in 0 .. L : x # y /\ used[x] = used[y]
            <4>1. Cardinality(1 .. L) < Cardinality(0 .. L)
                BY <2>3, <3>5
            <4>2. QED
                BY <3>4, <3>5, <4>1, FS_PigeonHole
        <3>7. walk[x] = walk[y]
            <4>1. events[used[x]].folded = walk[x] /\ events[used[y]].folded = walk[y]
                BY <2>4, <3>1, <3>3
            <4>2. QED
                BY <3>6, <4>1
        <3>8. rank[walk[x]] \in Nat
            BY <2>2, <3>1 DEF InOrder
        <3>9. x \in 0 .. y - 1 \/ y \in 0 .. x - 1
            BY <2>3, <3>6
        <3>10. QED
            BY <3>2, <3>7, <3>8, <3>9
    <2>14. QED
        BY <2>9, <2>13
<1>2. QED
    BY <1>1, Invariance, OrderInvariance, PTL

LEMMA OneAtMost ==
    ASSUME NEW S, AtMostOne(S)
    PROVE  Cardinality(S) <= 1
<1>1. CASE S = {}
    BY <1>1, FS_EmptySet
<1>2. ASSUME NEW x \in S PROVE Cardinality(S) <= 1
    <2>1. S = {x}
        BY DEF AtMostOne
    <2>2. Cardinality({x}) = 1
        BY FS_Singleton
    <2>3. QED
        BY <2>1, <2>2
<1>3. QED
    BY <1>1, <1>2

\* The rows, the events and the claims have their types: a handle is worn by
\* one thing, a row forwards by one handle, and no event folds a thing into
\* itself.
THEOREM TypeCorrect ==
    Spec => []TypeOK
<1>1. Inv /\ Ranked => TypeOK
    <2> SUFFICES ASSUME Inv, Ranked PROVE TypeOK
        OBVIOUS
    <2>1. Named /\ OfMade /\ Stored /\ FoldedMerged
        BY DEF Inv, Tables
    <2>2. \A t \in Thing : /\ wears[t] \subseteq Handle /\ Cardinality(wears[t]) <= 1
                           /\ into[t] \subseteq Handle /\ Cardinality(into[t]) <= 1
        BY <2>1, OneAtMost DEF Named
    <2>3. \A t, u \in Thing : wears[t] \cap wears[u] # {} => t = u
        BY <2>1 DEF Named
    <2>4. \A i \in DOMAIN former : former[i] \in [handle : Handle, badge : Made]
        <3> SUFFICES ASSUME NEW i \in 1 .. Len(former)
                     PROVE  former[i] \in [handle : Handle, badge : Made]
            BY <2>1, LenProperties DEF Named
        <3>1. former[i] \in Entry /\ former[i].badge \in Made
            BY <2>1, ElementOfSeq DEF Named, OfMade
        <3>2. QED
            BY <3>1 DEF Entry
    <2>5. \A i \in DOMAIN writes : writes[i] \in [handle : Handle, badge : Made]
        <3> SUFFICES ASSUME NEW i \in 1 .. Len(writes)
                     PROVE  writes[i] \in [handle : Handle, badge : Made]
            BY <2>1, LenProperties DEF Named
        <3>1. writes[i] \in Entry /\ writes[i].badge \in Made
            BY <2>1, ElementOfSeq DEF Named, OfMade
        <3>2. QED
            BY <3>1 DEF Entry
    <2>6. ASSUME NEW i \in DOMAIN events
          PROVE  events[i].folded \in Made /\ events[i].survivor \in Made \ {events[i].folded}
        <3>1. i \in 1 .. Len(events) /\ DOMAIN events = 1 .. Len(events)
            BY <2>1, LenProperties DEF Stored
        <3>2. events[i] \in Event
            BY <2>1, <3>1, ElementOfSeq DEF Stored
        <3>3. PICK t \in Thing : t = events[i].folded
            BY <3>2 DEF Event
        <3>4. Folded(t)
            BY <3>3 DEF Folded, FoldsOf
        <3>5. t \in Made /\ events[i].survivor \in Made
            BY <2>1, <3>1, <3>4 DEF FoldedMerged, OfMade
        <3>6. PICK n \in Nat : \E rank : InOrder(n, rank)
            BY DEF Ranked
        <3>7. PICK rank : InOrder(n, rank)
            BY <3>6
        <3>8. rank[t] \in 0 .. n /\ rank[t] < rank[events[i].survivor]
            BY <3>1, <3>3, <3>7 DEF InOrder, EventOrder
        <3>9. events[i].survivor # t
            BY <3>8
        <3>10. QED
            BY <3>3, <3>5, <3>9
    <2>7. QED
        BY <2>1, <2>2, <2>3, <2>4, <2>5, <2>6 DEF TypeOK, Named, Stored
<1>2. QED
    BY <1>1, Invariance, OrderInvariance, PTL
=============================================================================
