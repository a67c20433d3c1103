--------------------------- MODULE MigrateProofs ---------------------------
(* Proofs about the start's migrations, for every list of migrations and   *)
(* every number of crashes, refusals and lost answers.                     *)
(*                                                                         *)
(* A start issues the first version the ledger lacks, and no other, so a   *)
(* marker is of that version (MarkedNext).  A recorded version whose       *)
(* object was changed again is covered by the version that did it: one     *)
(* that is recorded, one whose answer was lost, or the marked one.  The    *)
(* marker may only be taken off by a start that has found the marked       *)
(* version not to stand, or whose own statement was refused; and such a    *)
(* marker covers nothing (Covered).                                        *)
EXTENDS Migrate, TLAPS

\* The ledger is a prefix of what the build ships.
Prefix == ledger \subseteq 1 .. ships /\ \A v \in ledger : 1 .. v \subseteq ledger

\* A marker is of the first version the ledger lacks.
MarkedNext ==
    \A w \in begun : w \in 1 .. ships /\ w \notin ledger /\ 1 .. w - 1 \subseteq ledger

\* The start has gone past what the ledger holds, and no further.
Walks ==
    /\ pc = "next" =>
        /\ 1 .. at - 1 \subseteq ledger /\ read.done \subseteq ledger
        /\ \A v \in ledger : v < at \/ v \in read.done
        /\ begun \subseteq read.begun
    /\ pc \in {"issue", "record", "clear"} =>
        /\ at <= ships /\ at \notin ledger /\ 1 .. at - 1 \subseteq ledger
        /\ read.done \subseteq ledger
        /\ pc = "issue" => at \in begun
        /\ pc = "record" => Reached(at)

\* A later version changed the object of version v again.
Covers(w, v) == w > v /\ Migrations[v].object \in Touches(w)

\* What is recorded stands or is covered, by a marker only when the marked
\* version stands and this start has not issued it.
Covered ==
    \A v \in ledger :
        \/ Reached(v)
        \/ \E w \in ledger \cup lost : Covers(w, v)
        \/ pc \notin {"issue", "clear"} /\ \E w \in begun : Covers(w, v) /\ Reached(w)

\* The invariant behind RecordedStands.
Inv == TypeOK /\ Prefix /\ MarkedNext /\ Walks /\ Covered

-----------------------------------------------------------------------------
(* What a version's change leaves of another.                              *)

LEMMA ReachedStays ==
    ASSUME NEW v, schema' = schema
    PROVE  Reached(v)' <=> Reached(v)
BY DEF Reached

LEMMA VersionFields ==
    ASSUME NEW v \in Versions
    PROVE  /\ Migrations[v] \in Migration
           /\ Migrations[v].stands \in BOOLEAN
           /\ Migrations[v].sets \subseteq Objects /\ Migrations[v].clears \subseteq Objects
           /\ Migrations[v].sets \cap Migrations[v].clears = {}
           /\ Migrations[v].stands => Migrations[v].object \in Migrations[v].sets
           /\ ~Migrations[v].stands => Migrations[v].object \in Migrations[v].clears
<1>1. Migrations[v] \in Migration
    BY MigrateAssumption DEF Versions
<1>2. /\ Migrations[v].sets \cap Migrations[v].clears = {}
      /\ Migrations[v].stands => Migrations[v].object \in Migrations[v].sets
      /\ ~Migrations[v].stands => Migrations[v].object \in Migrations[v].clears
    BY MigrateAssumption
<1>3. QED
    BY <1>1, <1>2 DEF Migration

\* The statement of a version leaves its change standing.
LEMMA EffectReaches ==
    ASSUME NEW v \in Versions, schema' = Effect(v)
    PROVE  Reached(v)'
<1>1. CASE Migrations[v].stands
    <2>1. (Migrations[v].object \in schema') = TRUE
        BY <1>1, VersionFields DEF Effect
    <2>2. Migrations[v].stands = TRUE
        BY <1>1, VersionFields
    <2>3. QED
        BY <2>1, <2>2, Zenon DEF Reached
<1>2. CASE ~Migrations[v].stands
    <2>1. (Migrations[v].object \in schema') = FALSE
        BY <1>2, VersionFields DEF Effect
    <2>2. Migrations[v].stands = FALSE
        BY <1>2, VersionFields
    <2>3. QED
        BY <2>1, <2>2, Zenon DEF Reached
<1>3. QED
    BY <1>1, <1>2

\* And every version whose object it does not touch as it was.
LEMMA EffectLeaves ==
    ASSUME NEW v, NEW w, schema' = Effect(w), Migrations[v].object \notin Touches(w)
    PROVE  Reached(v)' <=> Reached(v)
<1>1. Migrations[v].object \in schema' <=> Migrations[v].object \in schema
    BY DEF Effect, Touches
<1>2. QED
    BY <1>1 DEF Reached

\* What a serving build writes is the object of no version it ships.
LEMMA ServeLeaves ==
    ASSUME Serve, NEW v \in 1 .. ships
    PROVE  Reached(v)' <=> Reached(v)
<1>1. Migrations[v].object \in schema' <=> Migrations[v].object \in schema
    BY DEF Serve
<1>2. QED
    BY <1>1 DEF Reached

-----------------------------------------------------------------------------
(* One part of the invariant after another.                                *)

\* A start that ends leaves nothing behind in memory.
LEMMA DownTyped ==
    ASSUME ships \in 0 .. Len(Migrations), Down
    PROVE  /\ pc' = "down" /\ pc' \in Stages /\ at' = 1 /\ at' \in 1 .. ships + 1
           /\ read' \in [done : SUBSET Versions, begun : SUBSET Versions]
<1>1. Len(Migrations) \in Nat
    BY MigrateAssumption
<1>2. QED
    BY <1>1 DEF Down, Stages, Unread

\* The start keeps its types.
LEMMA TypeStep == Inv /\ [Next]_vars => TypeOK'
<1> SUFFICES ASSUME Inv, [Next]_vars PROVE TypeOK'
    OBVIOUS
<1> USE MigrateAssumption DEF Inv, TypeOK, Versions, Unread, Stages, Walks
<1>1. CASE Start
    BY <1>1 DEF Start, Stages
<1>2. CASE Skip
    BY <1>2 DEF Skip
<1>3. CASE Adopt
    BY <1>3 DEF Adopt
<1>4. CASE Mark
    <2>1. at \in Versions /\ faults' \in 0 .. MaxFaults
        BY <1>4 DEF Mark, Fault
    <2>2. begun' \subseteq Versions
        BY <1>4, <2>1 DEF Mark
    <2>3. CASE Down
        BY <1>4, <2>1, <2>2, <2>3, DownTyped DEF Mark
    <2>4. CASE pc' = "issue" /\ UNCHANGED <<at, read, faults>>
        BY <1>4, <2>2, <2>4 DEF Mark, Stages
    <2>5. QED
        BY <1>4, <2>3, <2>4 DEF Mark
<1>5. CASE Issue
    <2>1. /\ at \in Versions /\ schema' \in {schema, Effect(at)} /\ lost' \in {lost, lost \cup {at}}
          /\ pc' \in Stages /\ faults' \in {faults, faults + 1} /\ (faults' # faults => faults < MaxFaults)
        BY <1>5 DEF Issue, Fault, Stages, Walks
    <2>2. schema' \subseteq Objects
        BY <2>1, VersionFields DEF Effect
    <2>3. QED
        BY <1>5, <2>1, <2>2 DEF Issue
<1>6. CASE Clear
    <2>1. faults' = faults \/ (faults < MaxFaults /\ faults' = faults + 1)
        BY <1>6 DEF Clear, Fault
    <2>2. faults' \in 0 .. MaxFaults
        BY <2>1
    <2>3. begun' \subseteq Versions
        BY <1>6 DEF Clear
    <2>4. QED
        BY <1>6, <2>2, <2>3, DownTyped DEF Clear
<1>7. CASE Record
    <2>1. at \in Versions /\ faults' \in 0 .. MaxFaults /\ at <= ships /\ at \in Nat
        BY <1>7 DEF Record, Fault
    <2>2. begun' \subseteq Versions /\ ledger' \subseteq Versions
        BY <1>7, <2>1 DEF Record
    <2>3. CASE Down
        BY <1>7, <2>1, <2>2, <2>3, DownTyped DEF Record
    <2>4. CASE pc' = "next" /\ at' = at + 1 /\ read' = read
        BY <1>7, <2>1, <2>2, <2>4 DEF Record, Stages
    <2>5. QED
        BY <1>7, <2>3, <2>4 DEF Record
<1>8. CASE Finish
    BY <1>8 DEF Finish
<1>9. CASE Crash
    BY <1>9, DownTyped DEF Crash, Fault
<1>10. CASE Deploy
    <2>1. ships' \in 0 .. Len(Migrations) /\ ships' \in Nat
        BY <1>10 DEF Deploy
    <2>2. /\ pc' = "down" /\ at' = 1 /\ read' \in [done : SUBSET Versions, begun : SUBSET Versions]
        BY <1>10, DownTyped DEF Deploy
    <2>3. \A n \in Nat : 1 \in 1 .. n + 1
        OBVIOUS
    <2>4. at' \in 1 .. ships' + 1
        BY <2>1, <2>2, <2>3
    <2>5. pc' \in Stages
        BY <2>2 DEF Stages
    <2>6. QED
        BY <1>10, <2>1, <2>2, <2>4, <2>5 DEF Deploy
<1>11. CASE Serve
    BY <1>11 DEF Serve, Stages
<1>12. CASE UNCHANGED vars
    BY <1>12 DEF vars
<1>13. QED
    BY <1>1, <1>2, <1>3, <1>4, <1>5, <1>6,
     <1>7, <1>8, <1>9, <1>10, <1>11, <1>12
  DEF Next, Run

\* A version is recorded after every one before it.
LEMMA PrefixStep == Inv /\ [Next]_vars => Prefix'
<1> SUFFICES ASSUME Inv, [Next]_vars PROVE Prefix'
    OBVIOUS
<1> USE DEF Inv, TypeOK, Versions, Prefix, Walks
<1>1. CASE Start
    BY <1>1 DEF Start
<1>2. CASE Skip
    BY <1>2 DEF Skip
<1>3. CASE Adopt
    BY <1>3 DEF Adopt
<1>4. CASE Mark
    BY <1>4 DEF Mark, Fault, Down
<1>5. CASE Issue
    BY <1>5 DEF Issue, Fault
<1>6. CASE Clear
    BY <1>6 DEF Clear, Fault, Down
<1>7. CASE Record
    <2>1. PICK a \in 1 .. ships : a = at
        BY <1>7 DEF Record
    <2>2. 1 .. a - 1 \subseteq ledger /\ ships' = ships /\ ledger' \in {ledger, ledger \cup {a}}
        BY <1>7, <2>1 DEF Record
    <2>3. QED
        BY <2>1, <2>2
<1>8. CASE Finish
    BY <1>8 DEF Finish
<1>9. CASE Crash
    BY <1>9 DEF Crash, Fault, Down
<1>10. CASE Deploy
    BY <1>10 DEF Deploy, Down
<1>11. CASE Serve
    BY <1>11 DEF Serve
<1>12. CASE UNCHANGED vars
    BY <1>12 DEF vars
<1>13. QED
    BY <1>1, <1>2, <1>3, <1>4, <1>5, <1>6,
     <1>7, <1>8, <1>9, <1>10, <1>11, <1>12
  DEF Next, Run

\* A version is marked when it is the next.
LEMMA MarkedStep == Inv /\ [Next]_vars => MarkedNext'
<1> SUFFICES ASSUME Inv, [Next]_vars PROVE MarkedNext'
    OBVIOUS
<1> USE DEF Inv, TypeOK, Versions, Prefix, MarkedNext, Walks
<1>1. CASE Start
    BY <1>1 DEF Start
<1>2. CASE Skip
    BY <1>2 DEF Skip
<1>3. CASE Adopt
    BY <1>3 DEF Adopt
<1>4. CASE Mark
    <2>1. at \in 1 .. ships /\ at \notin ledger /\ 1 .. at - 1 \subseteq ledger
        BY <1>4 DEF Mark
    <2>2. ships' = ships /\ ledger' = ledger /\ begun' \subseteq begun \cup {at}
        BY <1>4 DEF Mark
    <2>3. QED
        BY <2>1, <2>2
<1>5. CASE Issue
    BY <1>5 DEF Issue, Fault
<1>6. CASE Clear
    BY <1>6 DEF Clear, Fault, Down
<1>7. CASE Record
    BY <1>7 DEF Record, Fault, Down
<1>8. CASE Finish
    BY <1>8 DEF Finish
<1>9. CASE Crash
    BY <1>9 DEF Crash, Fault, Down
<1>10. CASE Deploy
    BY <1>10 DEF Deploy, Down
<1>11. CASE Serve
    BY <1>11 DEF Serve
<1>12. CASE UNCHANGED vars
    BY <1>12 DEF vars
<1>13. QED
    BY <1>1, <1>2, <1>3, <1>4, <1>5, <1>6,
     <1>7, <1>8, <1>9, <1>10, <1>11, <1>12
  DEF Next, Run

\* A start goes past what is recorded, and no further.
LEMMA WalksStep == Inv /\ [Next]_vars => Walks'
<1> SUFFICES ASSUME Inv, [Next]_vars PROVE Walks'
    OBVIOUS
<1> USE DEF Inv, TypeOK, Versions, Unread, Prefix, MarkedNext, Walks
<1>1. CASE Start
    BY <1>1 DEF Start
<1>2. CASE Skip
    BY <1>2 DEF Skip
<1>3. CASE Adopt
    BY <1>3 DEF Adopt, Adopts, Reached
<1>4. CASE Mark
    BY <1>4 DEF Mark, Fault, Down
<1>5. CASE Issue
    <2>1. PICK a \in Versions : a = at
        BY <1>5 DEF Issue
    <2>2. schema' = Effect(a) => Reached(a)'
        BY EffectReaches
    <2>3. pc' = "record" => Reached(at)'
        BY <1>5, <2>1, <2>2 DEF Issue, Reached
    <2>4. QED
        BY <1>5, <2>3 DEF Issue, Fault
<1>6. CASE Clear
    BY <1>6 DEF Clear, Fault, Down
<1>7. CASE Record
    <2>1. /\ at \in 1 .. ships /\ at \notin ledger /\ 1 .. at - 1 \subseteq ledger
          /\ ledger \subseteq 1 .. ships /\ read.done \subseteq ledger
          /\ \A v \in ledger : v < at
        BY <1>7 DEF Record
    <2>2. CASE pc' = "down"
        BY <2>2
    <2>3. CASE pc' = "next"
        <3>1. /\ ledger' = ledger \cup {at} /\ begun' = begun \ {at} /\ at' = at + 1
              /\ ships' = ships /\ pc' = "next"
            BY <1>7, <2>3 DEF Record, Down
        <3>2. begun' = {}
            BY <2>1, <3>1
        <3>3. read' = read \/ read' = Unread
            BY <1>7 DEF Record, Down
        <3>4. read'.done \subseteq ledger' /\ \A v \in ledger' : v < at'
            BY <2>1, <3>1, <3>3
        <3>5. QED
            BY <2>1, <3>1, <3>2, <3>4
    <2>4. QED
        BY <1>7, <2>2, <2>3 DEF Record, Down
<1>8. CASE Finish
    BY <1>8 DEF Finish
<1>9. CASE Crash
    BY <1>9 DEF Crash, Fault, Down
<1>10. CASE Deploy
    BY <1>10 DEF Deploy, Down
<1>11. CASE Serve
    BY <1>11 DEF Serve
<1>12. CASE UNCHANGED vars
    BY <1>12 DEF vars, Reached
<1>13. QED
    BY <1>1, <1>2, <1>3, <1>4, <1>5, <1>6,
     <1>7, <1>8, <1>9, <1>10, <1>11, <1>12
  DEF Next, Run

\* What is recorded stands or is covered after every step.
LEMMA CoveredStep == Inv /\ [Next]_vars => Covered'
<1> SUFFICES ASSUME Inv, [Next]_vars PROVE Covered'
    OBVIOUS
<1>a. TypeOK /\ Prefix /\ MarkedNext /\ Walks /\ Covered
    BY DEF Inv
<1>b. ASSUME NEW v PROVE schema' = schema => (Reached(v)' <=> Reached(v))
    BY ReachedStays
<1>c. ASSUME UNCHANGED <<schema, ledger, begun, lost>>,
             pc' \notin {"issue", "clear"} \/ pc' = pc
      PROVE  Covered'
    BY <1>a, <1>b, <1>c DEF Covered
<1> USE DEF Stages
<1>1. CASE Start
    BY <1>1, <1>c DEF Start
<1>2. CASE Skip
    BY <1>2, <1>c DEF Skip
<1>3. CASE Adopt
    BY <1>3, <1>c DEF Adopt
<1>4. CASE Mark
    <2>1. \A w \in begun : w = at /\ ~Reached(w)
        <3>1. ASSUME NEW w \in begun PROVE w = at
            BY <1>4, <1>a, <3>1 DEF Mark, MarkedNext, Walks, TypeOK, Versions
        <3>2. ASSUME at \in begun PROVE ~Reached(at)
            BY <1>4, <1>a, <3>2 DEF Mark, Walks, Adopts, Interrupted
        <3>3. QED
            BY <3>1, <3>2
    <2>2. \A v \in ledger : Reached(v) \/ \E w \in ledger \cup lost : Covers(w, v)
        BY <1>a, <2>1 DEF Covered
    <2>3. UNCHANGED <<schema, ledger, lost>>
        BY <1>4 DEF Mark
    <2>4. QED
        BY <2>2, <2>3, ReachedStays DEF Covered
<1>5. CASE Issue
    <2>1. PICK a \in Versions : a = at
        BY <1>5, <1>a DEF Issue, Walks, TypeOK, Versions
    <2>2. /\ ledger' = ledger /\ begun' = begun /\ lost \subseteq lost' /\ a \in begun
          /\ \A v \in ledger : v < a
        BY <1>5, <1>a, <2>1 DEF Issue, Walks, Prefix, TypeOK, Versions
    <2>3. \A v \in ledger : Reached(v) \/ \E w \in ledger \cup lost : Covers(w, v)
        BY <1>5, <1>a DEF Covered, Issue
    <2>4. CASE schema' = schema
        BY <2>2, <2>3, <2>4, ReachedStays DEF Covered
    <2>5. CASE schema' = Effect(a) /\ (pc' = "record" \/ a \in lost')
        <3> SUFFICES ASSUME NEW v \in ledger
                     PROVE  \/ Reached(v)'
                            \/ \E w \in ledger \cup lost' : Covers(w, v)
                            \/ pc' = "record" /\ \E w \in begun : Covers(w, v) /\ Reached(w)'
            BY <2>2 DEF Covered
        <3>1. CASE Migrations[v].object \in Touches(a)
            <4>1. Covers(a, v) /\ Reached(a)'
                BY <2>2, <2>5, <3>1, EffectReaches DEF Covers
            <4>2. QED
                BY <2>2, <2>5, <4>1
        <3>2. CASE Migrations[v].object \notin Touches(a)
            BY <2>2, <2>3, <2>5, <3>2, EffectLeaves
        <3>3. QED
            BY <3>1, <3>2
    <2>6. QED
        BY <1>5, <2>1, <2>4, <2>5 DEF Issue
<1>6. CASE Clear
    <2>1. \A v \in ledger : Reached(v) \/ \E w \in ledger \cup lost : Covers(w, v)
        BY <1>6, <1>a DEF Covered, Clear
    <2>2. UNCHANGED <<schema, ledger, lost>>
        BY <1>6 DEF Clear
    <2>3. QED
        BY <2>1, <2>2, ReachedStays DEF Covered
<1>7. CASE Record
    <2>1. PICK a \in Versions : a = at
        BY <1>7, <1>a DEF Record, Walks, TypeOK, Versions
    <2>2. /\ schema' = schema /\ lost' = lost /\ pc = "record" /\ Reached(a)
          /\ \A w \in begun : w = a
        BY <1>7, <1>a, <2>1 DEF Record, Walks, MarkedNext, TypeOK, Versions
    <2>3. CASE ledger' = ledger /\ begun' = begun
        BY <1>7, <1>a, <2>2, <2>3, ReachedStays DEF Covered, Record, Fault, Down
    <2>4. CASE ledger' = ledger \cup {a}
        <3>1. Reached(a)'
            BY <2>2, ReachedStays
        <3>2. ASSUME NEW v \in ledger
              PROVE  Reached(v)' \/ \E w \in ledger' \cup lost' : Covers(w, v)
            BY <1>a, <2>2, <2>4, ReachedStays DEF Covered
        <3>3. QED
            BY <2>4, <3>1, <3>2 DEF Covered
    <2>5. QED
        BY <1>7, <2>1, <2>3, <2>4 DEF Record
<1>8. CASE Finish
    BY <1>8, <1>c DEF Finish
<1>9. CASE Crash
    BY <1>9, <1>a, ReachedStays DEF Crash, Down, Covered
<1>10. CASE Deploy
    BY <1>10, <1>c DEF Deploy, Down
<1>11. CASE Serve
    <2>1. ledger \subseteq 1 .. ships /\ begun \subseteq 1 .. ships
        BY <1>a DEF Prefix, MarkedNext
    <2>2. /\ \A v \in ledger : Reached(v)' <=> Reached(v)
          /\ \A v \in begun : Reached(v)' <=> Reached(v)
        BY <1>11, <2>1, ServeLeaves
    <2>3. UNCHANGED <<ledger, begun, lost, pc>>
        BY <1>11 DEF Serve
    <2>4. QED
        BY <1>a, <2>2, <2>3 DEF Covered
<1>12. CASE UNCHANGED vars
    BY <1>12, <1>c DEF vars
<1>13. QED
    BY <1>1, <1>2, <1>3, <1>4, <1>5, <1>6,
     <1>7, <1>8, <1>9, <1>10, <1>11, <1>12
  DEF Next, Run

-----------------------------------------------------------------------------
(* The theorems.                                                           *)

\* The invariant, for every list of migrations.
THEOREM Invariance == Spec => []Inv
<1>1. Init => Inv
    <2> SUFFICES ASSUME Init PROVE Inv
        OBVIOUS
    <2>1. PICK old \in OldStores : ledger = old.ledger /\ schema = old.schema
        BY DEF Init
    <2>2. /\ ledger \subseteq Versions /\ schema \subseteq Objects
          /\ begun = {} /\ pc = "down" /\ at = 1 /\ read = Unread /\ faults = 0 /\ lost = {}
          /\ ships \in 0 .. Len(Migrations) /\ \A v \in ledger : v <= ships
        BY <2>1, MigrateAssumption DEF Init
    <2>3. TypeOK
        BY <2>2, MigrateAssumption DEF TypeOK, Stages, Unread
    <2>4. Prefix
        BY <2>1, <2>2, OldStoresAssumption DEF Prefix, Versions
    <2>5. MarkedNext /\ Walks
        BY <2>2 DEF MarkedNext, Walks
    <2>6. Covered
        BY <2>1, <2>2, OldStoresAssumption DEF Covered, Covers, Reached, Touches
    <2>7. QED
        BY <2>3, <2>4, <2>5, <2>6 DEF Inv
<1>2. Inv /\ [Next]_vars => Inv'
    BY TypeStep, PrefixStep, MarkedStep, WalksStep, CoveredStep DEF Inv
<1>3. QED
    BY <1>1, <1>2, PTL DEF Spec

\* The ledger, the markers and the start keep their types.
THEOREM TypeCorrect == Spec => []TypeOK
<1>1. Inv => TypeOK
    BY DEF Inv
<1>2. QED
    BY <1>1, Invariance, PTL

\* What the ledger records stands, but where a later version changed it again.
THEOREM LedgerIsTrue == Spec => []RecordedStands
<1>1. Inv => RecordedStands
    BY DEF Inv, Covered, Covers, RecordedStands
<1>2. QED
    BY <1>1, Invariance, PTL
=============================================================================
