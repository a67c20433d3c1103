------------------------------- MODULE Things -------------------------------
(* The names of things, and where their claims are served after a merge.   *)
(*                                                                         *)
(* A thing is stored under a badge that never changes and answers to a     *)
(* handle, which a rename moves and another thing may then take.  A merge  *)
(* moves no row: its event says which thing was folded into which, and     *)
(* which id each claim the folded thing serves has on the survivor.  The   *)
(* folded row stays, and names the survivor by handle (merged_into).       *)
(*                                                                         *)
(* A store may come from a build that kept no merge events and whose       *)
(* renames left forwarding rows behind; the start that follows writes the  *)
(* events it finds missing.                                                *)
(*                                                                         *)
(* Every operation is one transaction of the owner, so one step here.      *)
(* Parents, fields and the guards on near names are left out: each can     *)
(* only refuse an operation this module offers.                            *)
EXTENDS Naturals, Sequences, SequencesExt, FiniteSetsExt

CONSTANTS
    Thing,       \* the badges
    Handle,
    MaxWrites,   \* bound: writes of entity rows, one per operation on a row
    MaxClaims    \* bound: claims captured under one badge

ASSUME ThingsAssumption == IsFiniteSet(Thing) /\ MaxWrites \in Nat /\ MaxClaims \in Nat

VARIABLES
    build,    \* "old": before merge events; "new": this build
    wears,    \* the handle of each thing's row, a set: {} before it is made
    into,     \* merged_into: a set of one handle, {} for a thing of its own
    former,   \* entity_former_handle, oldest first
    writes,   \* entity_write, oldest first: a position is a moment
    events,   \* merge_event, oldest first
    facts     \* the ids of the claims stored under each badge

vars == <<build, wears, into, former, writes, events, facts>>

Made == {t \in Thing : wears[t] # {}}
Worn == UNION {wears[t] : t \in Thing}
Merged(t) == into[t] # {}

Highest(ids) == IF ids = {} THEN 0 ELSE Max(ids)

TypeOK ==
    /\ build \in {"old", "new"}
    /\ \A t \in Thing :
        /\ wears[t] \subseteq Handle /\ Cardinality(wears[t]) <= 1
        /\ into[t] \subseteq Handle /\ Cardinality(into[t]) <= 1
    /\ \A t, u \in Thing : wears[t] \cap wears[u] # {} => t = u
    /\ \A i \in DOMAIN former : former[i] \in [handle : Handle, badge : Made]
    /\ \A i \in DOMAIN writes : writes[i] \in [handle : Handle, badge : Made]
    /\ \A i \in DOMAIN events :
        events[i].folded \in Made /\ events[i].survivor \in Made \ {events[i].folded}
    /\ facts \in [Thing -> SUBSET Nat]

Init ==
    /\ build \in {"old", "new"}
    /\ wears = [t \in Thing |-> {}] /\ into = [t \in Thing |-> {}]
    /\ former = <<>> /\ writes = <<>> /\ events = <<>>
    /\ facts = [t \in Thing |-> {}]

-----------------------------------------------------------------------------
\* What a name means.

\* Mutant: the first to leave it answers.
FirstToLeave(h) ==
    LET left == {i \in DOMAIN former : former[i].handle = h}
    IN  IF left = {} THEN {} ELSE {former[Min(left)].badge}

\* The thing that left the handle last.
LastToLeave(h) ==
    LET left == {i \in DOMAIN former : former[i].handle = h}
    IN  IF left = {} THEN {} ELSE {former[Max(left)].badge}

\* The thing a handle names: the one that wears it, else the last to leave it.
Resolve(h) == IF h \in Worn THEN {t \in Thing : h \in wears[t]} ELSE LastToLeave(h)

Newest(t) == Max({i \in DOMAIN writes : writes[i].badge = t})

\* The thing a forwarding row means by the handle it names: the only one that
\* ever wore it, or, where a second wears it now, the one that wore it when
\* the row was folded.  Empty where that cannot be told.
WearerOf(h, foldedAt) ==
    LET now   == {t \in Thing : h \in wears[t]}
        named == now \cup {former[i].badge : i \in {j \in DOMAIN former : former[j].handle = h}}
        gone  == named \ now
        others(t) == (wears[t] \cup {former[i].handle :
                        i \in {j \in DOMAIN former : former[j].badge = t}}) \ {h}
        leftAt(t) == Min({i \in DOMAIN writes :
                            writes[i].badge = t /\ writes[i].handle \in others(t)})
    IN  IF Cardinality(named) <= 1 THEN named
        ELSE IF now = {} \/ Cardinality(gone) > 1 THEN {}
        ELSE UNION {IF Cardinality(others(t)) > 1 THEN {}
                    ELSE IF foldedAt < leftAt(t) THEN gone ELSE now : t \in gone}

\* The events that folded a thing, and the newest of them.
FoldsOf(t) == {i \in DOMAIN events : events[i].folded = t}
Folded(t) == FoldsOf(t) # {}

\* One hop from a merged thing: by its event, else by its forwarding row.
SurvivorOf(t) ==
    IF Folded(t) THEN {events[Max(FoldsOf(t))].survivor}
    ELSE {s \in Thing \ {t} : \E h \in into[t] : s \in WearerOf(h, Newest(t))}

\* Where a claim's address went: the newest event that lists it, and on.
ClaimStep(a) ==
    LET lists == {i \in FoldsOf(a.home) : a.id \in DOMAIN events[i].ids}
        e     == events[Max(lists)]
    IN  IF lists = {} THEN a ELSE [home |-> e.survivor, id |-> e.ids[a.id]]

ClaimEnd(a) ==
    LET walk[n \in 0 .. Len(events)] == IF n = 0 THEN a ELSE ClaimStep(walk[n - 1])
    IN  walk[Len(events)]

Claims == UNION {{[home |-> t, id |-> i] : i \in facts[t]} : t \in Thing}

\* Mutant: only what is stored under the thing's own badge.
StoredIds(t) == IF Folded(t) THEN {} ELSE facts[t]

\* What a read of the thing serves: its own claims, and those folded into it.
\* A thing an event folded serves none.
ServedIds(t) ==
    IF Folded(t) THEN {} ELSE {a.id : a \in {ClaimEnd(c) : c \in {d \in Claims : ClaimEnd(d).home = t}}}

-----------------------------------------------------------------------------
\* The operations.

Writes(t, h) ==
    /\ Len(writes) < MaxWrites
    /\ writes' = Append(writes, [handle |-> h, badge |-> t])

\* The guard refuses a handle some row wears, a folded row's included, and
\* lets one a rename freed be taken.
Add(t, h) ==
    /\ wears[t] = {} /\ h \notin Worn
    /\ wears' = [wears EXCEPT ![t] = {h}]
    /\ Writes(t, h)
    /\ UNCHANGED <<build, into, former, events, facts>>

\* The forwarding rows that meant the thing by the handle it is leaving.
Carried(t) ==
    {r \in Thing : into[r] # {} /\ into[r] = wears[t]
                   /\ \A h \in wears[t] : WearerOf(h, Newest(r)) = {t}}

Rename(t, h) ==
    /\ t \in Made /\ ~Merged(t) /\ h \notin Worn
    /\ wears' = [wears EXCEPT ![t] = {h}]
    /\ into' = [r \in Thing |-> IF build = "new" /\ r \in Carried(t) THEN {h} ELSE into[r]]
    /\ \E from \in wears[t] : former' = Append(former, [handle |-> from, badge |-> t])
    /\ Writes(t, h)
    /\ UNCHANGED <<build, events, facts>>

\* The ids a merge gives on the survivor, in the order of the ids it takes,
\* and after them the id of the account it writes there.
GivenIds(f, s) ==
    LET moving == ServedIds(f)
    IN  [i \in moving |-> Highest(facts[s]) + Cardinality({j \in moving : j <= i})]
\* Mutant: the account takes the first free id, the claims' ids follow it.
AccountFirst(f, s) == Highest(facts[s]) + 1
AccountId(f, s) == Highest(facts[s]) + Cardinality(ServedIds(f)) + 1

\* Mutant: only the folded side is asked whether it was merged.
SurvivorUnasked(f, s) == f \in Made /\ s \in Made /\ f # s /\ ~Merged(f)

MergeSides(f, s) == f \in Made /\ s \in Made /\ f # s /\ ~Merged(f) /\ ~Merged(s)

\* The folded row starts forwarding, and its own write says when.
Forwards(f, s) ==
    /\ into' = [into EXCEPT ![f] = wears[s]]
    /\ \E h \in wears[f] : Writes(f, h)

Merge(f, s) ==
    /\ build = "new" /\ MergeSides(f, s)
    /\ facts' = [facts EXCEPT ![s] = @ \cup {AccountId(f, s)}]
    /\ events' = Append(events, [folded |-> f, survivor |-> s, ids |-> GivenIds(f, s)])
    /\ Forwards(f, s)
    /\ UNCHANGED <<build, wears, former>>

\* The old build moved the claims and kept no event.
MergeOld(f, s) ==
    /\ build = "old" /\ MergeSides(f, s)
    /\ facts' = [facts EXCEPT ![f] = {},
                              ![s] = @ \cup Range(GivenIds(f, s)) \cup {AccountId(f, s)}]
    /\ Forwards(f, s)
    /\ UNCHANGED <<build, wears, former, events>>

\* An edit writes the row as it was read: merged_into is the survivor's handle
\* of the day where the fold can be placed.  (bound: edits of folded rows, as
\* the moment another row is written again at is one nothing reads)
Edit(t) ==
    /\ Merged(t)
    /\ into' = [into EXCEPT ![t] = IF SurvivorOf(t) # {}
                                   THEN UNION {wears[s] : s \in SurvivorOf(t)} ELSE @]
    /\ \E h \in wears[t] : Writes(t, h)
    /\ UNCHANGED <<build, wears, former, events, facts>>

\* A rewrite of the prose leaves the other columns, and is a write of the row
\* (bound: as for an edit).
SetProse(t) ==
    /\ Merged(t)
    /\ \E h \in wears[t] : Writes(t, h)
    /\ UNCHANGED <<build, wears, into, former, events, facts>>

\* The next id after the highest a row holds under the badge.
Mint(t) == Highest(facts[t]) + 1

\* A claim is filed under the badge its subject's handle resolves to, a folded
\* thing's included.
Capture(h) ==
    \E t \in Resolve(h) :
        /\ Cardinality(facts[t]) < MaxClaims
        /\ facts' = [facts EXCEPT ![t] = @ \cup {Mint(t)}]
        /\ UNCHANGED <<build, wears, into, former, writes, events>>

\* The repair of old merges: an event for each forwarding row without one, to
\* the thing that wears the handle the row names.
OldMerges == {t \in Thing : Merged(t) /\ ~Folded(t) /\ into[t] \subseteq Worn}
RepairedSurvivor(t) == CHOOSE s \in Thing : into[t] = wears[s]
Boot ==
    /\ build = "old" /\ build' = "new"
    /\ \E order \in SetToSeqs(OldMerges) :
        events' = [i \in DOMAIN order |->
            [folded |-> order[i], survivor |-> RepairedSurvivor(order[i]), ids |-> <<>>]]
    /\ UNCHANGED <<wears, into, former, writes, facts>>

Next ==
    \/ \E t \in Thing, h \in Handle : Add(t, h) \/ Rename(t, h)
    \/ \E f, s \in Thing : Merge(f, s) \/ MergeOld(f, s)
    \/ \E t \in Thing : Edit(t) \/ SetProse(t)
    \/ \E h \in Handle : Capture(h)
    \/ Boot

Spec == Init /\ [][Next]_vars

-----------------------------------------------------------------------------
\* The walks of the merge events end: from every thing, at one no event folded
\* (MergeLoop is damage no operation makes).
WalksEnd ==
    \A t \in Thing :
        LET walk[n \in 0 .. Len(events)] ==
                IF n = 0 THEN t
                ELSE IF Folded(walk[n - 1]) THEN events[Max(FoldsOf(walk[n - 1]))].survivor
                ELSE walk[n - 1]
        IN  ~Folded(walk[Len(events)])

\* No two claims are served at one address, whatever was merged and captured
\* in between (the id the merge gives a claim is free on the survivor and
\* stays taken).
OneClaimPerAddress ==
    \A c, d \in Claims : ClaimEnd(c) = ClaimEnd(d) => c = d

\* A claim that some thing serves is served ever after, through every later
\* merge of the thing that serves it.
ServedStays ==
    [][build = "new" =>
        \A c \in Claims : ~Folded(ClaimEnd(c).home)
            => c \in Claims' /\ ~(Folded(ClaimEnd(c).home))']_vars

\* A handle goes on naming the thing it named until another thing takes it,
\* through renames away from it, back to it and away again.
HandleAnswers ==
    [][\A h \in Handle : Resolve(h) # {}
        => Resolve(h)' = Resolve(h) \/ \E t \in Thing : h \in wears'[t] \ wears[t]]_vars
=============================================================================
