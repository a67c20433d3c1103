------------------------------ MODULE Migrate ------------------------------
(* The start's schema migrations.                                          *)
(*                                                                         *)
(* The store commits a schema change by itself, apart from the ledger row  *)
(* that records it, so a start writes a marker before it issues a          *)
(* statement, and spends the marker with the ledger row.  Every write is a *)
(* step of its own: the process may die between any two of them, the store *)
(* may refuse one, and the answer of one may be lost.                      *)
(*                                                                         *)
(* The schema is the set of what stands: tables, columns, indexes, and the *)
(* rows a backfill is to change.                                           *)
EXTENDS Naturals, Sequences, FiniteSets

CONSTANTS
    Objects,
    Migrations,   \* the versions in order: a sequence of Migration records
    OldStores,    \* what builds before this list left: ledgers and schemas
    Rows,         \* the objects that are rows, which a serving build writes
    MaxFaults     \* bound: crashes, refusals and lost answers

Versions == 1 .. Len(Migrations)

\* `object` stands or not once the statement has run (Leaves); `sets` and
\* `clears` are what it does; a backfill may be issued again; an index asked
\* for beforehand is only issued when it is missing (IndexIfMissing).
Migration ==
    [object : Objects, stands : BOOLEAN, sets : SUBSET Objects, clears : SUBSET Objects,
     again : BOOLEAN, asked : BOOLEAN]

ASSUME MigrateAssumption ==
    /\ Migrations \in Seq(Migration)
    /\ \A v \in Versions : LET m == Migrations[v] IN
        /\ m.sets \cap m.clears = {}
        /\ IF m.stands THEN m.object \in m.sets ELSE m.object \in m.clears
    /\ OldStores \subseteq [ledger : SUBSET Versions, schema : SUBSET Objects]
    /\ Rows \subseteq Objects
    /\ MaxFaults \in Nat

\* The versions run in order, so a ledger holds the first of them; and what it
\* holds stands, but where a later one has changed the object again.
ASSUME OldStoresAssumption ==
    \A old \in OldStores : \A v \in old.ledger :
        /\ 1 .. v \subseteq old.ledger
        /\ \/ (Migrations[v].object \in old.schema) = Migrations[v].stands
           \/ \E w \in old.ledger :
               w > v /\ Migrations[v].object \in Migrations[w].sets \cup Migrations[w].clears

VARIABLES
    ledger,    \* schema_migration
    begun,     \* schema_migration_begun
    schema,
    ships,     \* how many of the versions the build ships
    pc,        \* where the start is
    at,        \* the version it is at
    read,      \* the ledger and the markers as the start read them
    faults,
    lost       \* history: the versions that landed and whose answer was lost

vars == <<ledger, begun, schema, ships, pc, at, read, faults, lost>>

Stages == {"down", "next", "issue", "record", "clear", "up"}

TypeOK ==
    /\ ledger \subseteq Versions
    /\ begun \subseteq Versions
    /\ schema \subseteq Objects
    /\ ships \in 0 .. Len(Migrations)
    /\ pc \in Stages
    /\ at \in 1 .. ships + 1
    /\ read \in [done : SUBSET Versions, begun : SUBSET Versions]
    /\ faults \in 0 .. MaxFaults
    /\ lost \subseteq Versions

Unread == [done |-> {}, begun |-> {}]

Init ==
    /\ \E old \in OldStores : ledger = old.ledger /\ schema = old.schema
    /\ begun = {}
    /\ ships \in {n \in 0 .. Len(Migrations) : \A v \in ledger : v <= n}
    /\ pc = "down" /\ at = 1 /\ read = Unread
    /\ faults = 0 /\ lost = {}

-----------------------------------------------------------------------------

Fault == faults < MaxFaults /\ faults' = faults + 1

\* The start returns an error, or the process dies: the unit starts it again.
Down == pc' = "down" /\ at' = 1 /\ read' = Unread

\* Whether the schema is in the state the version leaves.
Reached(v) == (Migrations[v].object \in schema) = Migrations[v].stands

\* The statement: the store refuses one whose change stands already.
Effect(v) == (schema \ Migrations[v].clears) \cup Migrations[v].sets

Touches(v) == Migrations[v].clears \cup Migrations[v].sets

Refuses(v) == Reached(v) /\ ~Migrations[v].again

Start ==
    /\ pc = "down"
    /\ pc' = "next" /\ at' = 1
    /\ read' = [done |-> ledger, begun |-> begun]
    /\ UNCHANGED <<ledger, begun, schema, ships, faults, lost>>

Interrupted(v) == v \in read.begun

\* Mutant: an interrupted version is recorded without a look at the schema.
AdoptsUnasked(v) == Interrupted(v) \/ (Migrations[v].asked /\ Reached(v))

\* Recorded without a statement: an interrupted version that landed, or an
\* index that stood before its version.
Adopts(v) == (Interrupted(v) \/ Migrations[v].asked) /\ Reached(v)

Skip ==
    /\ pc = "next" /\ at <= ships /\ at \in read.done
    /\ at' = at + 1
    /\ UNCHANGED <<ledger, begun, schema, ships, pc, read, faults, lost>>

Adopt ==
    /\ pc = "next" /\ at <= ships /\ at \notin read.done /\ Adopts(at)
    /\ pc' = "record"
    /\ UNCHANGED <<ledger, begun, schema, ships, at, read, faults, lost>>

\* Mutant: the statement goes out without a marker.
MarkNothing ==
    /\ pc = "next" /\ at <= ships /\ at \notin read.done /\ ~Adopts(at)
    /\ pc' = "issue"
    /\ UNCHANGED <<ledger, begun, schema, ships, at, read, faults, lost>>

\* The marker is committed before the statement goes out; an interrupted
\* version has one.
Mark ==
    /\ pc = "next" /\ at <= ships /\ at \notin read.done /\ ~Adopts(at)
    /\ \/ /\ begun' = begun \cup {at}
          /\ pc' = "issue"
          /\ UNCHANGED <<at, read, faults>>
       \/ /\ ~Interrupted(at)
          /\ Fault /\ Down
          /\ begun' \in {begun, begun \cup {at}}
    /\ UNCHANGED <<ledger, schema, ships, lost>>

\* The statement lands, is refused, or lands and its answer is lost.
Issue ==
    /\ pc = "issue"
    /\ \/ /\ ~Refuses(at) /\ schema' = Effect(at)
          /\ pc' = "record"
          /\ UNCHANGED <<faults, lost>>
       \/ Refuses(at) /\ pc' = "clear" /\ UNCHANGED <<schema, faults, lost>>
       \/ Fault /\ pc' = "clear" /\ UNCHANGED <<schema, lost>>
       \/ /\ ~Refuses(at) /\ schema' = Effect(at)
          /\ Fault /\ pc' = "clear"
          /\ lost' = lost \cup {at}
    /\ UNCHANGED <<ledger, begun, ships, at, read>>

\* An error takes the marker back off, as well as it can, and ends the start.
Clear ==
    /\ pc = "clear"
    /\ Down
    /\ \/ begun' = begun \ {at} /\ UNCHANGED faults
       \/ Fault /\ UNCHANGED begun
    /\ UNCHANGED <<ledger, schema, ships, lost>>

\* The ledger row and the end of the marker are one commit.
Record ==
    /\ pc = "record"
    /\ \/ /\ ledger' = ledger \cup {at} /\ begun' = begun \ {at}
          /\ pc' = "next" /\ at' = at + 1
          /\ UNCHANGED <<read, faults>>
       \/ /\ Fault /\ Down
          /\ \/ ledger' = ledger \cup {at} /\ begun' = begun \ {at}
             \/ UNCHANGED <<ledger, begun>>
    /\ UNCHANGED <<schema, ships, lost>>

Finish ==
    /\ pc = "next" /\ at > ships
    /\ pc' = "up"
    /\ UNCHANGED <<ledger, begun, schema, ships, at, read, faults, lost>>

\* Also a read of the store that fails.
Crash == pc # "down" /\ Fault /\ Down /\ UNCHANGED <<ledger, begun, schema, ships, lost>>

\* A newer build is deployed.
Deploy ==
    /\ pc = "up" /\ ships < Len(Migrations)
    /\ ships' \in ships + 1 .. Len(Migrations)
    /\ Down
    /\ UNCHANGED <<ledger, begun, schema, faults, lost>>

\* A build that ships no backfill of its rows writes some.
Serve ==
    /\ pc = "up"
    /\ \E o \in Rows \ schema :
        /\ \A v \in 1 .. ships : Migrations[v].object # o
        /\ schema' = schema \cup {o}
    /\ UNCHANGED <<ledger, begun, ships, pc, at, read, faults, lost>>

Run == Start \/ Skip \/ Adopt \/ Mark \/ Issue \/ Clear \/ Record \/ Finish

Next == Run \/ Crash \/ Deploy \/ Serve

Spec == Init /\ [][Next]_vars

\* The runner goes on, and the unit starts a server that failed (Restart).
FairSpec == Spec /\ WF_vars(Run)

-----------------------------------------------------------------------------

\* What the ledger says is so: the change of a recorded version stands, but
\* where a later version that is recorded, marked or landed unheard changes
\* the same object.
\* A start that recorded an interrupted version unasked would leave a schema
\* behind its ledger for ever (account_of_apply).
RecordedStands ==
    \A v \in ledger :
        \/ Reached(v)
        \/ \E w \in ledger \cup begun \cup lost : w > v /\ Migrations[v].object \in Touches(w)

\* A start that is interrupted, or refused for a while, is followed by one
\* that completes, so long as no answer of a statement that landed is lost
\* (account_of_apply): no boot wedges on a change that landed.
StartsComplete == pc = "down" ~> pc = "up" \/ lost # {}
=============================================================================
