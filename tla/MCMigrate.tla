------------------------------ MODULE MCMigrate ------------------------------
(* A list with the shapes of the shipped one: a table, a column whose ALTER *)
(* also builds an index, a backfill, a key dropped and added again under    *)
(* one name, the index where it is missing, and the table dropped.          *)
EXTENDS Migrate

CONSTANTS table, column, index, key, rows

MCObjects == {table, column, index, key, rows}

Adds(o, with) ==
    [object |-> o, stands |-> TRUE, sets |-> {o} \cup with, clears |-> {},
     again |-> FALSE, asked |-> FALSE]

Drops(o, with) ==
    [object |-> o, stands |-> FALSE, sets |-> {}, clears |-> {o} \cup with,
     again |-> FALSE, asked |-> FALSE]

MCMigrations ==
    << Adds(table, {key}), Adds(column, {index}), [Drops(rows, {}) EXCEPT !.again = TRUE],
       Drops(key, {}), Adds(key, {}), [Adds(index, {}) EXCEPT !.asked = TRUE],
       Drops(table, {key, column, index, rows}) >>

\* An empty store, and one whose second version built no index.
MCOldStores ==
    { [ledger |-> {}, schema |-> {}],
      [ledger |-> {1, 2}, schema |-> {table, key, column}] }

MCRows == {rows}
=============================================================================
