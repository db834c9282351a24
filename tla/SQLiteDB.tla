------------------------------ MODULE SQLiteDB ------------------------------
(***************************************************************************)
(* The hooks of the SQLite adapter (adapters/sqlite.py).  A database is    *)
(* the set of its rows; a statement has a first word (verb), the words it  *)
(* mentions, and the rows it deletes and inserts; inserting a row that is  *)
(* there is an error, which rolls the statement back.  A database with     *)
(* more than max_snapshot rows is too large for a snapshot.                *)
(***************************************************************************)
EXTENDS FiniteSets, Integers

CONSTANT max_snapshot

Reading     == {"select", "explain", "pragma", "with"}
Destructive == {"delete", "drop", "truncate", "alter", "replace"}

(* Faulty variant: a common table expression is taken for a query.         *)
sql_risk_by_verb(s) ==
    IF s.verb \in Reading THEN "read" ELSE IF s.verb \in Destructive THEN "destructive" ELSE "write"

sql_risk(s) ==
    IF s.verb \in Reading
    THEN IF s.words \cap {"insert", "update", "delete", "drop", "alter", "create"} = {} THEN "read" ELSE "write"
    ELSE IF s.verb \in Destructive THEN "destructive" ELSE "write"

risk(c, db) == IF c.op = "query" THEN "read" ELSE sql_risk(c.sql)

Rolled(s, db)  == s.inserts \cap (db.rows \ s.deletes) # {}
Changes(s, db) == Cardinality(s.deletes \cap db.rows) + Cardinality(s.inserts)

(* query and execute run the same statement; query commits it by itself.   *)
Run(c, db) ==
    IF Rolled(c.sql, db) THEN [ok |-> FALSE, w |-> db, result |-> 0]
    ELSE [ok |-> TRUE, w |-> [rows |-> (db.rows \ c.sql.deletes) \cup c.sql.inserts],
          result |-> Changes(c.sql, db)]

(* Faulty variant: deleted rows are not counted.                           *)
SimulateInserts(c, db) == IF Rolled(c.sql, db) THEN <<>> ELSE [changes |-> Cardinality(c.sql.inserts)]

(* The statement runs in a transaction that is rolled back; if it raises,  *)
(* there is no prediction.                                                 *)
Simulate(c, db) == IF Rolled(c.sql, db) THEN <<>> ELSE [changes |-> Changes(c.sql, db)]

CanSnapshot(c, db)        == Cardinality(db.rows) <= max_snapshot
Snapshot(c, db)           == db
Observe(c, result, db)    == [changes |-> result, db_sha256 |-> db.rows]
Undo(c, snap, result, db) == [ok |-> TRUE, w |-> snap]
reversible(c)             == TRUE
=============================================================================
