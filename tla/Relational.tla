----------------------------- MODULE Relational -----------------------------
(* What the modules of the SQL data layer share: a table of PostgreSQL as a *)
(* function from the ids of its rows to the rows, and the statements that   *)
(* sqlc generates as functions of tables.  A statement is atomic (the pool  *)
(* runs every one in its own transaction at read committed) and one that    *)
(* breaks a constraint fails and changes nothing, so its action is not      *)
(* enabled.  The server checks NO ACTION references no later than at the    *)
(* end of the statement.                                                    *)
EXTENDS Naturals, FiniteSets

CONSTANTS NULL,    \* what a nullable column holds when it holds no value
          Flags     \* the values clients pass for a BOOLEAN column: some of Flag

(* A table with ids from Ids and rows from Row. *)
IsTable(t, Ids, Row) == DOMAIN t \subseteq Ids /\ t \in [DOMAIN t -> Row]

(* A table without rows. *)
NoRows == [i \in {} |-> {}]

(* INSERT of a row under an id gen_random_uuid() had not given yet. *)
Insert(t, i, row) == [j \in DOMAIN t \cup {i} |-> IF j = i THEN row ELSE t[j]]

(* DELETE of the rows with the ids in S. *)
Without(t, S) == [j \in DOMAIN t \ S |-> t[j]]

(* A BOOLEAN column that is not NOT NULL.  An INSERT names all columns, so   *)
(* a parameter the caller leaves unset stores NULL and not the DEFAULT.      *)
Flag == {TRUE, FALSE, NULL}

(* NULL is no Boolean value. *)
ASSUME RelationalAssumption == Flags \subseteq Flag /\ NULL \notin BOOLEAN

(* = between columns that may be NULL: no row matches a NULL. *)
Eq(x, y) == x # NULL /\ y # NULL /\ x = y

(* The answer to a statement that fails whatever the tables hold: PostgreSQL *)
(* refuses it, or its result cannot be scanned into the Go type of its row.  *)
Refused == {"refused"}
=============================================================================
