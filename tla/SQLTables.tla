----------------------------- MODULE SQLTables -----------------------------
(***************************************************************************)
(* What the tables of SQLDatabase hold through the life of their file, and *)
(* that the statements on it implement Relations.                          *)
(***************************************************************************)
EXTENDS HttpServer

CONSTANT
  CreateOrder  \* the names in the order in which every session creates them

ASSUME OrderAssumption == CreateOrder \in Seq(Name)

\* The id of a table when every session creates the tables in that order.
IdOf(n) == (CHOOSE i \in DOMAIN CreateOrder : CreateOrder[i] = n) - 1

\* The number whose upper bits are a table's id and whose lower bits are a
\* primary key, as catalog.h describes a key, taken as a signed one.
KeyOf(n, pk) ==
  LET bits == IdOf(n) * RowCount + pk
  IN  IF bits > IntMax THEN bits - TableCount * RowCount ELSE bits

\* The rows of a table, by primary key.
Rows(n) ==
  [pk \in {k \in 0 .. RowCount - 1 : KeyOf(n, k) \in DOMAIN store} |-> store[KeyOf(n, pk)]]

RowsMap == [n \in Name |-> Rows(n)]

R == INSTANCE Relations
       WITH rows <- RowsMap, running <- deleting, affected <- result.affected,
            failed <- result.error

\* Whatever the WHERE clause and the access path chosen for it, and however
\* the keys of several tables interleave in the engine, a SELECT returns the
\* rows of its own table that satisfy every comparison, all of them, in the
\* order of their keys, and it fails only on a table or a column that is
\* not there or a literal of another type (planner.h, executor.h).
SelectIsFilter ==
  stmt.kind = "SELECT" =>
    IF \/ stmt.table \notin DOMAIN tables
       \/ ~Valid(Schema[stmt.table], stmt.where)
       \/ NoColumn \in Range(stmt.columns)
    THEN result.error
    ELSE ~result.error /\ result.rows = R!Answer(stmt.table, stmt.columns, stmt.where)

\* The statements implement relations kept apart: an INSERT sets one row of
\* its own table, a DELETE removes rows of its own table that satisfy its
\* WHERE clause and no other, it removes all of them and counts them right
\* by the time it returns, and the tables are the same after a restart.
ImplementsRelations == R!Spec
=============================================================================
