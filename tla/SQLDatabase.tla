---------------------------- MODULE SQLDatabase ----------------------------
(***************************************************************************)
(* src/src/sql: the Catalog's tables and the Database that runs statements *)
(* with the plans and fetches of SQLPlanner.                               *)
(***************************************************************************)
EXTENDS SQLPlanner

CONSTANT
  Schema  \* the columns' types of each table name, as CREATE gives them

\* A table has a column, and the first one is its primary key.
ASSUME SchemaAssumption ==
  \A n \in DOMAIN Schema :
    /\ Schema[n] \in Seq({"INTEGER", "TEXT"}) /\ Schema[n] # <<>>
    /\ Schema[n][1] = "INTEGER"

\* Not of the code, and not used in a proof: the tables of an instance may meet
\* each other's rows (see Restart) only where both read the same types, since
\* what DecodeRow makes of the bytes of another type is not modelled.
ASSUME SameTypesAssumption ==
  \A n, m \in DOMAIN Schema :
    \A i \in DOMAIN Schema[n] \cap DOMAIN Schema[m] : Schema[n][i] = Schema[m][i]

VARIABLES
  tables,         \* Catalog::tables_, the table id of each table
  next_table_id,  \* Catalog::next_table_id_
  stmt,           \* the last statement given to Execute, or NoStmt
  deleting,       \* whether it is a DELETE that has not returned
  to_delete,      \* the keys it still has to delete
  result          \* what Execute gave: an exception or the QueryResult

dbvars == <<tables, next_table_id, store, stmt, deleting, to_delete, result>>

Name == DOMAIN Schema
NoStmt == [kind |-> "NONE"]
Empty == <<>>  \* the function with no keys
Set(f, x, v) == [y \in DOMAIN f \cup {x} |-> IF y = x THEN v ELSE f[y]]

SqlException == [error |-> TRUE, rows |-> <<>>, affected |-> 0]
QueryResult(rows, affected) == [error |-> FALSE, rows |-> rows, affected |-> affected]

DatabaseInit ==
  /\ tables = Empty /\ next_table_id = 0
  /\ store = Empty
  /\ stmt = NoStmt /\ deleting = FALSE /\ to_delete = {}
  /\ result = QueryResult(<<>>, 0)
-----------------------------------------------------------------------------
\* GetTable, PlanQuery or a row on the way may throw.
QueryThrows(n, where) ==
  \/ n \notin DOMAIN tables
  \/ ~Valid(Schema[n], where)
  \/ \E key \in Visited(tables[n], PlanQuery(where)) : DecodeRowThrows(Schema[n], store[key])

\* ExecuteFetch.
ExecuteFetch(n, where) ==
  LET plan == PlanQuery(where)
      keys == SetToSortSeq(Fetched(tables[n], Schema[n], plan), <)
  IN  [i \in DOMAIN keys |-> RowAt(Schema[n], plan, keys[i])]
-----------------------------------------------------------------------------
(* database.cpp: Execute, one action for each kind of statement. *)

\* Catalog::CreateTable.  next_table_id_ has kTableIdBits bits and wraps, so
\* the comparison with kMaxTables never holds.
ExecuteCreateTable(n) ==
  /\ IF n \in DOMAIN tables
     THEN result' = SqlException /\ UNCHANGED <<tables, next_table_id>>
     ELSE /\ tables' = Set(tables, n, next_table_id)
          /\ next_table_id' = (next_table_id + 1) % TableCount
          /\ result' = QueryResult(<<>>, 0)
  /\ UNCHANGED <<store, deleting, to_delete>>

\* Mutation of InsertThrows: the range of the primary key is not checked.
InsertThrows_AnyKey(n, values) ==
  \/ n \notin DOMAIN tables
  \/ values = <<>> \/ values[1][1] # "INTEGER"
  \/ EncodeRowThrows(Schema[n], values)

InsertThrows(n, values) ==
  \/ n \notin DOMAIN tables
  \/ values = <<>> \/ values[1][1] # "INTEGER"
  \/ values[1][2] \notin 0 .. RowCount - 1
  \/ EncodeRowThrows(Schema[n], values)

PutRow(n, values) ==
  store' = Set(store, EncodeKey(tables[n], values[1][2]), EncodeRow(values))

\* An INSERT of a key that is there replaces the row.  It fails when
\* InsertThrows, and whenever the engine throws out of its Put, with or without
\* its change made.
ExecuteInsert(n, values) ==
  /\ \/ /\ ~InsertThrows(n, values)
        /\ PutRow(n, values)
        /\ result' \in {QueryResult(<<>>, 1), SqlException}
     \/ result' = SqlException /\ UNCHANGED store
  /\ UNCHANGED <<tables, next_table_id, deleting, to_delete>>

\* The columns of the projection are looked up after the fetch.
SelectResult(n, columns, where) ==
  IF QueryThrows(n, where) \/ NoColumn \in Range(columns) THEN SqlException
  ELSE LET rows == ExecuteFetch(n, where)
       IN  QueryResult([i \in DOMAIN rows |-> [j \in DOMAIN columns |-> rows[i][columns[j]]]],
                       Len(rows))

ExecuteSelect(n, columns, where) ==
  /\ result' = SelectResult(n, columns, where)
  /\ UNCHANGED <<tables, next_table_id, store, deleting, to_delete>>

\* ExecuteDelete collects the keys first, and deletes them one by one.
ExecuteDelete(n, where) ==
  /\ IF QueryThrows(n, where)
     THEN result' = SqlException /\ UNCHANGED <<deleting, to_delete>>
     ELSE /\ deleting' = TRUE
          /\ to_delete' = Fetched(tables[n], Schema[n], PlanQuery(where))
          /\ result' = QueryResult(<<>>, 0)
  /\ UNCHANGED <<tables, next_table_id, store>>

Execute(s) ==
  /\ ~deleting
  /\ stmt' = s
  /\ \/ s.kind = "CREATE" /\ ExecuteCreateTable(s.table)
     \/ s.kind = "INSERT" /\ ExecuteInsert(s.table, s.values)
     \/ s.kind = "SELECT" /\ ExecuteSelect(s.table, s.columns, s.where)
     \/ s.kind = "DELETE" /\ ExecuteDelete(s.table, s.where)

DeleteNext ==
  /\ to_delete # {}
  /\ LET key == Min(to_delete) IN
     /\ to_delete' = to_delete \ {key}
     /\ store' = Restrict(store, DOMAIN store \ {key})
     /\ result' = [result EXCEPT !.affected = @ + Cardinality({key} \cap DOMAIN store)]
  /\ UNCHANGED <<tables, next_table_id, stmt, deleting>>

DeleteReturns ==
  /\ deleting /\ to_delete = {}
  /\ deleting' = FALSE
  /\ UNCHANGED <<tables, next_table_id, store, stmt, to_delete, result>>

\* The engine throws out of its Delete, with or without its change made; the
\* keys that are left stay.
DeleteThrows ==
  /\ to_delete # {}
  /\ deleting' = FALSE /\ to_delete' = {}
  /\ \/ store' = Restrict(store, DOMAIN store \ {Min(to_delete)})
     \/ UNCHANGED store
  /\ result' = SqlException
  /\ UNCHANGED <<tables, next_table_id, stmt>>

\* The Database is destroyed, and another process opens the same file: the
\* engine kept its rows, the catalog was in memory only.
Restart ==
  /\ tables' = Empty /\ next_table_id' = 0
  /\ stmt' = NoStmt /\ deleting' = FALSE /\ to_delete' = {}
  /\ result' = QueryResult(<<>>, 0)
  /\ UNCHANGED store
=============================================================================
