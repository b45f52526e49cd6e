----------------------------- MODULE Relations -----------------------------
(***************************************************************************)
(* What src/src/sql promises of its tables: each is a set of rows, one for *)
(* each primary key, that only the statements on that table change.        *)
(***************************************************************************)
EXTENDS Integers, Sequences, FiniteSets, TLC, SequencesExt, Functions

CONSTANT Name  \* the tables

VARIABLES
  rows,     \* the other columns of each row, by table and primary key
  stmt,     \* the last statement executed
  running,  \* whether it is a DELETE that has not returned
  affected, \* the rows that it changed
  failed    \* whether it threw

vars == <<rows, stmt, running, affected, failed>>

Holds(op, a, b) ==
  \/ op \in {"EQ", "LE", "GE"} /\ a = b
  \/ op \in {"LT", "LE"} /\ a < b
  \/ op \in {"GT", "GE"} /\ a > b

Row(n, pk) == <<<<"INTEGER", pk>>>> \o rows[n][pk]

\* The keys of the rows that satisfy every comparison.
Matching(n, where) ==
  {pk \in DOMAIN rows[n] :
     \A c \in Range(where) : Holds(c.op, Row(n, pk)[c.column][2], c.literal[2])}

\* What a SELECT returns.
Answer(n, columns, where) ==
  LET keys == SetToSortSeq(Matching(n, where), <)
  IN  [i \in DOMAIN keys |-> [j \in DOMAIN columns |-> Row(n, keys[i])[columns[j]]]]

Init == rows = [n \in Name |-> <<>>] /\ running = FALSE

\* An INSERT that fails may have set its row.
Insert ==
  /\ ~running /\ ~running'
  /\ stmt'.kind = "INSERT" /\ affected' = IF failed' THEN 0 ELSE 1
  /\ LET pk == stmt'.values[1][2]
     IN  rows' = [rows EXCEPT ![stmt'.table] = (pk :> Tail(stmt'.values)) @@ @]

\* Any other statement, and one that fails before its change, changes no row.
Execute ==
  /\ ~running /\ ~running'
  /\ stmt'.kind \in {"INSERT", "DELETE"} => affected' = 0 /\ failed'
  /\ UNCHANGED rows

StartDelete ==
  /\ ~running /\ running'
  /\ stmt'.kind = "DELETE" /\ affected' = 0 /\ ~failed'
  /\ UNCHANGED rows

DeleteRow ==
  /\ running
  /\ \E pk \in Matching(stmt.table, stmt.where) :
       rows' = [rows EXCEPT ![stmt.table] = Restrict(@, DOMAIN @ \ {pk})]
  /\ affected' = affected + 1
  /\ UNCHANGED <<stmt, running, failed>>

\* A DELETE returns when no row that matches is left.
EndDelete ==
  /\ running /\ ~running'
  /\ Matching(stmt.table, stmt.where) = {}
  /\ UNCHANGED <<rows, stmt, affected, failed>>

\* A DELETE that fails half way has removed some of them, and says so.
FailDelete ==
  /\ running /\ ~running'
  /\ failed'
  /\ \E gone \in {{}} \cup {{pk} : pk \in Matching(stmt.table, stmt.where)} :
       rows' = [rows EXCEPT ![stmt.table] = Restrict(@, DOMAIN @ \ gone)]
  /\ UNCHANGED stmt

\* The statement has returned, or the process ended.
Return == ~running /\ stmt'.kind = "NONE" /\ ~running' /\ UNCHANGED rows

Next == Insert \/ Execute \/ StartDelete \/ DeleteRow \/ EndDelete \/ FailDelete \/ Return

Spec == Init /\ [][Next]_vars
=============================================================================
