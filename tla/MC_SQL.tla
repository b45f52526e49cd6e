------------------------------- MODULE MC_SQL -------------------------------
(***************************************************************************)
(* SQLDatabase and HttpServer for TLC: keys of two and two bits, so that   *)
(* primary keys go from 0 to 3 and literals from -8 to 7.                  *)
(***************************************************************************)
EXTENDS SQLTables

CONSTANTS c1, c2

Integer(n) == <<"INTEGER", n>>
Text(n) == <<"TEXT", n>>

\* Three tables; c gets the first id whose keys are negative.
Types ==
  "a" :> <<"INTEGER", "TEXT">> @@ "b" :> <<"INTEGER">> @@ "c" :> <<"INTEGER", "TEXT">>
Order == <<"a", "b", "c">>
LongTexts == {Text(9)}

Create(n) == [kind |-> "CREATE", table |-> n]
Insert(n, values) == [kind |-> "INSERT", table |-> n, values |-> values]
Select(n, columns, where) ==
  [kind |-> "SELECT", table |-> n, columns |-> columns, where |-> where]
Delete(n, where) == [kind |-> "DELETE", table |-> n, where |-> where]

Key(op, n) == Comparison(1, op, Integer(n))
Col(op, n) == Comparison(2, op, Text(n))

\* Points, ranges and filters, with bounds at and beyond the ends of the keys
\* and of the literals.  The point lookups are of primary keys a row can have.
Wheres ==
  {<<>>, <<Key("EQ", 3)>>, <<Key("EQ", 0), Col("EQ", 1)>>, <<Col("GE", 2)>>,
   <<Key("GT", 0), Key("LT", 3)>>, <<Key("LE", 1), Col("LT", 2)>>, <<Key("GT", 7)>>,
   <<Key("GE", 4)>>, <<Key("LT", -8)>>, <<Key("LT", 0)>>, <<Key("GE", -3), Key("LE", 7)>>}

Creates == {Create(n) : n \in Name}

\* Rows, an upsert, and rows that are refused.
Inserts ==
  {Insert("a", <<Integer(0), Text(1)>>), Insert("a", <<Integer(0), Text(2)>>),
   Insert("a", <<Integer(3), Text(2)>>), Insert("b", <<Integer(1)>>),
   Insert("c", <<Integer(0), Text(2)>>), Insert("c", <<Integer(3), Text(2)>>)}
  \cup {Insert("a", v) : v \in
          {<<Integer(-1), Text(1)>>, <<Integer(4), Text(1)>>, <<Integer(1), Text(9)>>,
           <<Integer(1), Integer(1)>>, <<Integer(1)>>, <<Text(1), Text(1)>>}}

Selects ==
  {Select(n, <<1, 2>>, w) : n \in {"a", "c"}, w \in Wheres}
  \cup {Select("a", <<2>>, <<>>), Select("a", <<NoColumn>>, <<>>), Select("b", <<1>>, <<>>),
        Select("a", <<1>>, <<Comparison(1, "EQ", Text(1))>>),
        Select("b", <<1>>, <<Col("EQ", 1)>>)}

Deletes ==
  {Delete(n, w) : n \in {"a", "c"},
                  w \in {<<>>, <<Key("EQ", 3)>>, <<Key("LT", 3)>>, <<Col("GE", 2)>>}}

AllStatements == Creates \cup Inserts \cup Selects \cup Deletes

\* The same with a point lookup outside the range of primary keys.
AliasStatements == AllStatements \cup {Select("a", <<1, 2>>, <<Key("EQ", -4)>>)}

\* A schema file that seeds the table b.
File ==
  <<Create("a"), Create("b"), Create("c"), Delete("b", <<>>), Insert("b", <<Integer(1)>>)>>

\* A schema file that was written in another order.
OtherFile == <<Create("c"), Create("b"), Create("a")>>

SomeRequests ==
  c1 :> {Request("POST", "/query", NoStmt), Request("GET", "/health", NoStmt),
         Request("GET", "/else", NoStmt), Request("GET", "/query", NoStmt),
         Request("GET", "/query", Select("a", <<1, 2>>, <<Key("LE", 1)>>)),
         Request("GET", "/query", Delete("c", <<>>))}
  @@ c2 :> {Request("GET", "/health", NoStmt)}

\* An assumption on the users, as an action constraint: every shell session
\* creates the tables in one order.
CreatedInOrder ==
  (phase = "shell" => \A n \in DOMAIN tables : \A i \in 1 .. IdOf(n) : Order[i] \in DOMAIN tables)'
=============================================================================
