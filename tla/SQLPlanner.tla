----------------------------- MODULE SQLPlanner -----------------------------
(***************************************************************************)
(* src/src/sql: the keys and rows of catalog.{h,cpp}, the plans that       *)
(* planner.cpp makes of a WHERE clause and the rows that executor.cpp      *)
(* fetches by them from the StorageEngine that all tables share.  The      *)
(* engine is the map of KeyValueStore, read in the order of its signed     *)
(* keys; a row's key holds its table's id above its primary key.           *)
(*                                                                         *)
(* A Value is <<type, datum>>, the variant of value.h; a TEXT is given by  *)
(* its place in the order of strings.  A column is its index in the        *)
(* schema, the primary key first, or NoColumn for a name it lacks.         *)
(***************************************************************************)
EXTENDS Integers, Sequences, FiniteSets, SequencesExt

CONSTANTS
  TableCount,  \* kMaxTables, 2^kTableIdBits
  RowCount,    \* kMaxRowKey + 1, 2^kRowKeyBits
  TooLong      \* the texts that do not fit in a row (MAX_VALUE_SIZE)

ASSUME KeysAssumption ==
  /\ TableCount \in Nat /\ TableCount > 0 /\ TableCount % 2 = 0
  /\ RowCount \in Nat /\ RowCount > 0

VARIABLE store  \* what the engine holds: the payload of each key

Value == {"INTEGER", "TEXT"} \X Int

NoColumn == 0
-----------------------------------------------------------------------------
(* catalog.h: the keys, of kTableIdBits + kRowKeyBits bits and signed. *)

\* (table_id << kRowKeyBits) | (pk & kMaxRowKey).  The ids of the upper half
\* reach the sign bit.
EncodeKey(id, pk) ==
  (IF 2 * id < TableCount THEN id ELSE id - TableCount) * RowCount + (pk % RowCount)

DecodeRowKey(key) == key % RowCount

DecodeTableId(key) == (key \div RowCount) % TableCount

\* The literals, of the same width as a key.
IntMax == (TableCount \div 2) * RowCount - 1
IntMin == -IntMax - 1

\* EncodeRow throws on another arity, another type, or a row too large.
EncodeRowThrows(types, values) ==
  \/ Len(values) # Len(types)
  \/ \E i \in 2 .. Len(types) : values[i][1] # types[i] \/ values[i] \in TooLong

EncodeRow(values) == Tail(values)

\* DecodeRow throws when it runs past the end of the payload.
DecodeRowThrows(types, payload) == Len(payload) < Len(types) - 1

DecodeRow(types, pk, payload) ==
  <<<<"INTEGER", pk>>>> \o SubSeq(payload, 1, Len(types) - 1)
-----------------------------------------------------------------------------
(* planner.cpp. *)

\* A Predicate is a sequence of comparisons, all of which must hold.
Comparison(column, op, literal) == [column |-> column, op |-> op, literal |-> literal]

\* ValidateComparison, of every comparison.
Valid(types, where) ==
  \A c \in Range(where) : c.column \in DOMAIN types /\ types[c.column] = c.literal[1]

OnKey(where, ops) == {i \in DOMAIN where : where[i].column = 1 /\ where[i].op \in ops}

\* The bound a comparison puts on the key, inclusive.
Above(c) ==
  IF c.op = "GT" /\ c.literal[2] # IntMax THEN c.literal[2] + 1 ELSE c.literal[2]

Below(c) ==
  IF c.op = "LT" /\ c.literal[2] # IntMin THEN c.literal[2] - 1 ELSE c.literal[2]

\* Mutation of PlanQuery: the bounds of a range are not checked again.
PlanQuery_BoundsTrusted(where) ==
  LET points == OnKey(where, {"EQ"}) IN
  IF points # {}
  THEN LET i == Min(points) IN
       [point |-> TRUE, lo |-> where[i].literal[2], hi |-> where[i].literal[2],
        residual |-> RemoveAt(where, i)]
  ELSE [point |-> FALSE,
        lo |-> Max({0} \cup {Above(where[i]) : i \in OnKey(where, {"GT", "GE"})}),
        hi |-> Min({IntMax} \cup {Below(where[i]) : i \in OnKey(where, {"LT", "LE"})}),
        residual |-> SelectSeq(where, LAMBDA c : c.column # 1)]

\* PlanQuery, of a valid predicate.  FULL_SCAN is a RANGE_SCAN with the bounds
\* that the code starts from.
PlanQuery(where) ==
  LET points == OnKey(where, {"EQ"}) IN
  IF points # {}
  THEN LET i == Min(points) IN
       [point |-> TRUE, lo |-> where[i].literal[2], hi |-> where[i].literal[2],
        residual |-> RemoveAt(where, i)]
  ELSE [point |-> FALSE,
        lo |-> Max({0} \cup {Above(where[i]) : i \in OnKey(where, {"GT", "GE"})}),
        hi |-> Min({IntMax} \cup {Below(where[i]) : i \in OnKey(where, {"LT", "LE"})}),
        residual |-> where]
-----------------------------------------------------------------------------
(* executor.cpp. *)

\* CompareValues and CompareOpMatches, of two values of one type.
CompareOpMatches(op, a, b) ==
  CASE op = "EQ" -> a[2] = b[2]
    [] op = "LT" -> a[2] < b[2]
    [] op = "LE" -> a[2] <= b[2]
    [] op = "GT" -> a[2] > b[2]
    [] op = "GE" -> a[2] >= b[2]

MatchesPredicate(row, where) ==
  \A c \in Range(where) : CompareOpMatches(c.op, row[c.column], c.literal)

\* The keys that a plan visits: the one it looks up, or those from the lower
\* bound on, in the order of the engine, to the first of another table or
\* above the upper bound.
Visited(id, plan) ==
  LET start == EncodeKey(id, plan.lo)
      Stops(key) == DecodeTableId(key) # id \/ DecodeRowKey(key) > plan.hi
  IN  IF plan.point THEN DOMAIN store \cap {start}
      ELSE {key \in DOMAIN store :
              key >= start /\ \A j \in DOMAIN store : start <= j /\ j <= key => ~Stops(j)}

\* The row of a visited key.  A point lookup shows the literal it was given.
RowAt(types, plan, key) ==
  DecodeRow(types, IF plan.point THEN plan.lo ELSE DecodeRowKey(key), store[key])

\* The keys of the rows that pass the residual filter.
Fetched(id, types, plan) ==
  {key \in Visited(id, plan) : MatchesPredicate(RowAt(types, plan, key), plan.residual)}
=============================================================================
