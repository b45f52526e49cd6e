----------------------------- MODULE HttpProofs -----------------------------
(***************************************************************************)
(* Proofs about SQLPlanner and HttpServer, for any statements, requests    *)
(* and clients and keys of any width: table ids and primary keys come back *)
(* out of the keys they are packed into, a plan fetches the rows that      *)
(* satisfy its WHERE clause, at any time in the life of a database file,   *)
(* and the server changes nothing.                                         *)
(***************************************************************************)
EXTENDS HttpServer, WellFoundedInduction, TLAPS

----------------------------------------------------------------------------
(* The arithmetic of the keys.                                             *)

LEMMA Divides ==
  ASSUME NEW a \in Int, NEW b \in 0 .. RowCount - 1
  PROVE  (a * RowCount + b) \div RowCount = a /\ (a * RowCount + b) % RowCount = b
BY KeysAssumption

LEMMA Division ==
  ASSUME NEW k \in Int
  PROVE  /\ k \div RowCount \in Int /\ k % RowCount \in 0 .. RowCount - 1
         /\ k = (k \div RowCount) * RowCount + (k % RowCount)
BY KeysAssumption

LEMMA Products ==
  ASSUME NEW c \in Int, NEW d \in Int, c < d
  PROVE  c * RowCount + RowCount <= d * RowCount
BY KeysAssumption

\* The upper bits of a key, as a signed number.
Upper(id) == IF 2 * id < TableCount THEN id ELSE id - TableCount

Half == TableCount \div 2

LEMMA HalfOf == Half \in Nat /\ Half > 0 /\ TableCount = 2 * Half
BY KeysAssumption DEF Half

LEMMA UpperBits ==
  ASSUME NEW id \in 0 .. TableCount - 1
  PROVE  /\ Upper(id) \in -Half .. Half - 1
         /\ Upper(id) % TableCount = id
         /\ \A a \in -Half .. Half - 1 : a % TableCount = id => a = Upper(id)
<1>1. Half \in Nat /\ Half > 0 /\ TableCount = 2 * Half
  BY Zenon, HalfOf
<1>2. Upper(id) \in -Half .. Half - 1
  BY <1>1 DEF Upper
<1>3. \A a \in -Half .. Half - 1 :
        a % TableCount = IF a >= 0 THEN a ELSE a + TableCount
  BY <1>1
<1> QED
  BY <1>1, <1>2, <1>3 DEF Upper

LEMMA Width == IntMax = Half * RowCount - 1 /\ IntMin = -(Half * RowCount) /\ IntMax \in Nat
<1>1. Half * RowCount \in Nat /\ Half * RowCount > 0
  BY HalfOf, KeysAssumption
<1> QED
  BY <1>1 DEF IntMax, IntMin, Half

\* What is packed into a key comes out of it, and the key has its width.
LEMMA Unpacked ==
  ASSUME NEW id \in 0 .. TableCount - 1, NEW pk \in 0 .. RowCount - 1
  PROVE  /\ EncodeKey(id, pk) = Upper(id) * RowCount + pk
         /\ DecodeTableId(EncodeKey(id, pk)) = id
         /\ DecodeRowKey(EncodeKey(id, pk)) = pk
<1>1. Upper(id) \in Int /\ Upper(id) % TableCount = id
  BY UpperBits, HalfOf
<1>2. pk % RowCount = pk
  BY KeysAssumption
<1>3. EncodeKey(id, pk) = Upper(id) * RowCount + pk
  BY Zenon, <1>2 DEF EncodeKey, Upper
<1> HIDE DEF Upper
<1> QED
  BY Zenon, <1>1, <1>3, Divides DEF DecodeTableId, DecodeRowKey

\* A key of the right width with a table's id is that table's key of its row.
LEMMA Packed ==
  ASSUME NEW k \in IntMin .. IntMax, NEW id \in 0 .. TableCount - 1, DecodeTableId(k) = id
  PROVE  DecodeRowKey(k) \in 0 .. RowCount - 1 /\ k = EncodeKey(id, DecodeRowKey(k))
<1> DEFINE a == k \div RowCount
           b == k % RowCount
<1>1. a \in Int /\ b \in 0 .. RowCount - 1 /\ k = a * RowCount + b
  BY Division, Width, HalfOf, KeysAssumption
<1>2. a % TableCount = id /\ DecodeRowKey(k) = b
  BY Zenon DEF DecodeTableId, DecodeRowKey
<1> HIDE DEF a, b
<1>3. /\ -(Half * RowCount) <= k /\ k <= Half * RowCount - 1
      /\ Half * RowCount \in Int /\ Half \in Int
  BY Width, HalfOf, KeysAssumption
<1>4. a < Half
  <2> SUFFICES ASSUME ~(a < Half) PROVE FALSE
    BY Zenon
  <2>1. a * RowCount >= Half * RowCount
    BY <1>1, <1>3, KeysAssumption, Products
  <2>2. a * RowCount \in Int
    BY <1>1, KeysAssumption
  <2> QED
    BY <1>1, <1>3, <2>1, <2>2
<1>5. a >= -Half
  <2> SUFFICES ASSUME a < -Half PROVE FALSE
    BY <1>1, <1>3
  <2>1. a * RowCount + RowCount <= (-Half) * RowCount
    BY <1>1, <1>3, Products
  <2>2. (-Half) * RowCount = -(Half * RowCount)
    BY <1>3, KeysAssumption
  <2>3. a * RowCount \in Int
    BY <1>1, KeysAssumption
  <2> QED
    BY <1>1, <1>3, <2>1, <2>2, <2>3, KeysAssumption
<1>6. a = Upper(id)
  BY <1>1, <1>2, <1>3, <1>4, <1>5, UpperBits
<1> QED
  BY Zenon, <1>1, <1>2, <1>6, Unpacked

\* Between two keys of a table lie keys of that table only, in the order of
\* their rows.
LEMMA Between ==
  ASSUME NEW id \in 0 .. TableCount - 1, NEW lo \in 0 .. RowCount - 1,
         NEW hi \in 0 .. RowCount - 1, NEW k \in Int,
         EncodeKey(id, lo) <= k, k <= EncodeKey(id, hi)
  PROVE  DecodeTableId(k) = id /\ DecodeRowKey(k) \in lo .. hi
<1> DEFINE a == k \div RowCount
           b == k % RowCount
           u == Upper(id)
<1>1. a \in Int /\ b \in 0 .. RowCount - 1 /\ k = a * RowCount + b
  BY Zenon, Division
<1>2. u \in Int /\ u % TableCount = id
  BY UpperBits, HalfOf
<1>3. u * RowCount + lo <= k /\ k <= u * RowCount + hi
  BY Zenon, Unpacked
<1>4. DecodeTableId(k) = a % TableCount /\ DecodeRowKey(k) = b
  BY Zenon DEF DecodeTableId, DecodeRowKey
<1> HIDE DEF a, b, u
<1>5. a * RowCount \in Int /\ u * RowCount \in Int
  BY <1>1, <1>2, KeysAssumption
<1>6. ~(a < u)
  <2> SUFFICES ASSUME a < u PROVE FALSE
    BY Zenon
  <2>1. a * RowCount + RowCount <= u * RowCount
    BY Zenon, <1>1, <1>2, Products
  <2> QED
    BY <1>1, <1>3, <1>5, <2>1, KeysAssumption
<1>7. ~(u < a)
  <2> SUFFICES ASSUME u < a PROVE FALSE
    BY Zenon
  <2>1. u * RowCount + RowCount <= a * RowCount
    BY Zenon, <1>1, <1>2, Products
  <2> QED
    BY <1>1, <1>3, <1>5, <2>1, KeysAssumption
<1>8. a = u
  BY <1>1, <1>2, <1>6, <1>7
<1> QED
  BY <1>1, <1>2, <1>3, <1>4, <1>5, <1>8

----------------------------------------------------------------------------
(* What a plan fetches.                                                     *)

Ops == {"EQ", "LT", "LE", "GT", "GE"}

\* The comparisons the parser makes: literals have the width of a key.
Comparisons ==
  {c \in [column : Nat, op : Ops, literal : Value] : c.literal[2] \in IntMin .. IntMax}

\* A point lookup masks its literal: it is to be a primary key that INSERT takes.
PointsAreKeys(where) ==
  \A i \in OnKey(where, {"EQ"}) : where[i].literal[2] \in 0 .. RowCount - 1

\* The keys of the rows of a table that satisfy a WHERE clause.
Satisfying(id, types, where) ==
  {key \in DOMAIN store :
     /\ DecodeTableId(key) = id
     /\ MatchesPredicate(DecodeRow(types, DecodeRowKey(key), store[key]), where)}

\* A bounded set of integers has a largest and a smallest member.
LEMMA MaxExists ==
  ASSUME NEW S \in SUBSET Int, S # {}, NEW b \in Int, \A x \in S : x <= b
  PROVE  Max(S) \in S /\ \A y \in S : Max(S) >= y
<1> DEFINE T == {b - x : x \in S}
<1>1. T \subseteq Nat
  OBVIOUS
<1>2. T # {}
  BY Zenon
<1>3. PICK d \in T : \A e \in T : ~ (<<e, d>> \in OpToRel(<, Nat))
  BY Zenon, <1>1, <1>2, NatLessThanWellFounded, WFMin
<1>4. \A e \in T : ~ (e < d)
  BY Zenon, <1>1, <1>3 DEF OpToRel
<1>5. PICK m \in S : d = b - m
  BY Zenon
<1>6. \A y \in S : b - y \in T
  BY Zenon
<1>7. \A y \in S : m >= y
  <2> HIDE DEF T
  <2> QED
    BY <1>4, <1>5, <1>6
<1> QED
  BY <1>7, Zenon DEF Max

LEMMA MinExists ==
  ASSUME NEW S \in SUBSET Int, S # {}, NEW b \in Int, \A x \in S : x >= b
  PROVE  Min(S) \in S /\ \A y \in S : Min(S) <= y
<1> DEFINE T == {x - b : x \in S}
<1>1. T \subseteq Nat
  OBVIOUS
<1>2. T # {}
  BY Zenon
<1>3. PICK d \in T : \A e \in T : ~ (<<e, d>> \in OpToRel(<, Nat))
  BY Zenon, <1>1, <1>2, NatLessThanWellFounded, WFMin
<1>4. \A e \in T : ~ (e < d)
  BY Zenon, <1>1, <1>3 DEF OpToRel
<1>5. PICK m \in S : d = m - b
  BY Zenon
<1>6. \A y \in S : y - b \in T
  BY Zenon
<1>7. \A y \in S : m <= y
  <2> HIDE DEF T
  <2> QED
    BY <1>4, <1>5, <1>6
<1> QED
  BY <1>7, Zenon DEF Min

\* The key column of a decoded row.
LEMMA KeyColumn ==
  ASSUME NEW types, NEW pk, NEW S, NEW payload \in Seq(S), Len(types) \in Nat
  PROVE  DecodeRow(types, pk, payload)[1] = <<"INTEGER", pk>>
BY DEF DecodeRow

\* A row that satisfies the comparisons lies within the bounds of the plan.
LEMMA InBounds ==
  ASSUME NEW where \in Seq(Comparisons), OnKey(where, {"EQ"}) = {},
         NEW pk \in 0 .. RowCount - 1, NEW row, row[1] = <<"INTEGER", pk>>,
         MatchesPredicate(row, where)
  PROVE  /\ PlanQuery(where).lo \in Int /\ PlanQuery(where).lo >= 0
         /\ PlanQuery(where).hi \in Int
         /\ PlanQuery(where).lo <= pk /\ pk <= PlanQuery(where).hi
<1> DEFINE A == {0} \cup {Above(where[i]) : i \in OnKey(where, {"GT", "GE"})}
           B == {IntMax} \cup {Below(where[i]) : i \in OnKey(where, {"LT", "LE"})}
<1>1. PlanQuery(where).lo = Max(A) /\ PlanQuery(where).hi = Min(B)
  BY Zenon DEF PlanQuery
<1>2. ASSUME NEW i \in OnKey(where, Ops)
      PROVE  /\ where[i] \in Comparisons /\ where[i].column = 1 /\ where[i].literal[2] \in Int
             /\ CompareOpMatches(where[i].op, <<"INTEGER", pk>>, where[i].literal)
  <2>1. i \in DOMAIN where /\ where[i] \in Comparisons /\ where[i].column = 1
    BY DEF OnKey
  <2>2. where[i] \in Range(where)
    BY Zenon, <2>1 DEF Range
  <2>3. where[i].literal[2] \in Int
    BY <2>1, Width DEF Comparisons, IntMin
  <2> QED
    BY Zenon, <2>1, <2>2, <2>3 DEF MatchesPredicate
<1>3. IntMax \in Int /\ IntMin \in Int /\ pk <= IntMax /\ pk > IntMin
  <2>1. RowCount <= Half * RowCount
    BY HalfOf, KeysAssumption
  <2>2. Half * RowCount \in Int
    BY HalfOf, KeysAssumption
  <2> QED
    BY <2>1, <2>2, Width, KeysAssumption DEF IntMin
<1>4. \A i \in OnKey(where, {"GT", "GE"}) : Above(where[i]) \in Int /\ Above(where[i]) <= pk
  <2> TAKE i \in OnKey(where, {"GT", "GE"})
  <2>1. i \in OnKey(where, Ops) /\ where[i].op \in {"GT", "GE"}
    BY Zenon DEF OnKey, Ops
  <2>2. CASE where[i].op = "GT"
    <3> DEFINE n == where[i].literal[2]
    <3>1. pk > n /\ n \in Int
      BY Zenon, <1>2, <2>1, <2>2 DEF CompareOpMatches
    <3>2. Above(where[i]) = IF n # IntMax THEN n + 1 ELSE n
      BY Zenon, <2>2 DEF Above
    <3> HIDE DEF n
    <3> QED
      BY <1>3, <3>1, <3>2
  <2>3. CASE where[i].op = "GE"
    BY Zenon, <1>2, <1>3, <2>1, <2>3 DEF CompareOpMatches, Above
  <2> QED
    BY Zenon, <2>1, <2>2, <2>3
<1>5. \A i \in OnKey(where, {"LT", "LE"}) : Below(where[i]) \in Int /\ Below(where[i]) >= pk
  <2> TAKE i \in OnKey(where, {"LT", "LE"})
  <2>1. i \in OnKey(where, Ops) /\ where[i].op \in {"LT", "LE"}
    BY Zenon DEF OnKey, Ops
  <2>2. CASE where[i].op = "LT"
    <3> DEFINE n == where[i].literal[2]
    <3>1. pk < n /\ n \in Int
      BY Zenon, <1>2, <2>1, <2>2 DEF CompareOpMatches
    <3>2. Below(where[i]) = IF n # IntMin THEN n - 1 ELSE n
      BY Zenon, <2>2 DEF Below
    <3> HIDE DEF n
    <3> QED
      BY <1>3, <3>1, <3>2
  <2>3. CASE where[i].op = "LE"
    BY Zenon, <1>2, <1>3, <2>1, <2>3 DEF CompareOpMatches, Below
  <2> QED
    BY Zenon, <2>1, <2>2, <2>3
<1>6. A \subseteq Int /\ 0 \in A /\ \A x \in A : x <= pk
  BY <1>4
<1>7. B \subseteq Int /\ IntMax \in B /\ \A x \in B : x >= pk
  BY Zenon, <1>3, <1>5
<1> HIDE DEF A, B
<1>8. Max(A) \in A /\ \A y \in A : Max(A) >= y
  <2>1. A \in SUBSET Int /\ A # {} /\ pk \in Int
    BY <1>6
  <2> QED
    BY Zenon, <1>6, <2>1, MaxExists
<1>9. Min(B) \in B
  <2>1. B \in SUBSET Int /\ B # {} /\ pk \in Int
    BY <1>7
  <2> QED
    BY Zenon, <1>7, <2>1, MinExists
<1> QED
  BY Zenon, <1>1, <1>6, <1>7, <1>8, <1>9

LEMMA RangeRemoveAt ==
  ASSUME NEW S, NEW s \in Seq(S), NEW i \in 1 .. Len(s)
  PROVE  Range(s) = Range(RemoveAt(s, i)) \cup {s[i]}
<1> DEFINE r == RemoveAt(s, i)
<1>1. /\ DOMAIN r = 1 .. Len(s) - 1 /\ DOMAIN s = 1 .. Len(s) /\ Len(s) \in Nat
      /\ \A j \in 1 .. Len(s) - 1 : r[j] = IF j < i THEN s[j] ELSE s[j + 1]
  <2> DEFINE x == SubSeq(s, 1, i - 1)
             y == SubSeq(s, i + 1, Len(s))
  <2>1. x \in Seq(S) /\ Len(x) = i - 1 /\ \A j \in 1 .. i - 1 : x[j] = s[j]
    OBVIOUS
  <2>2. y \in Seq(S) /\ Len(y) = Len(s) - i /\ \A j \in 1 .. Len(s) - i : y[j] = s[j + i]
    OBVIOUS
  <2>3. r = x \o y
    BY Zenon DEF RemoveAt
  <2> HIDE DEF x, y, r
  <2>4. /\ r \in Seq(S) /\ Len(r) = (i - 1) + (Len(s) - i)
        /\ \A j \in 1 .. i - 1 : r[j] = x[j]
        /\ \A j \in 1 .. Len(s) - i : r[(i - 1) + j] = y[j]
    <3>1. x \in Seq(S) /\ y \in Seq(S)
      BY <2>1, <2>2, Zenon
    <3>2. /\ x \o y \in Seq(S) /\ Len(x \o y) = Len(x) + Len(y)
          /\ \A j \in 1 .. Len(x) : (x \o y)[j] = x[j]
          /\ \A j \in 1 .. Len(y) : (x \o y)[Len(x) + j] = y[j]
      BY <3>1
    <3>3. Len(x) = i - 1 /\ Len(y) = Len(s) - i
      BY Zenon, <2>1, <2>2
    <3> QED
      BY <2>3, <3>2, <3>3, Zenon
  <2>5. DOMAIN s = 1 .. Len(s) /\ Len(s) \in Nat /\ DOMAIN r = 1 .. Len(s) - 1
    BY <2>4
  <2>6. ASSUME NEW j \in 1 .. Len(s) - 1
        PROVE  r[j] = IF j < i THEN s[j] ELSE s[j + 1]
    <3>1. CASE j < i
      BY <2>1, <2>4, <3>1
    <3>2. CASE ~(j < i)
      <4>1. PICK m \in 1 .. Len(s) - i : (i - 1) + m = j /\ m + i = j + 1
        <5>1. (j - (i - 1)) \in 1 .. Len(s) - i
          BY <2>5, <3>2
        <5>2. (i - 1) + (j - (i - 1)) = j /\ (j - (i - 1)) + i = j + 1
          BY <2>5
        <5> QED
          BY <5>1, <5>2, Zenon
      <4>2. r[(i - 1) + m] = y[m] /\ y[m] = s[m + i]
        BY <2>2, <2>4, Zenon
      <4> QED
        BY Zenon, <3>2, <4>1, <4>2
    <3> QED
      BY Zenon, <3>1, <3>2
  <2> QED
    BY Zenon, <2>5, <2>6
<1> HIDE DEF r
<1>2. \A x \in Range(s) : x \in Range(r) \cup {s[i]}
  <2> TAKE x \in Range(s)
  <2>1. PICK j \in 1 .. Len(s) : x = s[j]
    BY Zenon, <1>1 DEF Range
  <2>2. CASE j < i
    BY <1>1, <2>1, <2>2 DEF Range
  <2>3. CASE j > i
    <3>1. j - 1 \in 1 .. Len(s) - 1 /\ r[j - 1] = s[j]
      BY <1>1, <2>1, <2>3
    <3> QED
      BY Zenon, <1>1, <2>1, <3>1 DEF Range
  <2> QED
    BY <2>1, <2>2, <2>3
<1>3. \A x \in Range(r) \cup {s[i]} : x \in Range(s)
  <2>1. \A j \in 1 .. Len(s) : s[j] \in Range(s)
    BY Zenon, <1>1 DEF Range
  <2>2. ASSUME NEW x \in Range(r)
        PROVE  x \in Range(s)
    <3>1. PICK j \in 1 .. Len(s) - 1 : x = r[j]
      BY Zenon, <1>1, <2>2 DEF Range
    <3>2. x = s[j] \/ x = s[j + 1]
      BY Zenon, <1>1, <3>1
    <3>3. j \in 1 .. Len(s) /\ j + 1 \in 1 .. Len(s)
      BY <1>1
    <3> QED
      BY Zenon, <2>1, <3>2, <3>3
  <2> QED
    BY Zenon, <2>1, <2>2
<1> QED
  BY Zenon, <1>2, <1>3 DEF r

\* What the engine holds: keys of the right width, with payloads.
StoreOK(S) == DOMAIN store \subseteq IntMin .. IntMax /\ \A k \in DOMAIN store : store[k] \in Seq(S)

\* A range scan stops neither before a row that satisfies the clause nor after
\* the last of its own table.
LEMMA RangeFetches ==
  ASSUME NEW id \in 0 .. TableCount - 1, NEW types, Len(types) \in Nat,
         NEW where \in Seq(Comparisons), OnKey(where, {"EQ"}) = {},
         NEW S, StoreOK(S)
  PROVE  Fetched(id, types, PlanQuery(where)) = Satisfying(id, types, where)
<1> DEFINE plan == PlanQuery(where)
           start == EncodeKey(id, plan.lo)
           Row(key) == DecodeRow(types, DecodeRowKey(key), store[key])
<1>1. plan.point = FALSE /\ plan.residual = where
  BY Zenon DEF PlanQuery
<1>2. \A key : RowAt(types, plan, key) = Row(key)
  BY Zenon, <1>1 DEF RowAt
<1>3. \A key : key \in Visited(id, plan) <=>
        /\ key \in DOMAIN store /\ key >= start
        /\ \A j \in DOMAIN store :
             start <= j /\ j <= key => DecodeTableId(j) = id /\ ~(DecodeRowKey(j) > plan.hi)
  BY Zenon, <1>1 DEF Visited
<1>4. ASSUME NEW key \in DOMAIN store, MatchesPredicate(Row(key), where)
      PROVE  /\ key \in IntMin .. IntMax /\ DecodeRowKey(key) \in 0 .. RowCount - 1
             /\ plan.lo \in 0 .. RowCount - 1 /\ plan.lo <= DecodeRowKey(key)
             /\ plan.hi \in Int /\ DecodeRowKey(key) <= plan.hi
  <2>1. key \in IntMin .. IntMax /\ store[key] \in Seq(S)
    BY Zenon DEF StoreOK
  <2>2. key \in Int
    BY <2>1, Width DEF IntMin
  <2>3. DecodeRowKey(key) \in 0 .. RowCount - 1
    BY Zenon, <2>2, Division DEF DecodeRowKey
  <2>4. Row(key)[1] = <<"INTEGER", DecodeRowKey(key)>>
    BY Zenon, <2>1, KeyColumn
  <2> HIDE DEF plan, Row
  <2>5. /\ plan.lo \in Int /\ plan.lo >= 0 /\ plan.lo <= DecodeRowKey(key)
        /\ plan.hi \in Int /\ DecodeRowKey(key) <= plan.hi
    BY Zenon, <1>4, <2>3, <2>4, InBounds DEF plan
  <2> QED
    BY <2>1, <2>3, <2>5, KeysAssumption
<1> HIDE DEF plan, Row
<1>5. ASSUME NEW key \in Satisfying(id, types, where)
      PROVE  key \in Fetched(id, types, plan)
  <2>1. key \in DOMAIN store /\ DecodeTableId(key) = id /\ MatchesPredicate(Row(key), where)
    BY Zenon, <1>5 DEF Satisfying, Row
  <2> DEFINE pk == DecodeRowKey(key)
  <2>2. /\ key \in IntMin .. IntMax /\ pk \in 0 .. RowCount - 1
        /\ plan.lo \in 0 .. RowCount - 1 /\ plan.lo <= pk
        /\ plan.hi \in Int /\ pk <= plan.hi
    BY Zenon, <1>4, <2>1
  <2>3. key = EncodeKey(id, pk)
    BY Zenon, <2>1, <2>2, Packed
  <2>4. key >= start
    <3>1. key = Upper(id) * RowCount + pk /\ start = Upper(id) * RowCount + plan.lo
      BY Zenon, <2>2, <2>3, Unpacked
    <3>2. PICK base \in Int : base = Upper(id) * RowCount
      BY UpperBits, HalfOf, KeysAssumption
    <3> HIDE DEF pk, start
    <3>3. key = base + pk /\ start = base + plan.lo
      BY Zenon, <3>1, <3>2
    <3>4. pk \in Int /\ plan.lo \in Int /\ plan.lo <= pk
      BY <2>2
    <3> QED
      BY <3>3, <3>4
  <2>5. ASSUME NEW j \in DOMAIN store, start <= j, j <= key
        PROVE  DecodeTableId(j) = id /\ ~(DecodeRowKey(j) > plan.hi)
    <3>1. j \in Int
      BY Width DEF StoreOK, IntMin
    <3>2. DecodeTableId(j) = id /\ DecodeRowKey(j) \in plan.lo .. pk
      BY Zenon, <2>2, <2>3, <2>5, <3>1, Between
    <3> QED
      BY <2>2, <3>2
  <2>6. key \in Visited(id, plan)
    BY Zenon, <1>3, <2>1, <2>4, <2>5
  <2> QED
    BY Zenon, <1>1, <1>2, <2>1, <2>6 DEF Fetched
<1>6. ASSUME NEW key \in Fetched(id, types, plan)
      PROVE  key \in Satisfying(id, types, where)
  <2>1. key \in Visited(id, plan) /\ MatchesPredicate(Row(key), where)
    BY Zenon, <1>1, <1>2, <1>6 DEF Fetched
  <2>2. key \in DOMAIN store /\ key >= start
    BY Zenon, <1>3, <2>1
  <2>3. start \in Int /\ key \in Int
    <3>1. plan.lo \in 0 .. RowCount - 1 /\ key \in IntMin .. IntMax
      BY Zenon, <1>4, <2>1, <2>2
    <3>2. start = Upper(id) * RowCount + plan.lo
      BY Zenon, <3>1, Unpacked
    <3>3. Upper(id) * RowCount \in Int
      BY UpperBits, HalfOf, KeysAssumption
    <3> HIDE DEF start
    <3> QED
      BY <3>1, <3>2, <3>3, Width, KeysAssumption DEF IntMin
  <2>4. start <= key /\ key <= key
    <3> HIDE DEF start
    <3> QED
      BY <2>2, <2>3
  <2>5. DecodeTableId(key) = id
    BY Zenon, <1>3, <2>1, <2>2, <2>4
  <2> QED
    BY Zenon, <2>1, <2>2, <2>5 DEF Satisfying, Row
<1> QED
  BY Zenon, <1>5, <1>6 DEF plan

\* A point lookup of a possible primary key finds the row that has it, and the
\* other comparisons decide.
LEMMA PointFetches ==
  ASSUME NEW id \in 0 .. TableCount - 1, NEW types, Len(types) \in Nat,
         NEW where \in Seq(Comparisons), OnKey(where, {"EQ"}) # {}, PointsAreKeys(where),
         NEW S, StoreOK(S)
  PROVE  Fetched(id, types, PlanQuery(where)) = Satisfying(id, types, where)
<1> DEFINE plan == PlanQuery(where)
           i == Min(OnKey(where, {"EQ"}))
           n == where[i].literal[2]
           Row(pk, key) == DecodeRow(types, pk, store[key])
<1>1. i \in OnKey(where, {"EQ"})
  <2>1. OnKey(where, {"EQ"}) \in SUBSET Int /\ \A x \in OnKey(where, {"EQ"}) : x >= 1
    BY DEF OnKey
  <2> QED
    BY <2>1, MinExists
<1>2. plan.point = TRUE /\ plan.lo = n /\ plan.residual = RemoveAt(where, i)
  BY Zenon DEF PlanQuery
<1> HIDE DEF plan, i
<1>3. /\ i \in 1 .. Len(where) /\ where[i].column = 1 /\ where[i].op = "EQ"
      /\ n \in 0 .. RowCount - 1
  BY <1>1 DEF OnKey, PointsAreKeys
<1> HIDE DEF n
<1>4. Range(where) = Range(RemoveAt(where, i)) \cup {where[i]}
  BY Zenon, <1>3, RangeRemoveAt
<1>5. ASSUME NEW pk, NEW key \in DOMAIN store
      PROVE  MatchesPredicate(Row(pk, key), where) <=>
               pk = n /\ MatchesPredicate(Row(pk, key), RemoveAt(where, i))
  <2>1. Row(pk, key)[1] = <<"INTEGER", pk>>
    BY Zenon, KeyColumn DEF StoreOK
  <2> HIDE DEF Row
  <2>2. CompareOpMatches(where[i].op, Row(pk, key)[where[i].column], where[i].literal)
          <=> pk = n
    BY <1>3, <2>1 DEF CompareOpMatches, n
  <2> QED
    BY Zenon, <1>4, <2>2 DEF MatchesPredicate
<1>6. \A key : key \in Fetched(id, types, plan) <=>
        /\ key \in DOMAIN store /\ key = EncodeKey(id, n)
        /\ MatchesPredicate(Row(n, key), RemoveAt(where, i))
  BY Zenon, <1>2 DEF Fetched, Visited, RowAt
<1> HIDE DEF Row
<1>7. ASSUME NEW key \in Fetched(id, types, plan)
      PROVE  key \in Satisfying(id, types, where)
  <2>1. DecodeTableId(key) = id /\ DecodeRowKey(key) = n
    BY <1>3, <1>6, <1>7, Unpacked
  <2> QED
    BY Zenon, <1>5, <1>6, <1>7, <2>1 DEF Satisfying, Row
<1>8. ASSUME NEW key \in Satisfying(id, types, where)
      PROVE  key \in Fetched(id, types, plan)
  <2>1. /\ key \in DOMAIN store /\ DecodeTableId(key) = id
        /\ MatchesPredicate(Row(DecodeRowKey(key), key), where)
    BY Zenon, <1>8 DEF Satisfying, Row
  <2>2. key = EncodeKey(id, DecodeRowKey(key))
    BY Zenon, <2>1, Packed DEF StoreOK
  <2> QED
    BY Zenon, <1>5, <1>6, <2>1, <2>2
<1> QED
  BY Zenon, <1>7, <1>8 DEF plan

\* Whatever access path the planner chooses, the executor fetches the rows of
\* the table that satisfy every comparison, all of them and no other.
THEOREM PlanFetchesMatching ==
  ASSUME NEW id \in 0 .. TableCount - 1, NEW types, Len(types) \in Nat,
         NEW where \in Seq(Comparisons), PointsAreKeys(where),
         NEW S, StoreOK(S)
  PROVE  Fetched(id, types, PlanQuery(where)) = Satisfying(id, types, where)
BY Zenon, RangeFetches, PointFetches

----------------------------------------------------------------------------
(* The life of a database file.                                            *)

\* At any time, for any table that was created and any WHERE clause, the keys
\* that the executor fetches are those of the rows that satisfy it.
FetchIsFilter ==
  \A n \in DOMAIN tables : \A where \in Seq(Comparisons) :
    PointsAreKeys(where) =>
      Fetched(tables[n], Schema[n], PlanQuery(where)) = Satisfying(tables[n], Schema[n], where)

\* No program but the shell and the start of the server leaves a DELETE
\* unfinished.
DeleteInv ==
  /\ ~deleting => to_delete = {}
  /\ deleting => "error" \in DOMAIN result /\ ~result.error
  /\ phase \notin {"shell", "schema"} => ~deleting

\* Tables have schemas and ids in range, rows have keys in range.
TablesInv ==
  /\ next_table_id \in 0 .. TableCount - 1
  /\ DOMAIN tables \subseteq Name /\ \A n \in DOMAIN tables : tables[n] \in 0 .. TableCount - 1
  /\ StoreOK(Value)

----------------------------------------------------------------------------
(* The statements keep TablesInv.                                           *)

IsStatement(s) ==
  /\ s.kind = "CREATE" => s.table \in Name
  /\ s.kind = "INSERT" => s.values \in Seq(Value)

LEMMA CreateInv ==
  ASSUME TablesInv, NEW n \in Name, ExecuteCreateTable(n)
  PROVE  TablesInv'
<1>1. StoreOK(Value)'
  BY Zenon DEF TablesInv, ExecuteCreateTable, StoreOK
<1>2. CASE n \in DOMAIN tables
  BY Zenon, <1>1, <1>2 DEF TablesInv, ExecuteCreateTable
<1>3. CASE n \notin DOMAIN tables
  <2>1. tables' = [m \in DOMAIN tables \cup {n} |-> IF m = n THEN next_table_id ELSE tables[m]]
    BY <1>3, Zenon DEF ExecuteCreateTable, Set
  <2>2. next_table_id' \in 0 .. TableCount - 1
    BY <1>3, KeysAssumption DEF TablesInv, ExecuteCreateTable
  <2> QED
    BY Zenon, <1>1, <2>1, <2>2 DEF TablesInv
<1> QED
  BY Zenon, <1>2, <1>3

LEMMA KeyWidth ==
  ASSUME NEW id \in 0 .. TableCount - 1, NEW pk \in 0 .. RowCount - 1
  PROVE  EncodeKey(id, pk) \in IntMin .. IntMax
<1> DEFINE u == Upper(id)
<1>1. u \in Int /\ -Half <= u /\ u <= Half - 1 /\ Half \in Int
  BY UpperBits, HalfOf
<1>2. EncodeKey(id, pk) = u * RowCount + pk
  BY Zenon, Unpacked
<1> HIDE DEF u
<1>3. u * RowCount + RowCount <= Half * RowCount
  BY <1>1, Products
<1>4. -(Half * RowCount) <= u * RowCount
  BY <1>1, KeysAssumption
<1>5. u * RowCount \in Int /\ Half * RowCount \in Int
  BY <1>1, KeysAssumption
<1> QED
  BY <1>2, <1>3, <1>4, <1>5, Width, KeysAssumption

LEMMA InsertInv ==
  ASSUME TablesInv, NEW n, NEW values \in Seq(Value), ExecuteInsert(n, values)
  PROVE  TablesInv'
<1>1. UNCHANGED <<tables, next_table_id>>
  BY Zenon DEF ExecuteInsert
<1>2. CASE UNCHANGED store
  BY Zenon, <1>1, <1>2 DEF TablesInv, StoreOK
<1>3. CASE ~InsertThrows(n, values) /\ PutRow(n, values)
  <2> DEFINE key == EncodeKey(tables[n], values[1][2])
  <2>1. n \in DOMAIN tables /\ values # <<>> /\ values[1][2] \in 0 .. RowCount - 1
    BY Zenon, <1>3 DEF InsertThrows
  <2>2. key \in IntMin .. IntMax
    BY Zenon, <2>1, KeyWidth DEF TablesInv
  <2>3. EncodeRow(values) \in Seq(Value)
    BY <2>1 DEF EncodeRow
  <2>4. store' = [k \in DOMAIN store \cup {key} |->
                    IF k = key THEN EncodeRow(values) ELSE store[k]]
    BY <1>3, Zenon DEF PutRow, Set
  <2> HIDE DEF key
  <2>5. StoreOK(Value)'
    BY Zenon, <2>2, <2>3, <2>4 DEF TablesInv, StoreOK
  <2> QED
    BY Zenon, <1>1, <2>5 DEF TablesInv
<1> QED
  BY Zenon, <1>2, <1>3 DEF ExecuteInsert

\* Rows that are removed leave the others as they are.
LEMMA RemoveInv ==
  ASSUME TablesInv, UNCHANGED <<tables, next_table_id>>,
         NEW S, store' = Restrict(store, DOMAIN store \ S) \/ store' = store
  PROVE  TablesInv'
<1>1. DOMAIN store' \subseteq DOMAIN store /\ \A k \in DOMAIN store' : store'[k] = store[k]
  BY Zenon DEF Restrict
<1> QED
  BY Zenon, <1>1 DEF TablesInv, StoreOK

LEMMA ExecuteInv ==
  ASSUME TablesInv, NEW s, IsStatement(s), Execute(s)
  PROVE  TablesInv'
<1>1. CASE s.kind = "CREATE" /\ ExecuteCreateTable(s.table)
  BY Zenon, <1>1, CreateInv DEF IsStatement
<1>2. CASE s.kind = "INSERT" /\ ExecuteInsert(s.table, s.values)
  BY Zenon, <1>2, InsertInv DEF IsStatement
<1>3. ASSUME UNCHANGED <<tables, next_table_id, store>> PROVE TablesInv'
  BY Zenon, <1>3, RemoveInv
<1>4. CASE s.kind = "SELECT" /\ ExecuteSelect(s.table, s.columns, s.where)
  BY Zenon, <1>3, <1>4 DEF ExecuteSelect
<1>5. CASE s.kind = "DELETE" /\ ExecuteDelete(s.table, s.where)
  BY Zenon, <1>3, <1>5 DEF ExecuteDelete
<1> QED
  BY Zenon, <1>1, <1>2, <1>4, <1>5 DEF Execute

----------------------------------------------------------------------------
IInv == DeleteInv /\ TablesInv /\ line \in Nat \ {0}

\* A statement that starts a DELETE has not failed.
LEMMA ExecuteDeletes ==
  ASSUME DeleteInv, NEW s, Execute(s)
  PROVE  /\ ~deleting' => to_delete' = {}
         /\ deleting' => "error" \in DOMAIN result' /\ ~result'.error
<1>1. ~deleting /\ to_delete = {}
  BY Zenon DEF Execute, DeleteInv
<1>2. CASE UNCHANGED <<deleting, to_delete>>
  BY Zenon, <1>1, <1>2
<1>3. CASE ~UNCHANGED <<deleting, to_delete>>
  <2>1. ExecuteDelete(s.table, s.where) 
    BY Zenon, <1>3 DEF Execute, ExecuteCreateTable, ExecuteInsert, ExecuteSelect
  <2>2. deleting' = TRUE /\ result' = QueryResult(<<>>, 0)
    BY Zenon, <1>3, <2>1 DEF ExecuteDelete
  <2> QED
    BY Zenon, <2>2 DEF QueryResult
<1> QED
  BY Zenon, <1>2, <1>3

LEMMA InitInv == Init => IInv
<1> SUFFICES ASSUME Init PROVE IInv
  BY Zenon
<1>1. tables = <<>> /\ next_table_id = 0 /\ store = <<>>
  BY Zenon DEF Init, DatabaseInit, Empty
<1>2. TablesInv
  BY <1>1, KeysAssumption DEF TablesInv, StoreOK
<1> QED
  BY <1>2 DEF Init, DatabaseInit, IInv, DeleteInv

\* What a request that is answered does to the database: a SELECT, or nothing.
LEMMA HandleReads ==
  ASSUME HandleConnection
  PROVE  /\ UNCHANGED <<tables, next_table_id, store, deleting, to_delete>>
         /\ deleting => UNCHANGED result
<1>1. CASE Queries(sent[fd])
  <2> DEFINE s == sent[fd].sql
  <2>1. Execute(s) /\ s.kind = "SELECT"
    BY Zenon, <1>1 DEF HandleConnection, Queries, ReadOnly
  <2> HIDE DEF s
  <2>2. ExecuteSelect(s.table, s.columns, s.where) /\ ~deleting
    BY Zenon, <2>1 DEF Execute
  <2> QED
    BY Zenon, <2>2 DEF ExecuteSelect
<1>2. CASE ~Queries(sent[fd])
  BY Zenon, <1>2 DEF HandleConnection, dbvars
<1> QED
  BY Zenon, <1>1, <1>2

\* The steps that leave the database alone.
Others ==
  \/ Listen \/ Stop \/ While \/ PollTimeout \/ Accept \/ AcceptFails
  \/ \E c \in Client : Connect(c) \/ HangUp(c) \/ \E r \in Requests[c] : Send(c, r)
  \/ UNCHANGED vars

LEMMA OthersRead ==
  ASSUME Others
  PROVE  /\ UNCHANGED <<tables, next_table_id, store, deleting, to_delete, result, line>>
         /\ phase' \notin {"shell", "schema"} => phase \notin {"shell", "schema"} \/ ~deleting
<1>1. UNCHANGED dbvars /\ UNCHANGED line
  BY Zenon DEF Others, Listen, Stop, While, PollTimeout, Accept, AcceptFails, Connect, HangUp, Send,
         ClientKeeps, vars, httpvars
<1>2. phase' = phase \/ (phase' = "serve" /\ ~deleting)
                     \/ (phase' = "exited" /\ phase = "serve")
  BY Zenon DEF Others, Listen, Stop, While, PollTimeout, Accept, AcceptFails, Connect, HangUp, Send,
         ClientKeeps, vars, httpvars
<1> QED
  BY Zenon, <1>1, <1>2 DEF dbvars

LEMMA Steps ==
  ASSUME [Next]_vars
  PROVE  \/ Others \/ HandleConnection
         \/ ShellSql \/ PrintQueryResult \/ StartServer \/ StartShell
         \/ RunSchemaFile \/ DeleteGoesOn
BY Zenon DEF Next, Run, Others

LEMMA NextInv == IInv /\ [Next]_vars => IInv'
<1> SUFFICES ASSUME IInv, [Next]_vars PROVE IInv'
  BY Zenon
<1>1. ASSUME UNCHANGED <<tables, next_table_id, store>> PROVE TablesInv'
  BY Zenon, <1>1, RemoveInv DEF IInv
<1>2. CASE Others
  BY <1>1, <1>2, OthersRead DEF IInv, DeleteInv
<1>3. CASE HandleConnection
  <2>1. /\ UNCHANGED <<tables, next_table_id, store, deleting, to_delete, phase, line>>
        /\ deleting => UNCHANGED result
    BY Zenon, <1>3, HandleReads DEF HandleConnection
  <2> QED
    BY Zenon, <1>1, <2>1 DEF IInv, DeleteInv
<1>4. CASE ShellSql
  <2>1. PICK s \in Statements : Execute(s)
    BY Zenon, <1>4 DEF ShellSql
  <2>2. TablesInv'
    BY Zenon, <2>1, ExecuteInv, StatementsAssumption DEF IInv, IsStatement
  <2>3. phase' = "shell" /\ line' = line
    BY Zenon, <1>4 DEF ShellSql, httpvars
  <2> QED
    BY Zenon, <2>1, <2>2, <2>3, ExecuteDeletes DEF IInv, DeleteInv
<1>5. CASE RunSchemaFile
  <2> DEFINE s == SchemaLines[line]
  <2>1. /\ Execute(s) /\ phase = "schema" /\ line' = line + 1 /\ line \in 1 .. Len(SchemaLines)
        /\ phase' = IF result'.error THEN "exited" ELSE "schema"
    BY <1>5, StatementsAssumption DEF RunSchemaFile, ExitOnError, IInv
  <2>2. s \in Range(SchemaLines)
    BY <2>1, StatementsAssumption DEF Range
  <2>3. IsStatement(s)
    BY Zenon, <2>2, StatementsAssumption DEF IsStatement
  <2> HIDE DEF s
  <2>4. TablesInv'
    BY Zenon, <2>1, <2>3, ExecuteInv DEF IInv
  <2> QED
    BY <2>1, <2>4, ExecuteDeletes DEF IInv, DeleteInv
<1>6. CASE PrintQueryResult
  <2>1. UNCHANGED <<tables, next_table_id, store, deleting, to_delete, phase, line>> /\ ~deleting
    BY Zenon, <1>6 DEF PrintQueryResult, httpvars
  <2> QED
    BY Zenon, <1>1, <2>1 DEF IInv, DeleteInv
<1>7. CASE StartServer \/ StartShell
  <2>1. /\ tables' = <<>> /\ next_table_id' = 0 /\ store' = store
        /\ deleting' = FALSE /\ to_delete' = {} /\ line' = 1
    BY Zenon, <1>7 DEF StartServer, StartShell, Restart, NewProcess, Empty
  <2>2. TablesInv'
    BY <2>1, KeysAssumption DEF IInv, TablesInv, StoreOK
  <2> QED
    BY <2>1, <2>2 DEF IInv, DeleteInv
<1>8. CASE DeleteGoesOn
  <2>1. /\ UNCHANGED <<tables, next_table_id, line>>
        /\ store' = Restrict(store, DOMAIN store \ {Min(to_delete)}) \/ store' = store
    BY Zenon, <1>8 DEF DeleteGoesOn, DeleteNext, DeleteReturns, DeleteThrows
  <2>2. TablesInv'
    BY Zenon, <2>1, RemoveInv DEF IInv
  <2>3. CASE DeleteNext
    <3>1. deleting /\ deleting' = deleting /\ phase \in {"shell", "schema"}
      BY Zenon, <2>3 DEF DeleteNext, IInv, DeleteInv
    <3>2. "error" \in DOMAIN result' /\ ~result'.error
      BY Zenon, <2>3, <3>1 DEF DeleteNext, IInv, DeleteInv
    <3>3. phase' = phase
      BY Zenon, <1>8, <3>2 DEF DeleteGoesOn, ExitOnError
    <3> QED
      BY Zenon, <2>1, <2>2, <3>1, <3>2, <3>3 DEF IInv, DeleteInv
  <2>4. CASE DeleteReturns \/ DeleteThrows
    <3>1. deleting' = FALSE /\ to_delete' = {}
      BY Zenon, <2>4 DEF DeleteReturns, DeleteThrows
    <3> QED
      BY Zenon, <2>1, <2>2, <3>1 DEF IInv, DeleteInv
  <2> QED
    BY Zenon, <1>8, <2>3, <2>4 DEF DeleteGoesOn
<1> QED
  BY Zenon, <1>2, <1>3, <1>4, <1>5, <1>6, <1>7, <1>8, Steps

LEMMA ServerInv == Spec => []IInv
BY InitInv, NextInv, PTL DEF Spec

----------------------------------------------------------------------------
\* The planner and the executor return the rows that satisfy the clause, in
\* every state that the shell, the schema file and the server can reach.
THEOREM FetchesMatching == Spec => []FetchIsFilter
<1>1. ASSUME IInv PROVE FetchIsFilter
  <2> SUFFICES ASSUME NEW n \in DOMAIN tables, NEW where \in Seq(Comparisons),
                      PointsAreKeys(where)
               PROVE  Fetched(tables[n], Schema[n], PlanQuery(where))
                        = Satisfying(tables[n], Schema[n], where)
    BY Zenon DEF FetchIsFilter
  <2>1. tables[n] \in 0 .. TableCount - 1 /\ n \in DOMAIN Schema /\ StoreOK(Value)
    BY Zenon, <1>1 DEF IInv, TablesInv, Name
  <2>2. Len(Schema[n]) \in Nat
    BY <2>1, SchemaAssumption
  <2> QED
    BY Zenon, <2>1, <2>2, PlanFetchesMatching
<1> QED
  BY <1>1, ServerInv, PTL

\* No request changes a table, the catalog or a row while the server serves.
THEOREM ReadOnlyServer == Spec => ServesReadOnly
<1>1. ASSUME IInv, [Next]_vars, phase = "serve", phase' = "serve"
      PROVE  UNCHANGED <<tables, store>>
  <2>1. CASE Others
    BY Zenon, <2>1, OthersRead
  <2>2. CASE HandleConnection
    BY Zenon, <2>2, HandleReads
  <2>3. ~deleting /\ to_delete = {}
    BY Zenon, <1>1 DEF IInv, DeleteInv
  <2>4. ~DeleteGoesOn
    BY Zenon, <2>3 DEF DeleteGoesOn, DeleteNext, DeleteReturns, DeleteThrows
  <2> QED
    BY Zenon, <1>1, <2>1, <2>2, <2>4, Steps
       DEF ShellSql, PrintQueryResult, StartServer, StartShell, RunSchemaFile
<1>2. IInv /\ [Next]_vars
        => [phase = "serve" /\ phase' = "serve" => UNCHANGED <<tables, store>>]_vars
  BY Zenon, <1>1
<1> QED
  BY <1>2, ServerInv, PTL DEF Spec, ServesReadOnly
=============================================================================
