------------------------------ MODULE LSMViews ------------------------------
(***************************************************************************)
(* The proof that installing a merged table changes no value a reader can  *)
(* see: the table shows, for every key, what the tables it replaces showed,*)
(* the tombstones it drops included, and no newer table is passed over.    *)
(***************************************************************************)
EXTENDS LSMProofs

----------------------------------------------------------------------------
(* What a list of maps shows for a key: the entry of the first that has one. *)

\* What an entry reads as.
Read(e) == IF e = Tombstone THEN Absent ELSE e

LEMMA LookupNone ==
  ASSUME NEW maps, NEW k, \A i \in DOMAIN maps : k \notin DOMAIN maps[i]
  PROVE  k \notin DOMAIN Merge(maps) /\ Lookup(maps, k) = Absent
<1>1. DOMAIN Merge(maps) = UNION {DOMAIN maps[i] : i \in DOMAIN maps}
  BY Zenon DEF Merge
<1>2. k \notin DOMAIN Merge(maps)
  BY Zenon, <1>1
<1> QED
  BY Zenon, <1>2 DEF Lookup

LEMMA LookupFirst ==
  ASSUME NEW maps, DOMAIN maps \subseteq Nat \ {0}, NEW k, NEW i \in DOMAIN maps, k \in DOMAIN maps[i],
         \A j \in 1 .. i - 1 : k \notin DOMAIN maps[j]
  PROVE  /\ k \in DOMAIN Merge(maps) /\ Merge(maps)[k] = maps[i][k]
         /\ Lookup(maps, k) = Read(maps[i][k])
<1> DEFINE P(x) == k \in DOMAIN maps[x] /\ \A j \in 1 .. x - 1 : k \notin DOMAIN maps[j]
           f == CHOOSE x \in DOMAIN maps : P(x)
<1>1. k \in UNION {DOMAIN maps[x] : x \in DOMAIN maps}
  BY Zenon
<1>2. k \in DOMAIN Merge(maps) /\ Merge(maps)[k] = maps[f][k]
  BY Zenon, <1>1 DEF Merge
<1>3. f \in DOMAIN maps /\ P(f)
  BY Zenon
<1>4. i \in Nat \ {0} /\ f \in Nat \ {0}
  BY Zenon, <1>3
<1>5. f = i
  <2> HIDE DEF f
  <2>1. ~ (i \in 1 .. f - 1) /\ ~ (f \in 1 .. i - 1)
    BY Zenon, <1>3
  <2> QED
    BY <1>4, <2>1
<1>6. Merge(maps)[k] = maps[i][k]
  BY Zenon, <1>2, <1>5
<1> QED
  BY Zenon, <1>2, <1>6 DEF Lookup, Read

ContentsOf(F, ids) == [i \in DOMAIN ids |-> F[ids[i]]]

\* What the tables of ts show for k, when F are the table files.
Shown(F, ts, k) == Lookup(ContentsOf(F, Flatten(ts)), k)

Having(F, k) == {i \in DOMAIN F : k \in DOMAIN F[i]}

\* Table p of tier t is the first one in S.
First(ts, S, t, p) ==
  /\ t \in DOMAIN ts /\ p \in DOMAIN ts[t] /\ ts[t][p] \in S
  /\ \A u \in 1 .. t - 1 : \A q \in DOMAIN ts[u] : ts[u][q] \notin S
  /\ \A q \in 1 .. p - 1 : ts[t][q] \notin S

LEMMA SomeFirst ==
  ASSUME NEW ts \in Seq(Seq(Nat)), NEW S, Named(ts) \cap S # {}
  PROVE  \E t, p : First(ts, S, t, p)
<1> DEFINE T == {t \in DOMAIN ts : \E p \in DOMAIN ts[t] : ts[t][p] \in S}
<1>1. T \in SUBSET Nat
  OBVIOUS
<1>2. T # {}
  <2>1. PICK i : i \in Named(ts) /\ i \in S
    BY Zenon
  <2>2. PICK t \in DOMAIN ts : \E p \in DOMAIN ts[t] : ts[t][p] = i
    BY Zenon, <2>1, NamedIs
  <2> QED
    BY Zenon, <2>1, <2>2
<1>3. PICK t \in T : \A u \in T : t <= u
  <2> HIDE DEF T
  <2> QED
    BY Zenon, <1>1, <1>2, Least
<1> DEFINE P == {p \in DOMAIN ts[t] : ts[t][p] \in S}
<1>4. t \in DOMAIN ts /\ t \in Nat /\ ts[t] \in Seq(Nat)
  BY <1>3
<1>5. P \in SUBSET Nat /\ P # {}
  BY <1>3, <1>4
<1>6. PICK p \in P : \A q \in P : p <= q
  <2> HIDE DEF P
  <2> QED
    BY Zenon, <1>5, Least
<1>7. \A u \in 1 .. t - 1 : \A q \in DOMAIN ts[u] : ts[u][q] \notin S
  <2> SUFFICES ASSUME NEW u \in 1 .. t - 1, NEW q \in DOMAIN ts[u], ts[u][q] \in S
               PROVE  FALSE
    BY Zenon
  <2>1. u \in DOMAIN ts /\ ~ (t <= u)
    BY SMTT(30), <1>4
  <2> QED
    BY Zenon, <1>3, <2>1
<1>8. \A q \in 1 .. p - 1 : ts[t][q] \notin S
  <2> SUFFICES ASSUME NEW q \in 1 .. p - 1, ts[t][q] \in S
               PROVE  FALSE
    BY Zenon
  <2>1. q \in DOMAIN ts[t] /\ ~ (p <= q)
    BY <1>4
  <2> QED
    BY Zenon, <1>6, <2>1
<1> QED
  BY Zenon, <1>4, <1>6, <1>7, <1>8 DEF First

LEMMA ShownNone ==
  ASSUME NEW ts \in Seq(Seq(Nat)), NEW F, NEW k, Named(ts) \subseteq DOMAIN F,
         Named(ts) \cap Having(F, k) = {}
  PROVE  Shown(F, ts, k) = Absent
<1> DEFINE s == Flatten(ts)
           maps == ContentsOf(F, s)
<1>1. s \in Seq(Nat) /\ Range(s) = Named(ts)
  BY Zenon, FlattenRange
<1>2. DOMAIN maps = DOMAIN s /\ \A i \in DOMAIN s : maps[i] = F[s[i]] /\ s[i] \in Named(ts)
  BY Zenon, <1>1 DEF ContentsOf, Range
<1>3. \A i \in DOMAIN maps : k \notin DOMAIN maps[i]
  BY Zenon, <1>2 DEF Having
<1> HIDE DEF maps
<1>4. Lookup(maps, k) = Absent
  BY Zenon, <1>3, LookupNone
<1> QED
  BY Zenon, <1>4 DEF Shown, maps

LEMMA ShownFirst ==
  ASSUME NEW ts \in Seq(Seq(Nat)), NEW F, NEW k, Named(ts) \subseteq DOMAIN F, NEW t, NEW p,
         First(ts, Having(F, k), t, p)
  PROVE  Shown(F, ts, k) = Read(F[ts[t][p]][k])
<1> DEFINE s == Flatten(ts)
           maps == ContentsOf(F, s)
           S == Having(F, k)
<1>1. s \in Seq(Nat) /\ Range(s) = Named(ts)
  BY Zenon, FlattenRange
<1>2. t \in DOMAIN ts /\ p \in DOMAIN ts[t] /\ ts[t][p] \in S
  BY Zenon DEF First
<1>3. PICK o \in Nat :
        /\ \A q \in DOMAIN ts[t] : o + q \in DOMAIN s /\ s[o + q] = ts[t][q]
        /\ \A q \in 1 .. o : \E u \in 1 .. t - 1 : s[q] \in Range(ts[u])
  BY Zenon, <1>2, FlattenAt
<1>4. /\ ts[t] \in Seq(Nat) /\ DOMAIN ts[t] = 1 .. Len(ts[t]) /\ Len(ts[t]) \in Nat
      /\ p \in Nat /\ p >= 1 /\ p <= Len(ts[t]) /\ DOMAIN s = 1 .. Len(s) /\ Len(s) \in Nat
  <2> HIDE DEF s
  <2> QED
    BY <1>1, <1>2
<1>5. ASSUME NEW x \in 1 .. (o + p) - 1
      PROVE  s[x] \notin S
  <2> HIDE DEF s, S
  <2>1. CASE x <= o
    <3>1. x \in 1 .. o
      BY <1>4, <2>1
    <3>2. PICK u \in 1 .. t - 1 : s[x] \in Range(ts[u])
      BY Zenon, <1>3, <3>1
    <3> QED
      BY Zenon, <3>2 DEF First, Range, S
  <2>2. CASE x > o
    <3>1. PICK q : q = x - o
      BY Zenon
    <3>2. q \in 1 .. p - 1 /\ q \in DOMAIN ts[t] /\ o + q = x
      BY <1>4, <2>2, <3>1
    <3>3. s[x] = ts[t][q]
      BY Zenon, <1>3, <3>2
    <3> QED
      BY Zenon, <3>2, <3>3 DEF First, S
  <2> QED
    BY <1>4, <2>1, <2>2
<1>6. o + p \in DOMAIN s /\ s[o + p] = ts[t][p]
  BY Zenon, <1>2, <1>3
<1>7. /\ DOMAIN maps = DOMAIN s /\ \A x \in DOMAIN s : maps[x] = F[s[x]] /\ s[x] \in DOMAIN F
  BY Zenon, <1>1 DEF ContentsOf, Range
<1>8. \A x \in 1 .. (o + p) - 1 : x \in DOMAIN s
  <2> HIDE DEF s
  <2> QED
    BY <1>4, <1>6
<1>9. DOMAIN maps \subseteq Nat \ {0}
  <2> HIDE DEF s, maps
  <2> QED
    BY <1>4, <1>7
<1>10. k \in DOMAIN maps[o + p] /\ maps[o + p][k] = F[ts[t][p]][k]
  BY Zenon, <1>2, <1>6, <1>7 DEF Having
<1>11. \A x \in 1 .. (o + p) - 1 : k \notin DOMAIN maps[x]
  BY Zenon, <1>5, <1>7, <1>8 DEF Having
<1>12. o + p \in DOMAIN maps
  BY Zenon, <1>6, <1>7
<1> HIDE DEF maps, s, S
<1>13. Lookup(maps, k) = Read(maps[o + p][k])
  <2>1. PICK y : y = o + p
    BY Zenon
  <2>2. y \in DOMAIN maps /\ k \in DOMAIN maps[y]
    BY Zenon, <1>10, <1>12, <2>1
  <2>3. \A x \in 1 .. y - 1 : k \notin DOMAIN maps[x]
    BY Zenon, <1>11, <2>1
  <2>4. Lookup(maps, k) = Read(maps[y][k])
    BY Zenon, <1>9, <2>2, <2>3, LookupFirst
  <2> QED
    BY Zenon, <2>1, <2>4
<1> QED
  BY Zenon, <1>10, <1>13 DEF Shown, maps, s

----------------------------------------------------------------------------
(* What a compaction shows. *)

LEMMA TierType ==
  ASSUME NEW ts \in Seq(Seq(Nat))
  PROVE  /\ DOMAIN ts = 1 .. Len(ts) /\ Len(ts) \in Nat
         /\ \A t \in DOMAIN ts :
              /\ t \in Nat /\ t >= 1 /\ ts[t] \in Seq(Nat) /\ Len(ts[t]) \in Nat
              /\ DOMAIN ts[t] = 1 .. Len(ts[t]) /\ \A p \in DOMAIN ts[t] : p \in Nat /\ p >= 1
OBVIOUS

LEMMA ConcatFrom ==
  ASSUME NEW s \in Seq(Nat), NEW t \in Seq(Nat), NEW p \in DOMAIN (s \o t)
  PROVE  \/ p \in DOMAIN s /\ (s \o t)[p] = s[p]
         \/ p - Len(s) \in DOMAIN t /\ (s \o t)[p] = t[p - Len(s)]
<1>1. /\ Len(s) \in Nat /\ Len(t) \in Nat /\ DOMAIN s = 1 .. Len(s) /\ DOMAIN t = 1 .. Len(t)
      /\ p \in 1 .. Len(s) + Len(t)
  BY ConcatAt
<1>2. CASE p <= Len(s)
  BY <1>1, <1>2
<1>3. CASE p > Len(s)
  <2>1. PICK q : q = p - Len(s)
    BY Zenon
  <2>2. q \in 1 .. Len(t) /\ Len(s) + q = p
    BY <1>1, <1>3, <2>1
  <2>3. (s \o t)[p] = t[q]
    BY Zenon, <2>2, ConcatAt
  <2> QED
    BY Zenon, <1>1, <2>1, <2>2, <2>3
<1> QED
  BY <1>1, <1>2, <1>3

\* new is ts where the tables of tier j from m + 1 on are replaced by ids, in front
\* of the next tier.
IsCompacted(ts, new, j, m, ids) ==
  /\ ts \in Seq(Seq(Nat)) /\ new \in Seq(Seq(Nat)) /\ ids \in Seq(Nat)
  /\ j \in DOMAIN ts /\ m \in Nat /\ m <= Len(ts[j])
  /\ DOMAIN ts \subseteq DOMAIN new /\ j + 1 \in DOMAIN new
  /\ new[j] = [p \in 1 .. m |-> ts[j][p]]
  /\ new[j + 1] = ids \o TierOf(ts, j + 1)
  /\ \A t \in DOMAIN new : t \notin {j, j + 1} => t \in DOMAIN ts /\ new[t] = ts[t]

\* Table p of tier t of ts is table y of new.
Shifted(p, y, t, j, ids) == y = IF t = j + 1 THEN p + Len(ids) ELSE p

\* Where a table of new was.
LEMMA CameFrom ==
  ASSUME NEW ts, NEW new, NEW j, NEW m, NEW ids, IsCompacted(ts, new, j, m, ids),
         NEW t \in DOMAIN new, NEW p \in DOMAIN new[t]
  PROVE  \/ t = j + 1 /\ p \in DOMAIN ids /\ new[t][p] = ids[p]
         \/ /\ t \in DOMAIN ts
            /\ \E x \in DOMAIN ts[t] : /\ ts[t][x] = new[t][p] /\ (t = j => x <= m)
                                       /\ Shifted(x, p, t, j, ids)
<1>0. ts \in Seq(Seq(Nat)) /\ new \in Seq(Seq(Nat)) /\ ids \in Seq(Nat) /\ m \in Nat
  BY Zenon DEF IsCompacted
<1>1. /\ j \in DOMAIN ts /\ j \in Nat /\ p \in Nat /\ Len(ts[j]) \in Nat
      /\ DOMAIN ts[j] = 1 .. Len(ts[j]) /\ m <= Len(ts[j]) /\ m \in Nat
  BY Zenon, <1>0, TierType DEF IsCompacted
<1>2. CASE t \notin {j, j + 1}
  <2>1. Shifted(p, p, t, j, ids)
    BY Zenon, <1>1, <1>2 DEF Shifted
  <2> QED
    BY Zenon, <1>2, <2>1 DEF IsCompacted
<1>3. CASE t = j
  <2>1. new[j] = [q \in 1 .. m |-> ts[j][q]]
    BY Zenon DEF IsCompacted
  <2>2. p \in 1 .. m /\ new[t][p] = ts[j][p]
    BY Zenon, <1>3, <2>1
  <2>3. p \in DOMAIN ts[j] /\ p <= m /\ Shifted(p, p, t, j, ids)
    BY <1>1, <1>3, <2>2 DEF Shifted
  <2> QED
    BY Zenon, <1>1, <1>3, <2>2, <2>3
<1>4. CASE t = j + 1
  <2> DEFINE u == TierOf(ts, j + 1)
  <2>1. new[t] = ids \o u /\ u \in Seq(Nat)
    <3>1. u \in Seq(Nat)
      BY <1>0 DEF TierOf
    <3> QED
      BY Zenon, <1>4, <3>1 DEF IsCompacted
  <2>2. DOMAIN u # {} => t \in DOMAIN ts /\ u = ts[t]
    <3>1. DOMAIN <<>> = {}
      OBVIOUS
    <3> QED
      BY Zenon, <1>4, <3>1 DEF TierOf
  <2> HIDE DEF u
  <2>3. \/ p \in DOMAIN ids /\ new[t][p] = ids[p]
        \/ p - Len(ids) \in DOMAIN u /\ new[t][p] = u[p - Len(ids)]
    <3>1. p \in DOMAIN (ids \o u)
      BY Zenon, <2>1
    <3>2. \/ p \in DOMAIN ids /\ (ids \o u)[p] = ids[p]
          \/ p - Len(ids) \in DOMAIN u /\ (ids \o u)[p] = u[p - Len(ids)]
      BY Zenon, <1>0, <2>1, <3>1, ConcatFrom
    <3> QED
      BY Zenon, <2>1, <3>2
  <2>4. Shifted(p - Len(ids), p, t, j, ids) /\ t # j
    <3>1. Len(ids) \in Nat
      BY <1>0
    <3> QED
      BY <1>1, <1>4, <3>1 DEF Shifted
  <2> QED
    BY Zenon, <1>4, <2>2, <2>3, <2>4
<1> QED
  BY Zenon, <1>2, <1>3, <1>4

\* Where a table of ts goes, unless it is replaced.
LEMMA GoesTo ==
  ASSUME NEW ts, NEW new, NEW j, NEW m, NEW ids, IsCompacted(ts, new, j, m, ids),
         NEW t \in DOMAIN ts, NEW p \in DOMAIN ts[t], t = j => p <= m
  PROVE  /\ t \in DOMAIN new
         /\ \E y \in DOMAIN new[t] : new[t][y] = ts[t][p] /\ Shifted(p, y, t, j, ids)
<1>0. ts \in Seq(Seq(Nat)) /\ new \in Seq(Seq(Nat)) /\ ids \in Seq(Nat) /\ m \in Nat
  BY Zenon DEF IsCompacted
<1>1. /\ j \in DOMAIN ts /\ j \in Nat /\ p \in Nat /\ p >= 1 /\ ts[t] \in Seq(Nat)
      /\ Len(ts[t]) \in Nat /\ p \in 1 .. Len(ts[t])
  BY Zenon, <1>0, TierType DEF IsCompacted
<1>5. t \in DOMAIN new
  BY Zenon DEF IsCompacted
<1>2. CASE t \notin {j, j + 1}
  <2>1. Shifted(p, p, t, j, ids)
    BY Zenon, <1>1, <1>2 DEF Shifted
  <2> QED
    BY Zenon, <1>5, <1>2, <2>1 DEF IsCompacted
<1>3. CASE t = j
  <2>1. new[j] = [q \in 1 .. m |-> ts[j][q]]
    BY Zenon DEF IsCompacted
  <2>2. p \in 1 .. m /\ Shifted(p, p, t, j, ids)
    BY <1>0, <1>1, <1>3 DEF Shifted
  <2> QED
    BY Zenon, <1>5, <1>1, <1>3, <2>1, <2>2
<1>4. CASE t = j + 1
  <2> DEFINE u == ts[t]
  <2>1. new[t] = ids \o ts[t]
    BY Zenon, <1>4 DEF IsCompacted, TierOf
  <2>2. /\ new[t] = ids \o u /\ u \in Seq(Nat) /\ p \in 1 .. Len(u) /\ Len(u) \in Nat
        /\ Len(ids) \in Nat
    BY <1>0, <1>1, <2>1
  <2> HIDE DEF u
  <2>4. DOMAIN (ids \o u) = 1 .. Len(ids) + Len(u) /\ (ids \o u)[Len(ids) + p] = u[p]
    BY Zenon, <1>0, <2>2, ConcatAt
  <2>5. Len(ids) + p \in 1 .. Len(ids) + Len(u) /\ Shifted(p, Len(ids) + p, t, j, ids)
    BY <1>1, <1>4, <2>2 DEF Shifted
  <2> QED
    BY Zenon, <1>5, <2>2, <2>4, <2>5 DEF u
<1> QED
  BY Zenon, <1>2, <1>3, <1>4

\* Of the tables that stay, those in R are those in S.
Agree(ts, new, S, R) == \A i \in Named(ts) : i \in Named(new) => (i \in R <=> i \in S)

\* The first table that has the key stays the first, if it is not replaced.  S are
\* the tables having the key before, R the ones having it after.
LEMMA FirstStays ==
  ASSUME NEW ts, NEW new, NEW j, NEW m, NEW ids, IsCompacted(ts, new, j, m, ids),
         NEW S, NEW R, Agree(ts, new, S, R),
         NEW t, NEW p, First(ts, S, t, p), t = j => p <= m,
         (t <= j) \/ (\A q \in DOMAIN ids : ids[q] \notin R)
  PROVE  \E y : First(new, R, t, y) /\ new[t][y] = ts[t][p]
<1>0. ts \in Seq(Seq(Nat)) /\ new \in Seq(Seq(Nat)) /\ ids \in Seq(Nat) /\ m \in Nat
  BY Zenon DEF IsCompacted
<1>1. t \in DOMAIN ts /\ p \in DOMAIN ts[t] /\ ts[t][p] \in S /\ j \in DOMAIN ts
  BY Zenon DEF First, IsCompacted
<1>2. /\ t \in Nat /\ t >= 1 /\ p \in Nat /\ p >= 1 /\ j \in Nat /\ t \in DOMAIN new
      /\ DOMAIN new = 1 .. Len(new) /\ Len(new) \in Nat
      /\ DOMAIN new[t] = 1 .. Len(new[t]) /\ Len(new[t]) \in Nat
      /\ \A x \in DOMAIN ts[t] : x \in Nat /\ x >= 1
  BY Zenon, <1>0, <1>1, TierType, GoesTo
<1>3. PICK y \in DOMAIN new[t] : new[t][y] = ts[t][p] /\ Shifted(p, y, t, j, ids)
  BY <1>1, GoesTo
<1>4. \A u \in DOMAIN ts : \A x \in DOMAIN ts[u] : ts[u][x] \in Named(ts)
  BY Zenon, NamedIs
<1>5. \A u \in DOMAIN new : \A x \in DOMAIN new[u] : new[u][x] \in Named(new)
  BY Zenon, NamedIs
<1>6. new[t][y] \in R
  BY Zenon, <1>1, <1>2, <1>3, <1>4, <1>5 DEF Agree
<1>7. ASSUME NEW u \in 1 .. t - 1, NEW q \in DOMAIN new[u], new[u][q] \in R
      PROVE  FALSE
  <2>1. u \in DOMAIN new /\ u \in Nat /\ u < t
    BY <1>2
  <2>2. CASE u = j + 1 /\ q \in DOMAIN ids /\ new[u][q] = ids[q]
    <3>1. ~ (t <= j)
      BY <1>2, <2>1, <2>2
    <3> QED
      BY Zenon, <1>7, <2>2, <3>1
  <2>3. CASE u \in DOMAIN ts /\ \E x \in DOMAIN ts[u] : ts[u][x] = new[u][q]
    <3>1. PICK x \in DOMAIN ts[u] : ts[u][x] = new[u][q]
      BY Zenon, <2>3
    <3>2. ts[u][x] \in S
      BY Zenon, <1>4, <1>5, <1>7, <2>1, <2>3, <3>1 DEF Agree
    <3> QED
      BY Zenon, <3>2 DEF First
  <2> QED
    BY <2>1, <2>2, <2>3, CameFrom
<1>8. ASSUME NEW q \in 1 .. y - 1, new[t][q] \in R
      PROVE  FALSE
  <2>0. Len(ids) \in Nat /\ y \in 1 .. Len(new[t]) /\ Shifted(p, y, t, j, ids)
    BY <1>0, <1>2, <1>3
  <2>1. q \in DOMAIN new[t] /\ q \in Nat /\ q < y
    BY <1>2, <2>0
  <2>2. CASE t = j + 1 /\ q \in DOMAIN ids /\ new[t][q] = ids[q]
    <3>1. ~ (t <= j)
      BY <1>2, <2>2
    <3> QED
      BY Zenon, <1>8, <2>2, <3>1
  <2>3. CASE \E x \in DOMAIN ts[t] : ts[t][x] = new[t][q] /\ Shifted(x, q, t, j, ids)
    <3>1. PICK x \in DOMAIN ts[t] : ts[t][x] = new[t][q] /\ Shifted(x, q, t, j, ids)
      BY Zenon, <2>3
    <3>2. ts[t][x] \in S
      BY Zenon, <1>1, <1>2, <1>4, <1>5, <1>8, <2>1, <3>1 DEF Agree
    <3>3. x \in Nat /\ x >= 1
      BY Zenon, <1>2
    <3>4. x \in 1 .. p - 1
      BY <1>2, <2>0, <2>1, <3>1, <3>3 DEF Shifted
    <3> QED
      BY Zenon, <3>2, <3>4 DEF First
  <2> QED
    BY <1>2, <2>1, <2>2, <2>3, CameFrom
<1> QED
  BY Zenon, <1>2, <1>3, <1>6, <1>7, <1>8 DEF First

\* The first table that has the key is replaced by one that has it.
LEMMA FirstMoves ==
  ASSUME NEW ts, NEW new, NEW j, NEW m, NEW id, IsCompacted(ts, new, j, m, <<id>>),
         NEW S, NEW R, Agree(ts, new, S, R), NEW p, First(ts, S, j, p), p > m, id \in R
  PROVE  First(new, R, j + 1, 1) /\ new[j + 1][1] = id
<1>0. ts \in Seq(Seq(Nat)) /\ new \in Seq(Seq(Nat)) /\ <<id>> \in Seq(Nat) /\ m \in Nat
  BY Zenon DEF IsCompacted
<1>1. j \in DOMAIN ts /\ p \in DOMAIN ts[j] /\ j + 1 \in DOMAIN new
  BY Zenon DEF First, IsCompacted
<1>2. /\ j \in Nat /\ p \in Nat /\ DOMAIN new = 1 .. Len(new) /\ Len(new) \in Nat
      /\ \A u \in DOMAIN ts : \A x \in DOMAIN ts[u] : x \in Nat /\ x >= 1
  BY Zenon, <1>0, <1>1, TierType
<1>3. 1 \in DOMAIN new[j + 1] /\ new[j + 1][1] = id
  <2> DEFINE u == TierOf(ts, j + 1)
  <2>1. new[j + 1] = <<id>> \o u /\ u \in Seq(Nat)
    <3>1. u \in Seq(Nat)
      BY <1>0 DEF TierOf
    <3> QED
      BY Zenon, <3>1 DEF IsCompacted
  <2> HIDE DEF u
  <2> QED
    BY <1>0, <2>1
<1>4. ASSUME NEW u \in 1 .. (j + 1) - 1, NEW q \in DOMAIN new[u], new[u][q] \in R
      PROVE  FALSE
  <2>1. u \in DOMAIN new /\ u \in Nat /\ u <= j /\ u # j + 1
    BY <1>1, <1>2
  <2>2. u \in DOMAIN ts /\ \E x \in DOMAIN ts[u] : ts[u][x] = new[u][q] /\ (u = j => x <= m)
    BY <2>1, CameFrom
  <2>3. PICK x \in DOMAIN ts[u] : ts[u][x] = new[u][q] /\ (u = j => x <= m)
    BY Zenon, <2>2
  <2>4. ts[u][x] \in S
    <3>1. ts[u][x] \in Named(ts) /\ new[u][q] \in Named(new)
      BY Zenon, <2>1, <2>2, NamedIs
    <3> QED
      BY Zenon, <1>4, <2>3, <3>1 DEF Agree
  <2>5. x \in Nat /\ x >= 1
    BY Zenon, <1>2, <2>2
  <2>6. u \in 1 .. j - 1 \/ (u = j /\ x \in 1 .. p - 1)
    BY <1>0, <1>2, <2>1, <2>3, <2>5
  <2> QED
    BY Zenon, <2>4, <2>6 DEF First
<1>5. \A q \in 1 .. 1 - 1 : new[j + 1][q] \notin R
  OBVIOUS
<1>6. new[j + 1][1] \in R
  BY Zenon, <1>3
<1> QED
  BY Zenon, <1>1, <1>3, <1>4, <1>5, <1>6 DEF First

\* Nothing that has the key is left.
LEMMA NoneLeft ==
  ASSUME NEW ts, NEW new, NEW j, NEW m, NEW ids, IsCompacted(ts, new, j, m, ids),
         NEW S, NEW R, Agree(ts, new, S, R), \A q \in DOMAIN ids : ids[q] \notin R,
         \A t \in DOMAIN ts : \A x \in DOMAIN ts[t] : (t = j => x <= m) => ts[t][x] \notin S
  PROVE  Named(new) \cap R = {}
<1> SUFFICES ASSUME NEW i \in Named(new), i \in R
             PROVE  FALSE
  BY Zenon
<1>1. PICK t \in DOMAIN new : \E p \in DOMAIN new[t] : new[t][p] = i
  BY Zenon, NamedIs
<1>2. PICK p \in DOMAIN new[t] : new[t][p] = i
  BY Zenon, <1>1
<1>3. CASE p \in DOMAIN ids /\ new[t][p] = ids[p]
  BY Zenon, <1>2, <1>3
<1>4. CASE t \in DOMAIN ts /\ \E x \in DOMAIN ts[t] : ts[t][x] = new[t][p] /\ (t = j => x <= m)
  <2>1. PICK x \in DOMAIN ts[t] : ts[t][x] = new[t][p] /\ (t = j => x <= m)
    BY Zenon, <1>4
  <2>2. ts[t][x] \in Named(ts)
    BY Zenon, <1>4, NamedIs
  <2> QED
    BY Zenon, <1>2, <1>4, <2>1, <2>2 DEF Agree
<1> QED
  BY <1>3, <1>4, CameFrom

\* What the merge of the tables x of F writes: the bottommost one drops tombstones.
MergedOf(F, x, b) ==
  LET m == Merge(ContentsOf(F, x))
  IN IF b THEN Drop(m, {k \in DOMAIN m : m[k] = Tombstone}) ELSE m

LEMMA MergedHas ==
  ASSUME NEW F, NEW x, NEW b \in BOOLEAN, NEW k, k \in DOMAIN Merge(ContentsOf(F, x)),
         ~(b /\ Merge(ContentsOf(F, x))[k] = Tombstone)
  PROVE  /\ k \in DOMAIN MergedOf(F, x, b) /\ MergedOf(F, x, b) # Empty
         /\ MergedOf(F, x, b)[k] = Merge(ContentsOf(F, x))[k]
<1> DEFINE m == Merge(ContentsOf(F, x))
           T == {l \in DOMAIN m : m[l] = Tombstone}
<1>1. k \in DOMAIN MergedOf(F, x, b) /\ MergedOf(F, x, b)[k] = m[k]
  <2>1. CASE b
    <3>1. MergedOf(F, x, b) = [l \in DOMAIN m \ T |-> m[l]]
      BY Zenon, <2>1 DEF MergedOf, Drop
    <3>2. k \in DOMAIN m \ T
      BY Zenon, <2>1
    <3> HIDE DEF m, T
    <3> QED
      BY Zenon, <3>1, <3>2
  <2>2. CASE ~b
    BY Zenon, <2>2 DEF MergedOf
  <2> QED
    BY Zenon, <2>1, <2>2
<1>2. DOMAIN Empty = {}
  BY DEF Empty
<1> QED
  BY Zenon, <1>1, <1>2

LEMMA MergedHasNot ==
  ASSUME NEW F, NEW x, NEW b \in BOOLEAN, NEW k,
         \/ k \notin DOMAIN Merge(ContentsOf(F, x))
         \/ b /\ Merge(ContentsOf(F, x))[k] = Tombstone
  PROVE  k \notin DOMAIN MergedOf(F, x, b)
<1> DEFINE m == Merge(ContentsOf(F, x))
           T == {l \in DOMAIN m : m[l] = Tombstone}
<1>1. CASE b
  <2>1. DOMAIN MergedOf(F, x, b) = DOMAIN m \ T
    BY Zenon, <1>1 DEF MergedOf, Drop
  <2> QED
    BY Zenon, <2>1
<1>2. CASE ~b
  BY Zenon, <1>2 DEF MergedOf
<1> QED
  BY Zenon, <1>1, <1>2

\* Table i answers a read of k.
ShownBy(F, ts, k, i) == Shown(F, ts, k) = Read(F[i][k])

LEMMA ShownByFirst ==
  ASSUME NEW ts \in Seq(Seq(Nat)), NEW F, NEW k, Named(ts) \subseteq DOMAIN F, NEW t, NEW p,
         First(ts, Having(F, k), t, p)
  PROVE  ShownBy(F, ts, k, ts[t][p])
BY ZenonT(60), ShownFirst DEF ShownBy

MergeHas(maps, k, e) == k \in DOMAIN Merge(maps) /\ Merge(maps)[k] = e

LEMMA MergeFirst ==
  ASSUME NEW maps, DOMAIN maps \subseteq Nat \ {0}, NEW k, NEW i \in DOMAIN maps, k \in DOMAIN maps[i],
         \A j \in 1 .. i - 1 : k \notin DOMAIN maps[j]
  PROVE  MergeHas(maps, k, maps[i][k])
BY Zenon, LookupFirst DEF MergeHas

\* The merge of the tables x that F holds is what G holds for ids.
Replaces(F, G, x, b, ids) ==
  /\ MergedOf(F, x, b) = Empty => ids = <<>>
  /\ MergedOf(F, x, b) # Empty => \E id : /\ ids = <<id>> /\ id \in DOMAIN G
                                          /\ G[id] = MergedOf(F, x, b)

LEMMA ReplacesNot ==
  ASSUME NEW F, NEW G, NEW x, NEW b, NEW ids, Replaces(F, G, x, b, ids), NEW k,
         k \notin DOMAIN MergedOf(F, x, b)
  PROVE  \A q \in DOMAIN ids : ids[q] \notin Having(G, k)
<1>1. CASE ids = <<>>
  BY <1>1
<1>2. CASE MergedOf(F, x, b) # Empty
  <2>1. PICK id : ids = <<id>> /\ G[id] = MergedOf(F, x, b)
    BY Zenon, <1>2 DEF Replaces
  <2>2. \A q \in DOMAIN ids : ids[q] = id
    BY <2>1
  <2> QED
    BY Zenon, <2>1, <2>2 DEF Having
<1> QED
  BY Zenon, <1>1, <1>2 DEF Replaces

LEMMA Backwards ==
  ASSUME NEW n \in Nat, NEW l \in Nat, l <= n, NEW p \in Nat, p > n - l, p <= n
  PROVE  \E i \in 1 .. l : /\ n - l + i = p
                          /\ \A q \in 1 .. i - 1 : q \in 1 .. l /\ n - l + q \in 1 .. p - 1
<1>1. PICK i : i = p - (n - l)
  BY Zenon
<1>2. i \in 1 .. l /\ n - l + i = p
  BY <1>1
<1>3. \A q \in 1 .. i - 1 : q \in 1 .. l /\ n - l + q \in 1 .. p - 1
  BY <1>1
<1> QED
  BY Zenon, <1>2, <1>3

LEMMA Forwards ==
  ASSUME NEW n \in Nat, NEW l \in Nat, l <= n, NEW q \in 1 .. l
  PROVE  n - l + q \in 1 .. n
OBVIOUS

\* What the merge has for a key, by the first of its tables that has it.
LEMMA MergeOfSuffix ==
  ASSUME NEW s \in Seq(Nat), NEW x \in Seq(Nat), Suffix(x, s), NEW F, Range(s) \subseteq DOMAIN F,
         NEW k, NEW p \in DOMAIN s, p > Len(s) - Len(x), s[p] \in Having(F, k),
         \A q \in 1 .. p - 1 : s[q] \notin Having(F, k)
  PROVE  MergeHas(ContentsOf(F, x), k, F[s[p]][k])
<1> DEFINE maps == ContentsOf(F, x)
           m == Len(s) - Len(x)
<1>1. /\ Len(s) \in Nat /\ Len(x) \in Nat /\ Len(x) <= Len(s) /\ p \in Nat /\ p >= 1 /\ p <= Len(s)
      /\ DOMAIN s = 1 .. Len(s) /\ DOMAIN x = 1 .. Len(x)
  BY DEF Suffix
<1>2. PICK i \in 1 .. Len(x) : /\ m + i = p
                             /\ \A q \in 1 .. i - 1 : q \in 1 .. Len(x) /\ m + q \in 1 .. p - 1
  BY Zenon, <1>1, Backwards
<1>3. i \in DOMAIN x /\ m + i = p
  BY Zenon, <1>1, <1>2
<1>4. \A q \in DOMAIN x : x[q] = s[m + q]
  BY Zenon, <1>1 DEF Suffix
<1>5. \A q \in 1 .. i - 1 : q \in DOMAIN x /\ m + q \in 1 .. p - 1
  BY Zenon, <1>1, <1>2
<1>6. DOMAIN maps = DOMAIN x /\ \A q \in DOMAIN x : maps[q] = F[x[q]]
  BY Zenon DEF ContentsOf
<1>7. \A q \in DOMAIN x : x[q] \in DOMAIN F
  <2>1. \A q \in DOMAIN x : m + q \in DOMAIN s
    BY Zenon, <1>1, Forwards
  <2> QED
    BY Zenon, <1>4, <2>1 DEF Range
<1> HIDE DEF maps, m
<1>8. k \in DOMAIN maps[i] /\ maps[i][k] = F[s[p]][k]
  BY Zenon, <1>3, <1>4, <1>6 DEF Having
<1>9. \A q \in 1 .. i - 1 : k \notin DOMAIN maps[q]
  BY Zenon, <1>4, <1>5, <1>6, <1>7 DEF Having
<1>10. DOMAIN maps \subseteq Nat \ {0} /\ i \in DOMAIN maps
  <2>1. 1 .. Len(x) \subseteq Nat \ {0}
    BY <1>1
  <2> QED
    BY Zenon, <1>1, <1>3, <1>6, <2>1
<1>11. MergeHas(maps, k, maps[i][k])
  BY Zenon, <1>8, <1>9, <1>10, MergeFirst
<1> QED
  BY Zenon, <1>8, <1>11 DEF maps

LEMMA MergeOfNone ==
  ASSUME NEW s \in Seq(Nat), NEW x \in Seq(Nat), Suffix(x, s), NEW F, Range(s) \subseteq DOMAIN F,
         NEW k, \A q \in DOMAIN s : s[q] \notin Having(F, k)
  PROVE  k \notin DOMAIN Merge(ContentsOf(F, x))
<1> DEFINE maps == ContentsOf(F, x)
<1>1. \A q \in DOMAIN x : \E o \in DOMAIN s : x[q] = s[o]
  <2>1. \A q \in DOMAIN x : LET o == Len(s) - Len(x) + q
                            IN o \in DOMAIN s /\ s[o] = x[q] /\ o > Len(s) - Len(x)
    BY Zenon, SuffixIs
  <2> QED
    BY Zenon, <2>1
<1>2. \A q \in DOMAIN x : x[q] \in DOMAIN F /\ x[q] \notin Having(F, k)
  BY Zenon, <1>1 DEF Range
<1>3. \A q \in DOMAIN maps : k \notin DOMAIN maps[q]
  BY Zenon, <1>2 DEF ContentsOf, Having
<1> HIDE DEF maps
<1>4. k \notin DOMAIN Merge(maps)
  BY Zenon, <1>3, LookupNone
<1> QED
  BY Zenon, <1>4 DEF maps

\* A compaction changes nothing that can be read.
Compacts(ts, new, j, m, ids, x, F, G, b) ==
  /\ IsCompacted(ts, new, j, m, ids)
  /\ x \in Seq(Nat) /\ Suffix(x, ts[j]) /\ m = Len(ts[j]) - Len(x)
  /\ Named(ts) \subseteq DOMAIN F /\ Named(new) \subseteq DOMAIN G
  /\ \A i \in Named(ts) : i \in Named(new) => G[i] = F[i]
  /\ b \in BOOLEAN /\ (b => \A u \in DOMAIN ts : u > j => ts[u] = <<>>)
  /\ Replaces(F, G, x, b, ids)

LEMMA CompactedShown ==
  ASSUME NEW ts, NEW new, NEW j, NEW m, NEW ids, NEW x, NEW F, NEW G, NEW b,
         Compacts(ts, new, j, m, ids, x, F, G, b), NEW k
  PROVE  Shown(G, new, k) = Shown(F, ts, k)
<1> DEFINE S == Having(F, k)
           R == Having(G, k)
           mg == Merge(ContentsOf(F, x))
<1>0. ts \in Seq(Seq(Nat)) /\ new \in Seq(Seq(Nat)) /\ ids \in Seq(Nat) /\ m \in Nat /\ j \in DOMAIN ts
  BY Zenon DEF Compacts, IsCompacted
<1>a. IsCompacted(ts, new, j, m, ids)
  BY Zenon DEF Compacts
<1>b. x \in Seq(Nat) /\ Suffix(x, ts[j]) /\ m = Len(ts[j]) - Len(x)
  BY Zenon DEF Compacts
<1>c. Named(ts) \subseteq DOMAIN F /\ Named(new) \subseteq DOMAIN G
  BY Zenon DEF Compacts
<1>d. \A i \in Named(ts) : i \in Named(new) => G[i] = F[i]
  BY Zenon DEF Compacts
<1>e. b \in BOOLEAN /\ Replaces(F, G, x, b, ids)
  BY Zenon DEF Compacts
<1>f. b => \A u \in DOMAIN ts : u > j => ts[u] = <<>>
  BY Zenon DEF Compacts
<1>1. /\ j \in Nat /\ ts[j] \in Seq(Nat)
      /\ \A u \in DOMAIN ts : u \in Nat /\ u >= 1 /\ \A q \in DOMAIN ts[u] : q \in Nat /\ q >= 1
  BY Zenon, <1>0, TierType
<1>2. Range(ts[j]) \subseteq DOMAIN F
  BY Zenon, <1>0, <1>c DEF Named
<1>3. Agree(ts, new, S, R)
  BY Zenon, <1>c, <1>d DEF Agree, Having
<1>4. CASE Named(ts) \cap S = {}
  <2>1. Shown(F, ts, k) = Absent
    BY Zenon, <1>0, <1>4, <1>c, ShownNone
  <2>2. \A t \in DOMAIN ts : \A q \in DOMAIN ts[t] : ts[t][q] \notin S
    BY Zenon, <1>4, NamedIs
  <2>3. k \notin DOMAIN mg
    BY Zenon, <1>0, <1>1, <1>2, <2>2, <1>b, MergeOfNone
  <2>4. \A q \in DOMAIN ids : ids[q] \notin R
    BY Zenon, <2>3, <1>e, MergedHasNot, ReplacesNot
  <2>5. Named(new) \cap R = {}
    <3> HIDE DEF S, R
    <3> QED
      BY <1>3, <2>2, <2>4, <1>a, NoneLeft
  <2>6. Shown(G, new, k) = Absent
    BY Zenon, <1>0, <2>5, <1>c, ShownNone
  <2> QED
    BY Zenon, <2>1, <2>6
<1>5. ASSUME NEW t, NEW p, First(ts, S, t, p)
      PROVE  Shown(G, new, k) = Shown(F, ts, k)
  <2>1. Shown(F, ts, k) = Read(F[ts[t][p]][k])
    <3>1. ShownBy(F, ts, k, ts[t][p])
      BY Zenon, <1>0, <1>5, <1>c, ShownByFirst
    <3> QED
      BY Zenon, <3>1 DEF ShownBy
  <2>2. /\ t \in DOMAIN ts /\ p \in DOMAIN ts[t] /\ ts[t][p] \in S /\ t \in Nat /\ p \in Nat
        /\ ts[t][p] \in Named(ts)
    BY Zenon, <1>1, <1>5, NamedIs DEF First
  <2>3. ASSUME NEW y, First(new, R, t, y), new[t][y] = ts[t][p]
        PROVE  Shown(G, new, k) = Shown(F, ts, k)
    <3>1. Shown(G, new, k) = Read(G[new[t][y]][k])
      <4>1. ShownBy(G, new, k, new[t][y])
        BY Zenon, <1>0, <2>3, <1>c, ShownByFirst
      <4> QED
        BY Zenon, <4>1 DEF ShownBy
    <3>2. new[t][y] \in Named(new)
      BY Zenon, <2>3, NamedIs DEF First
    <3>3. G[new[t][y]] = F[ts[t][p]]
      BY <1>d, <2>2, <2>3, <3>2
    <3> QED
      BY Zenon, <2>1, <3>1, <3>3
  <2>4. CASE t < j \/ (t = j /\ p <= m)
    <3>1. t <= j /\ (t = j => p <= m)
      BY <1>1, <2>2, <2>4
    <3>2. \E y : First(new, R, t, y) /\ new[t][y] = ts[t][p]
      <4> HIDE DEF S, R
      <4> QED
        BY <1>3, <1>5, <3>1, <1>a, FirstStays
    <3> QED
      BY Zenon, <2>3, <3>2
  <2>5. CASE t > j
    <3>1. \A q \in DOMAIN ts[j] : ts[j][q] \notin S
      <4>1. j \in 1 .. t - 1
        BY <1>0, <1>1, <2>2, <2>5
      <4> QED
        BY Zenon, <1>5, <4>1 DEF First
    <3>2. k \notin DOMAIN mg
      BY Zenon, <1>0, <1>1, <1>2, <3>1, <1>b, MergeOfNone
    <3>3. \A q \in DOMAIN ids : ids[q] \notin R
      BY Zenon, <3>2, <1>e, MergedHasNot, ReplacesNot
    <3>4. t # j
      BY <1>1, <2>2, <2>5
    <3>5. \E y : First(new, R, t, y) /\ new[t][y] = ts[t][p]
      <4> HIDE DEF S, R
      <4> QED
        BY <1>3, <1>5, <3>3, <3>4, <1>a, FirstStays
    <3> QED
      BY Zenon, <2>3, <3>5
  <2>6. CASE t = j /\ p > m
    <3>1. \A q \in 1 .. p - 1 : ts[j][q] \notin S
      BY Zenon, <1>5, <2>6 DEF First
    <3>2. k \in DOMAIN mg /\ mg[k] = F[ts[j][p]][k]
      <4>1. /\ ts[j] \in Seq(Nat) /\ p \in DOMAIN ts[j] /\ p > Len(ts[j]) - Len(x)
            /\ ts[j][p] \in Having(F, k)
        BY Zenon, <1>1, <1>b, <2>2, <2>6
      <4>2. MergeHas(ContentsOf(F, x), k, F[ts[j][p]][k])
        BY Zenon, <1>2, <1>b, <3>1, <4>1, MergeOfSuffix
      <4> QED
        BY Zenon, <4>2 DEF MergeHas
    <3>3. CASE b /\ mg[k] = Tombstone
      <4>1. \A q \in DOMAIN ids : ids[q] \notin R
        BY Zenon, <3>3, <1>e, MergedHasNot, ReplacesNot
      <4>2. ASSUME NEW u \in DOMAIN ts, NEW q \in DOMAIN ts[u], u = j => q <= m
            PROVE  ts[u][q] \notin S
        <5>1. ~ (u > j)
          <6>1. DOMAIN <<>> = {}
            OBVIOUS
          <6> QED
            BY Zenon, <1>f, <3>3, <6>1
        <5>2. u \in Nat /\ q \in Nat /\ u >= 1 /\ q >= 1
          BY Zenon, <1>1
        <5>3. u \in 1 .. j - 1 \/ (u = j /\ q \in 1 .. p - 1)
          <6>1. j \in Nat /\ m \in Nat /\ p \in Nat /\ p > m
            BY Zenon, <1>0, <1>1, <2>2, <2>6
          <6> HIDE DEF S, R
          <6> QED
            BY <4>2, <5>1, <5>2, <6>1
        <5> QED
          BY Zenon, <1>5, <2>6, <5>3 DEF First
      <4>3. Named(new) \cap R = {}
        <5> HIDE DEF S, R
        <5> QED
          BY <1>3, <4>1, <4>2, <1>a, NoneLeft
      <4>4. Shown(G, new, k) = Absent
        BY Zenon, <1>0, <4>3, <1>c, ShownNone
      <4>5. Shown(F, ts, k) = Absent
        BY Zenon, <2>1, <2>6, <3>2, <3>3 DEF Read
      <4> QED
        BY Zenon, <4>4, <4>5
    <3>4. CASE ~(b /\ mg[k] = Tombstone)
      <4>1. /\ k \in DOMAIN MergedOf(F, x, b) /\ MergedOf(F, x, b) # Empty
            /\ MergedOf(F, x, b)[k] = mg[k]
        BY SMTT(30), <3>2, <3>4, <1>e, MergedHas
      <4>2. PICK id : ids = <<id>> /\ id \in DOMAIN G /\ G[id] = MergedOf(F, x, b)
        BY Zenon, <1>e, <4>1 DEF Replaces
      <4>3. id \in R
        BY Zenon, <4>1, <4>2 DEF Having
      <4>4. First(new, R, j + 1, 1) /\ new[j + 1][1] = id
        <5>1. IsCompacted(ts, new, j, m, <<id>>) /\ First(ts, S, j, p)
          BY Zenon, <1>5, <1>a, <2>6, <4>2
        <5> HIDE DEF S, R
        <5> QED
          BY Zenon, <1>3, <2>6, <4>3, <5>1, FirstMoves
      <4>5. Shown(G, new, k) = Read(G[id][k])
        <5>1. ShownBy(G, new, k, new[j + 1][1])
          BY Zenon, <1>0, <4>4, <1>c, ShownByFirst
        <5> QED
          BY Zenon, <4>4, <5>1 DEF ShownBy
      <4> QED
        BY Zenon, <2>1, <2>6, <3>2, <4>1, <4>2, <4>5
    <3> QED
      BY Zenon, <3>3, <3>4
  <2> QED
    BY <1>0, <1>1, <2>2, <2>4, <2>5, <2>6
<1>6. CASE Named(ts) \cap S # {}
  BY Zenon, <1>0, <1>5, <1>6, SomeFirst
<1> QED
  BY Zenon, <1>4, <1>6

----------------------------------------------------------------------------
(* The merge of a compaction in progress stays the merge of its tables. *)

\* No step changes the file of a table that stays in the tiers.
Kept == \A i \in Named(tiers) : i \in Named(tiers') => files'[i] = files[i]

LEMMA WriteKept ==
  ASSUME IdInv, NEW w, w \notin Named(tiers), NEW e,
         files' = files \/ files' = Set(files, w, e)
  PROVE  Kept
<1>1. Named(tiers) \subseteq DOMAIN files
  BY Zenon DEF IdInv, TiersInv
<1> QED
  BY Zenon, <1>1 DEF Set, Kept

LEMMA CreatesKept ==
  ASSUME IdInv, NEW w, CreateTable(w)
  PROVE  Kept
<1>1. Named(tiers) \subseteq DOMAIN files
  BY Zenon DEF IdInv, TiersInv
<1>2. CASE w \in DOMAIN files
  BY Zenon, <1>2 DEF CreateTable, Kept
<1>3. CASE w \notin DOMAIN files
  <2>1. files' = Set(files, w, Empty)
    BY Zenon, <1>3 DEF CreateTable
  <2> QED
    BY Zenon, <1>1, <1>3, <2>1, WriteKept
<1> QED
  BY Zenon, <1>2, <1>3

LEMMA ReleaseKept ==
  ASSUME IdInv, IdInv', NEW obs, ReleaseTables(obs)
  PROVE  Kept
<1>1. Named(tiers') \subseteq DOMAIN files'
  BY Zenon DEF IdInv, TiersInv
<1>2. \A i \in DOMAIN files' : files'[i] = files[i]
  BY Zenon DEF ReleaseTables, Drop
<1> QED
  BY Zenon, <1>1, <1>2 DEF Kept

LEMMA NextKept ==
  ASSUME IdInv, IdInv', FileInv, [Next]_vars
  PROVE  Kept
<1>0. files' = files => Kept
  BY Zenon DEF Kept
<1>1. ASSUME NEW c \in Client, Call(c)
      PROVE  Kept
  BY Zenon, <1>0, <1>1 DEF Call, Put, Write, Get, disk
<1>2. ASSUME NEW c \in Client, Continue(c)
      PROVE  Kept
  <2>1. CASE GetLookup(c)
    BY Zenon, <2>1, ReleaseKept DEF GetLookup
  <2>2. CASE FlushBuild(c)
    BY Zenon, <2>2, CreatesKept DEF FlushBuild
  <2>3. CASE FlushHeader(c)
    <3>1. pc[c] = "header" /\ WriteHeader(loc[c].id, loc[c].fresh, mems[loc[c].gen])
      BY Zenon, <2>3 DEF FlushHeader, Up
    <3>2. Building(c)
      BY Zenon, <3>1 DEF Building
    <3>3. loc[c].id \notin Named(tiers)
      BY Zenon, <3>2 DEF IdInv, FlushInv, Fresh
    <3> QED
      BY Zenon, <3>1, <3>3, WriteKept DEF WriteHeader
  <2>4. CASE Delete(c) \/ FlushSwap(c) \/ FlushEmpty(c) \/ FlushUnlink(c) \/ FlushInstall(c) \/ Help(c)
    BY Zenon, <1>0, <2>4 DEF Delete, Write, FlushSwap, FlushEmpty, FlushUnlink, FlushInstall, Help, disk
  <2> QED
    BY Zenon, <1>2, <2>1, <2>2, <2>3, <2>4 DEF Continue
<1>3. ASSUME NEW c \in Client, Close(c)
      PROVE  Kept
  BY Zenon, <1>0, <1>3 DEF Close, disk
<1>4. ASSUME Compaction
      PROVE  Kept
  <2>1. CASE Compact
    BY Zenon, <1>0, <2>1 DEF Compact, disk
  <2>2. CASE CompactMerge
    BY Zenon, <1>0, <2>2, CreatesKept DEF CompactMerge
  <2>3. CASE CompactHeader
    <3>1. Stage("header") /\ WriteHeader(job.id, job.fresh, job.out)
      BY Zenon, <2>3 DEF CompactHeader
    <3>2. job.out # Empty
      BY Zenon, <3>1 DEF Stage, FileInv, JobFiles
    <3>3. job.id \notin Named(tiers)
      BY Zenon, <3>1, <3>2, StagedJob DEF Fresh
    <3> QED
      BY Zenon, <3>1, <3>3, WriteKept DEF WriteHeader
  <2>4. CASE CompactInstall
    BY Zenon, <1>0, <2>4, ReleaseKept DEF CompactInstall
  <2> QED
    BY Zenon, <1>4, <2>1, <2>2, <2>3, <2>4 DEF Compaction
<1>5. ASSUME LoadManifest
      PROVE  Kept
  <2>1. Named(tiers) = {}
    <3>1. engine = "start"
      BY Zenon, <1>5 DEF LoadManifest
    <3>2. tiers = <<>>
      BY Zenon, <3>1 DEF IdInv, TypeInv
    <3> QED
      BY <3>2 DEF Named
  <2> QED
    BY Zenon, <2>1 DEF Kept
<1>6. ASSUME Replay \/ RemoveOld \/ Restarted \/ UNCHANGED vars
      PROVE  Kept
  BY Zenon, <1>0, <1>6 DEF Replay, RemoveOld, Restarted, vars, disk
<1> QED
  BY Zenon, <1>1, <1>2, <1>3, <1>4, <1>5, <1>6 DEF Next, Constructor, Reopen, Crash, Rest

LEMMA MergedIs ==
  /\ Merged = MergedOf(files, job.tables, job.bottommost)
  /\ Merged' = MergedOf(files', job'.tables, job'.bottommost)
<1>1. Contents(job.tables) = ContentsOf(files, job.tables)
  BY Zenon DEF Contents, ContentsOf
<1>2. Contents(job.tables)' = ContentsOf(files', job'.tables)
  BY Zenon DEF Contents, ContentsOf
<1> QED
  BY Zenon, <1>1, <1>2 DEF Merged, MergedOf

\* The tables that a job merges are in the tiers.
LEMMA JobNamed ==
  ASSUME IdInv, job # NoJob
  PROVE  \A p \in DOMAIN job.tables : job.tables[p] \in Named(tiers)
<1>1. /\ job.tables \in Seq(Nat) /\ job.tier \in DOMAIN tiers /\ tiers \in Seq(Seq(Nat))
      /\ Suffix(job.tables, tiers[job.tier])
  BY Zenon DEF IdInv, TypeInv, JobInv, IsJob
<1>2. tiers[job.tier] \in Seq(Nat)
  BY Zenon, <1>1, TierType
<1>3. \A q \in DOMAIN job.tables : \E o \in DOMAIN tiers[job.tier] : tiers[job.tier][o] = job.tables[q]
  <2> DEFINE s == tiers[job.tier]
             x == job.tables
  <2>1. \A q \in DOMAIN x : LET o == Len(s) - Len(x) + q
                            IN o \in DOMAIN s /\ s[o] = x[q] /\ o > Len(s) - Len(x)
    BY Zenon, <1>1, <1>2, SuffixIs
  <2> HIDE DEF s, x
  <2>2. \A q \in DOMAIN x : \E o \in DOMAIN s : s[o] = x[q]
    BY Zenon, <2>1
  <2> QED
    BY Zenon, <2>2 DEF s, x
<1> QED
  BY Zenon, <1>1, <1>3, NamedIs

LEMMA MergedStays ==
  ASSUME IdInv, job # NoJob, \A i \in Named(tiers) : files'[i] = files[i],
         job'.tables = job.tables, job'.bottommost = job.bottommost
  PROVE  Merged' = Merged
<1>1. \A p \in DOMAIN job.tables : files'[job.tables[p]] = files[job.tables[p]]
  BY Zenon, JobNamed
<1>2. ContentsOf(files', job.tables) = ContentsOf(files, job.tables)
  BY Zenon, <1>1 DEF ContentsOf
<1>3. MergedOf(files', job.tables, job.bottommost) = MergedOf(files, job.tables, job.bottommost)
  BY Zenon, <1>2 DEF MergedOf
<1> QED
  BY Zenon, <1>3, MergedIs

LEMMA MergeStep ==
  ASSUME IdInv, MergeInv, Kept, job' = job, tiers' = tiers
  PROVE  MergeInv'
<1>1. CASE job = NoJob
  BY Zenon, <1>1 DEF MergeInv
<1>2. CASE job # NoJob
  <2>1. Merged' = Merged
    BY Zenon, <1>2, MergedStays DEF Kept
  <2> QED
    BY Zenon, <1>2, <2>1 DEF MergeInv
<1> QED
  BY Zenon, <1>1, <1>2

LEMMA FlushInstallMerge ==
  ASSUME IdInv, MergeInv, NEW c \in Client, FlushInstall(c)
  PROVE  MergeInv'
<1>1. files' = files /\ job' = job /\ tiers' = Prepend(tiers, loc[c].id)
  BY Zenon DEF FlushInstall, Prepend
<1>2. CASE job = NoJob
  BY Zenon, <1>1, <1>2 DEF MergeInv
<1>3. CASE job # NoJob
  <2>1. Merged' = Merged
    BY Zenon, <1>1, MergedIs
  <2>2. ASSUME job.bottommost, NEW u \in DOMAIN tiers', u > job.tier
        PROVE  tiers'[u] = <<>>
    <3>1. tiers \in Seq(Seq(Nat)) /\ loc[c].id \in Nat /\ job.tier \in DOMAIN tiers
      BY Zenon, <1>3 DEF IdInv, TypeInv, JobInv, Local
    <3>2. u \in Nat /\ job.tier \in Nat /\ job.tier >= 1
      <4>1. tiers' \in Seq(Seq(Nat))
        BY Zenon, <1>1, <3>1, Prepended
      <4> QED
        BY Zenon, <3>1, <4>1, TierType
    <3>3. u # 1
      BY <2>2, <3>2
    <3>4. u \in DOMAIN tiers /\ tiers'[u] = tiers[u]
      BY Zenon, <1>1, <3>1, <3>3, Prepended
    <3> QED
      BY Zenon, <1>3, <2>2, <3>4 DEF MergeInv
  <2> QED
    BY Zenon, <1>1, <1>3, <2>1, <2>2 DEF MergeInv
<1> QED
  BY Zenon, <1>2, <1>3

LEMMA StartMerge ==
  ASSUME IdInv, NEW p \in Client \cup {Background}, NeedsCompaction # {}, StartJob(p), tiers' = tiers
  PROVE  MergeInv'
<1>1. /\ job'.out = Empty /\ job'.stage = "merge"
      /\ job'.bottommost = (\A u \in DOMAIN tiers : u > job'.tier => tiers[u] = <<>>)
  BY Zenon, Started
<1>2. job'.bottommost => \A u \in DOMAIN tiers' : u > job'.tier => tiers'[u] = <<>>
  BY Zenon, <1>1
<1> QED
  BY Zenon, <1>1, <1>2 DEF MergeInv

LEMMA CompactMergeMerge ==
  ASSUME IdInv, IdInv', FileInv, MergeInv, Kept, CompactMerge
  PROVE  MergeInv'
<1>1. /\ Stage("merge") /\ tiers' = tiers
  BY Zenon DEF CompactMerge
<1>2. IsJob(job) /\ job # NoJob /\ job.stage = "merge"
  BY Zenon, <1>1, StagedJob
<1>3. job.out = Empty
  BY Zenon, <1>2 DEF FileInv, JobFiles
<1>4. /\ job'.tables = job.tables /\ job'.bottommost = job.bottommost /\ job'.tier = job.tier
      /\ job'.out = Merged /\ job'.stage # "merge"
  <2> DEFINE m == Merged
  <2>1. \/ m = Empty /\ job' = [job EXCEPT !.stage = "install"]
        \/ job' = [job EXCEPT !.stage = "header", !.out = m, !.id = next_id,
                              !.fresh = next_id \notin DOMAIN files]
    BY Zenon DEF CompactMerge
  <2> HIDE DEF m
  <2>2. /\ job'.tables = job.tables /\ job'.bottommost = job.bottommost /\ job'.tier = job.tier
        /\ job'.out = m /\ job'.stage # "merge"
    BY Zenon, <1>2, <1>3, <2>1 DEF IsJob
  <2> QED
    BY Zenon, <2>2 DEF m
<1>5. Merged' = Merged
  BY Zenon, <1>1, <1>2, <1>4, MergedStays DEF Kept
<1> QED
  BY Zenon, <1>1, <1>2, <1>4, <1>5 DEF MergeInv

LEMMA CompactHeaderMerge ==
  ASSUME IdInv, MergeInv, Kept, CompactHeader
  PROVE  MergeInv'
<1>1. /\ Stage("header") /\ tiers' = tiers /\ job' = [job EXCEPT !.stage = "install"]
  BY Zenon DEF CompactHeader, memory
<1>2. IsJob(job) /\ job # NoJob /\ job.stage = "header"
  BY Zenon, <1>1, StagedJob
<1>3. /\ job'.tables = job.tables /\ job'.bottommost = job.bottommost /\ job'.tier = job.tier
      /\ job'.out = job.out /\ job'.stage # "merge" /\ job.stage # "merge"
  BY Zenon, <1>1, <1>2 DEF IsJob
<1>4. Merged' = Merged
  BY Zenon, <1>1, <1>2, <1>3, MergedStays DEF Kept
<1> QED
  BY Zenon, <1>1, <1>2, <1>3, <1>4 DEF MergeInv

LEMMA NextMerge ==
  ASSUME IdInv, IdInv', FileInv, MergeInv, [Next]_vars
  PROVE  MergeInv'
<1>0. Kept
  BY Zenon, NextKept
<1>1. job' = NoJob => MergeInv'
  BY Zenon DEF MergeInv
<1>2. ASSUME NEW c \in Client, Call(c) \/ Close(c)
      PROVE  MergeInv'
  BY Zenon, <1>0, <1>2, MergeStep DEF Call, Put, Write, Get, Close, disk, memory
<1>3. ASSUME NEW c \in Client, Continue(c)
      PROVE  MergeInv'
  <2>1. CASE Help(c)
    BY Zenon, <1>0, <2>1, MergeStep, StartMerge DEF Help, memory
  <2>2. CASE GetLookup(c) \/ Delete(c) \/ FlushSwap(c) \/ FlushEmpty(c) \/ FlushBuild(c)
             \/ FlushHeader(c) \/ FlushUnlink(c)
    BY Zenon, <1>0, <2>2, MergeStep
       DEF GetLookup, Delete, Write, FlushSwap, FlushEmpty, FlushBuild, FlushHeader, FlushUnlink, memory
  <2> QED
    BY Zenon, <1>3, <2>1, <2>2, FlushInstallMerge DEF Continue
<1>4. ASSUME Compaction
      PROVE  MergeInv'
  <2>1. CASE Compact
    BY Zenon, <2>1, StartMerge DEF Compact, memory
  <2> QED
    BY Zenon, <1>0, <1>1, <1>4, <2>1, CompactMergeMerge, CompactHeaderMerge
       DEF Compaction, CompactInstall
<1>5. ASSUME LoadManifest
      PROVE  MergeInv'
  BY Zenon, <1>1, <1>5 DEF LoadManifest, IdInv, TypeInv
<1>6. ASSUME Replay \/ RemoveOld \/ Restarted \/ UNCHANGED vars
      PROVE  MergeInv'
  BY Zenon, <1>0, <1>1, <1>6, MergeStep DEF Replay, RemoveOld, Restarted, vars, memory
<1> QED
  BY Zenon, <1>2, <1>3, <1>4, <1>5, <1>6 DEF Next, Constructor, Reopen, Crash, Rest

LEMMA InitMerge == Init => MergeInv
BY Zenon DEF Init, MergeInv

----------------------------------------------------------------------------
(* What a read sees: the entry of the memtable, or what the tables show. *)

Over(m, v, k) == IF k \in DOMAIN m THEN Read(m[k]) ELSE v

\* maps behind m.
Behind(m, maps, all) ==
  /\ DOMAIN maps \subseteq Nat \ {0} /\ DOMAIN all \subseteq Nat \ {0}
  /\ 1 \in DOMAIN all /\ all[1] = m
  /\ \A i \in DOMAIN maps : i + 1 \in DOMAIN all /\ all[i + 1] = maps[i]
  /\ \A i \in DOMAIN all : i = 1 \/ (i - 1 \in DOMAIN maps /\ all[i] = maps[i - 1])

LEMMA ConcatBehind ==
  ASSUME NEW m, NEW n \in Nat, NEW maps, maps = [i \in 1 .. n |-> maps[i]]
  PROVE  Behind(m, maps, <<m>> \o maps)
<1> DEFINE U == {m} \cup {maps[i] : i \in 1 .. n}
<1>1. maps \in [1 .. n -> U]
  BY Zenon
<1>2. <<m>> \in Seq(U) /\ m \in U
  OBVIOUS
<1> HIDE DEF U
<1>3. maps \in Seq(U) /\ Len(maps) = n
  BY Zenon, <1>1, FunctionIsSeq
<1> QED
  BY <1>2, <1>3 DEF Behind

LookupIs(maps, k, e) == Lookup(maps, k) = Read(e)

LEMMA LookupIsFirst ==
  ASSUME NEW maps, DOMAIN maps \subseteq Nat \ {0}, NEW k, NEW i \in DOMAIN maps, k \in DOMAIN maps[i],
         \A j \in 1 .. i - 1 : k \notin DOMAIN maps[j]
  PROVE  LookupIs(maps, k, maps[i][k])
BY Zenon, LookupFirst DEF LookupIs

LooksOver(all, m, maps, k) == Lookup(all, k) = Over(m, Lookup(maps, k), k)

LEMMA LookupOver ==
  ASSUME NEW m, NEW maps, NEW all, Behind(m, maps, all), NEW k,
         \A i \in DOMAIN maps : 1 .. i \subseteq DOMAIN maps
  PROVE  LooksOver(all, m, maps, k)
<1> SUFFICES Lookup(all, k) = Over(m, Lookup(maps, k), k)
  BY Zenon DEF LooksOver
<1>1. /\ DOMAIN maps \subseteq Nat \ {0} /\ DOMAIN all \subseteq Nat \ {0}
      /\ 1 \in DOMAIN all /\ all[1] = m
  BY Zenon DEF Behind
<1>2. \A i \in DOMAIN maps : i + 1 \in DOMAIN all /\ all[i + 1] = maps[i]
  BY Zenon DEF Behind
<1>3. \A i \in DOMAIN all : i = 1 \/ (i - 1 \in DOMAIN maps /\ all[i] = maps[i - 1])
  BY Zenon DEF Behind
<1>4. CASE k \in DOMAIN m
  <2>1. \A j \in 1 .. 1 - 1 : k \notin DOMAIN all[j]
    OBVIOUS
  <2>2. LookupIs(all, k, all[1][k])
    BY Zenon, <1>1, <1>4, <2>1, LookupIsFirst
  <2> QED
    BY Zenon, <1>1, <1>4, <2>2 DEF LookupIs, Over
<1>5. CASE k \notin DOMAIN m /\ \A i \in DOMAIN maps : k \notin DOMAIN maps[i]
  <2>1. \A i \in DOMAIN all : k \notin DOMAIN all[i]
    BY Zenon, <1>1, <1>3, <1>5
  <2>2. Lookup(all, k) = Absent /\ Lookup(maps, k) = Absent
    BY Zenon, <1>5, <2>1, LookupNone
  <2> QED
    BY Zenon, <1>5, <2>2 DEF Over
<1>6. CASE k \notin DOMAIN m /\ \E i \in DOMAIN maps : k \in DOMAIN maps[i]
  <2> DEFINE T == {i \in DOMAIN maps : k \in DOMAIN maps[i]}
  <2>1. T \in SUBSET Nat /\ T # {}
    BY Zenon, <1>1, <1>6
  <2>2. PICK i \in T : \A y \in T : i <= y
    <3> HIDE DEF T
    <3> QED
      BY Zenon, <2>1, Least
  <2>3. i \in DOMAIN maps /\ k \in DOMAIN maps[i] /\ i \in Nat /\ i >= 1
    <3>1. i \in DOMAIN maps /\ k \in DOMAIN maps[i]
      BY Zenon
    <3> QED
      BY <1>1, <3>1
  <2>4. \A j \in 1 .. i - 1 : k \notin DOMAIN maps[j]
    <3> SUFFICES ASSUME NEW j \in 1 .. i - 1, k \in DOMAIN maps[j]
                 PROVE  FALSE
      BY Zenon
    <3>1. j \in 1 .. i /\ ~(i <= j)
      BY <2>3
    <3>2. j \in T
      BY Zenon, <2>3, <3>1
    <3> QED
      BY Zenon, <2>2, <3>1, <3>2
  <2>5. LookupIs(maps, k, maps[i][k])
    BY Zenon, <1>1, <2>3, <2>4, LookupIsFirst
  <2>6. ASSUME NEW j \in 1 .. (i + 1) - 1
        PROVE  k \notin DOMAIN all[j]
    <3>1. CASE j = 1
      BY Zenon, <1>1, <1>6, <3>1
    <3>2. CASE j # 1
      <4>1. PICK h : h = j - 1
        BY Zenon
      <4>2. h \in 1 .. i - 1 /\ h \in 1 .. i /\ j = h + 1
        BY <2>3, <3>2, <4>1
      <4>3. h \in DOMAIN maps
        BY Zenon, <2>3, <4>2
      <4> QED
        BY Zenon, <1>2, <2>4, <4>2, <4>3
    <3> QED
      BY Zenon, <3>1, <3>2
  <2>7. i + 1 \in DOMAIN all /\ all[i + 1] = maps[i] /\ k \in DOMAIN all[i + 1]
    BY Zenon, <1>2, <2>3
  <2>8. LookupIs(all, k, all[i + 1][k])
    BY Zenon, <1>1, <2>6, <2>7, LookupIsFirst
  <2> QED
    BY Zenon, <1>6, <2>5, <2>7, <2>8 DEF LookupIs, Over
<1> QED
  BY Zenon, <1>4, <1>5, <1>6

LEMMA ReadIs ==
  ASSUME NEW m, NEW F, NEW ids \in Seq(Nat), NEW k
  PROVE  LooksOver(<<m>> \o ContentsOf(F, ids), m, ContentsOf(F, ids), k)
<1> DEFINE maps == ContentsOf(F, ids)
           n == Len(ids)
<1>1. n \in Nat /\ DOMAIN ids = 1 .. n
  OBVIOUS
<1>2. maps = [i \in 1 .. n |-> maps[i]] /\ DOMAIN maps = 1 .. n
  BY Zenon, <1>1 DEF ContentsOf
<1> HIDE DEF maps, n
<1>3. Behind(m, maps, <<m>> \o maps)
  BY Zenon, <1>1, <1>2, ConcatBehind
<1>4. \A i \in DOMAIN maps : 1 .. i \subseteq DOMAIN maps
  BY <1>1, <1>2
<1>5. LooksOver(<<m>> \o maps, m, maps, k)
  BY Zenon, <1>3, <1>4, LookupOver
<1> QED
  BY Zenon, <1>5 DEF maps

LEMMA ViewIs ==
  ASSUME IdInv, IdInv', NEW k
  PROVE  /\ View(k) = Over(mems[gen], Shown(files, tiers, k), k)
         /\ View(k)' = Over(mems'[gen'], Shown(files', tiers', k), k)
<1>1. Flatten(tiers) \in Seq(Nat) /\ Flatten(tiers') \in Seq(Nat)
  BY Zenon, FlattenRange DEF IdInv, TypeInv
<1>2. /\ Contents(Tables) = ContentsOf(files, Flatten(tiers))
      /\ Contents(Tables)' = ContentsOf(files', Flatten(tiers'))
  BY Zenon DEF Contents, ContentsOf, Tables
<1>3. LooksOver(<<mems[gen]>> \o Contents(Tables), mems[gen], Contents(Tables), k)
  BY Zenon, <1>1, <1>2, ReadIs
<1>4. LooksOver(<<mems'[gen']>> \o Contents(Tables)', mems'[gen'], Contents(Tables)', k)
  BY Zenon, <1>1, <1>2, ReadIs
<1> QED
  BY Zenon, <1>2, <1>3, <1>4 DEF View, Shown, LooksOver

LEMMA CompactInstallCompacts ==
  ASSUME IdInv, IdInv', FileInv, MergeInv, Kept, ManifestFits', CompactInstall
  PROVE  \E m, ids : Compacts(tiers, tiers', job.tier, m, ids, job.tables, files, files', job.bottommost)
<1> DEFINE m == Len(tiers[job.tier]) - Len(job.tables)
           ids == IF job.out = Empty THEN <<>> ELSE <<job.id>>
<1>1. Stage("install") /\ tiers' = Compacted
  BY Zenon DEF CompactInstall
<1>2. /\ IsJob(job) /\ job # NoJob /\ job.stage = "install" /\ job.tier \in DOMAIN tiers
      /\ Suffix(job.tables, tiers[job.tier]) /\ job.tables \in Seq(Nat) /\ job.bottommost \in BOOLEAN
      /\ job.id \in Nat
  BY Zenon, <1>1, StagedJob DEF IsJob
<1>3. /\ tiers \in Seq(Seq(Nat)) /\ tiers' \in Seq(Seq(Nat)) /\ Distinct(tiers)
      /\ Named(tiers) \subseteq DOMAIN files /\ Named(tiers') \subseteq DOMAIN files'
  BY Zenon DEF IdInv, TypeInv, TiersInv
<1>4. tiers[job.tier] \in Seq(Nat)
  BY Zenon, <1>2, <1>3, TierType
<1>5. m \in Nat /\ m <= Len(tiers[job.tier])
  BY Zenon, <1>2, <1>4, SuffixIs
<1>6. ids \in Seq(Nat)
  BY <1>2
<1>7. /\ DOMAIN tiers \subseteq DOMAIN tiers' /\ job.tier + 1 \in DOMAIN tiers'
      /\ tiers'[job.tier] = [p \in 1 .. m |-> tiers[job.tier][p]]
      /\ tiers'[job.tier + 1] = ids \o TierOf(tiers, job.tier + 1)
      /\ \A t \in DOMAIN tiers' :
           t \notin {job.tier, job.tier + 1} => t \in DOMAIN tiers /\ tiers'[t] = tiers[t]
  BY Zenon, <1>1, <1>2, <1>3, CompactedIs
<1>8. IsCompacted(tiers, tiers', job.tier, m, ids)
  <2> HIDE DEF m, ids
  <2> QED
    BY Zenon, <1>2, <1>3, <1>5, <1>6, <1>7 DEF IsCompacted
<1>9. job.out = MergedOf(files, job.tables, job.bottommost)
  <2>1. job.stage # "merge"
    BY Zenon, <1>2
  <2> QED
    BY Zenon, <1>2, <2>1, MergedIs DEF MergeInv
<1>10. Replaces(files, files', job.tables, job.bottommost, ids)
  <2>1. CASE job.out = Empty
    BY Zenon, <1>9, <2>1 DEF Replaces
  <2>2. CASE job.out # Empty
    <3>1. ids = <<job.id>>
      BY Zenon, <2>2
    <3>2. files[job.id] = job.out
      BY Zenon, <1>2, <2>2 DEF FileInv, JobFiles
    <3>3. job.id \in Named(tiers')
      <4>1. TierOf(tiers, job.tier + 1) \in Seq(Nat)
        <5>1. <<>> \in Seq(Nat)
          OBVIOUS
        <5> QED
          BY Zenon, <1>3, <5>1, TierType DEF TierOf
      <4>2. 1 \in DOMAIN tiers'[job.tier + 1] /\ tiers'[job.tier + 1][1] = job.id
        <5> DEFINE u == TierOf(tiers, job.tier + 1)
        <5>1. u \in Seq(Nat) /\ tiers'[job.tier + 1] = <<job.id>> \o u
          BY Zenon, <1>7, <3>1, <4>1
        <5> HIDE DEF u
        <5>2. 1 \in DOMAIN (<<job.id>> \o u) /\ (<<job.id>> \o u)[1] = job.id
          BY <1>2, <5>1
        <5> QED
          BY Zenon, <5>1, <5>2
      <4> QED
        BY Zenon, <1>7, <4>2, NamedIs
    <3>4. job.id \in DOMAIN files' /\ files'[job.id] = files[job.id]
      <4>1. ReleaseTables(obsolete \cup Range(job.tables))
        BY Zenon DEF CompactInstall, ManifestFits
      <4> QED
        BY Zenon, <1>3, <3>3, <4>1 DEF ReleaseTables, Drop
    <3> HIDE DEF ids
    <3> QED
      BY Zenon, <1>9, <2>2, <3>1, <3>2, <3>4 DEF Replaces
  <2> QED
    BY Zenon, <2>1, <2>2
<1>11. job.bottommost => \A u \in DOMAIN tiers : u > job.tier => tiers[u] = <<>>
  BY Zenon, <1>2 DEF MergeInv
<1>12. \A i \in Named(tiers) : i \in Named(tiers') => files'[i] = files[i]
  BY Zenon DEF Kept
<1>13. m = Len(tiers[job.tier]) - Len(job.tables)
  BY Zenon
<1> HIDE DEF m, ids
<1>14. Compacts(tiers, tiers', job.tier, m, ids, job.tables, files, files', job.bottommost)
  BY Zenon, <1>2, <1>3, <1>8, <1>10, <1>11, <1>12, <1>13 DEF Compacts
<1> QED
  BY Zenon, <1>14

LEMMA CompactInstallView ==
  ASSUME IdInv, IdInv', FileInv, MergeInv, ManifestFits', Kept, CompactInstall, NEW k
  PROVE  View(k)' = View(k)
<1>1. Shown(files', tiers', k) = Shown(files, tiers, k)
  <2>1. PICK m, ids : Compacts(tiers, tiers', job.tier, m, ids, job.tables, files, files', job.bottommost)
    BY Zenon, CompactInstallCompacts
  <2> QED
    BY <2>1, CompactedShown
<1>2. mems' = mems /\ gen' = gen
  BY Zenon DEF CompactInstall
<1> QED
  BY Zenon, <1>1, <1>2, ViewIs

\* Compaction never changes what can be read, wherever a crash comes that leaves no
\* unknown table file behind and as long as the tiers fit on the manifest page: it
\* drops a tombstone only when nothing older is left below, and keeps the order of
\* the tables and what was flushed while it ran.
THEOREM CompactionKeeps ==
  ASSUME SafeCrashes
  PROVE  Spec /\ []ManifestFits => CompactionKeepsView
<1> DEFINE Inv == IdInv /\ WalInv /\ MemInv /\ FileInv /\ MergeInv
           Kind == job # NoJob /\ job' = NoJob /\ engine' # "start"
                     => \A k \in Key : View(k)' = View(k)
<1>1. Inv /\ [Next]_vars /\ ManifestFits' => Inv'
  BY Zenon, NextId, NextWal, NextMem, NextFiles, NextMerge
<1>2. Inv /\ Inv' /\ ManifestFits' /\ [Next]_vars => [Kind]_vars
  <2> SUFFICES ASSUME Inv, Inv', ManifestFits', Next, job # NoJob, job' = NoJob, engine' # "start"
               PROVE  \A k \in Key : View(k)' = View(k)
    BY Zenon
  <2>1. CompactInstall
    <3>2. CASE \E c \in Client : Call(c) \/ Close(c)
      BY Zenon, <3>2 DEF Call, Put, Write, Get, Close
    <3>3. CASE \E c \in Client : Continue(c)
      BY Zenon, <3>3
         DEF Continue, GetLookup, Delete, Write, FlushSwap, FlushEmpty, FlushBuild, FlushHeader,
             FlushUnlink, FlushInstall, Help
    <3>4. CASE Compaction
      <4>1. CASE Compact
        BY Zenon, <4>1 DEF Compact
      <4>2. ASSUME NEW s, job' = [job EXCEPT !.stage = s]
            PROVE  FALSE
        BY Zenon, <4>2, JobIsSome DEF IdInv, TypeInv
      <4>3. ASSUME NEW s, NEW m, NEW i, NEW f,
                   job' = [job EXCEPT !.stage = s, !.out = m, !.id = i, !.fresh = f]
            PROVE  FALSE
        BY Zenon, <4>3, JobIsSome DEF IdInv, TypeInv
      <4>4. CASE CompactMerge
        <5> DEFINE m == Merged
                   f == next_id \notin DOMAIN files
        <5>1. \/ job' = [job EXCEPT !.stage = "install"]
              \/ job' = [job EXCEPT !.stage = "header", !.out = m, !.id = next_id, !.fresh = f]
          BY Zenon, <4>4 DEF CompactMerge
        <5> HIDE DEF m, f
        <5> QED
          BY Zenon, <4>2, <4>3, <5>1
      <4>5. CASE CompactHeader
        BY Zenon, <4>2, <4>5 DEF CompactHeader
      <4> QED
        BY Zenon, <3>4, <4>1, <4>4, <4>5 DEF Compaction
    <3>5. CASE Constructor \/ Reopen \/ Crash \/ Rest
      BY Zenon, <3>5 DEF Constructor, LoadManifest, Replay, RemoveOld, Reopen, Crash, Restarted, Rest, vars
    <3> QED
      BY Zenon, <3>2, <3>3, <3>4, <3>5 DEF Next
  <2>2. Kept
    BY Zenon, NextKept
  <2> QED
    BY Zenon, <2>1, <2>2, CompactInstallView
<1>3. Init => Inv
  BY Zenon, InitId, InitWal, InitMem, InitFiles, InitMerge
<1>4. Spec /\ []ManifestFits => [][Kind]_vars
  <2> HIDE DEF Inv, Kind
  <2> QED
    BY <1>1, <1>2, <1>3, PTL DEF Spec
<1> QED
  BY <1>4, PTL DEF CompactionKeepsView
=============================================================================
