------------------------------ MODULE WALData ------------------------------
(***************************************************************************)
(* Proofs about WALEngine, for any keys, values, pages, numbers of         *)
(* transactions and crashes: a committed update survives, and one of a     *)
(* transaction that did not commit is gone once recovery is over.          *)
(***************************************************************************)
EXTENDS WALProofs

----------------------------------------------------------------------------
(* What the log says of a key: the updates that count are those that are    *)
(* live and those of transactions that committed.                           *)

WonIn(l, i) ==
  \E c \in i + 1 .. Len(l) :
    Is(l, c, {"COMMIT"}, l[i].txn) /\ None(l, i + 1, c, {"BEGIN"}, l[i].txn)

Writes(l, k) == {i \in 1 .. Len(l) : l[i].type \in {"UPDATE", "CLR"} /\ l[i].key = k}
Effective(l, k) ==
  {i \in 1 .. Len(l) : l[i].type = "UPDATE" /\ l[i].key = k /\ (Live(l, i) \/ WonIn(l, i))}
Below(l, k, u) == {w \in Effective(l, k) : w < u}

\* v is what the last of the records in S wrote.
Top(S, x) == x \in S /\ \A y \in S : y <= x
Shows(l, S, v) == (S = {} /\ v = Absent) \/ \E x : Top(S, x) /\ v = l[x].new

Current(l, k, v) == Shows(l, Effective(l, k), v)
Compensated(l, k, v) == \E u : Top(Effective(l, k), u) /\ Live(l, u) /\ v = l[u].old
Rewritten(l, n, k) == \E i \in Writes(l, k) : i >= n

\* Replaying every record of k leaves what the updates that count leave; a live
\* update saved what the ones before it leave, and only live updates of the same
\* transaction come after it.
StackOf(l, k) ==
  /\ \A v : Shows(l, Writes(l, k), v) <=> Current(l, k, v)
  /\ \A u \in Effective(l, k) : Live(l, u) =>
       /\ Shows(l, Below(l, k, u), l[u].old)
       /\ \A w \in Effective(l, k) : w > u => Live(l, w) /\ l[w].txn = l[u].txn

\* Log m says of k what log l says.
Unmoved(l, m, k) ==
  /\ Writes(m, k) = Writes(l, k) /\ StackOf(m, k)
  /\ \A v : Current(m, k, v) <=> Current(l, k, v)

LEMMA ShowsSame ==
  ASSUME NEW l, NEW m, Extends(l, m), NEW S \in SUBSET (1 .. Len(l)), NEW v
  PROVE  Shows(m, S, v) <=> Shows(l, S, v)
<1>1. \A x : Top(S, x) => m[x] = l[x]
  BY Zenon DEF Top, Extends
<1> QED
  BY Zenon, <1>1 DEF Shows

LEMMA ShowsTop ==
  ASSUME NEW l, NEW S \in SUBSET Nat, NEW x, Top(S, x), NEW v
  PROVE  Shows(l, S, v) <=> v = l[x].new
<1>1. x \in S /\ S # {}
  BY Zenon DEF Top
<1>2. ASSUME NEW y, Top(S, y) PROVE y = x
  <2>1. x \in Nat /\ y \in Nat /\ x <= y /\ y <= x
    BY Zenon, <1>2 DEF Top
  <2> QED
    BY <2>1
<1> QED
  BY Zenon, <1>1, <1>2 DEF Shows

LEMMA ShowsOne ==
  ASSUME NEW l, NEW S \in SUBSET Nat, NEW v, NEW w, Shows(l, S, v), Shows(l, S, w)
  PROVE  v = w
<1>1. CASE S = {}
  BY Zenon, <1>1 DEF Shows, Top
<1>2. CASE S # {}
  <2>1. PICK x : Top(S, x) /\ v = l[x].new
    BY Zenon, <1>2 DEF Shows
  <2>2. w = l[x].new
    BY Zenon, <2>1, ShowsTop
  <2> QED
    BY Zenon, <2>1, <2>2
<1> QED
  BY Zenon, <1>1, <1>2

LEMMA Indices ==
  ASSUME NEW l, Len(l) \in Nat, NEW k
  PROVE  /\ Writes(l, k) \in SUBSET (1 .. Len(l)) /\ Writes(l, k) \in SUBSET Nat
         /\ Effective(l, k) \in SUBSET (1 .. Len(l)) /\ Effective(l, k) \in SUBSET Nat
         /\ \A u : Below(l, k, u) \in SUBSET (1 .. Len(l)) /\ Below(l, k, u) \in SUBSET Nat
BY DEF Writes, Effective, Below

LEMMA StackKept ==
  ASSUME NEW l, NEW m, Extends(l, m), NEW k, StackOf(l, k),
         Writes(m, k) = Writes(l, k), Effective(m, k) = Effective(l, k),
         NEW T, \A u \in Effective(l, k) : Live(m, u) <=> Live(l, u) /\ l[u].txn \notin T
  PROVE  Unmoved(l, m, k)
<1>1. /\ Writes(l, k) \in SUBSET (1 .. Len(l)) /\ Effective(l, k) \in SUBSET (1 .. Len(l))
      /\ \A u : Below(l, k, u) \in SUBSET (1 .. Len(l))
  BY Zenon, Indices DEF Extends
<1>2. \A v : /\ Current(m, k, v) <=> Current(l, k, v)
             /\ Shows(m, Writes(m, k), v) <=> Shows(l, Writes(l, k), v)
  BY Zenon, <1>1, ShowsSame DEF Current
<1>3. \A u : Below(m, k, u) = Below(l, k, u)
  BY Zenon DEF Below
<1>4. \A u \in Effective(l, k) : m[u] = l[u]
  BY Zenon, <1>1 DEF Extends
<1>5. ASSUME NEW u \in Effective(l, k), Live(m, u)
      PROVE  /\ Shows(m, Below(m, k, u), m[u].old)
             /\ \A w \in Effective(l, k) : w > u => Live(m, w) /\ m[w].txn = m[u].txn
  <2>1. /\ Live(l, u) /\ l[u].txn \notin T
        /\ Shows(l, Below(l, k, u), l[u].old)
        /\ \A w \in Effective(l, k) : w > u => Live(l, w) /\ l[w].txn = l[u].txn
    BY Zenon, <1>5 DEF StackOf
  <2>2. Shows(m, Below(m, k, u), m[u].old)
    BY Zenon, <1>1, <1>3, <1>4, <2>1, ShowsSame
  <2> QED
    BY Zenon, <1>4, <2>1, <2>2
<1> QED
  BY Zenon, <1>2, <1>5 DEF Unmoved, StackOf

LEMMA CompensatedKept ==
  ASSUME NEW l, NEW m, Extends(l, m), NEW k, Effective(m, k) = Effective(l, k),
         \A u \in Effective(l, k) : Live(l, u) => Live(m, u), NEW v, Compensated(l, k, v)
  PROVE  Compensated(m, k, v)
<1>1. PICK u : Top(Effective(l, k), u) /\ Live(l, u) /\ v = l[u].old
  BY Zenon DEF Compensated
<1>2. u \in Effective(l, k) /\ m[u] = l[u]
  BY Zenon, <1>1, Indices DEF Top, Extends
<1> QED
  BY Zenon, <1>1, <1>2 DEF Compensated

\* A live update that no later one of its transaction follows is the last of its
\* key.
LEMMA LiveOnTop ==
  ASSUME NEW l, Len(l) \in Nat, NEW p, Live(l, p), NEW k, k = l[p].key, StackOf(l, k),
         \A w : Live(l, w) /\ l[w].txn = l[p].txn => w <= p
  PROVE  Top(Effective(l, k), p)
<1>1. p \in Effective(l, k) /\ p \in 1 .. Len(l)
  BY Zenon DEF Effective, Live
<1>2. ASSUME NEW w \in Effective(l, k) PROVE w <= p
  <2>1. w \in Nat /\ p \in Nat
    BY Zenon, <1>1, Indices
  <2>2. w > p => Live(l, w) /\ l[w].txn = l[p].txn
    BY Zenon, <1>1 DEF StackOf
  <2> QED
    BY <2>1, <2>2
<1> QED
  BY Zenon, <1>1, <1>2 DEF Top

----------------------------------------------------------------------------
(* One more record.                                                         *)

LEMMA AddsIndex ==
  ASSUME NEW l, NEW m, NEW r, Adds(l, m, r)
  PROVE  /\ Extends(l, m) /\ Len(l) \in Nat /\ Len(m) = Len(l) + 1 /\ m[Len(m)] = r
         /\ 1 .. Len(m) = (1 .. Len(l)) \cup {Len(m)} /\ Len(m) \notin 1 .. Len(l)
         /\ \A i \in 1 .. Len(l) : m[i] = l[i] /\ i < Len(m) /\ i \in Nat /\ Len(m) \in Nat
BY DEF Adds, Extends

LEMMA WonAdds ==
  ASSUME NEW l, NEW m, NEW r, Adds(l, m, r), NEW i \in 1 .. Len(l), r.type # "COMMIT"
  PROVE  WonIn(m, i) <=> WonIn(l, i)
<1>1. /\ Len(l) \in Nat /\ Len(m) = Len(l) + 1 /\ m[Len(m)] = r /\ m[i] = l[i]
      /\ \A j \in 1 .. Len(l) : m[j] = l[j]
  BY AddsIndex
<1>2. ASSUME NEW c \in i + 1 .. Len(l)
      PROVE  c \in i + 1 .. Len(m) /\ m[c] = l[c] /\ \A j \in i + 1 .. c : m[j] = l[j]
  BY <1>1
<1>3. ASSUME NEW c \in i + 1 .. Len(m), Is(m, c, {"COMMIT"}, l[i].txn) PROVE c \in i + 1 .. Len(l)
  <2>1. c # Len(m)
    BY Zenon, <1>1, <1>3 DEF Is
  <2> QED
    BY <1>1, <2>1
<1>4. ASSUME WonIn(m, i) PROVE WonIn(l, i)
  <2>1. PICK c \in i + 1 .. Len(m) :
          Is(m, c, {"COMMIT"}, m[i].txn) /\ None(m, i + 1, c, {"BEGIN"}, m[i].txn)
    BY Zenon, <1>4 DEF WonIn
  <2>2. c \in i + 1 .. Len(l)
    BY Zenon, <1>1, <1>3, <2>1
  <2> QED
    BY ZenonT(60), <1>1, <1>2, <2>1, <2>2 DEF WonIn, Is, None
<1>5. ASSUME WonIn(l, i) PROVE WonIn(m, i)
  <2>1. PICK c \in i + 1 .. Len(l) :
          Is(l, c, {"COMMIT"}, l[i].txn) /\ None(l, i + 1, c, {"BEGIN"}, l[i].txn)
    BY Zenon, <1>5 DEF WonIn
  <2>2. c \in i + 1 .. Len(m) /\ m[c] = l[c] /\ \A j \in i + 1 .. c : m[j] = l[j]
    BY Zenon, <1>2
  <2>3. Is(m, c, {"COMMIT"}, m[i].txn) /\ None(m, i + 1, c, {"BEGIN"}, m[i].txn)
    BY Zenon, <1>1, <2>1, <2>2 DEF Is, None
  <2> QED
    BY Zenon, <2>2, <2>3 DEF WonIn
<1> QED
  BY Zenon, <1>4, <1>5

LEMMA WritesAdds ==
  ASSUME NEW l, NEW m, NEW r, Adds(l, m, r), NEW k
  PROVE  \A i : i \in Writes(m, k) <=>
           i \in Writes(l, k) \/ (i = Len(m) /\ r.type \in {"UPDATE", "CLR"} /\ r.key = k)
BY AddsIndex DEF Writes

LEMMA EffectiveAdds ==
  ASSUME NEW l, NEW m, NEW r, Adds(l, m, r), NEW k, NEW D,
         r.type = "UPDATE" => Live(m, Len(m)),
         \A i \in 1 .. Len(l) : l[i].type = "UPDATE" /\ l[i].key = k =>
           (Live(m, i) \/ WonIn(m, i) <=> (Live(l, i) \/ WonIn(l, i)) /\ i \notin D)
  PROVE  \A i : i \in Effective(m, k) <=>
           (i \in Effective(l, k) /\ i \notin D) \/ (i = Len(m) /\ r.type = "UPDATE" /\ r.key = k)
<1>1. /\ 1 .. Len(m) = (1 .. Len(l)) \cup {Len(m)} /\ m[Len(m)] = r
      /\ \A i \in 1 .. Len(l) : m[i] = l[i]
  BY AddsIndex
<1> QED
  BY Zenon, <1>1 DEF Effective

\* BEGIN, ABORT and the records of a checkpoint.
LEMMA PlainData ==
  ASSUME NEW l, NEW m, NEW r, Adds(l, m, r), r.type \notin {"UPDATE", "CLR", "COMMIT"},
         \A u : Live(m, u) <=> Live(l, u), NEW k, StackOf(l, k)
  PROVE  Unmoved(l, m, k)
<1>1. Writes(m, k) = Writes(l, k)
  <2>1. \A i : i \in Writes(m, k) <=>
          i \in Writes(l, k) \/ (i = Len(m) /\ r.type \in {"UPDATE", "CLR"} /\ r.key = k)
    BY Zenon, WritesAdds
  <2> QED
    BY Zenon, <2>1
<1>2. Effective(m, k) = Effective(l, k)
  <2>1. \A i \in 1 .. Len(l) : WonIn(m, i) <=> WonIn(l, i)
    BY Zenon, WonAdds
  <2>2. /\ 1 .. Len(m) = (1 .. Len(l)) \cup {Len(m)} /\ m[Len(m)] = r
        /\ \A i \in 1 .. Len(l) : m[i] = l[i]
    BY AddsIndex
  <2>3. r.type # "UPDATE"
    BY Zenon
  <2> QED
    BY Zenon, <2>1, <2>2, <2>3 DEF Effective
<1>3. PICK T : T = {}
  BY Zenon
<1>4. Extends(l, m) /\ \A u \in Effective(l, k) : Live(m, u) <=> Live(l, u) /\ l[u].txn \notin T
  BY Zenon, <1>3, AddsIndex
<1> QED
  BY Zenon, <1>1, <1>2, <1>4, StackKept

\* COMMIT makes the live updates of its transaction count for good.
LEMMA CommitData ==
  ASSUME NEW l, NEW m, NEW t, NEW r, Adds(l, m, r), r.type = "COMMIT", r.txn = t, Whole(l, t),
         NEW k, StackOf(l, k)
  PROVE  Unmoved(l, m, k)
<1>1. Writes(m, k) = Writes(l, k)
  <2>1. \A i : i \in Writes(m, k) <=>
          i \in Writes(l, k) \/ (i = Len(m) /\ r.type \in {"UPDATE", "CLR"} /\ r.key = k)
    BY Zenon, WritesAdds
  <2> QED
    BY Zenon, <2>1
<1>2. /\ Extends(l, m) /\ Len(l) \in Nat /\ Len(m) = Len(l) + 1 /\ m[Len(m)] = r
      /\ \A i \in 1 .. Len(l) : m[i] = l[i]
  BY AddsIndex
<1>3. ASSUME NEW u \in 1 .. Len(l) PROVE Live(m, u) <=> Live(l, u) /\ l[u].txn # t
  <2>1. ASSUME Live(m, u) PROVE Live(l, u) /\ l[u].txn # t
    BY <2>1, LiveEnds
  <2>2. ASSUME Live(l, u), l[u].txn # t PROVE Live(m, u)
    <3>1. Foreign(l, m, l[u].txn)
      BY Zenon, <2>2, ForeignAdds
    <3> QED
      BY Zenon, <2>2, <3>1, LiveForeign
  <2> QED
    BY Zenon, <2>1, <2>2
<1>4. ASSUME NEW i \in 1 .. Len(l), WonIn(l, i) PROVE WonIn(m, i)
  <2>1. PICK c \in i + 1 .. Len(l) :
          Is(l, c, {"COMMIT"}, l[i].txn) /\ None(l, i + 1, c, {"BEGIN"}, l[i].txn)
    BY Zenon, <1>4 DEF WonIn
  <2>2. c \in i + 1 .. Len(m) /\ m[c] = l[c] /\ \A j \in i + 1 .. c : m[j] = l[j]
    BY <1>2, <2>1
  <2> QED
    BY Zenon, <1>2, <2>1, <2>2 DEF WonIn, Is, None
<1>5. ASSUME NEW i \in 1 .. Len(l), WonIn(m, i), l[i].type = "UPDATE" PROVE WonIn(l, i) \/ Live(l, i)
  <2>1. PICK c \in i + 1 .. Len(m) :
          Is(m, c, {"COMMIT"}, l[i].txn) /\ None(m, i + 1, c, {"BEGIN"}, l[i].txn)
    BY Zenon, <1>2, <1>5 DEF WonIn
  <2>2. CASE c = Len(m)
    <3>1. l[i].txn = t
      BY Zenon, <1>2, <2>1, <2>2 DEF Is
    <3>2. \A j \in i + 1 .. Len(l) : j \in i + 1 .. c /\ m[j] = l[j]
      BY <1>2, <2>2
    <3>3. None(l, i + 1, Len(l), {"BEGIN"}, t)
      BY Zenon, <2>1, <3>1, <3>2 DEF None, Is
    <3> QED
      BY Zenon, <1>5, <3>1, <3>3 DEF Whole, Is
  <2>3. CASE c # Len(m)
    <3>1. c \in i + 1 .. Len(l) /\ \A j \in i + 1 .. c : m[j] = l[j]
      BY <1>2, <2>3
    <3>2. m[c] = l[c]
      BY <1>2, <3>1
    <3> QED
      BY Zenon, <2>1, <3>1, <3>2 DEF WonIn, Is, None
  <2> QED
    BY Zenon, <2>2, <2>3
<1>6. ASSUME NEW i \in 1 .. Len(l), Live(l, i), l[i].txn = t PROVE WonIn(m, i)
  <2>1. Len(m) \in i + 1 .. Len(m) /\ Is(m, Len(m), {"COMMIT"}, m[i].txn)
    BY <1>2, <1>6 DEF Is
  <2>2. ASSUME NEW j \in i + 1 .. Len(m) PROVE ~Is(m, j, {"BEGIN"}, m[i].txn)
    <3>1. CASE j = Len(m)
      BY Zenon, <1>2, <3>1 DEF Is
    <3>2. CASE j \in i + 1 .. Len(l)
      <4>1. m[j] = l[j]
        BY <1>2, <3>2
      <4> QED
        BY Zenon, <1>2, <1>6, <3>2, <4>1 DEF Live, None, Is
    <3> QED
      BY <1>2, <3>1, <3>2
  <2> QED
    BY Zenon, <2>1, <2>2 DEF WonIn, None
<1>7. Effective(m, k) = Effective(l, k)
  <2>1. PICK D : D = {}
    BY Zenon
  <2>2. \A i \in 1 .. Len(l) : l[i].type = "UPDATE" /\ l[i].key = k =>
          (Live(m, i) \/ WonIn(m, i) <=> (Live(l, i) \/ WonIn(l, i)) /\ i \notin D)
    BY Zenon, <1>3, <1>4, <1>5, <1>6, <2>1
  <2>3. \A i : i \in Effective(m, k) <=>
          (i \in Effective(l, k) /\ i \notin D) \/ (i = Len(m) /\ r.type = "UPDATE" /\ r.key = k)
    BY <2>2, EffectiveAdds
  <2> QED
    BY Zenon, <2>1, <2>3
<1>8. PICK T : T = {t}
  BY Zenon
<1>9. \A u \in Effective(l, k) : Live(m, u) <=> Live(l, u) /\ l[u].txn \notin T
  BY Zenon, <1>3, <1>8 DEF Effective
<1> QED
  BY Zenon, <1>1, <1>2, <1>7, <1>9, StackKept

\* UPDATE of a key whose live updates are all of the same transaction.
LEMMA UpdateData ==
  ASSUME NEW l, NEW m, NEW t, NEW p, NEW k, NEW old, NEW new,
         Adds(l, m, Update(t, p, k, old, new)), StackOf(l, k), Current(l, k, old),
         \A u : Live(l, u) /\ l[u].key = k => l[u].txn = t
  PROVE  /\ StackOf(m, k) /\ Current(m, k, new) /\ Len(m) \in Writes(m, k)
         /\ \A j : j # k /\ StackOf(l, j) => Unmoved(l, m, j)
<1> DEFINE r == Update(t, p, k, old, new)
           z == Len(m)
<1>1. r.type = "UPDATE" /\ r.txn = t /\ r.key = k /\ r.old = old /\ r.new = new
  BY Zenon DEF Update
<1> HIDE DEF r
<1>2. /\ Extends(l, m) /\ Len(l) \in Nat /\ z \in Nat /\ m[z] = r /\ z \notin 1 .. Len(l)
      /\ \A i \in 1 .. Len(l) : m[i] = l[i] /\ i < z /\ i \in Nat
  <2>1. Adds(l, m, r)
    BY Zenon DEF r
  <2> QED
    BY <2>1, AddsIndex
<1>3. /\ Adds(l, m, r) /\ \A u : Live(m, u) <=> Live(l, u) \/ u = z
  <2>1. Adds(l, m, r)
    BY Zenon DEF r
  <2> QED
    BY Zenon, <1>1, <2>1, LiveAdds
<1>4. \A j, i : i \in Writes(m, j) <=> i \in Writes(l, j) \/ (i = z /\ j = k)
  BY Zenon, <1>1, <1>3, WritesAdds
<1>5. \A j, i : i \in Effective(m, j) <=> i \in Effective(l, j) \/ (i = z /\ j = k)
  <2>1. \A i \in 1 .. Len(l) : WonIn(m, i) <=> WonIn(l, i)
    BY Zenon, <1>1, <1>3, WonAdds
  <2>2. PICK D : D = {}
    BY Zenon
  <2>3. \A i \in 1 .. Len(l) :
          Live(m, i) \/ WonIn(m, i) <=> (Live(l, i) \/ WonIn(l, i)) /\ i \notin D
    BY Zenon, <1>2, <1>3, <2>1, <2>2
  <2> TAKE j
  <2>4. \A i : i \in Effective(m, j) <=>
          (i \in Effective(l, j) /\ i \notin D) \/ (i = z /\ r.type = "UPDATE" /\ r.key = j)
    BY ZenonT(60), <1>3, <2>3, EffectiveAdds
  <2> QED
    BY Zenon, <1>1, <2>2, <2>4
<1> HIDE DEF z
<1>6. \A j : /\ Writes(l, j) \in SUBSET (1 .. Len(l)) /\ Effective(l, j) \in SUBSET (1 .. Len(l))
             /\ Writes(m, j) \in SUBSET Nat /\ Effective(m, j) \in SUBSET Nat
             /\ \A u : Below(l, j, u) \in SUBSET (1 .. Len(l))
  BY Zenon, <1>2, Indices DEF z
<1>7. Top(Writes(m, k), z) /\ Top(Effective(m, k), z)
  <2>1. z \in Writes(m, k) /\ z \in Effective(m, k) /\ z <= z
    BY <1>2, <1>4, <1>5
  <2>2. \A i \in 1 .. Len(l) : i <= z
    BY <1>2
  <2> QED
    BY Zenon, <1>4, <1>5, <1>6, <2>1, <2>2 DEF Top
<1>8. \A v : (Shows(m, Writes(m, k), v) <=> v = new) /\ (Current(m, k, v) <=> v = new)
  BY <1>1, <1>2, <1>6, <1>7, ShowsTop DEF Current
<1>9. ASSUME NEW u \in Effective(m, k), Live(m, u)
      PROVE  /\ Shows(m, Below(m, k, u), m[u].old)
             /\ \A w \in Effective(m, k) : w > u => Live(m, w) /\ m[w].txn = m[u].txn
  <2>1. CASE u = z
    <3>1. Below(m, k, u) = Effective(l, k)
      <4>1. \A i \in Effective(l, k) : i < z
        BY Zenon, <1>2, <1>6
      <4>2. ~(z < z)
        BY <1>2
      <4> QED
        BY <1>5, <2>1, <4>1, <4>2 DEF Below
    <3>2. Shows(m, Effective(l, k), old)
      BY Zenon, <1>2, <1>6, ShowsSame DEF Current
    <3>3. \A w \in Effective(m, k) : ~(w > z)
      BY <1>2, <1>6, <1>7 DEF Top
    <3> QED
      BY Zenon, <1>1, <1>2, <2>1, <3>1, <3>2, <3>3
  <2>2. CASE u # z
    <3>1. u \in Effective(l, k) /\ Live(l, u) /\ u \in 1 .. Len(l)
      BY Zenon, <1>3, <1>5, <1>6, <1>9, <2>2
    <3>2. m[u] = l[u] /\ l[u].key = k /\ l[u].txn = t
      BY Zenon, <1>2, <3>1 DEF Effective
    <3>3. Below(m, k, u) = Below(l, k, u)
      <4>1. ~(z < u)
        BY <1>2, <3>1
      <4> QED
        BY Zenon, <1>5, <4>1 DEF Below
    <3>4. Shows(l, Below(l, k, u), l[u].old)
      BY Zenon, <3>1 DEF StackOf
    <3>5. Shows(m, Below(m, k, u), m[u].old)
      BY Zenon, <1>2, <1>6, <3>2, <3>3, <3>4, ShowsSame
    <3>6. ASSUME NEW w \in Effective(m, k), w > u PROVE Live(m, w) /\ m[w].txn = m[u].txn
      <4>1. CASE w = z
        BY Zenon, <1>1, <1>2, <1>3, <3>2, <4>1
      <4>2. CASE w # z
        <5>1. w \in Effective(l, k) /\ w \in 1 .. Len(l)
          BY Zenon, <1>5, <1>6, <4>2
        <5>2. Live(l, w) /\ l[w].txn = l[u].txn
          BY Zenon, <3>1, <3>6, <5>1 DEF StackOf
        <5> QED
          BY Zenon, <1>2, <1>3, <3>2, <5>1, <5>2
      <4> QED
        BY Zenon, <4>1, <4>2
    <3> QED
      BY Zenon, <3>5, <3>6
  <2> QED
    BY Zenon, <2>1, <2>2
<1>10. StackOf(m, k)
  BY Zenon, <1>8, <1>9 DEF StackOf
<1>11. ASSUME NEW j, j # k, StackOf(l, j) PROVE Unmoved(l, m, j)
  <2>1. Writes(m, j) = Writes(l, j) /\ Effective(m, j) = Effective(l, j)
    <3>1. \A i : i \in Writes(m, j) <=> i \in Writes(l, j)
      BY Zenon, <1>4, <1>5, <1>11
    <3>2. \A i : i \in Effective(m, j) <=> i \in Effective(l, j)
      BY Zenon, <1>4, <1>5, <1>11
    <3> QED
      BY Zenon, <3>1, <3>2
  <2>2. PICK T : T = {}
    BY Zenon
  <2>3. \A u \in Effective(l, j) : Live(m, u) <=> Live(l, u) /\ l[u].txn \notin T
    BY Zenon, <1>2, <1>3, <1>6, <2>2
  <2> QED
    BY Zenon, <1>2, <1>11, <2>1, <2>3, StackKept
<1> QED
  BY Zenon, <1>4, <1>8, <1>10, <1>11 DEF z

\* CLR of the last live update of a transaction.
LEMMA ClrData ==
  ASSUME NEW l, NEW m, NEW p, Live(l, p), \A u : Live(m, u) <=> Live(l, u) /\ u # p,
         NEW k, k = l[p].key, NEW old, old = l[p].old,
         \A w : Live(l, w) /\ l[w].txn = l[p].txn => w <= p,
         Adds(l, m, Clr(l[p].txn, k, old, l[p].prev)), StackOf(l, k)
  PROVE  /\ StackOf(m, k) /\ Current(m, k, old) /\ Len(m) \in Writes(m, k)
         /\ \A j : j # k /\ StackOf(l, j) =>
              Unmoved(l, m, j) /\ \A v : Compensated(l, j, v) => Compensated(m, j, v)
<1> DEFINE r == Clr(l[p].txn, k, old, l[p].prev)
           z == Len(m)
<1>1. r.type = "CLR" /\ r.key = k /\ r.new = old
  BY Zenon DEF Clr
<1>2. \A u : Live(m, u) <=> Live(l, u) /\ u # p
  BY Zenon
<1> HIDE DEF r
<1>3. Adds(l, m, r)
  BY Zenon DEF r
<1>4. /\ Extends(l, m) /\ Len(l) \in Nat /\ z \in Nat /\ m[z] = r /\ z \notin 1 .. Len(l)
      /\ \A i \in 1 .. Len(l) : m[i] = l[i] /\ i < z /\ i \in Nat
  BY <1>3, AddsIndex
<1>5. \A j, i : i \in Writes(m, j) <=> i \in Writes(l, j) \/ (i = z /\ j = k)
  BY <1>1, <1>3, WritesAdds
<1>6. \A j, i : i \in Effective(m, j) <=> i \in Effective(l, j) /\ i # p
  <2>1. \A i \in 1 .. Len(l) : WonIn(m, i) <=> WonIn(l, i)
    BY Zenon, <1>1, <1>3, WonAdds
  <2>2. ~WonIn(l, p)
    <3>1. None(l, p + 1, Len(l), {"BEGIN", "COMMIT"}, l[p].txn)
      BY Zenon DEF Live
    <3> QED
      BY Zenon, <3>1 DEF WonIn, None, Is
  <2>3. PICK D : D = {p}
    BY Zenon
  <2>4. \A i \in 1 .. Len(l) :
          Live(m, i) \/ WonIn(m, i) <=> (Live(l, i) \/ WonIn(l, i)) /\ i \notin D
    BY Zenon, <1>2, <2>1, <2>2, <2>3
  <2> TAKE j
  <2>5. \A i : i \in Effective(m, j) <=>
          (i \in Effective(l, j) /\ i \notin D) \/ (i = z /\ r.type = "UPDATE" /\ r.key = j)
    BY <1>1, <1>3, <2>4, EffectiveAdds
  <2> QED
    BY Zenon, <1>1, <2>3, <2>5
<1> HIDE DEF z
<1>7. \A j : /\ Writes(l, j) \in SUBSET (1 .. Len(l)) /\ Effective(l, j) \in SUBSET (1 .. Len(l))
             /\ Writes(m, j) \in SUBSET Nat /\ Effective(m, j) \in SUBSET Nat
             /\ \A u : Below(l, j, u) \in SUBSET (1 .. Len(l)) /\ Below(l, j, u) \in SUBSET Nat
  BY Zenon, <1>4, Indices DEF z
<1>8. Top(Effective(l, k), p) /\ p \in 1 .. Len(l)
  BY Zenon, <1>4, LiveOnTop DEF Live
<1>9. Top(Writes(m, k), z)
  <2>1. z \in Writes(m, k) /\ z <= z /\ \A i \in 1 .. Len(l) : i <= z
    BY <1>4, <1>5
  <2> QED
    BY Zenon, <1>5, <1>7, <2>1 DEF Top
<1>10. \A v : Shows(m, Writes(m, k), v) <=> v = old
  BY <1>1, <1>4, <1>7, <1>9, ShowsTop
<1>11. Effective(m, k) = Below(l, k, p)
  <2>1. \A i \in Effective(l, k) : i # p <=> i < p
    BY <1>4, <1>7, <1>8 DEF Top
  <2> QED
    BY Zenon, <1>6, <2>1 DEF Below
<1>12. Shows(m, Below(l, k, p), old)
  <2>1. p \in Effective(l, k)
    BY Zenon, <1>8 DEF Top
  <2>2. Shows(l, Below(l, k, p), old)
    BY Zenon, <2>1 DEF StackOf
  <2>3. Extends(l, m) /\ Below(l, k, p) \in SUBSET (1 .. Len(l))
    BY Zenon, <1>4, <1>7
  <2> QED
    BY Zenon, <2>2, <2>3, ShowsSame
<1>13. \A v : Current(m, k, v) <=> v = old
  BY Zenon, <1>7, <1>11, <1>12, ShowsOne DEF Current
<1>14. ASSUME NEW u \in Effective(m, k), Live(m, u)
       PROVE  /\ Shows(m, Below(m, k, u), m[u].old)
              /\ \A w \in Effective(m, k) : w > u => Live(m, w) /\ m[w].txn = m[u].txn
  <2>1. u \in Effective(l, k) /\ Live(l, u) /\ u \in 1 .. Len(l) /\ u < p
    <3>1. u \in Below(l, k, p)
      BY Zenon, <1>11
    <3> QED
      BY Zenon, <1>2, <1>7, <1>14, <3>1 DEF Below
  <2>2. m[u] = l[u]
    BY Zenon, <1>4, <2>1
  <2>3. Below(m, k, u) = Below(l, k, u)
    <3>1. ~(p < u)
      BY <1>4, <1>8, <2>1
    <3> QED
      BY Zenon, <1>6, <3>1 DEF Below
  <2>4. Shows(l, Below(l, k, u), l[u].old)
    BY Zenon, <2>1 DEF StackOf
  <2>5. Shows(m, Below(m, k, u), m[u].old)
    BY Zenon, <1>4, <1>7, <2>2, <2>3, <2>4, ShowsSame
  <2>6. ASSUME NEW w \in Effective(m, k), w > u PROVE Live(m, w) /\ m[w].txn = m[u].txn
    <3>1. w \in Effective(l, k) /\ w \in 1 .. Len(l) /\ w # p
      BY Zenon, <1>6, <1>7
    <3>2. Live(l, w) /\ l[w].txn = l[u].txn
      BY Zenon, <2>1, <2>6, <3>1 DEF StackOf
    <3> QED
      BY Zenon, <1>2, <1>4, <2>2, <3>1, <3>2
  <2> QED
    BY Zenon, <2>5, <2>6
<1>15. StackOf(m, k)
  BY Zenon, <1>10, <1>13, <1>14 DEF StackOf
<1>16. ASSUME NEW j, j # k, StackOf(l, j)
       PROVE  Unmoved(l, m, j) /\ \A v : Compensated(l, j, v) => Compensated(m, j, v)
  <2>1. p \notin Effective(l, j)
    BY Zenon, <1>16 DEF Effective
  <2>2. Writes(m, j) = Writes(l, j) /\ Effective(m, j) = Effective(l, j)
    <3>1. \A i : i \in Writes(m, j) <=> i \in Writes(l, j)
      BY Zenon, <1>5, <1>6, <1>16, <2>1
    <3>2. \A i : i \in Effective(m, j) <=> i \in Effective(l, j)
      BY Zenon, <1>5, <1>6, <1>16, <2>1
    <3> QED
      BY Zenon, <3>1, <3>2
  <2>3. PICK T : T = {}
    BY Zenon
  <2>4. \A u \in Effective(l, j) : Live(m, u) <=> Live(l, u) /\ l[u].txn \notin T
    BY Zenon, <1>2, <2>1, <2>3
  <2>5. Unmoved(l, m, j)
    BY Zenon, <1>4, <1>16, <2>2, <2>4, StackKept
  <2>6. Extends(l, m) /\ \A u \in Effective(l, j) : Live(l, u) => Live(m, u)
    BY Zenon, <1>2, <1>4, <2>1
  <2> QED
    BY Zenon, <2>2, <2>5, <2>6, CompensatedKept
<1> QED
  BY Zenon, <1>5, <1>13, <1>15, <1>16 DEF z
----------------------------------------------------------------------------
(* The inductive invariant of the data: what the tree and the file hold, in *)
(* terms of the log.                                                        *)

\* While the engine runs, the tree shows every key as the log has it, but for a
\* compensation that is not logged yet.  Recovery makes it so, key by key.
TreeInv ==
  /\ DOMAIN tree = Key /\ DOMAIN disk = Key
  /\ pc \in Running => \A k \in Key :
       Current(log, k, tree[k]) \/ (pc = "abort_clr" /\ k = LastEntry.key)
  /\ pc = "abort_clr" => tree[LastEntry.key] = LastEntry.old
  /\ pc = "start" => \A k \in Key : tree[k] = disk[k]
  /\ pc \in Recovery \ {"start"} => \A k \in Key :
       \/ pc = "redo" /\ Rewritten(log, local.lsn, k)
       \/ Current(log, k, tree[k]) \/ Compensated(log, k, tree[k])
  /\ pc = "redo" => local.lsn \in RedoStart .. Len(log)
  /\ pc = "undo_clr" => tree[log[local.lsn].key] = log[local.lsn].old

\* A key that redo will not write again is right in the file, or compensated with
\* the CLR still to come.
Stored(k, v) ==
  \/ Rewritten(log, RedoStart, k) \/ Current(log, k, v)
  \/ /\ Compensated(log, k, v)
     /\ pc \in Recovery \/ (pc = "abort_clr" /\ k = LastEntry.key)

DiskInv ==
  /\ \A k \in Key : Stored(k, disk[k])
  /\ pc = "flush" => \A k \in Key : k \in UNION local.pages \/ disk[k] = tree[k]
  /\ pc \in {"bracket", "meta"} => \A k \in Key : disk[k] = tree[k]

Stacked == \A k \in Key : StackOf(log, k)

DataInv == Stacked /\ TreeInv /\ DiskInv

----------------------------------------------------------------------------
(* Where redo starts.                                                       *)

BracketWhole ==
  meta # 0 =>
    /\ HasCheckpoint
    /\ BracketEnd(meta) \in meta + 1 .. Len(log) /\ meta \in 1 .. Len(log)
    /\ Types(BracketEnd(meta)) = "CHECKPOINT_END"
    /\ \A i \in meta + 1 .. BracketEnd(meta) - 1 : Types(i) = "ACTIVE_TXN"

LEMMA BracketFoundNext == IInv' => BracketWhole'
<1>1. IInv => BracketWhole
  BY Zenon, BracketFound DEF BracketWhole
<1> QED
  BY <1>1, PTL

LEMMA RedoKept ==
  ASSUME IInv, IInv', Extends(log, log'), meta' = meta
  PROVE  RedoStart' = RedoStart
<1>1. CASE meta = 0
  <2>1. ~HasCheckpoint /\ ~HasCheckpoint'
    BY <1>1 DEF HasCheckpoint
  <2> QED
    BY Zenon, <2>1 DEF RedoStart
<1>2. CASE meta # 0
  <2> DEFINE e == BracketEnd(meta)
             f == BracketEnd(meta)'
  <2>1. /\ HasCheckpoint /\ e \in meta + 1 .. Len(log) /\ meta \in 1 .. Len(log)
        /\ log[e].type = "CHECKPOINT_END"
        /\ \A i \in meta + 1 .. e - 1 : log[i].type = "ACTIVE_TXN"
    BY Zenon, <1>2, BracketFound DEF Types
  <2>2. /\ HasCheckpoint' /\ f \in meta + 1 .. Len(log')
        /\ log'[f].type = "CHECKPOINT_END"
        /\ \A i \in meta + 1 .. f - 1 : log'[i].type = "ACTIVE_TXN"
    BY Zenon, <1>2, BracketFoundNext DEF BracketWhole, Types
  <2>3. CheckpointTxns = {<<log[i].txn, log[i].last>> : i \in meta + 1 .. e - 1}
    BY Zenon, <2>1 DEF CheckpointTxns
  <2>4. CheckpointTxns' = {<<log'[i].txn, log'[i].last>> : i \in meta + 1 .. f - 1}
    BY Zenon, <2>2 DEF CheckpointTxns
  <2> HIDE DEF e, f
  <2>5. Len(log) \in Nat /\ Len(log') \in Nat /\ Len(log) <= Len(log') /\ log'[e] = log[e]
        /\ \A i \in meta + 1 .. e - 1 : log'[i] = log[i]
    BY <2>1 DEF Extends
  <2>6. ~(e < f)
    <3> SUFFICES ASSUME e < f PROVE FALSE
      BY Zenon
    <3>1. e \in meta + 1 .. f - 1
      BY <2>1, <2>2
    <3> QED
      BY Zenon, <2>1, <2>2, <2>5, <3>1
  <2>7. ~(f < e)
    <3> SUFFICES ASSUME f < e PROVE FALSE
      BY Zenon
    <3>1. f \in meta + 1 .. e - 1
      BY <2>1, <2>2
    <3> QED
      BY Zenon, <2>1, <2>2, <2>5, <3>1
  <2>8. e = f
    BY <2>1, <2>2, <2>6, <2>7
  <2>9. CheckpointTxns' = CheckpointTxns
    BY Zenon, <2>3, <2>4, <2>5, <2>8
  <2> QED
    BY Zenon, <2>1, <2>2, <2>9 DEF RedoStart
<1> QED
  BY Zenon, <1>1, <1>2

LEMMA RedoSame ==
  ASSUME log' = log, meta' = meta
  PROVE  RedoStart' = RedoStart
BY DEF RedoStart, HasCheckpoint, CheckpointTxns, BracketEnd, Types

\* A record that is added lies behind the start of redo.
LEMMA RedoBefore ==
  ASSUME IInv, UndoInv, Extends(log, log'), Len(log') = Len(log) + 1
  PROVE  RedoStart \in Nat /\ Len(log') >= RedoStart
<1>1. /\ RedoStart \in Nat \ {0} /\ (log # <<>> => RedoStart <= Len(log))
      /\ meta = 0 => RedoStart = 1
      /\ meta # 0 => RedoStart <= meta
  BY Zenon, RedoFrom DEF UndoInv
<1>2. Len(log) \in Nat /\ (meta # 0 => meta \in 1 .. Len(log))
  BY Zenon, MetaInLog
<1> QED
  BY <1>1, <1>2

----------------------------------------------------------------------------
(* DataInv is kept: calls that leave the tree and the file alone.           *)

LEMMA DataRuns ==
  ASSUME IInv, IInv', DataInv, Extends(log, log'), UNCHANGED <<meta, tree, disk>>,
         pc \in Running \ {"abort_clr"}, pc' \in Running \ {"abort_clr"},
         \A k \in Key : Unmoved(log, log', k),
         pc' = "flush" => \A k \in Key : k \in UNION local'.pages \/ disk[k] = tree[k],
         pc' \in {"bracket", "meta"} => \A k \in Key : disk[k] = tree[k]
  PROVE  DataInv'
<1>1. pc \notin Recovery /\ pc' \notin Recovery /\ pc' # "start" /\ pc' # "redo" /\ pc' # "undo_clr"
  BY Zenon DEF Running, Recovery
<1>2. RedoStart' = RedoStart
  BY Zenon, RedoKept
<1>3. ASSUME NEW k \in Key
      PROVE  /\ StackOf(log', k) /\ Current(log', k, tree[k])
             /\ Rewritten(log', RedoStart, k) \/ Current(log', k, disk[k])
  <2>1. Current(log, k, tree[k])
    BY Zenon DEF DataInv, TreeInv
  <2>2. Rewritten(log, RedoStart, k) \/ Current(log, k, disk[k])
    BY Zenon, <1>1 DEF DataInv, DiskInv, Stored
  <2> QED
    BY Zenon, <2>1, <2>2 DEF Unmoved, Rewritten
<1>4. Stacked'
  BY Zenon, <1>3 DEF Stacked
<1>5. TreeInv'
  BY Zenon, <1>1, <1>3 DEF DataInv, TreeInv
<1>6. DiskInv'
  BY Zenon, <1>2, <1>3 DEF DiskInv, Stored
<1> QED
  BY Zenon, <1>4, <1>5, <1>6 DEF DataInv

LEMMA UnmovedSame ==
  ASSUME DataInv, log' = log, NEW k \in Key
  PROVE  Unmoved(log, log', k)
BY Zenon DEF DataInv, Stacked, Unmoved

\* A record other than UPDATE, CLR and COMMIT.
LEMMA UnmovedPlain ==
  ASSUME IInv, DataInv, NEW r, Log(r), r.type \in {"ABORT", "CHECKPOINT_BEGIN", "CHECKPOINT_END", "ACTIVE_TXN"},
         NEW k \in Key
  PROVE  Unmoved(log, log', k)
<1>1. Adds(log, log', r)
  BY Zenon, LogAdds
<1>2. r.type \notin {"UPDATE", "CLR", "COMMIT"} /\ r.type \notin {"BEGIN", "COMMIT", "CLR"} /\ r.type # "UPDATE"
  BY Zenon
<1>3. \A u : Live(log', u) <=> Live(log, u)
  BY Zenon, <1>1, <1>2, LiveAdds
<1>4. StackOf(log, k)
  BY Zenon DEF DataInv, Stacked
<1> QED
  BY Zenon, <1>1, <1>2, <1>3, <1>4, PlainData

LEMMA BeginData ==
  ASSUME IInv, IInv', UndoInv, DataInv, Begin
  PROVE  DataInv'
<1> DEFINE r == Begun(next_id)
<1>1. pc = "idle" /\ pc' = "idle" /\ Log(r) /\ UNCHANGED <<meta, tree, disk>>
  BY Zenon DEF Begin, MayLog, files
<1>2. r.type = "BEGIN" /\ r.txn = next_id /\ r.type \notin {"UPDATE", "CLR", "COMMIT"}
  BY Zenon DEF Begun
<1> HIDE DEF r
<1>3. Adds(log, log', r) /\ Extends(log, log')
  BY Zenon, <1>1, LogAdds
<1>4. ASSUME NEW u PROVE Live(log', u) <=> Live(log, u)
  <2>1. ASSUME Live(log, u) PROVE Live(log', u)
    <3>1. log[u].txn \in Open
      BY Zenon, <1>1, <2>1 DEF UndoInv, LiveInv, Running, Done, Aborting
    <3>2. log[u].txn # next_id
      BY <3>1 DEF UndoInv, OpenInv
    <3>3. Foreign(log, log', log[u].txn)
      BY Zenon, <1>2, <1>3, <3>2, ForeignAdds
    <3> QED
      BY Zenon, <2>1, <3>3, LiveForeign DEF Live
  <2>2. ASSUME Live(log', u) PROVE Live(log, u)
    BY Zenon, <1>2, <1>3, <2>2, LiveEnds
  <2> QED
    BY Zenon, <2>1, <2>2
<1>5. \A k \in Key : Unmoved(log, log', k)
  <2> TAKE k \in Key
  <2>1. StackOf(log, k)
    BY Zenon DEF DataInv, Stacked
  <2> QED
    BY Zenon, <1>2, <1>3, <1>4, <2>1, PlainData
<1> QED
  BY Zenon, <1>1, <1>3, <1>5, DataRuns DEF Running

LEMMA CommitTxnData ==
  ASSUME IInv, IInv', UndoInv, DataInv, NEW t \in Open, Commit(t)
  PROVE  DataInv'
<1> DEFINE r == Ended("COMMIT", t, active[t].last_lsn)
<1>1. pc = "idle" /\ pc' = "commit" /\ Log(r) /\ UNCHANGED <<meta, tree, disk>>
  BY Zenon DEF Commit, MayLog, files
<1>2. r.type = "COMMIT" /\ r.txn = t
  BY Zenon DEF Ended
<1> HIDE DEF r
<1>3. Adds(log, log', r) /\ Extends(log, log')
  BY Zenon, <1>1, LogAdds
<1>4. Whole(log, t)
  BY Zenon, <1>1 DEF UndoInv, OpenInv, TxnOK, Done
<1>5. \A k \in Key : Unmoved(log, log', k)
  <2> TAKE k \in Key
  <2>1. StackOf(log, k)
    BY Zenon DEF DataInv, Stacked
  <2> QED
    BY Zenon, <1>2, <1>3, <1>4, <2>1, CommitData
<1> QED
  BY Zenon, <1>1, <1>3, <1>5, DataRuns DEF Running

\* The end of Commit and of Abort.
LEMMA EndTxnData ==
  ASSUME IInv, IInv', DataInv, CommitFlush \/ AbortFlush
  PROVE  DataInv'
<1>1. pc \in {"commit", "abort"} /\ UNCHANGED <<log, meta, tree, disk>> /\ EndTxn
  BY Zenon DEF CommitFlush, AbortFlush, files
<1>2. pc' \in {"flush", "idle"} /\ (pc' = "flush" => local'.pages = Pages)
  BY Zenon, <1>1 DEF EndTxn, NoLocal
<1>3. pc' = "flush" => \A k \in Key : k \in UNION local'.pages \/ disk[k] = tree[k]
  BY Zenon, <1>2, ConstantsAssumption
<1>4. Extends(log, log') /\ \A k \in Key : Unmoved(log, log', k)
  BY Zenon, <1>1, LogSame, UnmovedSame
<1> QED
  BY Zenon, <1>1, <1>2, <1>3, <1>4, DataRuns DEF Running

LEMMA AbortData ==
  ASSUME IInv, IInv', DataInv, NEW t, Abort(t)
  PROVE  DataInv'
<1> DEFINE r == Ended("ABORT", t, active[t].last_lsn)
<1>1. pc = "idle" /\ pc' = "abort" /\ Log(r) /\ UNCHANGED <<meta, tree, disk>>
  BY Zenon DEF Abort, MayLog, files
<1>2. r.type = "ABORT"
  BY Zenon DEF Ended
<1> HIDE DEF r
<1>3. Extends(log, log') /\ \A k \in Key : Unmoved(log, log', k)
  BY Zenon, <1>1, <1>2, LogAdds, UnmovedPlain
<1> QED
  BY Zenon, <1>1, <1>3, DataRuns DEF Running

\* The bracket of a checkpoint begins when every page is written.
LEMMA BracketData ==
  ASSUME IInv, IInv', DataInv, NEW t, CheckpointBegin \/ CheckpointActive(t) \/ CheckpointEnd
  PROVE  DataInv'
<1>1. PICK r : /\ Log(r)
               /\ r.type \in {"ABORT", "CHECKPOINT_BEGIN", "CHECKPOINT_END", "ACTIVE_TXN"}
  BY DEF CheckpointBegin, CheckpointActive, CheckpointEnd, Bracket, ActiveTxn
<1>2. /\ pc \in {"flush", "bracket"} /\ pc' \in {"bracket", "meta"} /\ UNCHANGED <<meta, tree, disk>>
      /\ pc = "flush" => local.pages = {}
  BY Zenon DEF CheckpointBegin, CheckpointActive, CheckpointEnd, files
<1>3. \A k \in Key : disk[k] = tree[k]
  BY Zenon, <1>2 DEF DataInv, DiskInv
<1>4. Extends(log, log') /\ \A k \in Key : Unmoved(log, log', k)
  BY Zenon, <1>1, LogAdds, UnmovedPlain
<1> QED
  BY Zenon, <1>2, <1>3, <1>4, DataRuns DEF Running

LEMMA CheckpointMetaData ==
  ASSUME DataInv, CheckpointMeta
  PROVE  DataInv'
<1>1. pc = "meta" /\ pc' = "idle" /\ UNCHANGED <<log, tree, disk>>
  BY Zenon DEF CheckpointMeta
<1>2. ASSUME NEW k \in Key PROVE Current(log, k, tree[k]) /\ disk[k] = tree[k]
  BY Zenon, <1>1 DEF DataInv, TreeInv, DiskInv, Running
<1>3. Stacked' /\ TreeInv'
  BY Zenon, <1>1, <1>2 DEF DataInv, Stacked, TreeInv, Recovery
<1>4. DiskInv'
  BY Zenon, <1>1, <1>2 DEF DiskInv, Stored
<1> QED
  BY Zenon, <1>3, <1>4 DEF DataInv

----------------------------------------------------------------------------
(* DataInv is kept: pages and crashes.                                      *)

\* The update that Abort is compensating.
LEMMA LastEntryLive ==
  ASSUME UndoInv, pc \in {"abort", "abort_clr"}, local.entries # <<>>
  PROVE  \E last :
           /\ Live(log, last) /\ log[last].txn = local.txn
           /\ \A w : Live(log, w) /\ log[w].txn = log[last].txn => w <= last
           /\ LastEntry.key = log[last].key /\ LastEntry.old = log[last].old
           /\ LastEntry.undo_next = log[last].prev /\ log[last].key \in Key
<1>1. PICK last : /\ Chain(log, local.txn, last, local.entries)
                  /\ Undoes(log, local.txn, last, local.entries)
  BY Zenon DEF UndoInv, AbortInv
<1>2. /\ Live(log, last) /\ log[last].txn = local.txn
      /\ local.entries[Len(local.entries)] = Entry(log, last)
      /\ \A w : Live(log, w) /\ log[w].txn = local.txn => w <= last
  BY <1>1, LastIsGreatest
<1>3. /\ LastEntry.key = log[last].key /\ LastEntry.old = log[last].old
      /\ LastEntry.undo_next = log[last].prev
  BY <1>2 DEF LastEntry, Entry
<1>4. log[last].key \in Key
  BY Zenon, <1>2 DEF UndoInv, LogOK, Links, Linked, Live
<1> QED
  BY Zenon, <1>2, <1>3, <1>4

\* What the tree holds may go to the file.
LEMMA TreeStored ==
  ASSUME IInv, UndoInv, DataInv, pc # "start", NEW k \in Key
  PROVE  Stored(k, tree[k])
<1>1. Len(log) \in Nat /\ StackOf(log, k)
  BY DEF IInv, SyncInv, DataInv, Stacked
<1>2. CASE pc \in Running
  <2>1. Current(log, k, tree[k]) \/ (pc = "abort_clr" /\ k = LastEntry.key)
    BY Zenon, <1>2 DEF DataInv, TreeInv
  <2>2. CASE pc = "abort_clr" /\ k = LastEntry.key
    <3>1. local.entries # <<>> /\ tree[k] = LastEntry.old
      BY Zenon, <2>2 DEF UndoInv, AbortInv, DataInv, TreeInv
    <3>2. PICK last : /\ Live(log, last) /\ k = log[last].key /\ tree[k] = log[last].old
                      /\ \A w : Live(log, w) /\ log[w].txn = log[last].txn => w <= last
      BY Zenon, <2>2, <3>1, LastEntryLive
    <3>3. Top(Effective(log, k), last)
      BY Zenon, <1>1, <3>2, LiveOnTop
    <3> QED
      BY Zenon, <2>2, <3>2, <3>3 DEF Stored, Compensated
  <2> QED
    BY Zenon, <2>1, <2>2 DEF Stored
<1>3. CASE pc \in Recovery
  <2>1. CASE pc = "redo" /\ Rewritten(log, local.lsn, k)
    <3>1. PICK i \in Writes(log, k) : i >= local.lsn
      BY Zenon, <2>1 DEF Rewritten
    <3>2. i \in Nat /\ local.lsn \in RedoStart .. Len(log) /\ RedoStart \in Nat
      BY Zenon, <1>1, <2>1, Indices, RedoFrom DEF DataInv, TreeInv, UndoInv
    <3>3. i >= RedoStart
      BY <3>1, <3>2
    <3> QED
      BY Zenon, <3>3 DEF Stored, Rewritten
  <2> QED
    BY Zenon, <1>3, <2>1 DEF DataInv, TreeInv, Stored
<1> QED
  BY Zenon, <1>2, <1>3 DEF UndoInv, OpenInv

LEMMA PageData ==
  ASSUME IInv, UndoInv, DataInv, NEW p, CheckpointPage(p) \/ Evict(p)
  PROVE  DataInv'
<1>1. /\ UNCHANGED <<log, meta, tree, pc>> /\ disk' = Written(p) /\ pc # "start"
      /\ local' = local \/ (pc = "flush" /\ local' = [local EXCEPT !.pages = @ \ {p}])
      /\ pc = "flush" => p \in local.pages \/ local' = local
  BY Zenon DEF CheckpointPage, Evict, WritePage
<1>2. /\ DOMAIN disk' = Key
      /\ \A k \in Key : disk'[k] = IF k \in p THEN tree[k] ELSE disk[k]
  BY Zenon, <1>1 DEF Written
<1>3. /\ local'.txn = local.txn /\ local'.lsn = local.lsn /\ local'.entries = local.entries
      /\ local'.pages = local.pages \/ (pc = "flush" /\ local'.pages = local.pages \ {p})
  BY Zenon, <1>1 DEF UndoInv, OpenInv, LocalShape
<1>4. RedoStart' = RedoStart /\ LastEntry' = LastEntry
  BY Zenon, <1>1, <1>3, RedoSame DEF LastEntry
<1>5. Stacked' /\ TreeInv'
  BY Zenon, <1>1, <1>2, <1>3, <1>4 DEF DataInv, Stacked, TreeInv
<1>6. ASSUME NEW k \in Key PROVE Stored(k, disk[k])'
  <2>1. Stored(k, tree[k]) /\ Stored(k, disk[k])
    BY Zenon, <1>1, TreeStored DEF DataInv, DiskInv
  <2>2. CASE k \in p
    BY Zenon, <1>1, <1>2, <1>4, <2>1, <2>2 DEF Stored
  <2>3. CASE k \notin p
    BY Zenon, <1>1, <1>2, <1>4, <2>1, <2>3 DEF Stored
  <2> QED
    BY Zenon, <2>2, <2>3
<1>7. pc' = "flush" => \A k \in Key : k \in UNION local'.pages \/ disk'[k] = tree'[k]
  BY Zenon, <1>1, <1>2, <1>3 DEF DataInv, DiskInv
<1>8. pc' \in {"bracket", "meta"} => \A k \in Key : disk'[k] = tree'[k]
  BY Zenon, <1>1, <1>2 DEF DataInv, DiskInv
<1> QED
  BY Zenon, <1>5, <1>6, <1>7, <1>8 DEF DataInv, DiskInv

LEMMA CrashData ==
  ASSUME DataInv, Crash
  PROVE  DataInv'
<1>1. pc' = "start" /\ tree' = disk /\ UNCHANGED <<log, meta, disk>>
  BY Zenon DEF Crash, Restarted, files
<1>2. RedoStart' = RedoStart
  BY Zenon, <1>1, RedoSame
<1>3. Stacked' /\ TreeInv'
  BY Zenon, <1>1 DEF DataInv, Stacked, TreeInv, Running, Recovery
<1>4. DiskInv'
  BY Zenon, <1>1, <1>2 DEF DataInv, DiskInv, Stored, Recovery
<1> QED
  BY Zenon, <1>3, <1>4 DEF DataInv
----------------------------------------------------------------------------
(* DataInv is kept: the passes of recovery.                                 *)

LEMMA RecoveryData ==
  ASSUME DataInv, pc \in Recovery, pc' \in Recovery, UNCHANGED <<log, meta, disk>>, TreeInv'
  PROVE  DataInv'
<1>1. RedoStart' = RedoStart
  BY Zenon, RedoSame
<1>2. pc' # "flush" /\ pc' \notin {"bracket", "meta"} /\ pc # "abort_clr"
  BY Zenon DEF Recovery
<1>3. DiskInv'
  BY Zenon, <1>1, <1>2 DEF DataInv, DiskInv, Stored
<1> QED
  BY Zenon, <1>3 DEF DataInv, Stacked

\* Recovery is over: every key is as the log has it.
LEMMA RecoveredData ==
  ASSUME DataInv, pc \in Recovery, pc' = "idle", UNCHANGED <<log, meta, disk, tree>>,
         \A u : ~Live(log, u), \A k \in Key : Current(log, k, tree[k])
  PROVE  DataInv'
<1>1. RedoStart' = RedoStart
  BY Zenon, RedoSame
<1>2. TreeInv'
  BY Zenon DEF DataInv, TreeInv, Recovery, Running
<1>3. \A k \in Key : Rewritten(log, RedoStart, k) \/ Current(log, k, disk[k])
  BY Zenon DEF DataInv, DiskInv, Stored, Compensated
<1>4. DiskInv'
  BY Zenon, <1>1, <1>3 DEF DiskInv, Stored
<1> QED
  BY Zenon, <1>2, <1>4 DEF DataInv, Stacked

LEMMA RecoverOnStartupData ==
  ASSUME IInv, UndoInv, DataInv, RecoverOnStartup
  PROVE  DataInv'
<1>1. pc = "start" /\ pc \in Recovery /\ UNCHANGED <<log, meta, disk, tree>>
  BY Zenon DEF RecoverOnStartup, files, Recovery
<1>2. ASSUME NEW k \in Key
      PROVE  \/ Rewritten(log, RedoStart, k)
             \/ Current(log, k, tree[k]) \/ Compensated(log, k, tree[k])
  <2>1. tree[k] = disk[k]
    BY Zenon, <1>1 DEF DataInv, TreeInv
  <2> QED
    BY Zenon, <2>1 DEF DataInv, DiskInv, Stored
<1>3. CASE log = <<>>
  <2>1. Len(log) = 0 /\ 1 .. Len(log) = {}
    BY <1>3
  <2>2. \A u : ~Live(log, u)
    BY Zenon, <2>1 DEF Live
  <2>3. \A k : ~Rewritten(log, RedoStart, k)
    BY Zenon, <2>1 DEF Rewritten, Writes
  <2>4. \A k \in Key : Current(log, k, tree[k])
    BY Zenon, <1>2, <2>2, <2>3 DEF Compensated
  <2>5. pc' = "idle"
    BY Zenon, <1>3 DEF RecoverOnStartup
  <2> QED
    BY Zenon, <1>1, <2>2, <2>4, <2>5, RecoveredData
<1>4. CASE log # <<>>
  <2>1. pc' = "redo" /\ local'.lsn = RedoStart
    BY Zenon, <1>4 DEF RecoverOnStartup, NoLocal
  <2>2. RedoStart' = RedoStart
    BY Zenon, <1>1, RedoSame
  <2>3. RedoStart \in RedoStart .. Len(log)
    BY <1>4, RedoFrom DEF UndoInv, IInv, SyncInv
  <2>4. TreeInv'
    BY Zenon, <1>1, <1>2, <2>1, <2>2, <2>3 DEF DataInv, TreeInv, Running, Recovery
  <2> QED
    BY Zenon, <1>1, <2>1, <2>4, RecoveryData DEF Recovery
<1> QED
  BY Zenon, <1>3, <1>4

LEMMA RedoData ==
  ASSUME IInv, UndoInv, DataInv, Redo
  PROVE  DataInv'
<1>1. PICK n : n = local.lsn
  BY Zenon
<1>2. /\ pc = "redo" /\ UNCHANGED <<log, meta, disk>>
      /\ tree' = IF log[n].type \in {"UPDATE", "CLR"}
                 THEN [tree EXCEPT ![log[n].key] = log[n].new] ELSE tree
  BY Zenon, <1>1 DEF Redo, files
<1>3. /\ Len(log) \in Nat /\ RedoStart \in Nat \ {0} /\ n \in RedoStart .. Len(log)
      /\ n \in 1 .. Len(log)
  <2>1. n \in RedoStart .. Len(log) /\ Len(log) \in Nat
    BY <1>1, <1>2 DEF DataInv, TreeInv, IInv, SyncInv
  <2>2. RedoStart \in Nat \ {0}
    BY Zenon, RedoFrom DEF UndoInv
  <2> QED
    BY <2>1, <2>2
<1>4. log[n].type \in {"UPDATE", "CLR"} => log[n].key \in Key
  BY Zenon, <1>3 DEF UndoInv, LogOK, Links, Linked
<1>5. DOMAIN tree = Key /\ DOMAIN disk = Key
  BY Zenon DEF DataInv, TreeInv
<1>6. ASSUME NEW k \in Key
      PROVE  \/ Rewritten(log, n + 1, k)
             \/ Current(log, k, tree'[k]) \/ Compensated(log, k, tree'[k])
  <2>1. Writes(log, k) \in SUBSET Nat /\ StackOf(log, k)
    BY Zenon, <1>3, Indices DEF DataInv, Stacked
  <2>2. CASE n \in Writes(log, k)
    <3>1. log[n].type \in {"UPDATE", "CLR"} /\ log[n].key = k
      BY Zenon, <2>2 DEF Writes
    <3>2. tree'[k] = log[n].new
      BY Zenon, <1>2, <1>5, <3>1
    <3>3. CASE \E i \in Writes(log, k) : i > n
      BY <1>3, <2>1, <3>3 DEF Rewritten
    <3>4. CASE \A i \in Writes(log, k) : ~(i > n)
      <4>1. \A i \in Writes(log, k) : i <= n
        BY <1>3, <2>1, <3>4
      <4>2. Top(Writes(log, k), n)
        BY Zenon, <2>2, <4>1 DEF Top
      <4>3. Shows(log, Writes(log, k), tree'[k])
        BY Zenon, <3>2, <4>2 DEF Shows
      <4> QED
        BY Zenon, <2>1, <4>3 DEF StackOf
    <3> QED
      BY Zenon, <3>3, <3>4
  <2>3. CASE n \notin Writes(log, k)
    <3>1. tree'[k] = tree[k]
      BY Zenon, <1>2, <1>3, <1>4, <1>5, <2>3 DEF Writes
    <3>2. CASE Rewritten(log, n, k)
      <4>1. PICK i \in Writes(log, k) : i >= n
        BY Zenon, <3>2 DEF Rewritten
      <4>2. i >= n + 1
        BY <1>3, <2>1, <2>3, <4>1
      <4> QED
        BY Zenon, <4>2 DEF Rewritten
    <3> QED
      BY Zenon, <1>1, <1>2, <3>1, <3>2 DEF DataInv, TreeInv, Recovery
  <2> QED
    BY Zenon, <2>2, <2>3
<1>7. RedoStart' = RedoStart /\ DOMAIN tree' = Key
  BY Zenon, <1>2, <1>5, RedoSame
<1>8. CASE n = Len(log)
  <2>1. pc' = "losers"
    BY Zenon, <1>1, <1>8 DEF Redo
  <2>2. \A k : ~Rewritten(log, n + 1, k)
    BY <1>3, <1>8 DEF Rewritten, Writes
  <2>3. TreeInv'
    BY Zenon, <1>2, <1>5, <1>6, <1>7, <2>1, <2>2 DEF TreeInv, Running, Recovery
  <2> QED
    BY Zenon, <1>2, <2>1, <2>3, RecoveryData DEF Recovery
<1>9. CASE n # Len(log)
  <2>1. pc' = "redo" /\ local' = [local EXCEPT !.lsn = n + 1]
    BY Zenon, <1>1, <1>9 DEF Redo
  <2>2. local'.lsn = n + 1
    BY Zenon, <2>1 DEF UndoInv, OpenInv, LocalShape
  <2>3. n + 1 \in RedoStart .. Len(log)
    BY <1>3, <1>9
  <2>4. TreeInv'
    BY Zenon, <1>2, <1>5, <1>6, <1>7, <2>1, <2>2, <2>3 DEF TreeInv, Running, Recovery
  <2> QED
    BY Zenon, <1>2, <2>1, <2>4, RecoveryData DEF Recovery
<1> QED
  BY Zenon, <1>8, <1>9

LEMMA NextLoserData ==
  ASSUME UndoInv, DataInv, NextLoser
  PROVE  DataInv'
<1>1. /\ pc = "losers" /\ pc \in Recovery /\ UNCHANGED <<log, meta, disk, tree>>
      /\ (pc' = "idle" /\ local.txns = {}) \/ pc' = "undo"
  BY Zenon DEF NextLoser, files, Recovery
<1>2. \A k \in Key : Current(log, k, tree[k]) \/ Compensated(log, k, tree[k])
  BY Zenon, <1>1 DEF DataInv, TreeInv, Recovery
<1>3. CASE pc' = "idle" /\ local.txns = {}
  <2>1. \A u : ~Live(log, u)
    BY Zenon, <1>1, <1>3 DEF UndoInv, LoserInv, Recovery
  <2>2. \A k \in Key : Current(log, k, tree[k])
    BY Zenon, <1>2, <2>1 DEF Compensated
  <2> QED
    BY Zenon, <1>1, <1>3, <2>1, <2>2, RecoveredData
<1>4. CASE pc' = "undo"
  <2>1. TreeInv'
    BY Zenon, <1>1, <1>2, <1>4 DEF DataInv, TreeInv, Running, Recovery
  <2> QED
    BY Zenon, <1>1, <1>4, <2>1, RecoveryData DEF Recovery
<1> QED
  BY Zenon, <1>1, <1>3, <1>4

LEMMA UndoData ==
  ASSUME IInv, UndoInv, DataInv, Undo
  PROVE  DataInv'
<1>1. PICK n : n = local.lsn
  BY Zenon
<1>2. PICK t : t = local.txn
  BY Zenon
<1>3. pc = "undo" /\ pc \in Recovery /\ UNCHANGED <<log, meta, disk>>
  BY Zenon DEF Undo, files, Recovery
<1>4. /\ n \in 1 .. Len(log) /\ Is(log, n, Steps, t)
      /\ log[n].type = "UPDATE" =>
           Live(log, n) /\ log[n].txn = t /\ \A u : Live(log, u) /\ log[u].txn = t => u <= n
  BY Zenon, <1>1, <1>2, <1>3, LoserCursor
<1>5. \A k \in Key : Current(log, k, tree[k]) \/ Compensated(log, k, tree[k])
  BY Zenon, <1>3 DEF DataInv, TreeInv, Recovery
<1>6. DOMAIN tree = Key /\ DOMAIN disk = Key
  BY Zenon DEF DataInv, TreeInv
<1>7. n # 0
  BY <1>4
<1>8. CASE log[n].type # "UPDATE"
  <2>1. pc' \in {"losers", "undo"} /\ tree' = tree
    BY Zenon, <1>1, <1>8 DEF Undo, Types
  <2>2. TreeInv'
    BY Zenon, <1>3, <1>5, <1>6, <2>1 DEF TreeInv, Running, Recovery
  <2> QED
    BY Zenon, <1>3, <2>1, <2>2, RecoveryData DEF Recovery
<1>9. CASE log[n].type = "UPDATE"
  <2>1. PICK k, v : k = log[n].key /\ v = log[n].old
    BY Zenon
  <2>2. pc' = "undo_clr" /\ local' = local /\ tree' = [tree EXCEPT ![k] = v]
    BY Zenon, <1>1, <1>7, <1>9, <2>1 DEF Undo, Types
  <2>3. k \in Key
    BY Zenon, <1>4, <1>9, <2>1 DEF UndoInv, LogOK, Links, Linked
  <2>4. Len(log) \in Nat /\ StackOf(log, k)
    BY <2>3 DEF DataInv, Stacked, IInv, SyncInv
  <2>5. Top(Effective(log, k), n)
    BY Zenon, <1>4, <1>9, <2>1, <2>4, LiveOnTop
  <2>6. Compensated(log, k, v)
    BY Zenon, <1>4, <1>9, <2>1, <2>5 DEF Compensated
  <2>7. DOMAIN tree' = Key /\ tree'[k] = v /\ \A j \in Key : j # k => tree'[j] = tree[j]
    BY Zenon, <1>6, <2>2, <2>3
  <2>8. \A j \in Key : Current(log, j, tree'[j]) \/ Compensated(log, j, tree'[j])
    BY Zenon, <1>5, <2>6, <2>7
  <2>9. TreeInv'
    BY Zenon, <1>1, <1>3, <1>6, <2>1, <2>2, <2>7, <2>8 DEF TreeInv, Running, Recovery
  <2> QED
    BY Zenon, <1>3, <2>2, <2>9, RecoveryData DEF Recovery
<1> QED
  BY Zenon, <1>8, <1>9
----------------------------------------------------------------------------
(* DataInv is kept: compensation and updates.                               *)

\* The CLR of the last live update p of a transaction.
LEMMA ClrStep ==
  ASSUME IInv, IInv', UndoInv, DataInv, meta' = meta, NEW p, Live(log, p),
         \A w : Live(log, w) /\ log[w].txn = log[p].txn => w <= p,
         NEW k, k = log[p].key, NEW old, old = log[p].old,
         Adds(log, log', Clr(log[p].txn, k, old, log[p].prev))
  PROVE  /\ k \in Key /\ RedoStart' = RedoStart
         /\ StackOf(log', k) /\ Current(log', k, old) /\ Rewritten(log', RedoStart, k)
         /\ \A j \in Key : j # k =>
              Unmoved(log, log', j) /\ \A v : Compensated(log, j, v) => Compensated(log', j, v)
<1>1. k \in Key
  BY Zenon DEF UndoInv, LogOK, Links, Linked, Live
<1>2. Extends(log, log') /\ Len(log') = Len(log) + 1
  BY Zenon DEF Adds
<1>3. RedoStart' = RedoStart /\ RedoStart \in Nat /\ Len(log') >= RedoStart
  BY Zenon, <1>2, RedoKept, RedoBefore
<1>4. PICK l, m : l = log /\ m = log'
  BY Zenon
<1>5. /\ Links(l) /\ Adds(l, m, Clr(l[p].txn, k, old, l[p].prev)) /\ Live(l, p)
      /\ \A w : Live(l, w) /\ l[w].txn = l[p].txn => w <= p
      /\ k = l[p].key /\ old = l[p].old /\ \A j \in Key : StackOf(l, j)
  BY Zenon, <1>4 DEF UndoInv, LogOK, DataInv, Stacked
<1>6. \A u : Live(m, u) <=> Live(l, u) /\ u # p
  BY Zenon, <1>5, LiveAfterClr
<1>7. /\ StackOf(m, k) /\ Current(m, k, old) /\ Len(m) \in Writes(m, k)
      /\ \A j : j # k /\ StackOf(l, j) =>
           Unmoved(l, m, j) /\ \A v : Compensated(l, j, v) => Compensated(m, j, v)
  BY Zenon, <1>1, <1>5, <1>6, ClrData
<1>8. Rewritten(m, RedoStart, k)
  BY Zenon, <1>3, <1>4, <1>7 DEF Rewritten
<1> QED
  BY Zenon, <1>1, <1>3, <1>4, <1>5, <1>7, <1>8

LEMMA UndoLogData ==
  ASSUME IInv, IInv', UndoInv, DataInv, UndoLog
  PROVE  DataInv'
<1>1. PICK t : t = local.txn
  BY Zenon
<1>2. PICK n : n = local.lsn
  BY Zenon
<1>3. PICK k, v : k = log[n].key /\ v = log[n].old
  BY Zenon
<1>4. pc = "undo_clr" /\ pc' = "undo" /\ UNCHANGED <<meta, tree, disk>>
  BY Zenon DEF UndoLog, files
<1>5. /\ Live(log, n) /\ log[n].txn = t
      /\ \A u : Live(log, u) /\ log[u].txn = t => u <= n
      /\ Adds(log, log', Clr(t, log[n].key, log[n].old, log[n].prev))
  BY Zenon, <1>1, <1>2, UndoLogged
<1>6. /\ \A u : Live(log, u) /\ log[u].txn = log[n].txn => u <= n
      /\ Adds(log, log', Clr(log[n].txn, k, v, log[n].prev))
  BY Zenon, <1>3, <1>5
<1>7. /\ k \in Key /\ RedoStart' = RedoStart
      /\ StackOf(log', k) /\ Current(log', k, v) /\ Rewritten(log', RedoStart, k)
      /\ \A j \in Key : j # k =>
           Unmoved(log, log', j) /\ \A x : Compensated(log, j, x) => Compensated(log', j, x)
  BY Zenon, <1>3, <1>4, <1>5, <1>6, ClrStep
<1>8. tree[k] = v /\ DOMAIN tree = Key /\ DOMAIN disk = Key
  BY Zenon, <1>2, <1>3, <1>4 DEF DataInv, TreeInv
<1>9. ASSUME NEW j \in Key
      PROVE  /\ StackOf(log', j)
             /\ Current(log', j, tree[j]) \/ Compensated(log', j, tree[j])
             /\ \/ Rewritten(log', RedoStart, j)
                \/ Current(log', j, disk[j]) \/ Compensated(log', j, disk[j])
  <2>1. CASE j = k
    BY Zenon, <1>7, <1>8, <2>1
  <2>2. CASE j # k
    <3>1. Current(log, j, tree[j]) \/ Compensated(log, j, tree[j])
      BY Zenon, <1>4 DEF DataInv, TreeInv, Recovery
    <3>2. \/ Rewritten(log, RedoStart, j)
          \/ Current(log, j, disk[j]) \/ Compensated(log, j, disk[j])
      BY Zenon DEF DataInv, DiskInv, Stored
    <3> QED
      BY Zenon, <1>7, <2>2, <3>1, <3>2 DEF Unmoved, Rewritten
  <2> QED
    BY Zenon, <2>1, <2>2
<1>10. Stacked'
  BY Zenon, <1>9 DEF Stacked
<1>11. TreeInv'
  BY Zenon, <1>4, <1>8, <1>9 DEF TreeInv, Running, Recovery
<1>12. DiskInv'
  BY Zenon, <1>4, <1>7, <1>9 DEF DiskInv, Stored, Recovery
<1> QED
  BY Zenon, <1>10, <1>11, <1>12 DEF DataInv

LEMMA AbortApplyData ==
  ASSUME IInv, UndoInv, DataInv, AbortApply
  PROVE  DataInv'
<1>1. PICK k, v : k = LastEntry.key /\ v = LastEntry.old
  BY Zenon
<1>2. /\ pc = "abort" /\ pc' = "abort_clr" /\ local.entries # <<>> /\ local' = local
      /\ UNCHANGED <<log, meta, disk>> /\ tree' = [tree EXCEPT ![k] = v]
  BY Zenon, <1>1 DEF AbortApply, files
<1>3. k \in Key
  BY Zenon, <1>1, <1>2, LastEntryLive
<1>4. LastEntry' = LastEntry /\ RedoStart' = RedoStart
  BY Zenon, <1>2, RedoSame DEF LastEntry
<1>5. DOMAIN tree = Key /\ DOMAIN disk = Key
  BY Zenon DEF DataInv, TreeInv
<1>6. DOMAIN tree' = Key /\ tree'[k] = v /\ \A j \in Key : j # k => tree'[j] = tree[j]
  BY Zenon, <1>2, <1>3, <1>5
<1>7. \A j \in Key : Current(log, j, tree[j])
  BY Zenon, <1>2 DEF DataInv, TreeInv, Running
<1>8. TreeInv'
  BY Zenon, <1>1, <1>2, <1>4, <1>5, <1>6, <1>7 DEF TreeInv, Running, Recovery
<1>9. \A j \in Key : Rewritten(log, RedoStart, j) \/ Current(log, j, disk[j])
  BY Zenon, <1>2 DEF DataInv, DiskInv, Stored, Recovery
<1>10. DiskInv'
  BY Zenon, <1>2, <1>4, <1>9 DEF DiskInv, Stored
<1> QED
  BY Zenon, <1>2, <1>8, <1>10 DEF DataInv, Stacked

LEMMA AbortLogData ==
  ASSUME IInv, IInv', UndoInv, DataInv, AbortLog
  PROVE  DataInv'
<1>1. PICK k, v : k = LastEntry.key /\ v = LastEntry.old
  BY Zenon
<1>2. /\ pc = "abort_clr" /\ pc' = "abort" /\ UNCHANGED <<meta, tree, disk>>
      /\ Log(Clr(local.txn, k, v, LastEntry.undo_next))
  BY Zenon, <1>1 DEF AbortLog, files
<1>3. local.entries # <<>>
  BY Zenon, <1>2 DEF UndoInv, AbortInv
<1>4. PICK p : /\ Live(log, p) /\ log[p].txn = local.txn
               /\ \A w : Live(log, w) /\ log[w].txn = log[p].txn => w <= p
               /\ k = log[p].key /\ v = log[p].old /\ LastEntry.undo_next = log[p].prev
  BY Zenon, <1>1, <1>2, <1>3, LastEntryLive
<1>5. Adds(log, log', Clr(log[p].txn, k, v, log[p].prev))
  <2>1. PICK r : r = Clr(local.txn, k, v, LastEntry.undo_next)
    BY Zenon
  <2>2. Adds(log, log', r)
    BY Zenon, <1>2, <2>1, LogAdds
  <2> QED
    BY Zenon, <1>4, <2>1, <2>2
<1>6. /\ k \in Key /\ RedoStart' = RedoStart
      /\ StackOf(log', k) /\ Current(log', k, v) /\ Rewritten(log', RedoStart, k)
      /\ \A j \in Key : j # k => Unmoved(log, log', j)
  BY Zenon, <1>2, <1>4, <1>5, ClrStep
<1>7. tree[k] = v /\ DOMAIN tree = Key /\ DOMAIN disk = Key
  BY Zenon, <1>1, <1>2 DEF DataInv, TreeInv
<1>8. ASSUME NEW j \in Key
      PROVE  /\ StackOf(log', j) /\ Current(log', j, tree[j])
             /\ Rewritten(log', RedoStart, j) \/ Current(log', j, disk[j])
  <2>1. CASE j = k
    BY Zenon, <1>6, <1>7, <2>1
  <2>2. CASE j # k
    <3>1. Current(log, j, tree[j])
      BY Zenon, <1>1, <1>2, <2>2 DEF DataInv, TreeInv, Running
    <3>2. Rewritten(log, RedoStart, j) \/ Current(log, j, disk[j])
      BY Zenon, <1>1, <1>2, <2>2 DEF DataInv, DiskInv, Stored, Recovery
    <3> QED
      BY Zenon, <1>6, <2>2, <3>1, <3>2 DEF Unmoved, Rewritten
  <2> QED
    BY Zenon, <2>1, <2>2
<1>9. Stacked'
  BY Zenon, <1>8 DEF Stacked
<1>10. TreeInv'
  BY Zenon, <1>2, <1>7, <1>8 DEF TreeInv, Running, Recovery
<1>11. DiskInv'
  BY Zenon, <1>2, <1>6, <1>8 DEF DiskInv, Stored
<1> QED
  BY Zenon, <1>9, <1>10, <1>11 DEF DataInv

\* Between calls, a live update is in the undo_log of an open transaction.
LEMMA LiveWritten ==
  ASSUME UndoInv, pc = "idle", NEW u, Live(log, u)
  PROVE  log[u].txn \in Open /\ log[u].key \in WrittenBy(log[u].txn)
<1>1. PICK x : x = log[u].txn
  BY Zenon
<1>2. x \in Open /\ Done = {}
  BY Zenon, <1>1 DEF UndoInv, LiveInv, Running, Done, Aborting
<1> DEFINE es == active[x].undo_log
<1>3. /\ Chain(log, x, active[x].last_lsn, es) /\ Undoes(log, x, active[x].last_lsn, es)
  BY Zenon, <1>2 DEF UndoInv, OpenInv, TxnOK
<1>4. PICK i \in 1 .. Len(es) : u = At(es, active[x].last_lsn, i)
  BY Zenon, <1>1, <1>3 DEF Undoes
<1>5. es[i] = Entry(log, u)
  BY Zenon, <1>3, <1>4 DEF Chain
<1>6. es[i].key = log[u].key /\ DOMAIN es = 1 .. Len(es)
  BY SMTT(30), <1>3, <1>5 DEF Entry, Chain, IsSeq
<1> QED
  BY Zenon, <1>1, <1>2, <1>6 DEF WrittenBy

\* Under the locking discipline, the live updates of the key that t writes are t's.
LEMMA OwnUpdates ==
  ASSUME UndoInv, NoSharedWrites', NEW t \in Open, NEW k, NEW v, Change(t, k, v),
         NEW u, Live(log, u), log[u].key = k
  PROVE  log[u].txn = t
<1>1. PICK x : x = log[u].txn
  BY Zenon
<1> SUFFICES ASSUME x # t PROVE FALSE
  BY Zenon, <1>1
<1>2. /\ pc = "idle" /\ Open' = Open /\ active'[x] = active[x]
      /\ \E e : e.key = k /\ active'[t].undo_log = Append(active[t].undo_log, e)
  <2>1. active' = [active EXCEPT ![t] =
          [last_lsn |-> Lsn,
           undo_log |-> Append(active[t].undo_log, [key |-> k, old |-> tree[k],
                                                    undo_next |-> active[t].last_lsn])]]
    BY Zenon DEF Change
  <2> QED
    BY <2>1 DEF Change, MayLog, Open
<1>3. x \in Open /\ k \in WrittenBy(x)
  BY Zenon, <1>1, <1>2, LiveWritten
<1>4. Chain(log, t, active[t].last_lsn, active[t].undo_log)
  BY Zenon DEF UndoInv, OpenInv
<1>5. k \in WrittenBy(x)'
  BY Zenon, <1>2, <1>3 DEF WrittenBy
<1>6. k \in WrittenBy(t)'
  <2> DEFINE es == active[t].undo_log
  <2>1. PICK e : e.key = k /\ active'[t].undo_log = Append(es, e)
    BY Zenon, <1>2
  <2>2. IsSeq(es)
    BY Zenon, <1>4 DEF Chain
  <2> HIDE DEF es
  <2>3. Append(es, e)[Len(es) + 1] = e /\ Len(es) + 1 \in DOMAIN Append(es, e)
    <3>1. PICK S : es \in Seq(S)
      BY Zenon, <2>2 DEF IsSeq
    <3>2. es \in Seq(S \cup {e})
      BY <3>1
    <3> QED
      BY <3>2
  <2> QED
    BY Zenon, <2>1, <2>3 DEF WrittenBy
<1>7. t \in Open' /\ x \in Open'
  BY Zenon, <1>2, <1>3
<1> QED
  BY Zenon, <1>5, <1>6, <1>7 DEF NoSharedWrites

LEMMA ChangeData ==
  ASSUME IInv, IInv', UndoInv, DataInv, NoSharedWrites', NEW t \in Open, NEW k \in Key, NEW new,
         Change(t, k, new)
  PROVE  DataInv'
<1>1. PICK p, old : p = active[t].last_lsn /\ old = tree[k]
  BY Zenon
<1>2. PICK r : r = Update(t, p, k, old, new)
  BY Zenon
<1>3. /\ pc = "idle" /\ pc' = "idle" /\ UNCHANGED <<meta, disk>> /\ Log(r)
      /\ tree' = [tree EXCEPT ![k] = new]
  BY Zenon, <1>1, <1>2 DEF Change, MayLog, files
<1>4. Adds(log, log', r) /\ Extends(log, log') /\ Len(log') = Len(log) + 1
  BY Zenon, <1>3, LogAdds
<1>5. RedoStart' = RedoStart /\ RedoStart \in Nat /\ Len(log') >= RedoStart
  BY Zenon, <1>3, <1>4, RedoKept, RedoBefore
<1>6. \A u : Live(log, u) /\ log[u].key = k => log[u].txn = t
  BY Zenon, OwnUpdates
<1>7. \A j \in Key : /\ StackOf(log, j) /\ Current(log, j, tree[j])
                     /\ Rewritten(log, RedoStart, j) \/ Current(log, j, disk[j])
  BY Zenon, <1>3 DEF DataInv, Stacked, TreeInv, DiskInv, Stored, Running, Recovery
<1>8. /\ StackOf(log', k) /\ Current(log', k, new) /\ Len(log') \in Writes(log', k)
      /\ \A j : j # k /\ StackOf(log, j) => Unmoved(log, log', j)
  <2>1. PICK l, m : l = log /\ m = log'
    BY Zenon
  <2>2. /\ Adds(l, m, Update(t, p, k, old, new)) /\ StackOf(l, k) /\ Current(l, k, old)
        /\ \A u : Live(l, u) /\ l[u].key = k => l[u].txn = t
    BY Zenon, <1>1, <1>2, <1>4, <1>6, <1>7, <2>1
  <2>3. /\ StackOf(m, k) /\ Current(m, k, new) /\ Len(m) \in Writes(m, k)
        /\ \A j : j # k /\ StackOf(l, j) => Unmoved(l, m, j)
    BY Zenon, <2>2, UpdateData
  <2> QED
    BY Zenon, <2>1, <2>3
<1>9. DOMAIN tree = Key /\ DOMAIN disk = Key
  BY Zenon DEF DataInv, TreeInv
<1>10. DOMAIN tree' = Key /\ tree'[k] = new /\ \A j \in Key : j # k => tree'[j] = tree[j]
  BY Zenon, <1>3, <1>9
<1>11. ASSUME NEW j \in Key
       PROVE  /\ StackOf(log', j) /\ Current(log', j, tree'[j])
              /\ Rewritten(log', RedoStart, j) \/ Current(log', j, disk[j])
  <2>1. CASE j = k
    BY Zenon, <1>5, <1>8, <1>10, <2>1 DEF Rewritten
  <2>2. CASE j # k
    BY Zenon, <1>7, <1>8, <1>10, <2>2 DEF Unmoved, Rewritten
  <2> QED
    BY Zenon, <2>1, <2>2
<1>12. Stacked'
  BY Zenon, <1>11 DEF Stacked
<1>13. TreeInv'
  BY Zenon, <1>3, <1>9, <1>10, <1>11 DEF TreeInv, Running, Recovery
<1>14. DiskInv'
  BY Zenon, <1>3, <1>5, <1>11 DEF DiskInv, Stored
<1> QED
  BY Zenon, <1>12, <1>13, <1>14 DEF DataInv

----------------------------------------------------------------------------
(* The invariant of the data holds.                                         *)

LEMMA InitData == Init => DataInv
<1> SUFFICES ASSUME Init PROVE DataInv
  BY Zenon
<1>1. log = <<>> /\ tree = [k \in Key |-> Absent] /\ disk = tree /\ pc = "idle"
  BY Zenon DEF Init
<1>2. 1 .. Len(log) = {}
  BY <1>1
<1>3. \A k : Writes(log, k) = {} /\ Effective(log, k) = {}
  BY Zenon, <1>2 DEF Writes, Effective
<1>4. \A k : Current(log, k, Absent) /\ StackOf(log, k)
  BY Zenon, <1>3 DEF StackOf, Current, Shows
<1>5. DOMAIN tree = Key /\ \A k \in Key : tree[k] = Absent /\ disk[k] = Absent
  BY Zenon, <1>1
<1>6. TreeInv
  BY Zenon, <1>1, <1>4, <1>5 DEF TreeInv, Running, Recovery
<1>7. DiskInv
  BY Zenon, <1>1, <1>4, <1>5 DEF DiskInv, Stored
<1> QED
  BY Zenon, <1>4, <1>6, <1>7 DEF DataInv, Stacked

LEMMA SameData ==
  ASSUME DataInv, UNCHANGED vars
  PROVE  DataInv'
<1>1. UNCHANGED <<log, meta, tree, disk, pc, local>>
  BY Zenon DEF vars
<1>2. RedoStart' = RedoStart /\ LastEntry' = LastEntry
  BY Zenon, <1>1, RedoSame DEF LastEntry
<1>3. TreeInv' /\ DiskInv'
  BY Zenon, <1>1, <1>2 DEF DataInv, TreeInv, DiskInv, Stored
<1> QED
  BY Zenon, <1>1, <1>3 DEF DataInv, Stacked

LEMMA NextData ==
  ASSUME ~PowerLoss, IInv, IInv', UndoInv, DataInv, [Next /\ NoSharedWrites']_vars
  PROVE  DataInv'
<1>1. CASE Client /\ NoSharedWrites'
  BY Zenon, <1>1, BeginData, ChangeData, CommitTxnData, AbortData DEF Client
<1>2. CASE Engine
  BY Zenon, <1>2, EndTxnData, AbortApplyData, AbortLogData, PageData, BracketData, CheckpointMetaData,
     RecoverOnStartupData, RedoData, NextLoserData, UndoData, UndoLogData DEF Engine
<1>3. CASE Environment
  <2>1. ~LosePower
    BY Zenon DEF LosePower
  <2> QED
    BY Zenon, <1>3, <2>1, CrashData, PageData DEF Environment
<1>4. CASE UNCHANGED vars
  BY Zenon, <1>4, SameData
<1> QED
  BY Zenon, <1>1, <1>2, <1>3, <1>4 DEF Next, Idle

LEMMA DataAlways ==
  ASSUME ~PowerLoss
  PROVE  IsolatedSpec => [](IInv /\ UndoInv /\ DataInv)
<1>1. IInv /\ IInv' /\ UndoInv /\ DataInv /\ [Next /\ NoSharedWrites']_vars => DataInv'
  BY Zenon, NextData
<1>2. [Next /\ NoSharedWrites']_vars => [Next]_vars
  BY Zenon
<1>3. IsolatedSpec => Spec
  BY <1>2, PTL DEF IsolatedSpec, Spec
<1> QED
  BY <1>1, <1>3, InitData, LogInv, UndoAlways, PTL DEF IsolatedSpec

\* A key that no open transaction is changing shows its committed updates.
LEMMA SettledIsCommitted ==
  ASSUME IInv, UndoInv, DataInv, NEW k \in Settled
  PROVE  /\ CommittedUpdates(k) \in SUBSET Nat
         /\ Shows(log, CommittedUpdates(k), tree[k])
<1>1. pc = "idle" /\ k \in Key /\ \A t \in Open : k \notin WrittenBy(t)
  BY Zenon DEF Settled
<1>2. DOMAIN log = 1 .. Len(log) /\ Len(log) \in Nat
  BY DEF IInv, SyncInv
<1>3. \A u : Live(log, u) => log[u].key # k
  BY Zenon, <1>1, LiveWritten
<1>4. \A i : Won(i) <=> WonIn(log, i)
  BY Zenon DEF Won, WonIn, None, Is, Types
<1>5. \A i : i \in CommittedUpdates(k) <=> i \in Effective(log, k)
  BY Zenon, <1>2, <1>3, <1>4 DEF CommittedUpdates, Updates, Effective, Types
<1>6. CommittedUpdates(k) = Effective(log, k)
  BY Zenon, <1>5
<1>7. Current(log, k, tree[k])
  BY Zenon, <1>1 DEF DataInv, TreeInv, Running
<1> QED
  BY Zenon, <1>2, <1>6, <1>7, Indices DEF Current

\* Durability: with open transactions on different keys, the value that the last
\* committed update of a settled key wrote is the one the tree shows, whatever
\* crashes, evictions, checkpoints, aborts and interrupted recoveries came after it.
THEOREM CommitsSurvive ==
  ASSUME ~PowerLoss
  PROVE  IsolatedSpec => []CommittedSurvives
<1>1. IInv /\ UndoInv /\ DataInv => CommittedSurvives
  <2> SUFFICES ASSUME IInv, UndoInv, DataInv, NEW k \in Settled, CommittedUpdates(k) # {}
               PROVE  tree[k] = log[Max(CommittedUpdates(k))].new
    BY Zenon DEF CommittedSurvives
  <2>1. PICK S : S = CommittedUpdates(k)
    BY Zenon
  <2>2. S \in SUBSET Nat /\ Shows(log, S, tree[k]) /\ S # {}
    BY Zenon, <2>1, SettledIsCommitted
  <2>3. PICK x : Top(S, x) /\ tree[k] = log[x].new
    BY Zenon, <2>2 DEF Shows
  <2>4. x \in S /\ \A y \in S : x >= y
    BY Zenon, <2>2, <2>3 DEF Top
  <2>5. Max(S) \in S /\ \A y \in S : Max(S) >= y
    BY Zenon, <2>4 DEF Max
  <2>6. ASSUME NEW y \in S, NEW z \in S, y >= z, z >= y PROVE y = z
    <3>1. y \in Nat /\ z \in Nat
      BY Zenon, <2>2
    <3> QED
      BY <2>6, <3>1
  <2>7. Max(S) = x
    BY Zenon, <2>4, <2>5, <2>6
  <2> QED
    BY Zenon, <2>1, <2>3, <2>7
<1> QED
  BY <1>1, DataAlways, PTL

\* Atomicity: a settled key that only transactions without a COMMIT ever wrote is
\* not in the tree, whether Abort, recovery or one after the other undid them.
THEOREM LosersAreUndone ==
  ASSUME ~PowerLoss
  PROVE  IsolatedSpec => []LosersUndone
<1>1. IInv /\ UndoInv /\ DataInv => LosersUndone
  <2> SUFFICES ASSUME IInv, UndoInv, DataInv, NEW k \in Settled, CommittedUpdates(k) = {}
               PROVE  tree[k] = Absent
    BY Zenon DEF LosersUndone
  <2>1. Shows(log, {}, tree[k])
    BY Zenon, SettledIsCommitted
  <2> QED
    BY Zenon, <2>1 DEF Shows, Top
<1> QED
  BY <1>1, DataAlways, PTL
=============================================================================
