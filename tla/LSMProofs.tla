----------------------------- MODULE LSMProofs ------------------------------
(***************************************************************************)
(* Proofs about LSMEngine, for any number of clients, keys, tables and     *)
(* tiers: the tables a reader has looked up stay, and, unless a crash      *)
(* catches a table being written, the tables of the manifest are complete. *)
(***************************************************************************)
EXTENDS LSMEngine, WellFoundedInduction, TLAPS

(* The inductive invariants. *)

Named(ts) == UNION {Range(ts[t]) : t \in DOMAIN ts}

Distinct(ts) ==
  \A t, u \in DOMAIN ts : \A p \in DOMAIN ts[t], q \in DOMAIN ts[u] :
    ts[t][p] = ts[u][q] => t = u /\ p = q

Building(c) == pc[c] \in {"header", "unlink", "install"}

Where == {"idle", "lookup", "tombstone", "swap", "empty", "build", "header", "unlink",
          "install", "help", "compact"}
Local == [op : {"", "Get", "Delete"}, key : Key \cup {Absent}, gen : Nat, tables : Seq(Nat),
          id : Nat, fresh : BOOLEAN]
Manifest == [next_id : Nat, tiers : Seq(Seq(Nat))]

IsJob(j) ==
  /\ j = [by |-> j.by, stage |-> j.stage, tier |-> j.tier, tables |-> j.tables,
          bottommost |-> j.bottommost, out |-> j.out, id |-> j.id, fresh |-> j.fresh]
  /\ j.by \in Client \cup {Background} /\ j.tables \in Seq(Nat) /\ j.id \in Nat
  /\ j.stage \in {"merge", "header", "install"} /\ j.bottommost \in BOOLEAN

TypeInv ==
  /\ manifest \in Manifest /\ tiers \in Seq(Seq(Nat)) /\ next_id \in Nat
  /\ obsolete \subseteq Nat /\ gen \in Nat
  /\ pc \in [Client -> Where] /\ loc \in [Client -> Local]
  /\ job # NoJob => IsJob(job)
  /\ engine \in {"up", "closing", "dead", "start", "replay", "remove"}
  /\ engine \in {"start", "replay", "remove"} =>
       job = NoJob /\ \A c \in Client : pc[c] = "idle"
  /\ engine = "start" => tiers = <<>> /\ obsolete = {}

\* No table is in two places.
TiersInv ==
  /\ Distinct(manifest.tiers)
  /\ \A i \in Named(manifest.tiers) : i < manifest.next_id
  /\ Distinct(tiers)
  /\ \A i \in Named(tiers) : i < next_id /\ i \in DOMAIN files /\ i \notin obsolete
  /\ \A i \in obsolete : i < next_id

Fresh(i) == i < next_id /\ i \in DOMAIN files /\ i \notin Named(tiers) /\ i \notin obsolete

FlushInv ==
  \A c \in Client : Building(c) =>
    /\ Fresh(loc[c].id)
    /\ \A d \in Client : Building(d) /\ loc[d].id = loc[c].id => c = d

Suffix(s, t) ==
  /\ Len(s) <= Len(t)
  /\ \A i \in 1 .. Len(s) : s[i] = t[Len(t) - Len(s) + i]

JobInv ==
  job # NoJob =>
    /\ job.by \in Client => pc[job.by] = "compact"
    /\ job.tier \in DOMAIN tiers /\ Suffix(job.tables, tiers[job.tier])
    /\ job.out # Empty => Fresh(job.id) /\ \A c \in Client : Building(c) => loc[c].id # job.id

IdInv == TypeInv /\ TiersInv /\ FlushInv /\ JobInv

\* The log generations are numbered, and finitely many.
WalInv == \E n \in Nat : DOMAIN wals \subseteq 0 .. n

----------------------------------------------------------------------------
(* Induction: a set of naturals that is not empty has a least element.      *)

LEMMA Least ==
  ASSUME NEW T \in SUBSET Nat, T # {}
  PROVE  \E x \in T : \A y \in T : x <= y
<1>1. PICK x \in T : \A y \in T : ~ (<<y, x>> \in OpToRel(<, Nat))
  BY Zenon, NatLessThanWellFounded, WFMin
<1>2. \A y \in T : ~ (y < x)
  BY Zenon, <1>1 DEF OpToRel
<1> QED
  BY <1>2

LEMMA Induct ==
  ASSUME NEW T, 0 \in T, \A n \in Nat : n \in T => n + 1 \in T
  PROVE  Nat \subseteq T
<1> DEFINE B == Nat \ T
<1>1. CASE B = {}
  BY Zenon, <1>1
<1>2. CASE B # {}
  <2>1. PICK x \in B : \A y \in B : x <= y
    <3>1. B \in SUBSET Nat
      BY Zenon
    <3> HIDE DEF B
    <3> QED
      BY Zenon, <1>2, <3>1, Least
  <2>2. x \in Nat /\ x # 0
    BY Zenon
  <2>3. x - 1 \in Nat /\ x - 1 \notin B
    BY <2>1, <2>2
  <2>4. (x - 1) + 1 = x
    BY <2>2
  <2> QED
    BY Zenon, <2>2, <2>3, <2>4
<1> QED
  BY Zenon, <1>1, <1>2

----------------------------------------------------------------------------
(* Flatten. *)

LEMMA FunctionIsSeq ==
  ASSUME NEW S, NEW n \in Nat, NEW f \in [1 .. n -> S]
  PROVE  f \in Seq(S) /\ Len(f) = n
OBVIOUS

LEMMA ExceptIsSeq ==
  ASSUME NEW S, NEW s \in Seq(S), NEW i \in DOMAIN s, NEW v \in S
  PROVE  [s EXCEPT ![i] = v] \in Seq(S) /\ DOMAIN [s EXCEPT ![i] = v] = DOMAIN s
OBVIOUS

LEMMA ConcatAt ==
  ASSUME NEW s \in Seq(Nat), NEW t \in Seq(Nat)
  PROVE  /\ s \o t \in Seq(Nat) /\ Len(s \o t) = Len(s) + Len(t)
         /\ DOMAIN (s \o t) = 1 .. Len(s) + Len(t)
         /\ \A p \in 1 .. Len(s) : (s \o t)[p] = s[p]
         /\ \A p \in 1 .. Len(t) : (s \o t)[Len(s) + p] = t[p]
OBVIOUS

LEMMA ConcatRange ==
  ASSUME NEW s \in Seq(Nat), NEW t \in Seq(Nat)
  PROVE  \A i : i \in Range(s \o t) <=> i \in Range(s) \/ i \in Range(t)
<1> DEFINE u == s \o t
<1>1. /\ Len(s) \in Nat /\ Len(t) \in Nat /\ DOMAIN s = 1 .. Len(s) /\ DOMAIN t = 1 .. Len(t)
      /\ DOMAIN u = 1 .. Len(s) + Len(t)
      /\ \A p \in 1 .. Len(s) : u[p] = s[p]
      /\ \A p \in 1 .. Len(t) : u[Len(s) + p] = t[p]
  BY ConcatAt
<1> HIDE DEF u
<1>2. ASSUME NEW p \in DOMAIN u
      PROVE  u[p] \in Range(s) \/ u[p] \in Range(t)
  <2>1. CASE p <= Len(s)
    BY <1>1, <2>1 DEF Range
  <2>2. CASE ~ (p <= Len(s))
    <3>1. p - Len(s) \in 1 .. Len(t) /\ Len(s) + (p - Len(s)) = p
      BY <1>1, <2>2
    <3>2. u[p] = t[p - Len(s)]
      BY Zenon, <1>1, <3>1
    <3> QED
      BY Zenon, <1>1, <3>1, <3>2 DEF Range
  <2> QED
    BY Zenon, <2>1, <2>2
<1>3. \A p \in DOMAIN s : p \in DOMAIN u /\ u[p] = s[p]
  BY <1>1
<1>4. \A p \in DOMAIN t : Len(s) + p \in DOMAIN u /\ u[Len(s) + p] = t[p]
  BY <1>1
<1>5. \A i : i \in Range(u) => i \in Range(s) \/ i \in Range(t)
  BY Zenon, <1>2 DEF Range
<1>6. \A i : i \in Range(s) \/ i \in Range(t) => i \in Range(u)
  BY Zenon, <1>3, <1>4 DEF Range
<1> QED
  BY Zenon, <1>5, <1>6 DEF u

\* g gives the concatenation of the first n sequences of seqs.
Upto(seqs, n, g) ==
  g = [i \in 0 .. n |-> IF i = 0 THEN <<>> ELSE g[i - 1] \o seqs[i]]

LEMMA UptoAt ==
  ASSUME NEW seqs, NEW n \in Nat, NEW g, Upto(seqs, n, g)
  PROVE  g[0] = <<>> /\ \A i \in 1 .. n : g[i] = g[i - 1] \o seqs[i]
<1> DEFINE rhs == [i \in 0 .. n |-> IF i = 0 THEN <<>> ELSE g[i - 1] \o seqs[i]]
<1>1. g = rhs
  BY Zenon DEF Upto
<1>2. \A i \in 0 .. n : rhs[i] = IF i = 0 THEN <<>> ELSE g[i - 1] \o seqs[i]
  BY Zenon
<1> HIDE DEF rhs
<1>3. \A i \in 0 .. n : g[i] = IF i = 0 THEN <<>> ELSE g[i - 1] \o seqs[i]
  BY Zenon, <1>1, <1>2
<1>4. 0 \in 0 .. n /\ \A i \in 1 .. n : i \in 0 .. n /\ i # 0
  OBVIOUS
<1> QED
  BY Zenon, <1>3, <1>4

LEMMA UptoExists ==
  ASSUME NEW seqs
  PROVE  \A n \in Nat : \E g : Upto(seqs, n, g)
<1> DEFINE T == {n \in Nat : \E g : Upto(seqs, n, g)}
<1>1. 0 \in T
  <2> DEFINE z == [i \in 0 .. 0 |-> <<>>]
  <2>1. z = [i \in 0 .. 0 |-> IF i = 0 THEN <<>> ELSE z[i - 1] \o seqs[i]]
    OBVIOUS
  <2>2. Upto(seqs, 0, z)
    BY Zenon, <2>1 DEF Upto
  <2> HIDE DEF z
  <2> QED
    BY Zenon, <2>2
<1>2. ASSUME NEW n \in Nat, n \in T
      PROVE  n + 1 \in T
  <2>1. PICK g : Upto(seqs, n, g)
    BY Zenon, <1>2
  <2> DEFINE h == [i \in 0 .. n + 1 |-> IF i = 0 THEN <<>> ELSE g[i - 1] \o seqs[i]]
  <2>2. \A i \in 0 .. n : h[i] = g[i]
    <3>1. \A i \in 0 .. n : i \in 0 .. n + 1 /\ (i # 0 => i \in 1 .. n)
      OBVIOUS
    <3> QED
      BY Zenon, <2>1, <3>1, UptoAt
  <2>3. \A i \in 0 .. n + 1 : i # 0 => i - 1 \in 0 .. n
    OBVIOUS
  <2>4. \A i \in 0 .. n + 1 : i # 0 => g[i - 1] \o seqs[i] = h[i - 1] \o seqs[i]
    <3> HIDE DEF h
    <3> QED
      BY Zenon, <2>2, <2>3
  <2>5. \A i \in 0 .. n + 1 : (IF i = 0 THEN <<>> ELSE g[i - 1] \o seqs[i])
                            = (IF i = 0 THEN <<>> ELSE h[i - 1] \o seqs[i])
    <3> HIDE DEF h
    <3> QED
      BY Zenon, <2>4
  <2>6. h = [i \in 0 .. n + 1 |-> IF i = 0 THEN <<>> ELSE h[i - 1] \o seqs[i]]
    <3> DEFINE r(i) == IF i = 0 THEN <<>> ELSE h[i - 1] \o seqs[i]
               l(i) == IF i = 0 THEN <<>> ELSE g[i - 1] \o seqs[i]
    <3>1. \A i \in 0 .. n + 1 : l(i) = r(i)
      BY Zenon, <2>5
    <3>2. h = [i \in 0 .. n + 1 |-> l(i)]
      BY Zenon
    <3> HIDE DEF r, l, h
    <3>3. h = [i \in 0 .. n + 1 |-> r(i)]
      BY Zenon, <3>1, <3>2
    <3> QED
      BY Zenon, <3>3 DEF r
  <2> HIDE DEF h
  <2>7. Upto(seqs, n + 1, h) /\ n + 1 \in Nat
    BY <2>6 DEF Upto
  <2> QED
    BY Zenon, <2>7
<1> HIDE DEF T
<1>3. Nat \subseteq T
  BY Zenon, <1>1, <1>2, Induct
<1> QED
  BY Zenon, <1>3 DEF T

LEMMA FlattenIs ==
  ASSUME NEW seqs, Len(seqs) \in Nat
  PROVE  \E g : Upto(seqs, Len(seqs), g) /\ Flatten(seqs) = g[Len(seqs)]
<1> DEFINE f == CHOOSE g : g = [i \in 0 .. Len(seqs) |->
                                  IF i = 0 THEN <<>> ELSE g[i - 1] \o seqs[i]]
<1>1. \E g : g = [i \in 0 .. Len(seqs) |-> IF i = 0 THEN <<>> ELSE g[i - 1] \o seqs[i]]
  BY Zenon, UptoExists DEF Upto
<1>2. f = [i \in 0 .. Len(seqs) |-> IF i = 0 THEN <<>> ELSE f[i - 1] \o seqs[i]]
  BY Zenon, <1>1
<1>3. Flatten(seqs) = f[Len(seqs)]
  BY Zenon DEF Flatten
<1> HIDE DEF f
<1> QED
  BY Zenon, <1>2, <1>3 DEF Upto

LEMMA UptoType ==
  ASSUME NEW seqs \in Seq(Seq(Nat)), NEW g, Upto(seqs, Len(seqs), g)
  PROVE  \A n \in 0 .. Len(seqs) :
           /\ g[n] \in Seq(Nat)
           /\ \A i : i \in Range(g[n]) <=> \E t \in 1 .. n : i \in Range(seqs[t])
<1> DEFINE P(n) == /\ g[n] \in Seq(Nat)
                   /\ \A i : i \in Range(g[n]) <=> \E t \in 1 .. n : i \in Range(seqs[t])
           T == {n \in Nat : n <= Len(seqs) => P(n)}
<1>0. Len(seqs) \in Nat
  OBVIOUS
<1>1. g[0] = <<>> /\ \A i \in 1 .. Len(seqs) : g[i] = g[i - 1] \o seqs[i]
  BY Zenon, <1>0, UptoAt
<1>2. 0 \in T
  <2>1. P(0)
    BY <1>1 DEF Range
  <2> QED
    BY Zenon, <2>1
<1>3. ASSUME NEW n \in Nat, n \in T
      PROVE  n + 1 \in T
  <2>0. n + 1 \in Nat /\ n <= n + 1
    OBVIOUS
  <2> SUFFICES ASSUME n + 1 <= Len(seqs)
               PROVE  P(n + 1)
    BY Zenon, <2>0
  <2>1. P(n)
    BY <1>3
  <2>2. g[n + 1] = g[n] \o seqs[n + 1] /\ seqs[n + 1] \in Seq(Nat)
    <3>1. n + 1 \in 1 .. Len(seqs) /\ (n + 1) - 1 = n
      OBVIOUS
    <3>2. g[n + 1] = g[(n + 1) - 1] \o seqs[n + 1]
      BY Zenon, <1>1, <3>1
    <3>3. seqs[n + 1] \in Seq(Nat)
      BY <3>1
    <3> QED
      BY Zenon, <3>1, <3>2, <3>3
  <2>3. g[n + 1] \in Seq(Nat)
    BY <2>1, <2>2
  <2>4. \A i : i \in Range(g[n + 1]) <=> i \in Range(g[n]) \/ i \in Range(seqs[n + 1])
    BY Zenon, <2>1, <2>2, ConcatRange
  <2>5. \A t : t \in 1 .. n + 1 <=> t \in 1 .. n \/ t = n + 1
    OBVIOUS
  <2> QED
    BY Zenon, <2>1, <2>3, <2>4, <2>5
<1> HIDE DEF P, T
<1>4. Nat \subseteq T
  BY Zenon, <1>2, <1>3, Induct
<1>5. \A n \in 0 .. Len(seqs) : n \in Nat /\ n <= Len(seqs)
  OBVIOUS
<1>6. \A n \in 0 .. Len(seqs) : P(n)
  BY Zenon, <1>4, <1>5 DEF T
<1> QED
  BY Zenon, <1>6 DEF P

LEMMA UptoPrefix ==
  ASSUME NEW seqs \in Seq(Seq(Nat)), NEW g, Upto(seqs, Len(seqs), g),
         NEW m \in 0 .. Len(seqs), NEW n \in m .. Len(seqs)
  PROVE  Len(g[m]) <= Len(g[n]) /\ \A p \in 1 .. Len(g[m]) : g[n][p] = g[m][p]
<1> DEFINE P(k) == Len(g[m]) <= Len(g[k]) /\ \A p \in 1 .. Len(g[m]) : g[k][p] = g[m][p]
           T == {k \in Nat : m <= k /\ k <= Len(seqs) => P(k)}
<1>0. Len(seqs) \in Nat /\ m \in Nat /\ n \in Nat /\ n <= Len(seqs) /\ m <= n
  OBVIOUS
<1>1. \A i \in 1 .. Len(seqs) : g[i] = g[i - 1] \o seqs[i]
  BY Zenon, <1>0, UptoAt
<1>2. \A k \in 0 .. Len(seqs) : g[k] \in Seq(Nat)
  BY Zenon, UptoType
<1>3. P(m)
  BY <1>2
<1>4. 0 \in T
  <2>1. m <= 0 => m = 0
    BY <1>0
  <2> QED
    BY Zenon, <1>3, <2>1
<1>5. ASSUME NEW k \in Nat, k \in T
      PROVE  k + 1 \in T
  <2>0. k + 1 \in Nat
    OBVIOUS
  <2> SUFFICES ASSUME m <= k + 1, k + 1 <= Len(seqs)
               PROVE  P(k + 1)
    BY Zenon, <2>0
  <2>1. CASE m = k + 1
    BY Zenon, <1>3, <2>1
  <2>2. CASE m # k + 1
    <3>1. m <= k /\ k <= Len(seqs) /\ k + 1 \in 1 .. Len(seqs) /\ (k + 1) - 1 = k
      BY <1>0, <2>2
    <3>2. P(k)
      BY Zenon, <1>5, <3>1
    <3>3. g[k + 1] = g[(k + 1) - 1] \o seqs[k + 1]
      BY Zenon, <1>1, <3>1
    <3>4. g[k + 1] = g[k] \o seqs[k + 1]
      BY Zenon, <3>1, <3>3
    <3>5. seqs[k + 1] \in Seq(Nat) /\ k \in 0 .. Len(seqs)
      BY <3>1
    <3>6. g[k] \in Seq(Nat) /\ g[m] \in Seq(Nat)
      BY Zenon, <1>2, <3>5
    <3> DEFINE s == g[k]  t == seqs[k + 1]  u == g[m]
    <3>7. Len(u) <= Len(s \o t) /\ \A p \in 1 .. Len(u) : (s \o t)[p] = u[p]
      <4>1. /\ s \in Seq(Nat) /\ t \in Seq(Nat) /\ u \in Seq(Nat)
            /\ Len(u) <= Len(s) /\ \A p \in 1 .. Len(u) : s[p] = u[p]
        BY Zenon, <3>2, <3>5, <3>6
      <4> HIDE DEF s, t, u, T, P
      <4>2. Len(s) \in Nat /\ Len(t) \in Nat /\ Len(u) \in Nat
        BY <4>1
      <4>3. Len(s \o t) = Len(s) + Len(t) /\ \A p \in 1 .. Len(s) : (s \o t)[p] = s[p]
        BY Zenon, <4>1, ConcatAt
      <4>4. Len(u) <= Len(s) + Len(t) /\ \A p \in 1 .. Len(u) : p \in 1 .. Len(s)
        <5>1. Len(u) <= Len(s)
          BY Zenon, <4>1
        <5> QED
          BY <4>2, <5>1
      <4> QED
        BY Zenon, <4>1, <4>3, <4>4
    <3> QED
      BY Zenon, <3>4, <3>7
  <2> QED
    BY Zenon, <2>1, <2>2
<1> HIDE DEF P, T
<1>6. Nat \subseteq T
  BY Zenon, <1>4, <1>5, Induct
<1>7. P(n)
  BY Zenon, <1>0, <1>6 DEF T
<1> QED
  BY Zenon, <1>7 DEF P

\* The tables of the tiers, in the order in which Get searches them.
LEMMA FlattenRange ==
  ASSUME NEW seqs \in Seq(Seq(Nat))
  PROVE  Flatten(seqs) \in Seq(Nat) /\ Range(Flatten(seqs)) = Named(seqs)
<1>0. Len(seqs) \in Nat /\ DOMAIN seqs = 1 .. Len(seqs) /\ Len(seqs) \in 0 .. Len(seqs)
  OBVIOUS
<1>1. PICK g : Upto(seqs, Len(seqs), g) /\ Flatten(seqs) = g[Len(seqs)]
  BY Zenon, <1>0, FlattenIs
<1>2. /\ g[Len(seqs)] \in Seq(Nat)
      /\ \A i : i \in Range(g[Len(seqs)]) <=> \E t \in 1 .. Len(seqs) : i \in Range(seqs[t])
  <2>1. \A n \in 0 .. Len(seqs) :
          /\ g[n] \in Seq(Nat)
          /\ \A i : i \in Range(g[n]) <=> \E t \in 1 .. n : i \in Range(seqs[t])
    BY Zenon, <1>1, UptoType
  <2> QED
    BY Zenon, <1>0, <2>1
<1>3. \A i : i \in Named(seqs) <=> \E t \in 1 .. Len(seqs) : i \in Range(seqs[t])
  BY Zenon, <1>0 DEF Named
<1> QED
  BY Zenon, <1>1, <1>2, <1>3

\* Where a tier begins: behind it come its tables, before it those of the
\* earlier tiers.
LEMMA FlattenAt ==
  ASSUME NEW seqs \in Seq(Seq(Nat)), NEW t \in DOMAIN seqs
  PROVE  \E o \in Nat :
           /\ \A q \in DOMAIN seqs[t] : /\ o + q \in DOMAIN Flatten(seqs)
                                        /\ Flatten(seqs)[o + q] = seqs[t][q]
           /\ \A p \in 1 .. o : \E u \in 1 .. t - 1 : Flatten(seqs)[p] \in Range(seqs[u])
<1>0. Len(seqs) \in Nat /\ DOMAIN seqs = 1 .. Len(seqs) /\ Len(seqs) \in 0 .. Len(seqs)
  OBVIOUS
<1>1. PICK g : Upto(seqs, Len(seqs), g) /\ Flatten(seqs) = g[Len(seqs)]
  BY Zenon, <1>0, FlattenIs
<1>2. /\ t \in 0 .. Len(seqs) /\ t - 1 \in 0 .. Len(seqs) /\ Len(seqs) \in t .. Len(seqs)
      /\ Len(seqs) \in t - 1 .. Len(seqs) /\ t \in 1 .. Len(seqs) /\ seqs[t] \in Seq(Nat)
  BY <1>0
<1>3. \A n \in 0 .. Len(seqs) :
        /\ g[n] \in Seq(Nat)
        /\ \A i : i \in Range(g[n]) <=> \E u \in 1 .. n : i \in Range(seqs[u])
  BY Zenon, <1>1, UptoType
<1>4. g[t] = g[t - 1] \o seqs[t]
  BY Zenon, <1>0, <1>1, <1>2, UptoAt
<1> DEFINE n == Len(seqs)
<1>5. Len(g[t]) <= Len(Flatten(seqs)) /\ \A p \in 1 .. Len(g[t]) : Flatten(seqs)[p] = g[t][p]
  <2>1. Len(g[t]) <= Len(g[n]) /\ \A p \in 1 .. Len(g[t]) : g[n][p] = g[t][p]
    <3> HIDE DEF n
    <3>1. Upto(seqs, Len(seqs), g) /\ t \in 0 .. Len(seqs) /\ n \in t .. Len(seqs)
      BY Zenon, <1>1, <1>2 DEF n
    <3> QED
      BY <3>1, UptoPrefix
  <2> QED
    BY Zenon, <1>1, <2>1
<1>6. \A p \in 1 .. Len(g[t - 1]) : Flatten(seqs)[p] = g[t - 1][p]
  <2>1. \A p \in 1 .. Len(g[t - 1]) : g[n][p] = g[t - 1][p]
    <3> HIDE DEF n
    <3>1. Upto(seqs, Len(seqs), g) /\ t - 1 \in 0 .. Len(seqs) /\ n \in t - 1 .. Len(seqs)
      BY Zenon, <1>1, <1>2 DEF n
    <3> QED
      BY <3>1, UptoPrefix
  <2> QED
    BY Zenon, <1>1, <2>1
<1> DEFINE o == Len(g[t - 1])
<1>7. g[t - 1] \in Seq(Nat) /\ g[t] \in Seq(Nat) /\ Flatten(seqs) \in Seq(Nat)
  BY Zenon, <1>0, <1>1, <1>2, <1>3
<1>8. o \in Nat
  BY <1>7
<1>9. ASSUME NEW q \in DOMAIN seqs[t]
      PROVE  o + q \in DOMAIN Flatten(seqs) /\ Flatten(seqs)[o + q] = seqs[t][q]
  <2>1. o + q \in 1 .. Len(g[t]) /\ g[t][o + q] = seqs[t][q]
    <3> DEFINE a == g[t - 1]  b == seqs[t]
    <3>1. a \in Seq(Nat) /\ b \in Seq(Nat) /\ q \in 1 .. Len(b)
      BY <1>2, <1>7
    <3>2. Len(a) + q \in 1 .. Len(a \o b) /\ (a \o b)[Len(a) + q] = b[q]
      <4> HIDE DEF a, b
      <4>1. Len(a) \in Nat /\ Len(b) \in Nat
        BY <3>1
      <4>2. Len(a \o b) = Len(a) + Len(b) /\ (a \o b)[Len(a) + q] = b[q]
        BY Zenon, <3>1, ConcatAt
      <4>3. q \in 1 .. Len(b)
        BY Zenon, <3>1
      <4>4. Len(a) + q \in 1 .. Len(a) + Len(b)
        BY <4>1, <4>3
      <4> QED
        BY Zenon, <4>2, <4>4
    <3> QED
      BY Zenon, <1>4, <3>2
  <2>2. Flatten(seqs)[o + q] = g[t][o + q]
    BY Zenon, <1>5, <2>1
  <2>3. o + q \in DOMAIN Flatten(seqs)
    <3> DEFINE w == Flatten(seqs)
               l == Len(g[t])
               i == o + q
    <3>1. w \in Seq(Nat) /\ l \in Nat /\ l <= Len(w) /\ i \in 1 .. l
      BY <1>5, <1>7, <2>1
    <3> HIDE DEF w, l, i
    <3>2. i \in DOMAIN w
      BY <3>1
    <3> QED
      BY Zenon, <3>2 DEF w, i
  <2> QED
    BY Zenon, <2>1, <2>2, <2>3
<1>10. ASSUME NEW p \in 1 .. o
       PROVE  \E u \in 1 .. t - 1 : Flatten(seqs)[p] \in Range(seqs[u])
  <2>1. g[t - 1][p] \in Range(g[t - 1])
    BY <1>7 DEF Range
  <2> QED
    BY Zenon, <1>2, <1>3, <1>6, <2>1
<1> HIDE DEF o
<1> QED
  BY Zenon, <1>8, <1>9, <1>10

----------------------------------------------------------------------------
(* Without and Padded: what an install does to the tiers. *)

LEMMA KeepPrefix ==
  ASSUME NEW s \in Seq(Nat), NEW m \in Nat, m <= Len(s), NEW seqs, Len(seqs) = Len(s),
         \A i \in 1 .. Len(s) : seqs[i] = IF i > m THEN <<>> ELSE <<s[i]>>
  PROVE  Flatten(seqs) = [i \in 1 .. m |-> s[i]]
<1>1. Len(s) \in Nat /\ m <= Len(s) /\ DOMAIN s = 1 .. Len(s)
  OBVIOUS
<1>5. \A i \in 1 .. Len(s) : seqs[i] = IF i > m THEN <<>> ELSE <<s[i]>>
  BY Zenon
<1>6. PICK g : Upto(seqs, Len(s), g) /\ Flatten(seqs) = g[Len(s)]
  BY Zenon, <1>1, FlattenIs
<1>7. g[0] = <<>> /\ \A i \in 1 .. Len(s) : g[i] = g[i - 1] \o seqs[i]
  <2>1. Len(s) \in Nat /\ Upto(seqs, Len(s), g)
    BY Zenon, <1>1, <1>6
  <2> QED
    BY Zenon, <2>1, UptoAt
<1> DEFINE L(n) == IF n <= m THEN n ELSE m
           P(n) == /\ g[n] \in Seq(Nat) /\ Len(g[n]) = L(n)
                   /\ \A i \in 1 .. L(n) : g[n][i] = s[i]
           T == {n \in Nat : n <= Len(s) => P(n)}
<1>8. 0 \in T
  <2>1. L(0) = 0
    BY <1>1
  <2>2. P(0)
    <3> HIDE DEF L, T
    <3> QED
      BY <1>7, <2>1
  <2> QED
    BY Zenon, <2>2
<1>9. ASSUME NEW n \in Nat, n \in T
      PROVE  n + 1 \in T
  <2>0. n + 1 \in Nat /\ n <= n + 1
    OBVIOUS
  <2> SUFFICES ASSUME n + 1 <= Len(s)
               PROVE  P(n + 1)
    BY Zenon, <2>0
  <2>1. P(n)
    BY <1>1, <1>9
  <2>2. n + 1 \in 1 .. Len(s) /\ (n + 1) - 1 = n
    BY <1>1
  <2>3. g[n + 1] = g[(n + 1) - 1] \o seqs[n + 1]
    BY Zenon, <1>7, <2>2
  <2>4. g[n + 1] = g[n] \o seqs[n + 1]
    BY Zenon, <2>2, <2>3
  <2> DEFINE a == g[n]
  <2>5. a \in Seq(Nat) /\ Len(a) = L(n) /\ \A i \in 1 .. L(n) : a[i] = s[i]
    BY Zenon, <2>1
  <2>6. CASE n + 1 > m
    <3>1. g[n + 1] = a \o <<>>
      BY Zenon, <1>5, <2>2, <2>4, <2>6
    <3>2. L(n) = m /\ L(n + 1) = m
      BY <1>1, <2>6
    <3> HIDE DEF a, P, T, L
    <3>3. a \o <<>> = a
      BY <2>5
    <3> QED
      BY Zenon, <2>5, <3>1, <3>2, <3>3 DEF P
  <2>7. CASE ~ (n + 1 > m)
    <3>1. g[n + 1] = a \o <<s[n + 1]>>
      BY Zenon, <1>5, <2>2, <2>4, <2>7
    <3>2. L(n) = n /\ L(n + 1) = n + 1 /\ s[n + 1] \in Nat
      BY <1>1, <2>2, <2>7
    <3> HIDE DEF a, P, T, L
    <3>3. /\ a \o <<s[n + 1]>> \in Seq(Nat) /\ Len(a \o <<s[n + 1]>>) = n + 1
          /\ \A i \in 1 .. n + 1 : (a \o <<s[n + 1]>>)[i] = s[i]
      BY <2>5, <3>2
    <3> QED
      BY Zenon, <3>1, <3>2, <3>3 DEF P
  <2> QED
    BY Zenon, <2>6, <2>7
<1> HIDE DEF P, T, L
<1>10. P(Len(s)) /\ L(Len(s)) = m
  <2>1. Nat \subseteq T
    BY Zenon, <1>8, <1>9, Induct
  <2>2. P(Len(s))
    BY <1>1, <2>1 DEF T
  <2>3. L(Len(s)) = m
    BY <1>1 DEF L
  <2> QED
    BY Zenon, <2>2, <2>3
<1> QED
  BY <1>1, <1>6, <1>10 DEF P

\* Without takes the tables of a compaction, which are the last of their tier,
\* off its end.
LEMMA WithoutSuffix ==
  ASSUME NEW s \in Seq(Nat), NEW x \in Seq(Nat), Suffix(x, s),
         \A p, q \in DOMAIN s : s[p] = s[q] => p = q
  PROVE  Without(s, Range(x)) = [i \in 1 .. Len(s) - Len(x) |-> s[i]]
<1> DEFINE m == Len(s) - Len(x)
           seqs == [i \in DOMAIN s |-> IF s[i] \in Range(x) THEN <<>> ELSE <<s[i]>>]
<1>1. /\ Len(s) \in Nat /\ Len(x) \in Nat /\ m \in Nat /\ m <= Len(s)
      /\ DOMAIN s = 1 .. Len(s) /\ DOMAIN x = 1 .. Len(x) /\ m + Len(x) = Len(s)
  BY DEF Suffix
<1>2. \A i \in 1 .. Len(x) : x[i] = s[m + i]
  BY Zenon DEF Suffix
<1>3. \A i \in 1 .. Len(s) : s[i] \in Range(x) <=> i > m
  <2> SUFFICES ASSUME NEW i \in 1 .. Len(s)
               PROVE  s[i] \in Range(x) <=> i > m
    BY Zenon
  <2> HIDE DEF m, seqs
  <2>1. CASE i > m
    <3>1. i - m \in 1 .. Len(x) /\ m + (i - m) = i
      BY <1>1, <2>1
    <3>2. x[i - m] = s[i]
      BY Zenon, <1>2, <3>1
    <3>3. s[i] \in Range(x)
      BY Zenon, <1>1, <3>1, <3>2 DEF Range
    <3> QED
      BY Zenon, <2>1, <3>3
  <2>2. CASE ~ (i > m)
    <3>1. ASSUME NEW j \in 1 .. Len(x)
          PROVE  x[j] # s[i]
      <4>1. m + j \in DOMAIN s /\ m + j # i /\ i \in DOMAIN s
        BY <1>1, <2>2
      <4>2. x[j] = s[m + j]
        BY Zenon, <1>2
      <4> QED
        BY Zenon, <4>1, <4>2
    <3>2. s[i] \notin Range(x)
      BY Zenon, <1>1, <3>1 DEF Range
    <3> QED
      BY Zenon, <2>2, <3>2
  <2> QED
    BY Zenon, <2>1, <2>2
<1>4. seqs \in Seq(Seq(Nat)) /\ Len(seqs) = Len(s)
  <2>1. \A i \in 1 .. Len(s) : s[i] \in Nat
    OBVIOUS
  <2>2. \A i \in 1 .. Len(s) :
          (IF s[i] \in Range(x) THEN <<>> ELSE <<s[i]>>) \in Seq(Nat)
    BY <2>1
  <2>3. seqs \in [1 .. Len(s) -> Seq(Nat)]
    BY Zenon, <1>1, <2>2
  <2> HIDE DEF seqs
  <2> QED
    BY Zenon, <1>1, <2>3, FunctionIsSeq
<1>5. \A i \in 1 .. Len(s) : seqs[i] = IF i > m THEN <<>> ELSE <<s[i]>>
  BY Zenon, <1>1, <1>3
<1>6. Flatten(seqs) = [i \in 1 .. m |-> s[i]]
  <2> HIDE DEF seqs, m
  <2> QED
    BY Zenon, <1>1, <1>4, <1>5, KeepPrefix
<1> QED
  BY Zenon, <1>6 DEF Without

TierOf(ts, t) == IF t \in DOMAIN ts THEN ts[t] ELSE <<>>

LEMMA PaddedIs ==
  ASSUME NEW ts \in Seq(Seq(Nat)), NEW n \in Nat
  PROVE  /\ Padded(ts, n) \in Seq(Seq(Nat))
         /\ Len(Padded(ts, n)) = IF Len(ts) < n THEN n ELSE Len(ts)
         /\ \A t \in DOMAIN Padded(ts, n) : Padded(ts, n)[t] = TierOf(ts, t)
<1> DEFINE m == IF Len(ts) < n THEN n ELSE Len(ts)
<1>1. m \in Nat
  OBVIOUS
<1>2. \A t \in 1 .. m : TierOf(ts, t) \in Seq(Nat)
  BY DEF TierOf
<1>3. Padded(ts, n) = [t \in 1 .. m |-> TierOf(ts, t)]
  BY Zenon DEF Padded, TierOf
<1> HIDE DEF m
<1>4. Padded(ts, n) \in [1 .. m -> Seq(Nat)]
  BY Zenon, <1>2, <1>3
<1>5. Padded(ts, n) \in Seq(Seq(Nat)) /\ Len(Padded(ts, n)) = m
  BY Zenon, <1>1, <1>4, FunctionIsSeq
<1> QED
  BY Zenon, <1>3, <1>5 DEF m

\* FlushInstall: the new table comes first in the first tier.
Prepend(ts, i) == [Padded(ts, 1) EXCEPT ![1] = <<i>> \o @]

LEMMA Prepended ==
  ASSUME NEW ts \in Seq(Seq(Nat)), NEW i \in Nat
  PROVE  /\ Prepend(ts, i) \in Seq(Seq(Nat)) /\ DOMAIN ts \subseteq DOMAIN Prepend(ts, i)
         /\ 1 \in DOMAIN Prepend(ts, i) /\ Prepend(ts, i)[1] = <<i>> \o TierOf(ts, 1)
         /\ \A t \in DOMAIN Prepend(ts, i) :
              t # 1 => t \in DOMAIN ts /\ Prepend(ts, i)[t] = ts[t]
<1> DEFINE pad == Padded(ts, 1)
           new == Prepend(ts, i)
<1>1. /\ pad \in Seq(Seq(Nat)) /\ Len(pad) = IF Len(ts) < 1 THEN 1 ELSE Len(ts)
      /\ \A t \in DOMAIN pad : pad[t] = TierOf(ts, t)
  <2>1. 1 \in Nat
    BY Zenon
  <2> QED
    BY Zenon, <2>1, PaddedIs
<1>2. new = [pad EXCEPT ![1] = <<i>> \o pad[1]]
  BY Zenon DEF Prepend
<1> HIDE DEF pad, new
<1>3. /\ 1 \in DOMAIN pad /\ DOMAIN ts \subseteq DOMAIN pad
      /\ \A t \in DOMAIN pad : t # 1 => t \in DOMAIN ts
  BY <1>1
<1>4. pad[1] \in Seq(Nat)
  BY <1>1, <1>3
<1>5. <<i>> \o pad[1] \in Seq(Nat)
  BY <1>4
<1>6. /\ DOMAIN new = DOMAIN pad /\ new[1] = <<i>> \o pad[1]
      /\ \A t \in DOMAIN pad : t # 1 => new[t] = pad[t]
  BY Zenon, <1>2, <1>3
<1>7. new \in Seq(Seq(Nat))
  <2> DEFINE v == <<i>> \o pad[1]  S == Seq(Nat)
  <2>1. new = [pad EXCEPT ![1] = v] /\ pad \in Seq(S) /\ v \in S /\ 1 \in DOMAIN pad
    BY Zenon, <1>1, <1>2, <1>3, <1>5
  <2> HIDE DEF v, S
  <2>2. new \in Seq(S)
    BY <2>1
  <2> QED
    BY Zenon, <2>2 DEF S
<1>8. \A t \in DOMAIN new : t # 1 => t \in DOMAIN ts /\ new[t] = ts[t]
  BY Zenon, <1>1, <1>3, <1>6 DEF TierOf
<1> QED
  BY Zenon, <1>1, <1>3, <1>6, <1>7, <1>8 DEF new

LEMMA NamedIs ==
  ASSUME NEW ts
  PROVE  \A i : i \in Named(ts) <=> \E t \in DOMAIN ts : \E p \in DOMAIN ts[t] : ts[t][p] = i
<1>1. \A t \in DOMAIN ts : \A i : i \in Range(ts[t]) <=> \E p \in DOMAIN ts[t] : ts[t][p] = i
  BY Zenon DEF Range
<1>2. \A i : i \in Named(ts) <=> \E t \in DOMAIN ts : i \in Range(ts[t])
  BY Zenon DEF Named
<1> QED
  BY Zenon, <1>1, <1>2

\* The tables of new are those of ts, moved back within their tiers, and those of
\* N, of which one may be the first of tier k.
IsMoved(ts, new, N, k, by) ==
  \A t \in DOMAIN new : \A p \in DOMAIN new[t] :
    \/ t = k /\ p = 1 /\ new[t][p] \in N
    \/ t \in DOMAIN ts /\ p - by[t] \in DOMAIN ts[t] /\ ts[t][p - by[t]] = new[t][p]

LEMMA Moved ==
  ASSUME NEW ts, NEW new \in Seq(Seq(Nat)), NEW N, NEW k, NEW by \in [DOMAIN new -> Nat],
         IsMoved(ts, new, N, k, by), Distinct(ts), N \cap Named(ts) = {}
  PROVE  Distinct(new) /\ Named(new) \subseteq Named(ts) \cup N
<1>1. \A t \in DOMAIN ts : \A p \in DOMAIN ts[t] : ts[t][p] \in Named(ts)
  BY Zenon, NamedIs
<1>2. ASSUME NEW t \in DOMAIN new, NEW p \in DOMAIN new[t]
      PROVE  new[t][p] \in Named(ts) \cup N
  <2>1. \/ new[t][p] \in N
        \/ t \in DOMAIN ts /\ p - by[t] \in DOMAIN ts[t] /\ ts[t][p - by[t]] = new[t][p]
    BY Zenon DEF IsMoved
  <2> QED
    BY Zenon, <1>1, <2>1
<1>3. ASSUME NEW i \in Named(new)
      PROVE  i \in Named(ts) \cup N
  <2>0. \A h : h \in Named(new) <=> \E t \in DOMAIN new : \E p \in DOMAIN new[t] : new[t][p] = h
    BY Zenon, NamedIs
  <2>1. PICK t \in DOMAIN new : \E p \in DOMAIN new[t] : new[t][p] = i
    BY Zenon, <1>3, <2>0
  <2> QED
    BY Zenon, <1>2, <2>1
<1>4. ASSUME NEW t \in DOMAIN new, NEW u \in DOMAIN new, NEW p \in DOMAIN new[t],
             NEW q \in DOMAIN new[u], new[t][p] = new[u][q]
      PROVE  t = u /\ p = q
  <2> DEFINE old(v, r) == /\ v \in DOMAIN ts /\ r - by[v] \in DOMAIN ts[v]
                          /\ ts[v][r - by[v]] = new[v][r]
             first(v, r) == v = k /\ r = 1 /\ new[v][r] \in N
  <2>1. (first(t, p) \/ old(t, p)) /\ (first(u, q) \/ old(u, q))
    BY Zenon DEF IsMoved
  <2>2. \A v, r : old(v, r) => new[v][r] \notin N
    BY Zenon, <1>1
  <2>3. CASE first(t, p)
    BY Zenon, <1>4, <2>1, <2>2, <2>3
  <2>4. CASE first(u, q)
    BY Zenon, <1>4, <2>1, <2>2, <2>4
  <2>5. CASE old(t, p) /\ old(u, q)
    <3>1. t = u /\ p - by[t] = q - by[u]
      <4> DEFINE a == p - by[t]  b == q - by[u]
      <4>1. /\ t \in DOMAIN ts /\ u \in DOMAIN ts /\ a \in DOMAIN ts[t] /\ b \in DOMAIN ts[u]
            /\ ts[t][a] = ts[u][b]
        BY Zenon, <1>4, <2>5
      <4> HIDE DEF a, b, old, first
      <4>2. t = u /\ a = b
        BY <4>1 DEF Distinct
      <4> QED
        BY Zenon, <4>2 DEF a, b
    <3>2. p - by[t] = q - by[t]
      BY Zenon, <3>1
    <3>3. p \in Int /\ q \in Int /\ by[t] \in Int
      <4>1. new[t] \in Seq(Nat) /\ new[u] \in Seq(Nat)
        OBVIOUS
      <4>2. p \in Int /\ q \in Int
        BY SMTT(60), <4>1
      <4> QED
        BY <4>2
    <3>4. p = q
      BY <3>2, <3>3
    <3> QED
      BY Zenon, <3>1, <3>4
  <2> QED
    BY Zenon, <2>1, <2>3, <2>4, <2>5
<1> QED
  BY Zenon, <1>3, <1>4 DEF Distinct

\* CompactInstall: the tables of the job leave the end of their tier, and the
\* merged one, if there is one, comes first in the next.
LEMMA CompactedIs ==
  ASSUME tiers \in Seq(Seq(Nat)), Distinct(tiers), IsJob(job), job.tier \in DOMAIN tiers,
         Suffix(job.tables, tiers[job.tier])
  PROVE  /\ Compacted \in Seq(Seq(Nat)) /\ DOMAIN tiers \subseteq DOMAIN Compacted
         /\ job.tier + 1 \in DOMAIN Compacted
         /\ Compacted[job.tier] = [p \in 1 .. Len(tiers[job.tier]) - Len(job.tables) |->
                                     tiers[job.tier][p]]
         /\ Compacted[job.tier + 1] =
              (IF job.out = Empty THEN <<>> ELSE <<job.id>>) \o TierOf(tiers, job.tier + 1)
         /\ \A t \in DOMAIN Compacted :
              t \notin {job.tier, job.tier + 1} => t \in DOMAIN tiers /\ Compacted[t] = tiers[t]
<1> DEFINE j == job.tier
           pad == Padded(tiers, j + 1)
           new == IF job.out = Empty THEN <<>> ELSE <<job.id>>
           rest == Without(pad[j], Range(job.tables))
           pre == [p \in 1 .. Len(tiers[j]) - Len(job.tables) |-> tiers[j][p]]
<1>0. j \in Nat \ {0} /\ j + 1 \in Nat /\ tiers[j] \in Seq(Nat) /\ j # j + 1
  OBVIOUS
<1>1. /\ pad \in Seq(Seq(Nat)) /\ Len(pad) = IF Len(tiers) < j + 1 THEN j + 1 ELSE Len(tiers)
      /\ \A t \in DOMAIN pad : pad[t] = TierOf(tiers, t)
  BY Zenon, <1>0, PaddedIs
<1>2. new \in Seq(Nat)
  <2>1. job.id \in Nat
    BY Zenon DEF IsJob
  <2> QED
    BY <2>1
<1>3. Compacted = [[pad EXCEPT ![j] = rest] EXCEPT ![j + 1] = new \o pad[j + 1]]
  <2>1. Compacted = [pad EXCEPT ![j] = Without(@, Range(job.tables)), ![j + 1] = new \o @]
    BY Zenon DEF Compacted
  <2> HIDE DEF new, pad
  <2>2. [pad EXCEPT ![j] = Without(pad[j], Range(job.tables))][j + 1] = pad[j + 1]
    BY <1>0, <1>1
  <2> QED
    BY Zenon, <2>1, <2>2
<1> HIDE DEF pad, new
<1>4. /\ j \in DOMAIN pad /\ j + 1 \in DOMAIN pad /\ DOMAIN tiers \subseteq DOMAIN pad
      /\ \A t \in DOMAIN pad : t \notin {j, j + 1} => t \in DOMAIN tiers
  <2> DEFINE l == Len(tiers)
  <2>1. l \in Nat /\ DOMAIN tiers = 1 .. l /\ j \in 1 .. l
    OBVIOUS
  <2>2. DOMAIN pad = 1 .. IF l < j + 1 THEN j + 1 ELSE l
    <3>1. DOMAIN pad = 1 .. Len(pad)
      BY <1>1
    <3> QED
      BY Zenon, <1>1, <3>1
  <2> HIDE DEF l
  <2> QED
    BY <2>1, <2>2
<1>5. pad[j] = tiers[j] /\ pad[j + 1] = TierOf(tiers, j + 1) /\ pad[j + 1] \in Seq(Nat)
  BY <1>1, <1>4 DEF TierOf
<1>6. rest = pre
  <2>1. job.tables \in Seq(Nat)
    BY Zenon DEF IsJob
  <2>2. \A p, q \in DOMAIN tiers[j] : tiers[j][p] = tiers[j][q] => p = q
    BY Zenon DEF Distinct
  <2> QED
    BY Zenon, <1>0, <1>5, <2>1, <2>2, WithoutSuffix
<1>7. pre \in Seq(Nat)
  <2>1. job.tables \in Seq(Nat)
    BY Zenon DEF IsJob
  <2>2. Len(tiers[j]) - Len(job.tables) \in Nat
    BY <1>0, <2>1 DEF Suffix
  <2>3. pre \in [1 .. Len(tiers[j]) - Len(job.tables) -> Nat]
    <3>1. \A p \in 1 .. Len(tiers[j]) - Len(job.tables) : tiers[j][p] \in Nat
      <4> DEFINE a == tiers[j]  b == job.tables
      <4>1. a \in Seq(Nat) /\ b \in Seq(Nat)
        BY Zenon, <1>0, <2>1
      <4> HIDE DEF a, b
      <4>2. \A p \in 1 .. Len(a) : a[p] \in Nat
        BY <4>1
      <4>3. Len(a) \in Nat /\ Len(b) \in Nat
        BY <4>1
      <4>4. \A p \in 1 .. Len(a) - Len(b) : p \in 1 .. Len(a)
        BY <4>3
      <4> QED
        BY Zenon, <4>2, <4>4 DEF a, b
    <3> QED
      BY Zenon, <3>1
  <2> HIDE DEF pre
  <2> QED
    BY Zenon, <2>2, <2>3, FunctionIsSeq
<1>8. new \o pad[j + 1] \in Seq(Nat)
  BY <1>2, <1>5
<1> DEFINE one == [pad EXCEPT ![j] = rest]
<1> HIDE DEF rest, pre
<1>9. one \in Seq(Seq(Nat)) /\ DOMAIN one = DOMAIN pad
  BY <1>1, <1>4, <1>6, <1>7
<1>10. /\ one[j] = rest
       /\ \A t \in DOMAIN pad : t # j => one[t] = pad[t]
  BY Zenon, <1>4
<1>11. Compacted = [one EXCEPT ![j + 1] = new \o pad[j + 1]]
  BY Zenon, <1>3
<1> HIDE DEF one, j
<1>12. Compacted \in Seq(Seq(Nat)) /\ DOMAIN Compacted = DOMAIN pad
  BY Zenon, <1>4, <1>8, <1>9, <1>11, ExceptIsSeq
<1>13. /\ Compacted[j + 1] = new \o pad[j + 1]
       /\ \A t \in DOMAIN pad : t # j + 1 => Compacted[t] = one[t]
  BY Zenon, <1>4, <1>9, <1>11
<1>14. Compacted[j] = pre /\ Compacted[j + 1] = new \o TierOf(tiers, j + 1)
  BY Zenon, <1>0, <1>4, <1>5, <1>6, <1>10, <1>13
<1>15. ASSUME NEW t \in DOMAIN Compacted, t \notin {j, j + 1}
       PROVE  t \in DOMAIN tiers /\ Compacted[t] = tiers[t]
  BY Zenon, <1>1, <1>4, <1>10, <1>12, <1>13, <1>15 DEF TierOf
<1> QED
  BY Zenon, <1>4, <1>12, <1>14, <1>15 DEF j, pre, new

----------------------------------------------------------------------------
(* IdInv: the tables are in one place each, and their files exist.          *)

LEMMA InitId == Init => IdInv
<1> SUFFICES ASSUME Init
             PROVE  IdInv
  BY Zenon
<1>1. TypeInv
  <2>1. NoLocal \in Local
    BY DEF NoLocal, Local
  <2>2. loc \in [Client -> Local] /\ pc \in [Client -> Where]
    BY Zenon, <2>1 DEF Init, Where
  <2> QED
    BY <2>2 DEF Init, TypeInv, Manifest
<1>2. Named(<<>>) = {} /\ Distinct(<<>>)
  BY DEF Named, Distinct
<1>3. TiersInv
  BY Zenon, <1>2 DEF Init, TiersInv
<1>4. FlushInv
  BY Zenon DEF Init, FlushInv, Building
<1>5. JobInv
  BY Zenon DEF Init, JobInv
<1> QED
  BY Zenon, <1>1, <1>3, <1>4, <1>5 DEF IdInv

\* A step of client c that leaves the tiers, the manifest and the job alone, and
\* removes only files of obsolete tables.
LEMMA LocalStep ==
  ASSUME IdInv, NEW c \in Client, pc[c] # "compact",
         UNCHANGED <<manifest, next_id, tiers, job>>, gen' \in Nat,
         engine \in {"up", "closing"}, engine' \in {"up", "closing"},
         obsolete' \subseteq obsolete,
         \A i \in DOMAIN files : i \notin obsolete => i \in DOMAIN files',
         NEW l \in Where, NEW r \in Local,
         pc' = [pc EXCEPT ![c] = l], loc' = [loc EXCEPT ![c] = r],
         l \in {"header", "unlink", "install"} => Building(c) /\ r.id = loc[c].id
  PROVE  IdInv'
<1>1. pc \in [Client -> Where] /\ loc \in [Client -> Local]
  BY Zenon DEF IdInv, TypeInv
<1>2. /\ \A d \in Client : pc'[d] = IF d = c THEN l ELSE pc[d]
      /\ \A d \in Client : loc'[d] = IF d = c THEN r ELSE loc[d]
  BY Zenon, <1>1
<1>3. pc' \in [Client -> Where] /\ loc' \in [Client -> Local]
  BY Zenon, <1>1
<1>4. \A d \in Client : Building(d)' => Building(d) /\ loc'[d].id = loc[d].id
  BY Zenon, <1>2 DEF Building
<1>5. TypeInv'
  BY Zenon, <1>3 DEF IdInv, TypeInv
<1>6. TiersInv'
  BY Zenon DEF IdInv, TiersInv
<1>7. \A i : Fresh(i) => Fresh(i)'
  BY Zenon DEF Fresh
<1>8. FlushInv'
  BY Zenon, <1>4, <1>7 DEF IdInv, FlushInv
<1>9. JobInv'
  <2>1. job.by \in Client /\ pc[job.by] = "compact" => pc'[job.by] = "compact"
    BY Zenon, <1>2
  <2> QED
    BY Zenon, <1>4, <1>7, <2>1 DEF IdInv, JobInv
<1> QED
  BY Zenon, <1>5, <1>6, <1>8, <1>9 DEF IdInv

\* What a client does on its own.
LEMMA TakesLocalStep ==
  ASSUME IdInv, NEW c \in Client, NEW l \in Where, NEW r \in Local,
         pc' = [pc EXCEPT ![c] = l], loc' = [loc EXCEPT ![c] = r],
         pc[c] # "compact", l \notin {"header", "unlink", "install"},
         gen' \in Nat, engine \in {"up", "closing"}, engine' \in {"up", "closing"},
         UNCHANGED <<manifest, files, next_id, tiers, obsolete, job>>
  PROVE  IdInv'
BY Zenon, LocalStep

LEMMA Locals ==
  /\ NoLocal \in Local
  /\ \A k \in Key \cup {Absent} : [NoLocal EXCEPT !.key = k] \in Local
  /\ \A g \in Nat : [NoLocal EXCEPT !.gen = g] \in Local
<1>1. NoLocal \in Local
  BY DEF NoLocal, Local
<1>2. ASSUME NEW k \in Key \cup {Absent}
      PROVE  [NoLocal EXCEPT !.key = k] \in Local
  BY Zenon, <1>1 DEF Local
<1>3. ASSUME NEW g \in Nat
      PROVE  [NoLocal EXCEPT !.gen = g] \in Local
  BY Zenon, <1>1 DEF Local
<1> QED
  BY Zenon, <1>1, <1>2, <1>3

\* Where Return and Goto leave a client.
LEMMA MovesTo ==
  ASSUME IdInv, NEW c \in Client, NEW L \in SUBSET Where,
         Return(c) \/ \E l \in L : Goto(c, l)
  PROVE  \E l \in Where, r \in Local :
           pc' = [pc EXCEPT ![c] = l] /\ loc' = [loc EXCEPT ![c] = r] /\ l \in L \cup {"idle"}
<1>1. NoLocal \in Local /\ "idle" \in Where
  BY DEF NoLocal, Local, Where
<1>2. loc \in [Client -> Local]
  BY Zenon DEF IdInv, TypeInv
<1>3. loc[c] \in Local /\ loc = [loc EXCEPT ![c] = loc[c]]
  BY Zenon, <1>2
<1> QED
  BY Zenon, <1>1, <1>3 DEF Return, Goto

LEMMA GetId ==
  ASSUME IdInv, NEW c \in Client, NEW k \in Key, NEW op \in {"Get", "Delete"}, Get(c, op, k)
  PROVE  IdInv'
<1> DEFINE r == [NoLocal EXCEPT !.op = op, !.key = k, !.gen = gen, !.tables = Tables]
<1>1. Tables \in Seq(Nat)
  BY Zenon, FlattenRange DEF IdInv, TypeInv, Tables
<1>2. r \in Local /\ "lookup" \in Where
  BY Zenon, <1>1 DEF NoLocal, Local, IdInv, TypeInv, Where
<1>3. pc' = [pc EXCEPT ![c] = "lookup"] /\ loc' = [loc EXCEPT ![c] = r]
  BY Zenon DEF Get
<1> HIDE DEF r
<1>4. /\ UNCHANGED <<manifest, files, next_id, tiers, obsolete, job, gen, engine>>
      /\ engine = "up" /\ pc[c] = "idle"
  BY Zenon DEF Get, disk, memory
<1>5. gen \in Nat
  BY Zenon DEF IdInv, TypeInv
<1> QED
  BY Zenon, <1>2, <1>3, <1>4, <1>5, TakesLocalStep

LEMMA WriteId ==
  ASSUME IdInv, NEW c \in Client, NEW k, NEW e, Write(c, k, e), pc[c] # "compact",
         engine \in {"up", "closing"}
  PROVE  IdInv'
<1>1. Return(c) \/ Goto(c, "swap")
  BY Zenon DEF Write
<1>2. PICK l \in Where, r \in Local :
        /\ pc' = [pc EXCEPT ![c] = l] /\ loc' = [loc EXCEPT ![c] = r]
        /\ l \in {"swap"} \cup {"idle"}
  <2>1. {"swap"} \in SUBSET Where
    BY Zenon DEF Where
  <2> QED
    BY Zenon, <1>1, <2>1, MovesTo
<1>3. UNCHANGED <<manifest, files, next_id, tiers, obsolete, job, gen, engine>>
  BY Zenon DEF Write
<1>4. gen \in Nat
  BY Zenon DEF IdInv, TypeInv
<1> QED
  BY Zenon, <1>2, <1>3, <1>4, TakesLocalStep

LEMMA FlushLocalId ==
  ASSUME IdInv, NEW c \in Client, FlushSwap(c) \/ FlushEmpty(c)
  PROVE  IdInv'
<1>1. gen \in Nat
  BY Zenon DEF IdInv, TypeInv
<1>2. CASE FlushSwap(c)
  <2> DEFINE l == IF mems[gen] = Empty THEN "empty" ELSE "build"
             r == [NoLocal EXCEPT !.gen = gen]
  <2>1. l \in Where /\ l \notin {"header", "unlink", "install"}
    BY Zenon DEF Where
  <2>4. r \in Local
    BY Zenon, <1>1, Locals
  <2>2. pc' = [pc EXCEPT ![c] = l] /\ loc' = [loc EXCEPT ![c] = r]
    BY Zenon, <1>2 DEF FlushSwap
  <2>3. /\ UNCHANGED <<manifest, files, next_id, tiers, obsolete, job, engine>>
        /\ engine \in {"up", "closing"} /\ pc[c] = "swap" /\ gen' = gen + 1
    BY Zenon, <1>2 DEF FlushSwap, Up
  <2>5. gen' \in Nat
    BY <1>1, <2>3
  <2> HIDE DEF l, r
  <2> QED
    BY Zenon, <2>1, <2>2, <2>3, <2>4, <2>5, TakesLocalStep
<1>3. CASE FlushEmpty(c)
  <2>1. PICK l \in Where, r \in Local :
          /\ pc' = [pc EXCEPT ![c] = l] /\ loc' = [loc EXCEPT ![c] = r]
          /\ l \in {} \cup {"idle"}
    <3>1. Return(c) /\ {} \in SUBSET Where
      BY Zenon, <1>3 DEF FlushEmpty
    <3> QED
      BY Zenon, <3>1, MovesTo
  <2>2. /\ UNCHANGED <<manifest, files, next_id, tiers, obsolete, job, gen, engine>>
        /\ engine \in {"up", "closing"} /\ pc[c] = "empty"
    BY Zenon, <1>3 DEF FlushEmpty, Up, memory
  <2> QED
    BY Zenon, <1>1, <2>1, <2>2, TakesLocalStep
<1> QED
  BY Zenon, <1>2, <1>3

LEMMA FlushHeaderId ==
  ASSUME IdInv, NEW c \in Client, FlushHeader(c) \/ FlushUnlink(c)
  PROVE  IdInv'
<1>1. gen \in Nat /\ loc \in [Client -> Local]
  BY Zenon DEF IdInv, TypeInv
<1>2. PICK l \in {"unlink", "install"} : Goto(c, l)
  BY Zenon DEF FlushHeader, FlushUnlink
<1>3. /\ UNCHANGED <<manifest, next_id, tiers, obsolete, job, gen, engine>>
      /\ engine \in {"up", "closing"} /\ pc[c] \in {"header", "unlink"}
  BY Zenon DEF FlushHeader, FlushUnlink, Up, memory
<1>4. \A i \in DOMAIN files : i \in DOMAIN files'
  BY Zenon DEF FlushHeader, FlushUnlink, WriteHeader, Set
<1>5. l \in Where /\ loc[c] \in Local /\ loc' = [loc EXCEPT ![c] = loc[c]]
  BY Zenon, <1>1, <1>2 DEF Where, Goto
<1>6. pc' = [pc EXCEPT ![c] = l]
  BY Zenon, <1>2 DEF Goto
<1>7. Building(c) /\ pc[c] # "compact"
  BY Zenon, <1>3 DEF Building
<1> QED
  BY Zenon, <1>1, <1>3, <1>4, <1>5, <1>6, <1>7, LocalStep

LEMMA GetLookupId ==
  ASSUME IdInv, NEW c \in Client, GetLookup(c)
  PROVE  IdInv'
<1>1. gen \in Nat /\ loc \in [Client -> Local]
  BY Zenon DEF IdInv, TypeInv
<1>2. PICK l \in {"idle", "tombstone"}, r \in Local :
        pc' = [pc EXCEPT ![c] = l] /\ loc' = [loc EXCEPT ![c] = r]
  <2>1. loc[c].key \in Key \cup {Absent}
    BY Zenon, <1>1 DEF Local
  <2>2. NoLocal \in Local /\ [NoLocal EXCEPT !.key = loc[c].key] \in Local
    BY Zenon, <2>1, Locals
  <2> QED
    BY Zenon, <2>2 DEF GetLookup, Return
<1>3. /\ UNCHANGED <<manifest, next_id, tiers, job, gen, engine>>
      /\ engine \in {"up", "closing"} /\ pc[c] = "lookup" /\ ReleaseTables(obsolete)
  BY Zenon DEF GetLookup, Up
<1>4. obsolete' \subseteq obsolete /\ \A i \in DOMAIN files : i \notin obsolete => i \in DOMAIN files'
  BY Zenon, <1>3 DEF ReleaseTables, Drop
<1>5. l \in Where
  BY Zenon DEF Where
<1> QED
  BY Zenon, <1>1, <1>2, <1>3, <1>4, <1>5, LocalStep
LEMMA NamedNat ==
  ASSUME NEW ts \in Seq(Seq(Nat))
  PROVE  Named(ts) \subseteq Nat
<1>1. \A t \in DOMAIN ts : ts[t] \in Seq(Nat)
  OBVIOUS
<1>2. \A t \in DOMAIN ts : \A p \in DOMAIN ts[t] : ts[t][p] \in Nat
  BY <1>1
<1>3. ASSUME NEW i \in Named(ts)
      PROVE  i \in Nat
  <2>1. PICK t \in DOMAIN ts : \E p \in DOMAIN ts[t] : ts[t][p] = i
    BY Zenon, <1>3, NamedIs
  <2> QED
    BY Zenon, <1>2, <2>1
<1> QED
  BY Zenon, <1>3

LEMMA FlushBuildId ==
  ASSUME IdInv, NEW c \in Client, FlushBuild(c)
  PROVE  IdInv'
<1>1. /\ gen \in Nat /\ next_id \in Nat /\ loc \in [Client -> Local] /\ pc \in [Client -> Where]
      /\ tiers \in Seq(Seq(Nat))
  BY Zenon DEF IdInv, TypeInv
<1>2. /\ UNCHANGED <<manifest, tiers, obsolete, job, gen, engine>> /\ next_id' = next_id + 1
      /\ engine \in {"up", "closing"} /\ pc[c] = "build" /\ pc' = [pc EXCEPT ![c] = "header"]
  BY Zenon DEF FlushBuild, Up
<1>3. DOMAIN files' = DOMAIN files \cup {next_id}
  BY Zenon DEF FlushBuild, CreateTable, Set
<1>4. /\ loc' \in [Client -> Local] /\ loc'[c].id = next_id
      /\ \A d \in Client : d # c => loc'[d] = loc[d]
  <2>1. loc' = [loc EXCEPT ![c] = [[@ EXCEPT !.id = next_id] EXCEPT
                                     !.fresh = next_id \notin DOMAIN files]]
    BY Zenon, <1>1 DEF FlushBuild
  <2> DEFINE l == [[loc[c] EXCEPT !.id = next_id] EXCEPT !.fresh = next_id \notin DOMAIN files]
  <2>2. l \in Local /\ l.id = next_id
    <3>1. loc[c] \in Local /\ (next_id \notin DOMAIN files) \in BOOLEAN
      BY Zenon, <1>1
    <3> QED
      BY Zenon, <1>1, <3>1 DEF Local
  <2>3. loc' = [loc EXCEPT ![c] = l]
    BY Zenon, <2>1
  <2> HIDE DEF l
  <2> QED
    BY Zenon, <1>1, <2>2, <2>3
<1>5. pc' \in [Client -> Where] /\ \A d \in Client : pc'[d] = IF d = c THEN "header" ELSE pc[d]
  BY Zenon, <1>1, <1>2 DEF Where
<1>6. next_id \notin Named(tiers) /\ next_id \notin obsolete
  BY <1>1 DEF IdInv, TiersInv
<1>0. PICK n \in Nat : n = next_id
  BY Zenon, <1>1
<1>7. \A i \in Nat : Fresh(i) => Fresh(i)' /\ i # n
  BY <1>0, <1>2, <1>3 DEF Fresh
<1>8. Fresh(n)'
  BY <1>0, <1>2, <1>3, <1>6 DEF Fresh
<1>9. TypeInv'
  BY <1>1, <1>2, <1>4, <1>5 DEF IdInv, TypeInv
<1>10. TiersInv'
  <2>1. \A i \in Named(tiers) : i < next_id + 1
    <3>1. \A i \in Named(tiers) : i \in Nat /\ i < next_id
      BY Zenon, <1>1, NamedNat DEF IdInv, TiersInv
    <3> QED
      BY <1>1, <3>1
  <2>2. \A i \in obsolete : i < next_id + 1
    BY <1>1 DEF IdInv, TiersInv, TypeInv
  <2> QED
    BY Zenon, <1>2, <1>3, <2>1, <2>2 DEF IdInv, TiersInv
<1>11. \A d \in Client : d # c /\ Building(d)' => Building(d) /\ loc'[d].id = loc[d].id
  BY Zenon, <1>4, <1>5 DEF Building
<1>12. \A d \in Client : loc[d].id \in Nat /\ (Building(d) => Fresh(loc[d].id))
  BY Zenon, <1>1 DEF IdInv, FlushInv, Local
<1>13. FlushInv'
  <2>1. \A d \in Client : Building(d)' => Fresh(loc[d].id)'
    BY Zenon, <1>0, <1>4, <1>7, <1>8, <1>11, <1>12
  <2>2. \A d \in Client : d # c /\ Building(d)' => loc'[d].id # loc'[c].id
    BY Zenon, <1>0, <1>4, <1>7, <1>11, <1>12
  <2> QED
    BY Zenon, <1>4, <1>11, <2>1, <2>2 DEF IdInv, FlushInv
<1>14. JobInv'
  <2>1. job.by \in Client /\ pc[job.by] = "compact" => pc'[job.by] = "compact"
    BY Zenon, <1>2, <1>5
  <2>2. job # NoJob => job.id \in Nat
    BY Zenon DEF IdInv, TypeInv, IsJob
  <2> QED
    BY Zenon, <1>0, <1>2, <1>4, <1>7, <1>11, <2>1, <2>2 DEF IdInv, JobInv
<1> QED
  BY Zenon, <1>9, <1>10, <1>13, <1>14 DEF IdInv

\* The tiers after FlushInstall.
LEMMA PrependMoved ==
  ASSUME NEW ts \in Seq(Seq(Nat)), NEW i \in Nat, i \notin Named(ts), Distinct(ts)
  PROVE  Distinct(Prepend(ts, i)) /\ Named(Prepend(ts, i)) \subseteq Named(ts) \cup {i}
<1> DEFINE new == Prepend(ts, i)
           by == [t \in DOMAIN new |-> IF t = 1 THEN 1 ELSE 0]
<1>1. /\ new \in Seq(Seq(Nat)) /\ DOMAIN ts \subseteq DOMAIN new
      /\ 1 \in DOMAIN new /\ new[1] = <<i>> \o TierOf(ts, 1)
      /\ \A t \in DOMAIN new : t # 1 => t \in DOMAIN ts /\ new[t] = ts[t]
  BY Zenon, Prepended
<1>2. TierOf(ts, 1) \in Seq(Nat)
  BY DEF TierOf
<1> HIDE DEF new
<1>3. ASSUME NEW t \in DOMAIN new, NEW p \in DOMAIN new[t]
      PROVE  \/ t = 1 /\ p = 1 /\ new[t][p] \in {i}
             \/ t \in DOMAIN ts /\ p - by[t] \in DOMAIN ts[t] /\ ts[t][p - by[t]] = new[t][p]
  <2>1. CASE t # 1
    <3>1. by[t] = 0 /\ t \in DOMAIN ts /\ new[t] = ts[t]
      BY Zenon, <1>1, <2>1
    <3>2. p \in Nat
      BY <1>1
    <3>3. p - by[t] = p
      BY <3>1, <3>2
    <3> QED
      BY Zenon, <3>1, <3>3
  <2>2. CASE t = 1
    <3> DEFINE u == TierOf(ts, 1)
    <3>1. by[t] = 1 /\ new[t] = <<i>> \o u
      BY Zenon, <1>1, <2>2
    <3>2. p \in DOMAIN (<<i>> \o u)
      BY Zenon, <3>1
    <3>3. \/ p = 1 /\ (<<i>> \o u)[p] = i
          \/ p - 1 \in DOMAIN u /\ (<<i>> \o u)[p] = u[p - 1]
      <4>1. u \in Seq(Nat)
        BY Zenon, <1>2
      <4> HIDE DEF u
      <4> QED
        BY <3>2, <4>1
    <3>4. DOMAIN <<>> = {}
      OBVIOUS
    <3>5. \A q : q \in DOMAIN u => 1 \in DOMAIN ts /\ u = ts[1]
      BY Zenon, <3>4 DEF TierOf
    <3> QED
      BY Zenon, <2>2, <3>1, <3>3, <3>5
  <2> QED
    BY Zenon, <2>1, <2>2
<1>4. IsMoved(ts, new, {i}, 1, by)
  BY Zenon, <1>3 DEF IsMoved
<1>5. by \in [DOMAIN new -> Nat]
  BY Zenon
<1> HIDE DEF by
<1>6. {i} \cap Named(ts) = {}
  BY Zenon
<1> QED
  BY Zenon, <1>1, <1>4, <1>5, <1>6, Moved DEF new

LEMMA PrependSuffix ==
  ASSUME NEW ts \in Seq(Seq(Nat)), NEW i \in Nat, NEW t \in DOMAIN ts, NEW x \in Seq(Nat),
         Suffix(x, ts[t])
  PROVE  t \in DOMAIN Prepend(ts, i) /\ Suffix(x, Prepend(ts, i)[t])
<1>1. /\ t \in DOMAIN Prepend(ts, i) /\ Prepend(ts, i)[1] = <<i>> \o TierOf(ts, 1)
      /\ t # 1 => Prepend(ts, i)[t] = ts[t]
  BY Zenon, Prepended
<1>2. CASE t # 1
  BY Zenon, <1>1, <1>2
<1>3. CASE t = 1
  <2> DEFINE u == ts[t]
  <2>1. Prepend(ts, i)[t] = <<i>> \o u
    BY Zenon, <1>1, <1>3 DEF TierOf
  <2>2. u \in Seq(Nat) /\ Suffix(x, u)
    OBVIOUS
  <2> HIDE DEF u
  <2>3. Len(<<i>> \o u) = Len(u) + 1 /\ Len(u) \in Nat /\ Len(x) \in Nat
    BY <2>2
  <2>4. \A p \in 1 .. Len(u) : (<<i>> \o u)[p + 1] = u[p]
    BY <2>2
  <2>5. Suffix(x, <<i>> \o u)
    <3>1. Len(x) <= Len(u) + 1
      BY <2>2, <2>3 DEF Suffix
    <3>2. ASSUME NEW p \in 1 .. Len(x)
          PROVE  x[p] = (<<i>> \o u)[(Len(u) + 1) - Len(x) + p]
      <4>0. Len(x) <= Len(u) /\ \A j \in 1 .. Len(x) : x[j] = u[Len(u) - Len(x) + j]
        BY Zenon, <2>2 DEF Suffix
      <4>1. x[p] = u[Len(u) - Len(x) + p] /\ Len(u) - Len(x) + p \in 1 .. Len(u)
        <5>1. Len(u) - Len(x) + p \in 1 .. Len(u)
          BY <2>3, <4>0
        <5> QED
          BY Zenon, <4>0, <5>1
      <4>2. (Len(u) + 1) - Len(x) + p = (Len(u) - Len(x) + p) + 1
        BY <2>3
      <4> QED
        BY Zenon, <2>4, <4>1, <4>2
    <3> QED
      BY Zenon, <2>3, <3>1, <3>2 DEF Suffix
  <2> QED
    BY Zenon, <1>1, <2>1, <2>5
<1> QED
  BY Zenon, <1>2, <1>3

\* PersistManifest, given what the tiers to write satisfy.
LEMMA Persisted ==
  ASSUME IdInv, PersistManifest, tiers' \in Seq(Seq(Nat)), Distinct(tiers'),
         \A i \in Named(tiers') : i < next_id
  PROVE  /\ manifest' \in Manifest /\ Distinct(manifest'.tiers)
         /\ \A i \in Named(manifest'.tiers) : i < manifest'.next_id
<1>1. next_id \in Nat
  BY Zenon DEF IdInv, TypeInv
<1>2. CASE Fits(tiers')
  <2>1. manifest' = [next_id |-> next_id, tiers |-> tiers']
    BY Zenon, <1>2 DEF PersistManifest
  <2>2. manifest'.tiers = tiers' /\ manifest'.next_id = next_id /\ manifest' \in Manifest
    BY Zenon, <1>1, <2>1 DEF Manifest
  <2> QED
    BY Zenon, <2>2
<1>3. CASE ~ Fits(tiers')
  BY Zenon, <1>3 DEF PersistManifest, IdInv, TypeInv, TiersInv
<1> QED
  BY Zenon, <1>2, <1>3

LEMMA FlushInstallId ==
  ASSUME IdInv, NEW c \in Client, FlushInstall(c)
  PROVE  IdInv'
<1>1. /\ gen \in Nat /\ next_id \in Nat /\ loc \in [Client -> Local] /\ pc \in [Client -> Where]
      /\ tiers \in Seq(Seq(Nat)) /\ Distinct(tiers)
  BY Zenon DEF IdInv, TypeInv, TiersInv
<1>2. /\ UNCHANGED <<files, next_id, obsolete, job, gen, engine>>
      /\ engine \in {"up", "closing"} /\ pc[c] = "install" /\ PersistManifest
      /\ Goto(c, "help") \/ Return(c)
  BY Zenon DEF FlushInstall, Up
<1>3. PICK l \in Where, r \in Local :
        /\ pc' = [pc EXCEPT ![c] = l] /\ loc' = [loc EXCEPT ![c] = r]
        /\ l \in {"help"} \cup {"idle"}
  <2>1. {"help"} \in SUBSET Where
    BY Zenon DEF Where
  <2> QED
    BY Zenon, <1>2, <2>1, MovesTo
<1>4. PICK i \in Nat : i = loc[c].id
  BY Zenon, <1>1 DEF Local
<1>5. tiers' = Prepend(tiers, i)
  BY Zenon, <1>4 DEF FlushInstall, Prepend
<1>6. Fresh(i) /\ \A d \in Client : Building(d) /\ loc[d].id = i => d = c
  <2>1. Building(c)
    BY Zenon, <1>2 DEF Building
  <2> QED
    BY Zenon, <1>4, <2>1 DEF IdInv, FlushInv
<1>7. /\ tiers' \in Seq(Seq(Nat)) /\ DOMAIN tiers \subseteq DOMAIN tiers'
      /\ Distinct(tiers') /\ Named(tiers') \subseteq Named(tiers) \cup {i}
  BY Zenon, <1>1, <1>4, <1>5, <1>6, Prepended, PrependMoved DEF Fresh
<1>8. \A j \in Named(tiers') : j < next_id /\ j \in DOMAIN files /\ j \notin obsolete
  BY Zenon, <1>6, <1>7 DEF Fresh, IdInv, TiersInv
<1>9. /\ manifest' \in Manifest /\ Distinct(manifest'.tiers)
      /\ \A j \in Named(manifest'.tiers) : j < manifest'.next_id
  BY Zenon, <1>2, <1>7, <1>8, Persisted
<1>10. /\ pc' \in [Client -> Where] /\ loc' \in [Client -> Local]
       /\ \A d \in Client : pc'[d] = IF d = c THEN l ELSE pc[d]
       /\ \A d \in Client : d # c => loc'[d] = loc[d]
  BY Zenon, <1>1, <1>3
<1>11. TypeInv'
  BY Zenon, <1>2, <1>7, <1>9, <1>10 DEF IdInv, TypeInv
<1>12. TiersInv'
  BY Zenon, <1>2, <1>7, <1>8, <1>9 DEF IdInv, TiersInv
<1>13. \A d \in Client : Building(d)' => d # c /\ Building(d) /\ loc'[d].id = loc[d].id
  <2>1. l \notin {"header", "unlink", "install"}
    BY Zenon, <1>3
  <2> QED
    BY Zenon, <1>10, <2>1 DEF Building
<1>14. \A j : Fresh(j) /\ j # i => Fresh(j)'
  BY Zenon, <1>2, <1>7 DEF Fresh
<1>15. FlushInv'
  <2>1. \A d \in Client : Building(d)' => Fresh(loc[d].id)'
    BY Zenon, <1>6, <1>13, <1>14 DEF IdInv, FlushInv
  <2> QED
    BY Zenon, <1>13, <2>1 DEF IdInv, FlushInv
<1>16. JobInv'
  <2> SUFFICES ASSUME job # NoJob
               PROVE  JobInv'
    BY Zenon, <1>2 DEF JobInv
  <2>1. job.by \in Client => pc'[job.by] = "compact"
    BY Zenon, <1>2, <1>10 DEF IdInv, JobInv
  <2>2. job.tier \in DOMAIN tiers /\ Suffix(job.tables, tiers[job.tier]) /\ job.tables \in Seq(Nat)
    BY Zenon DEF IdInv, JobInv, TypeInv, IsJob
  <2>3. job.tier \in DOMAIN tiers' /\ Suffix(job.tables, tiers'[job.tier])
    BY Zenon, <1>1, <1>4, <1>5, <2>2, PrependSuffix
  <2>4. job.out # Empty => Fresh(job.id) /\ \A d \in Client : Building(d) => loc[d].id # job.id
    BY Zenon DEF IdInv, JobInv
  <2>5. job.out # Empty => job.id # i
    <3>1. Building(c)
      BY Zenon, <1>2 DEF Building
    <3> QED
      BY Zenon, <1>4, <2>4, <3>1
  <2>6. job.out # Empty => Fresh(job.id)' /\ \A d \in Client : Building(d)' => loc'[d].id # job.id
    BY Zenon, <1>2, <1>13, <1>14, <2>4, <2>5
  <2> QED
    BY Zenon, <1>2, <2>1, <2>3, <2>6 DEF JobInv
<1> QED
  BY Zenon, <1>11, <1>12, <1>15, <1>16 DEF IdInv

----------------------------------------------------------------------------
(* Compaction. *)

LEMMA NeedsLeast ==
  ASSUME IdInv, NeedsCompaction # {}
  PROVE  (CHOOSE t \in NeedsCompaction : \A u \in NeedsCompaction : t <= u) \in DOMAIN tiers
<1>1. tiers \in Seq(Seq(Nat))
  BY Zenon DEF IdInv, TypeInv
<1>2. NeedsCompaction \subseteq DOMAIN tiers
  BY Zenon DEF NeedsCompaction
<1>3. NeedsCompaction \in SUBSET Nat
  BY <1>1, <1>2
<1>4. \E t \in NeedsCompaction : \A u \in NeedsCompaction : t <= u
  BY Zenon, <1>3, Least
<1> QED
  BY Zenon, <1>2, <1>4

\* A job takes all tables of its tier.
LEMMA Started ==
  ASSUME IdInv, NEW p \in Client \cup {Background}, NeedsCompaction # {}, StartJob(p)
  PROVE  /\ IsJob(job') /\ job'.by = p /\ job'.out = Empty /\ job'.stage = "merge"
         /\ job'.tier \in DOMAIN tiers /\ job'.tables = tiers[job'.tier]
         /\ Suffix(job'.tables, tiers[job'.tier])
         /\ job'.bottommost = (\A u \in DOMAIN tiers : u > job'.tier => tiers[u] = <<>>)
<1> DEFINE t == CHOOSE t \in NeedsCompaction : \A u \in NeedsCompaction : t <= u
           b == \A u \in DOMAIN tiers : u > t => tiers[u] = <<>>
<1>1. t \in DOMAIN tiers
  BY Zenon, NeedsLeast
<1>2. tiers[t] \in Seq(Nat)
  BY <1>1 DEF IdInv, TypeInv
<1>3. job' = [by |-> p, stage |-> "merge", tier |-> t, tables |-> tiers[t],
              bottommost |-> b, out |-> Empty, id |-> 0, fresh |-> FALSE]
  BY Zenon DEF StartJob
<1>4. b \in BOOLEAN
  BY Zenon
<1> HIDE DEF t, b
<1>5. /\ job'.by = p /\ job'.stage = "merge" /\ job'.tier = t /\ job'.tables = tiers[t]
      /\ job'.bottommost = b /\ job'.out = Empty /\ job'.id = 0 /\ job'.fresh = FALSE
  BY Zenon, <1>3
<1>6. IsJob(job')
  BY Zenon, <1>2, <1>3, <1>4, <1>5 DEF IsJob
<1>7. Suffix(tiers[t], tiers[t])
  <2> DEFINE s == tiers[t]
  <2>1. s \in Seq(Nat)
    BY Zenon, <1>2
  <2> HIDE DEF s
  <2>2. Suffix(s, s)
    BY <2>1 DEF Suffix
  <2> QED
    BY Zenon, <2>2 DEF s
<1> QED
  BY Zenon, <1>1, <1>5, <1>6, <1>7 DEF b

LEMMA CompactId ==
  ASSUME IdInv, Compact
  PROVE  IdInv'
<1>1. /\ UNCHANGED <<manifest, files, next_id, tiers, obsolete, gen, pc, loc, engine>>
      /\ engine = "up"
      /\ NeedsCompaction # {} /\ StartJob(Background)
  BY Zenon DEF Compact, disk, memory
<1>2. /\ IsJob(job') /\ job'.by = Background /\ job'.out = Empty
      /\ job'.tier \in DOMAIN tiers /\ Suffix(job'.tables, tiers[job'.tier])
  BY Zenon, <1>1, Started
<1>3. TypeInv'
  BY Zenon, <1>1, <1>2 DEF IdInv, TypeInv
<1>4. TiersInv' /\ FlushInv'
  BY Zenon, <1>1 DEF IdInv, TiersInv, FlushInv, Building, Fresh
<1>5. Background \notin Client
  BY Zenon, ConstantsAssumption
<1>6. JobInv'
  BY Zenon, <1>1, <1>2, <1>5 DEF JobInv
<1> QED
  BY Zenon, <1>3, <1>4, <1>6 DEF IdInv

LEMMA HelpId ==
  ASSUME IdInv, NEW c \in Client, Help(c)
  PROVE  IdInv'
<1>1. /\ UNCHANGED <<manifest, files, next_id, tiers, obsolete, gen, engine>>
      /\ engine \in {"up", "closing"} /\ pc[c] = "help" /\ gen \in Nat
  BY Zenon DEF Help, Up, disk, memory, IdInv, TypeInv
<1>2. CASE Return(c) /\ UNCHANGED job
  <2>1. PICK l \in Where, r \in Local :
          /\ pc' = [pc EXCEPT ![c] = l] /\ loc' = [loc EXCEPT ![c] = r]
          /\ l \in {} \cup {"idle"}
    <3>1. {} \in SUBSET Where
      BY Zenon
    <3> QED
      BY Zenon, <1>2, <3>1, MovesTo
  <2> QED
    BY Zenon, <1>1, <1>2, <2>1, TakesLocalStep
<1>3. CASE job = NoJob /\ NeedsCompaction # {} /\ StartJob(c) /\ Goto(c, "compact")
  <2>1. /\ IsJob(job') /\ job'.by = c /\ job'.out = Empty
        /\ job'.tier \in DOMAIN tiers /\ Suffix(job'.tables, tiers[job'.tier])
    BY Zenon, <1>3, Started
  <2>2. pc \in [Client -> Where] /\ "compact" \in Where
    BY Zenon DEF IdInv, TypeInv, Where
  <2>3. /\ pc' \in [Client -> Where] /\ UNCHANGED loc
        /\ \A d \in Client : pc'[d] = IF d = c THEN "compact" ELSE pc[d]
    BY Zenon, <1>3, <2>2 DEF Goto
  <2>4. \A d \in Client : Building(d)' => Building(d)
    BY Zenon, <2>3 DEF Building
  <2>5. TypeInv'
    BY Zenon, <1>1, <2>1, <2>3 DEF IdInv, TypeInv
  <2>6. TiersInv'
    BY Zenon, <1>1 DEF IdInv, TiersInv
  <2>7. \A i : Fresh(i) => Fresh(i)'
    BY Zenon, <1>1 DEF Fresh
  <2>8. FlushInv'
    BY Zenon, <2>3, <2>4, <2>7 DEF IdInv, FlushInv
  <2>9. JobInv'
    BY Zenon, <1>1, <2>1, <2>3 DEF JobInv
  <2> QED
    BY Zenon, <2>5, <2>6, <2>8, <2>9 DEF IdInv
<1> QED
  BY Zenon, <1>2, <1>3 DEF Help

LEMMA StagedJob ==
  ASSUME IdInv, NEW s, Stage(s)
  PROVE  /\ job # NoJob /\ IsJob(job) /\ job.stage = s /\ engine \in {"up", "closing"}
         /\ job.by \in Client => pc[job.by] = "compact"
         /\ job.tier \in DOMAIN tiers /\ Suffix(job.tables, tiers[job.tier])
         /\ job.out # Empty =>
              Fresh(job.id) /\ \A c \in Client : Building(c) => loc[c].id # job.id
BY Zenon DEF Stage, IdInv, TypeInv, JobInv

LEMMA CompactMergeId ==
  ASSUME IdInv, CompactMerge
  PROVE  IdInv'
<1>1. /\ UNCHANGED <<manifest, tiers, obsolete, gen, pc, loc, engine>> /\ Stage("merge")
      /\ tiers \in Seq(Seq(Nat))
  BY Zenon DEF CompactMerge, IdInv, TypeInv
<1>2. /\ job # NoJob /\ IsJob(job) /\ engine \in {"up", "closing"}
      /\ job.by \in Client => pc[job.by] = "compact"
      /\ job.tier \in DOMAIN tiers /\ Suffix(job.tables, tiers[job.tier])
      /\ job.out # Empty =>
           Fresh(job.id) /\ \A c \in Client : Building(c) => loc[c].id # job.id
  BY Zenon, <1>1, StagedJob
<1>3. CASE Merged = Empty
  <2>1. job' = [job EXCEPT !.stage = "install"] /\ UNCHANGED <<files, next_id>>
    BY Zenon, <1>3 DEF CompactMerge
  <2>2. /\ IsJob(job') /\ job'.by = job.by /\ job'.tier = job.tier /\ job'.tables = job.tables
        /\ job'.out = job.out /\ job'.id = job.id
    BY Zenon, <1>2, <2>1 DEF IsJob
  <2>3. TypeInv'
    BY Zenon, <1>1, <1>2, <2>1, <2>2 DEF IdInv, TypeInv
  <2>4. TiersInv' /\ FlushInv'
    BY Zenon, <1>1, <2>1 DEF IdInv, TiersInv, FlushInv, Building, Fresh
  <2>5. JobInv'
    <3>1. job'.by \in Client => pc'[job'.by] = "compact"
      BY Zenon, <1>1, <1>2, <2>2
    <3>2. \A i : Fresh(i) => Fresh(i)'
      BY Zenon, <1>1, <2>1 DEF Fresh
    <3>3. job'.out # Empty => Fresh(job.id)' /\ \A c \in Client : Building(c)' => loc'[c].id # job.id
      BY Zenon, <1>1, <1>2, <2>2, <3>2 DEF Building
    <3> QED
      BY Zenon, <1>1, <1>2, <2>2, <3>1, <3>3 DEF JobInv, Fresh
  <2> QED
    BY Zenon, <2>3, <2>4, <2>5 DEF IdInv
<1>4. CASE Merged # Empty
  <2>1. PICK n \in Nat : n = next_id
    BY Zenon DEF IdInv, TypeInv
  <2>2. /\ next_id' = n + 1 /\ CreateTable(n)
        /\ job' = [job EXCEPT !.stage = "header", !.out = Merged, !.id = n,
                              !.fresh = n \notin DOMAIN files]
    BY Zenon, <1>4, <2>1 DEF CompactMerge
  <2>3. /\ IsJob(job') /\ job'.by = job.by /\ job'.tier = job.tier /\ job'.tables = job.tables
        /\ job'.id = n
    BY Zenon, <1>2, <2>2 DEF IsJob
  <2>4. DOMAIN files' = DOMAIN files \cup {n}
    BY Zenon, <2>2 DEF CreateTable, Set
  <2>5. \A i \in Nat : Fresh(i) => Fresh(i)' /\ i # n
    BY <1>1, <2>1, <2>2, <2>4 DEF Fresh
  <2>6. Fresh(n)'
    <3>1. n \notin Named(tiers) /\ n \notin obsolete
      BY <2>1 DEF IdInv, TiersInv
    <3> QED
      BY <1>1, <2>1, <2>2, <2>4, <3>1 DEF Fresh
  <2>7. TypeInv'
    BY <1>1, <1>2, <2>1, <2>2, <2>3 DEF IdInv, TypeInv
  <2>8. TiersInv'
    <3>1. \A i \in Named(tiers) : i \in Nat /\ i < n
      BY Zenon, <1>1, <2>1, NamedNat DEF IdInv, TiersInv
    <3>2. \A i \in Named(tiers) : i < n + 1
      BY <3>1
    <3>3. \A i \in obsolete : i < n + 1
      BY <2>1 DEF IdInv, TiersInv, TypeInv
    <3> QED
      BY Zenon, <1>1, <2>2, <2>4, <3>2, <3>3 DEF IdInv, TiersInv
  <2>9. \A c \in Client : loc[c].id \in Nat /\ (Building(c) => Fresh(loc[c].id))
    BY Zenon DEF IdInv, TypeInv, FlushInv, Local
  <2>10. FlushInv'
    <3>1. \A c \in Client : Building(c)' => Building(c) /\ Fresh(loc[c].id)'
      BY Zenon, <1>1, <2>5, <2>9 DEF Building
    <3> QED
      BY Zenon, <1>1, <3>1 DEF IdInv, FlushInv
  <2>11. JobInv'
    <3>1. \A c \in Client : Building(c)' => loc'[c].id # n
      BY Zenon, <1>1, <2>5, <2>9 DEF Building
    <3>2. job'.by \in Client => pc'[job'.by] = "compact"
      BY Zenon, <1>1, <1>2, <2>3
    <3> QED
      BY Zenon, <1>1, <1>2, <2>3, <2>6, <3>1, <3>2 DEF JobInv
  <2> QED
    BY Zenon, <2>7, <2>8, <2>10, <2>11 DEF IdInv
<1> QED
  BY Zenon, <1>3, <1>4

LEMMA CompactHeaderId ==
  ASSUME IdInv, CompactHeader
  PROVE  IdInv'
<1>1. /\ UNCHANGED <<manifest, next_id, tiers, obsolete, gen, pc, loc, engine>>
      /\ Stage("header") /\ job' = [job EXCEPT !.stage = "install"]
  BY Zenon DEF CompactHeader, memory
<1>2. /\ job # NoJob /\ IsJob(job) /\ engine \in {"up", "closing"}
      /\ job.by \in Client => pc[job.by] = "compact"
      /\ job.tier \in DOMAIN tiers /\ Suffix(job.tables, tiers[job.tier])
      /\ job.out # Empty =>
           Fresh(job.id) /\ \A c \in Client : Building(c) => loc[c].id # job.id
  BY Zenon, <1>1, StagedJob
<1>3. \A i \in DOMAIN files : i \in DOMAIN files'
  BY Zenon DEF CompactHeader, WriteHeader, Set
<1>4. /\ IsJob(job') /\ job'.by = job.by /\ job'.tier = job.tier /\ job'.tables = job.tables
      /\ job'.out = job.out /\ job'.id = job.id
  BY Zenon, <1>1, <1>2 DEF IsJob
<1>5. TypeInv'
  BY Zenon, <1>1, <1>2, <1>4 DEF IdInv, TypeInv
<1>6. \A i : Fresh(i) => Fresh(i)'
  BY Zenon, <1>1, <1>3 DEF Fresh
<1>7. TiersInv'
  BY Zenon, <1>1, <1>3 DEF IdInv, TiersInv
<1>8. FlushInv'
  BY Zenon, <1>1, <1>6 DEF IdInv, FlushInv, Building
<1>9. JobInv'
  <2>1. job'.by \in Client => pc'[job'.by] = "compact"
    BY Zenon, <1>1, <1>2, <1>4
  <2>2. job'.out # Empty => Fresh(job.id)' /\ \A c \in Client : Building(c)' => loc'[c].id # job.id
    BY Zenon, <1>1, <1>2, <1>4, <1>6 DEF Building
  <2> QED
    BY Zenon, <1>1, <1>2, <1>4, <2>1, <2>2 DEF JobInv, Fresh
<1> QED
  BY Zenon, <1>5, <1>7, <1>8, <1>9 DEF IdInv

LEMMA SuffixIs ==
  ASSUME NEW s \in Seq(Nat), NEW x \in Seq(Nat), Suffix(x, s)
  PROVE  /\ Len(s) - Len(x) \in Nat /\ Len(s) - Len(x) <= Len(s)
         /\ \A p \in 1 .. Len(s) - Len(x) : p \in DOMAIN s /\ p \in Nat
         /\ \A q \in DOMAIN x :
              LET o == Len(s) - Len(x) + q
              IN o \in DOMAIN s /\ s[o] = x[q] /\ o > Len(s) - Len(x)
<1>1. /\ Len(s) \in Nat /\ Len(x) \in Nat /\ Len(x) <= Len(s)
      /\ DOMAIN s = 1 .. Len(s) /\ DOMAIN x = 1 .. Len(x)
  BY DEF Suffix
<1>2. \A p \in 1 .. Len(s) - Len(x) : p \in DOMAIN s /\ p \in Nat
  BY <1>1
<1>3. ASSUME NEW q \in DOMAIN x
      PROVE  LET o == Len(s) - Len(x) + q
             IN o \in DOMAIN s /\ s[o] = x[q] /\ o > Len(s) - Len(x)
  <2>1. s[Len(s) - Len(x) + q] = x[q]
    BY Zenon, <1>1 DEF Suffix
  <2>2. Len(s) - Len(x) + q \in DOMAIN s /\ Len(s) - Len(x) + q > Len(s) - Len(x)
    BY <1>1
  <2> QED
    BY Zenon, <2>1, <2>2
<1>4. Len(s) - Len(x) \in Nat /\ Len(s) - Len(x) <= Len(s)
  BY <1>1
<1> QED
  BY Zenon, <1>2, <1>3, <1>4

\* The tiers after CompactInstall: the tables of the job are in none of them.
LEMMA CompactedMoved ==
  ASSUME IdInv, Stage("install")
  PROVE  /\ Distinct(Compacted)
         /\ \A i \in Named(Compacted) : i \in Named(tiers) \/ (job.out # Empty /\ i = job.id)
         /\ \A i \in Range(job.tables) : i \notin Named(Compacted)
<1> DEFINE new == Compacted
           j == job.tier
           N == IF job.out = Empty THEN {} ELSE {job.id}
           by == [t \in DOMAIN new |-> IF t = j + 1 /\ job.out # Empty THEN 1 ELSE 0]
           m == Len(tiers[j]) - Len(job.tables)
<1>1. /\ IsJob(job) /\ j \in DOMAIN tiers /\ Suffix(job.tables, tiers[j])
      /\ job.out # Empty => Fresh(job.id)
      /\ tiers \in Seq(Seq(Nat)) /\ Distinct(tiers)
  BY Zenon, StagedJob DEF IdInv, TypeInv, TiersInv
<1>2. /\ new \in Seq(Seq(Nat)) /\ DOMAIN tiers \subseteq DOMAIN new
      /\ j + 1 \in DOMAIN new /\ new[j] = [p \in 1 .. m |-> tiers[j][p]]
      /\ new[j + 1] = (IF job.out = Empty THEN <<>> ELSE <<job.id>>) \o TierOf(tiers, j + 1)
      /\ \A t \in DOMAIN new : t \notin {j, j + 1} => t \in DOMAIN tiers /\ new[t] = tiers[t]
  BY Zenon, <1>1, CompactedIs
<1>3. /\ j \in Nat /\ j # j + 1 /\ tiers[j] \in Seq(Nat) /\ job.tables \in Seq(Nat)
      /\ job.id \in Nat /\ TierOf(tiers, j + 1) \in Seq(Nat)
  BY <1>1 DEF IsJob, TierOf
<1>4. /\ m \in Nat /\ m <= Len(tiers[j])
      /\ \A p \in 1 .. m : p \in DOMAIN tiers[j] /\ p \in Nat
      /\ \A q \in DOMAIN job.tables :
           m + q \in DOMAIN tiers[j] /\ tiers[j][m + q] = job.tables[q] /\ m + q > m
  BY Zenon, <1>1, <1>3, SuffixIs
<1> HIDE DEF new, m
<1>5. ASSUME NEW t \in DOMAIN new, NEW p \in DOMAIN new[t]
      PROVE  \/ t = j + 1 /\ p = 1 /\ new[t][p] \in N
             \/ t \in DOMAIN tiers /\ p - by[t] \in DOMAIN tiers[t]
                /\ tiers[t][p - by[t]] = new[t][p] /\ (t = j => p - by[t] <= m)
  <2>0. p \in Nat
    BY <1>2
  <2>1. CASE t \notin {j, j + 1}
    <3>1. by[t] = 0 /\ t \in DOMAIN tiers /\ new[t] = tiers[t] /\ t # j
      BY Zenon, <1>2, <2>1
    <3>2. p - by[t] = p
      BY <2>0, <3>1
    <3> QED
      BY Zenon, <3>1, <3>2
  <2>2. CASE t = j
    <3>1. by[t] = 0 /\ t \in DOMAIN tiers
      BY Zenon, <1>1, <1>3, <2>2
    <3>2. p \in 1 .. m /\ new[t][p] = tiers[j][p]
      BY Zenon, <1>2, <2>2
    <3>3. p - by[t] = p /\ p <= m
      BY <1>4, <2>0, <3>1, <3>2
    <3> QED
      BY Zenon, <1>4, <2>2, <3>1, <3>2, <3>3
  <2>3. CASE t = j + 1
    <3> DEFINE u == TierOf(tiers, j + 1)
    <3>1. DOMAIN <<>> = {}
      OBVIOUS
    <3>2. \A q : q \in DOMAIN u => t \in DOMAIN tiers /\ u = tiers[t]
      BY Zenon, <2>3, <3>1 DEF TierOf
    <3>3. u \in Seq(Nat) /\ t # j
      BY Zenon, <1>3, <2>3
    <3>4. CASE job.out = Empty
      <4>1. by[t] = 0 /\ new[t] = <<>> \o u
        BY Zenon, <1>2, <2>3, <3>4
      <4>2. <<>> \o u = u /\ p - by[t] = p
        <5> HIDE DEF u, by
        <5> QED
          BY <2>0, <3>3, <4>1
      <4> QED
        BY Zenon, <3>2, <3>3, <4>1, <4>2
    <3>5. CASE job.out # Empty
      <4>1. by[t] = 1 /\ new[t] = <<job.id>> \o u
        BY Zenon, <1>2, <2>3, <3>5
      <4>2. p \in DOMAIN (<<job.id>> \o u)
        BY Zenon, <4>1
      <4>3. \/ p = 1 /\ (<<job.id>> \o u)[p] = job.id
            \/ p - 1 \in DOMAIN u /\ (<<job.id>> \o u)[p] = u[p - 1]
        <5> HIDE DEF u, by
        <5> QED
          BY <1>3, <3>3, <4>2
      <4> QED
        BY Zenon, <2>3, <3>2, <3>3, <3>5, <4>1, <4>3
    <3> QED
      BY Zenon, <3>4, <3>5
  <2> QED
    BY Zenon, <2>1, <2>2, <2>3
<1>6. IsMoved(tiers, new, N, j + 1, by)
  BY Zenon, <1>5 DEF IsMoved
<1>7. by \in [DOMAIN new -> Nat]
  BY Zenon
<1>8. N \cap Named(tiers) = {}
  BY Zenon, <1>1 DEF Fresh
<1>9. Distinct(new) /\ Named(new) \subseteq Named(tiers) \cup N
  <2> HIDE DEF N, by, j
  <2> QED
    BY Zenon, <1>2, <1>1, <1>6, <1>7, <1>8, Moved
<1>10. ASSUME NEW i \in Range(job.tables), i \in Named(new)
       PROVE  FALSE
  <2>1. PICK q \in DOMAIN job.tables : i = job.tables[q]
    BY Zenon, <1>10 DEF Range
  <2>2. PICK o : o = m + q
    BY Zenon
  <2>3. o \in DOMAIN tiers[j] /\ tiers[j][o] = i /\ o > m
    BY Zenon, <1>4, <2>1, <2>2
  <2>4. i \in Named(tiers)
    BY Zenon, <1>1, <2>3, NamedIs
  <2>10. PICK t \in DOMAIN new : \E p \in DOMAIN new[t] : new[t][p] = i
    BY Zenon, <1>10, NamedIs
  <2>5. PICK p \in DOMAIN new[t] : new[t][p] = i
    BY Zenon, <2>10
  <2>6. i \notin N
    BY Zenon, <1>8, <2>4
  <2>7. PICK x : x = p - by[t]
    BY Zenon
  <2>8. t \in DOMAIN tiers /\ x \in DOMAIN tiers[t] /\ tiers[t][x] = i /\ (t = j => x <= m)
    BY Zenon, <1>5, <2>5, <2>6, <2>7
  <2>9. t = j /\ x = o
    <3> HIDE DEF j
    <3> QED
      BY Zenon, <1>1, <2>3, <2>8 DEF Distinct
  <2>11. o \in Nat
    BY <1>3, <2>3
  <2> QED
    BY <1>4, <2>3, <2>8, <2>9, <2>11
<1>11. \A i \in Named(new) : i \in Named(tiers) \/ (job.out # Empty /\ i = job.id)
  BY Zenon, <1>9
<1> QED
  BY Zenon, <1>9, <1>10, <1>11 DEF new

LEMMA CompactInstallId ==
  ASSUME IdInv, CompactInstall
  PROVE  IdInv'
<1>1. /\ UNCHANGED <<next_id, gen>> /\ Stage("install") /\ PersistManifest
      /\ tiers' = Compacted /\ job' = NoJob
  BY Zenon DEF CompactInstall
<1>2. /\ IsJob(job) /\ engine \in {"up", "closing"}
      /\ job.tier \in DOMAIN tiers /\ Suffix(job.tables, tiers[job.tier])
      /\ job.out # Empty =>
           Fresh(job.id) /\ \A c \in Client : Building(c) => loc[c].id # job.id
  BY Zenon, <1>1, StagedJob
<1>3. /\ next_id \in Nat /\ obsolete \subseteq Nat /\ gen \in Nat /\ pc \in [Client -> Where]
      /\ loc \in [Client -> Local] /\ tiers \in Seq(Seq(Nat)) /\ Distinct(tiers)
  BY Zenon DEF IdInv, TypeInv, TiersInv
<1>4. tiers' \in Seq(Seq(Nat))
  BY Zenon, <1>1, <1>2, <1>3, CompactedIs
<1>5. /\ Distinct(tiers')
      /\ \A i \in Named(tiers') : i \in Named(tiers) \/ (job.out # Empty /\ i = job.id)
      /\ \A i \in Range(job.tables) : i \notin Named(tiers')
  BY Zenon, <1>1, CompactedMoved
<1>6. \A i \in Named(tiers') : i < next_id /\ i \in DOMAIN files /\ i \notin obsolete
  BY Zenon, <1>2, <1>5 DEF Fresh, IdInv, TiersInv
<1>7. /\ manifest' \in Manifest /\ Distinct(manifest'.tiers)
      /\ \A i \in Named(manifest'.tiers) : i < manifest'.next_id
  BY Zenon, <1>1, <1>4, <1>5, <1>6, Persisted
<1>8. \A i \in Range(job.tables) : i \in Named(tiers) /\ i \in Nat /\ i < next_id
  <2>1. job.tables \in Seq(Nat) /\ tiers[job.tier] \in Seq(Nat)
    BY <1>2, <1>3 DEF IsJob
  <2>2. ASSUME NEW q \in DOMAIN job.tables
        PROVE  job.tables[q] \in Named(tiers)
    <3> DEFINE s == tiers[job.tier]
               x == job.tables
    <3>0. s \in Seq(Nat) /\ x \in Seq(Nat) /\ Suffix(x, s) /\ q \in DOMAIN x
      BY Zenon, <1>2, <2>1
    <3> HIDE DEF s, x
    <3>1. \E o : o \in DOMAIN s /\ s[o] = x[q]
      <4>1. \A p \in DOMAIN x : LET o == Len(s) - Len(x) + p
                               IN o \in DOMAIN s /\ s[o] = x[p] /\ o > Len(s) - Len(x)
        BY Zenon, SuffixIs, <3>0
      <4> QED
        BY Zenon, <3>0, <4>1
    <3>2. PICK o : o \in DOMAIN s /\ s[o] = x[q]
      BY Zenon, <3>1
    <3> USE DEF s, x
    <3> QED
      BY Zenon, <1>2, <3>2, NamedIs
  <2>3. \A i \in Range(job.tables) : i \in Named(tiers)
    BY Zenon, <2>2 DEF Range
  <2> QED
    BY Zenon, <1>3, <2>3, NamedNat DEF IdInv, TiersInv
<1>9. engine' \in {"up", "closing", "dead"}
  BY Zenon, <1>2 DEF CompactInstall
<1>10. /\ obsolete' \subseteq obsolete \cup Range(job.tables)
       /\ \A i \in DOMAIN files :
            i \notin obsolete /\ i \notin Range(job.tables) => i \in DOMAIN files'
  <2>1. (UNCHANGED <<files, obsolete>>) \/ ReleaseTables(obsolete \cup Range(job.tables))
    BY Zenon DEF CompactInstall
  <2> QED
    BY Zenon, <2>1 DEF ReleaseTables, Drop
<1>11. /\ pc' \in [Client -> Where] /\ loc' \in [Client -> Local]
       /\ \A c \in Client : Building(c)' => Building(c) /\ loc'[c] = loc[c]
  <2>1. CASE UNCHANGED <<pc, loc>>
    BY Zenon, <1>3, <2>1 DEF Building
  <2>2. CASE job.by \in Client /\ Return(job.by)
    <3>1. NoLocal \in Local /\ "idle" \in Where
      BY Zenon, Locals DEF Where
    <3>2. /\ \A c \in Client : pc'[c] = IF c = job.by THEN "idle" ELSE pc[c]
          /\ \A c \in Client : c # job.by => loc'[c] = loc[c]
          /\ pc' \in [Client -> Where] /\ loc' \in [Client -> Local]
      BY Zenon, <1>3, <2>2, <3>1 DEF Return
    <3> QED
      BY Zenon, <3>2 DEF Building
  <2> QED
    BY Zenon, <1>2, <2>1, <2>2 DEF CompactInstall, IsJob
<1>12. TypeInv'
  <2>1. obsolete' \subseteq Nat
    BY Zenon, <1>3, <1>8, <1>10
  <2> QED
    BY Zenon, <1>1, <1>3, <1>4, <1>7, <1>9, <1>11, <2>1 DEF TypeInv
<1>13. TiersInv'
  <2>1. \A i \in obsolete' : i < next_id
    BY Zenon, <1>8, <1>10 DEF IdInv, TiersInv
  <2>2. \A i \in Named(tiers') : i \in DOMAIN files' /\ i \notin obsolete'
    BY Zenon, <1>5, <1>6, <1>10
  <2> QED
    BY Zenon, <1>1, <1>5, <1>6, <1>7, <2>1, <2>2 DEF TiersInv
<1>14. \A i : Fresh(i) /\ (job.out # Empty => i # job.id) => Fresh(i)'
  BY Zenon, <1>1, <1>5, <1>8, <1>10 DEF Fresh
<1>15. FlushInv'
  <2>1. \A c \in Client : Building(c) => Fresh(loc[c].id) /\ (job.out # Empty => loc[c].id # job.id)
    BY Zenon, <1>2 DEF IdInv, FlushInv
  <2>2. \A c \in Client : Building(c)' => Fresh(loc[c].id)'
    BY Zenon, <1>11, <1>14, <2>1
  <2> QED
    BY Zenon, <1>11, <2>2 DEF IdInv, FlushInv
<1>16. JobInv'
  BY Zenon, <1>1 DEF JobInv
<1> QED
  BY Zenon, <1>12, <1>13, <1>15, <1>16 DEF IdInv

----------------------------------------------------------------------------
(* Closing, crashing, and the constructor. *)

LEMMA CloseId ==
  ASSUME IdInv, NEW c \in Client, Close(c)
  PROVE  IdInv'
<1>1. /\ UNCHANGED <<manifest, files, next_id, tiers, obsolete, gen, job>>
      /\ engine = "up" /\ engine' = "closing" /\ pc[c] = "idle" /\ gen \in Nat
  BY Zenon DEF Close, AllIdle, disk, memory, IdInv, TypeInv
<1>2. CASE Goto(c, "swap")
  <2>1. PICK l \in Where, r \in Local :
          /\ pc' = [pc EXCEPT ![c] = l] /\ loc' = [loc EXCEPT ![c] = r]
          /\ l \in {"swap"} \cup {"idle"}
    <3>1. {"swap"} \in SUBSET Where
      BY Zenon DEF Where
    <3> QED
      BY Zenon, <1>2, <3>1, MovesTo
  <2> QED
    BY Zenon, <1>1, <2>1, TakesLocalStep
<1>3. CASE UNCHANGED <<pc, loc>>
  <2>1. TypeInv'
    BY Zenon, <1>1, <1>3 DEF IdInv, TypeInv
  <2> QED
    BY Zenon, <1>1, <1>3, <2>1 DEF IdInv, TiersInv, FlushInv, JobInv, Fresh, Building
<1> QED
  BY Zenon, <1>2, <1>3 DEF Close

LEMMA RestartedId ==
  ASSUME IdInv, Restarted
  PROVE  IdInv'
<1>1. /\ UNCHANGED manifest /\ engine' = "start" /\ job' = NoJob
      /\ pc' = [c \in Client |-> "idle"] /\ loc' = [c \in Client |-> NoLocal]
      /\ gen' = 0 /\ next_id' = 0 /\ tiers' = <<>> /\ obsolete' = {}
  BY Zenon DEF Restarted, disk
<1>2. pc' \in [Client -> Where] /\ loc' \in [Client -> Local] /\ \A c \in Client : pc'[c] = "idle"
  BY Zenon, <1>1, Locals DEF Where
<1>3. TypeInv'
  BY <1>1, <1>2 DEF IdInv, TypeInv
<1>4. Named(<<>>) = {} /\ Distinct(<<>>)
  BY DEF Named, Distinct
<1>5. TiersInv'
  BY Zenon, <1>1, <1>4 DEF IdInv, TiersInv
<1>6. FlushInv'
  BY Zenon, <1>2 DEF FlushInv, Building
<1>7. JobInv'
  BY Zenon, <1>1 DEF JobInv
<1> QED
  BY Zenon, <1>3, <1>5, <1>6, <1>7 DEF IdInv

\* A step of the constructor after the manifest has been read, or none.
LEMMA QuietId ==
  ASSUME IdInv, UNCHANGED <<manifest, files, next_id, tiers, obsolete, gen, job, pc, loc>>,
         \/ UNCHANGED engine
         \/ engine = "replay" /\ engine' \in {"replay", "remove"}
         \/ engine = "remove" /\ engine' \in {"remove", "up"}
  PROVE  IdInv'
<1>1. TypeInv'
  BY Zenon DEF IdInv, TypeInv
<1> QED
  BY Zenon, <1>1 DEF IdInv, TiersInv, FlushInv, JobInv, Fresh, Building

LEMMA BoundedMax ==
  ASSUME NEW S \in SUBSET Nat, S # {}, NEW n \in Nat, S \subseteq 0 .. n
  PROVE  Max(S) \in S /\ \A y \in S : Max(S) >= y
<1> DEFINE T == {m \in Nat : \A y \in S : y <= m}
<1>1. T \in SUBSET Nat /\ T # {}
  <2>1. n \in T
    OBVIOUS
  <2> QED
    BY Zenon, <2>1
<1>2. PICK m \in T : \A y \in T : m <= y
  <2> HIDE DEF T
  <2> QED
    BY Zenon, <1>1, Least
<1>3. m \in Nat /\ \A y \in S : y <= m
  BY Zenon
<1>4. m \in S
  <2>1. CASE m = 0
    <3>1. PICK y \in S : TRUE
      BY Zenon
    <3>2. y \in Nat /\ y <= m
      BY Zenon, <1>3
    <3> QED
      BY <2>1, <3>1, <3>2
  <2>2. CASE m # 0 /\ m \notin S
    <3>1. m - 1 \in Nat /\ \A y \in S : y <= m - 1
      BY <1>3, <2>2
    <3>2. m - 1 \in T
      BY Zenon, <3>1
    <3> QED
      BY <1>2, <1>3, <3>2
  <2> QED
    BY Zenon, <2>1, <2>2
<1>5. \E x \in S : \A y \in S : x >= y
  BY Zenon, <1>3, <1>4
<1> QED
  BY Zenon, <1>5 DEF Max

LEMMA LoadGen ==
  ASSUME WalInv, LoadManifest
  PROVE  gen' \in Nat
<1>1. CASE DOMAIN wals = {}
  <2>1. gen' = 0
    BY Zenon, <1>1 DEF LoadManifest
  <2> QED
    BY Zenon, <2>1
<1>2. CASE DOMAIN wals # {}
  <2>1. PICK n \in Nat : DOMAIN wals \subseteq 0 .. n
    BY Zenon DEF WalInv
  <2>2. DOMAIN wals \in SUBSET Nat
    BY <2>1
  <2>3. Max(DOMAIN wals) \in Nat
    BY Zenon, <1>2, <2>1, <2>2, BoundedMax
  <2>4. gen' = Max(DOMAIN wals) + 1
    BY Zenon, <1>2 DEF LoadManifest
  <2> QED
    BY <2>3, <2>4
<1> QED
  BY Zenon, <1>1, <1>2

LEMMA LoadManifestId ==
  ASSUME IdInv, WalInv, LoadManifest
  PROVE  IdInv'
<1>1. /\ UNCHANGED <<manifest, obsolete, job, pc, loc>> /\ engine = "start" /\ engine' = "replay"
      /\ tiers' = manifest.tiers /\ next_id' = manifest.next_id
  BY Zenon DEF LoadManifest
<1>2. /\ job = NoJob /\ obsolete = {} /\ manifest \in Manifest
      /\ \A c \in Client : pc[c] = "idle"
  BY Zenon, <1>1 DEF IdInv, TypeInv
<1>3. tiers' \in Seq(Seq(Nat)) /\ next_id' \in Nat
  BY Zenon, <1>1, <1>2 DEF Manifest
<1>4. \A i \in Named(tiers') : i \in DOMAIN files'
  <2>1. Range(Flatten(tiers')) = Named(tiers')
    BY Zenon, <1>3, FlattenRange
  <2> QED
    BY Zenon, <2>1 DEF LoadManifest
<1>5. gen' \in Nat
  BY Zenon, LoadGen
<1>6. TypeInv'
  BY Zenon, <1>1, <1>2, <1>3, <1>5 DEF IdInv, TypeInv
<1>7. TiersInv'
  BY Zenon, <1>1, <1>2, <1>4 DEF IdInv, TiersInv
<1>8. FlushInv' /\ JobInv'
  BY Zenon, <1>1, <1>2 DEF FlushInv, Building, JobInv
<1> QED
  BY Zenon, <1>6, <1>7, <1>8 DEF IdInv

LEMMA WalStep ==
  ASSUME WalInv, IdInv', DOMAIN wals' \subseteq DOMAIN wals \cup {gen'}
  PROVE  WalInv'
<1>1. gen' \in Nat
  BY Zenon DEF IdInv, TypeInv
<1>2. PICK n \in Nat : DOMAIN wals \subseteq 0 .. n
  BY Zenon DEF WalInv
<1>3. PICK m \in Nat : n <= m /\ gen' <= m
  BY <1>1
<1>4. DOMAIN wals' \subseteq 0 .. m
  BY <1>1, <1>2, <1>3
<1> QED
  BY Zenon, <1>4 DEF WalInv

\* Every action but LoadManifest leaves the logs alone, appends to the active
\* one, starts the next one, or removes some.
LEMMA WalDomain ==
  ASSUME Next
  PROVE  DOMAIN wals' \subseteq DOMAIN wals \cup {gen'}
<1>0. \A f, x, v : DOMAIN Set(f, x, v) = DOMAIN f \cup {x}
  BY Zenon DEF Set
<1>01. \A f, S : DOMAIN Drop(f, S) \subseteq DOMAIN f
  BY Zenon DEF Drop
<1>02. \A f, x, v : DOMAIN [f EXCEPT ![x] = v] = DOMAIN f
  BY Zenon
<1>1. ASSUME NEW c \in Client, Call(c)
      PROVE  DOMAIN wals' \subseteq DOMAIN wals \cup {gen'}
  <2>1. ASSUME NEW k, NEW e, Write(c, k, e)
        PROVE  DOMAIN wals' = DOMAIN wals
    BY Zenon, <2>1, <1>02 DEF Write
  <2> QED
    BY Zenon, <1>1, <2>1 DEF Call, Get, Put, disk
<1>2. ASSUME NEW c \in Client, Continue(c)
      PROVE  DOMAIN wals' \subseteq DOMAIN wals \cup {gen'}
  <2>1. ASSUME NEW k, NEW e, Write(c, k, e)
        PROVE  DOMAIN wals' = DOMAIN wals
    BY Zenon, <2>1, <1>02 DEF Write
  <2>2. CASE FlushSwap(c)
    BY Zenon, <1>0, <2>2 DEF FlushSwap
  <2>3. CASE FlushEmpty(c) \/ FlushUnlink(c)
    BY Zenon, <1>01, <2>3 DEF FlushEmpty, FlushUnlink
  <2>4. CASE GetLookup(c) \/ FlushBuild(c) \/ FlushHeader(c) \/ FlushInstall(c) \/ Help(c)
    BY Zenon, <2>4 DEF GetLookup, FlushBuild, FlushHeader, FlushInstall, Help, disk
  <2>5. CASE Delete(c)
    BY Zenon, <2>1, <2>5 DEF Delete
  <2> QED
    BY Zenon, <1>2, <2>2, <2>3, <2>4, <2>5 DEF Continue
<1>3. ASSUME Compaction \/ Reopen \/ Crash \/ Rest \/ \E c \in Client : Close(c)
      PROVE  wals' = wals
  BY Zenon, <1>3 DEF Compaction, Compact, CompactMerge, CompactHeader, CompactInstall, Reopen,
                     Crash, Restarted, Rest, Close, disk, vars
<1>4. ASSUME Constructor
      PROVE  DOMAIN wals' \subseteq DOMAIN wals \cup {gen'}
  <2>1. CASE LoadManifest
    BY Zenon, <1>0, <2>1 DEF LoadManifest
  <2>2. CASE Replay
    BY Zenon, <1>02, <2>2 DEF Replay
  <2>3. CASE RemoveOld
    BY Zenon, <1>01, <2>3 DEF RemoveOld
  <2> QED
    BY Zenon, <1>4, <2>1, <2>2, <2>3 DEF Constructor
<1> QED
  BY Zenon, <1>1, <1>2, <1>3, <1>4 DEF Next

LEMMA NextId ==
  ASSUME IdInv, WalInv, [Next]_vars
  PROVE  IdInv'
<1>1. ASSUME NEW c \in Client, Call(c)
      PROVE  IdInv'
  <2>1. CASE \E k \in Key : Get(c, "Get", k) \/ Get(c, "Delete", k)
    BY Zenon, <2>1, GetId
  <2>2. CASE \E k \in Key, v \in Value : Put(c, k, v)
    <3>1. PICK k \in Key, v \in Value : Put(c, k, v)
      BY Zenon, <2>2
    <3>2. Write(c, k, v) /\ pc[c] # "compact" /\ engine \in {"up", "closing"}
      BY Zenon, <3>1 DEF Put
    <3> QED
      BY Zenon, <3>2, WriteId
  <2> QED
    BY Zenon, <1>1, <2>1, <2>2 DEF Call
<1>2. ASSUME NEW c \in Client, Continue(c)
      PROVE  IdInv'
  <2>1. CASE Delete(c)
    <3>1. Write(c, loc[c].key, Tombstone) /\ pc[c] # "compact" /\ engine \in {"up", "closing"}
      BY Zenon, <2>1 DEF Delete, Up
    <3> QED
      BY Zenon, <3>1, WriteId
  <2> QED
    BY Zenon, <1>2, <2>1, GetLookupId, FlushLocalId, FlushBuildId, FlushHeaderId,
       FlushInstallId, HelpId DEF Continue
<1>3. ASSUME Compaction
      PROVE  IdInv'
  BY Zenon, <1>3, CompactId, CompactMergeId, CompactHeaderId, CompactInstallId DEF Compaction
<1>4. ASSUME Constructor
      PROVE  IdInv'
  <2>1. ASSUME Replay
        PROVE  IdInv'
    BY Zenon, <2>1, QuietId DEF Replay
  <2>2. ASSUME RemoveOld
        PROVE  IdInv'
    BY Zenon, <2>2, QuietId DEF RemoveOld, memory
  <2> QED
    BY Zenon, <1>4, <2>1, <2>2, LoadManifestId DEF Constructor
<1>5. ASSUME UNCHANGED vars
      PROVE  IdInv'
  BY Zenon, <1>5, QuietId DEF vars, disk, memory
<1> QED
  BY Zenon, <1>1, <1>2, <1>3, <1>4, <1>5, CloseId, RestartedId DEF Next, Reopen, Crash, Rest

LEMMA NextWal ==
  ASSUME IdInv, WalInv, [Next]_vars
  PROVE  WalInv'
<1>1. CASE Next
  BY Zenon, <1>1, WalDomain, WalStep, NextId
<1>2. CASE UNCHANGED vars
  BY Zenon, <1>2 DEF vars, disk, WalInv
<1> QED
  BY Zenon, <1>1, <1>2

LEMMA InitWal == Init => WalInv
<1> SUFFICES ASSUME Init
             PROVE  WalInv
  BY Zenon
<1>1. DOMAIN wals = {0}
  BY DEF Init, Set, Empty
<1>2. DOMAIN wals \subseteq 0 .. 0
  BY <1>1
<1> QED
  BY Zenon, <1>2 DEF WalInv

----------------------------------------------------------------------------
(* A reader's tables keep their files. *)

\* The readers of the next state read what they read before.
SameReaders ==
  \A c \in Client : pc'[c] = "lookup" => pc[c] = "lookup" /\ loc'[c].tables = loc[c].tables

LEMMA ReadersStep ==
  ASSUME ReadersKeepTables, SameReaders,
         (DOMAIN files \subseteq DOMAIN files') \/ (\E obs : ReleaseTables(obs))
  PROVE  ReadersKeepTables'
<1> SUFFICES ASSUME NEW c \in Client, pc'[c] = "lookup", NEW i \in Range(loc'[c].tables)
             PROVE  i \in DOMAIN files'
  BY Zenon DEF ReadersKeepTables
<1>1. i \in DOMAIN files
  BY Zenon DEF ReadersKeepTables, SameReaders
<1>2. ASSUME NEW obs, ReleaseTables(obs)
      PROVE  i \in DOMAIN files'
  <2> DEFINE held == UNION {Range(loc'[d].tables) : d \in {e \in Client : pc'[e] = "lookup"}}
  <2>1. i \in held
    BY Zenon
  <2>2. DOMAIN files' = DOMAIN files \ (obs \ held)
    BY Zenon, <1>2 DEF ReleaseTables, Drop
  <2> HIDE DEF held
  <2> QED
    BY Zenon, <1>1, <2>1, <2>2
<1> QED
  BY Zenon, <1>1, <1>2

LEMMA MovesReaders ==
  ASSUME IdInv, NEW c, NEW l, pc' = [pc EXCEPT ![c] = l], l # "lookup",
         \A d \in Client : d # c => loc'[d] = loc[d]
  PROVE  SameReaders
<1>1. pc \in [Client -> Where]
  BY Zenon DEF IdInv, TypeInv
<1>2. ASSUME NEW d \in Client, pc'[d] = "lookup"
      PROVE  d # c /\ pc[d] = "lookup"
  BY Zenon, <1>1, <1>2
<1> QED
  BY Zenon, <1>2 DEF SameReaders

LEMMA GotoReaders ==
  ASSUME IdInv, NEW c, NEW l, Goto(c, l), l # "lookup"
  PROVE  SameReaders
BY Zenon, MovesReaders DEF Goto

LEMMA ReturnReaders ==
  ASSUME IdInv, NEW c, Return(c)
  PROVE  SameReaders
<1>1. loc \in [Client -> Local]
  BY Zenon DEF IdInv, TypeInv
<1>2. \A d \in Client : d # c => loc'[d] = loc[d]
  BY Zenon, <1>1 DEF Return
<1>3. "idle" # "lookup"
  BY Zenon
<1> QED
  BY Zenon, <1>2, <1>3, MovesReaders DEF Return

LEMMA WriteReaders ==
  ASSUME IdInv, NEW c \in Client, NEW k, NEW e, Write(c, k, e)
  PROVE  SameReaders /\ files' = files
<1>1. "swap" # "lookup"
  BY Zenon
<1> QED
  BY Zenon, <1>1, GotoReaders, ReturnReaders DEF Write

LEMMA GetReaders ==
  ASSUME IdInv, ReadersKeepTables, NEW c \in Client, NEW op, NEW k, Get(c, op, k)
  PROVE  ReadersKeepTables'
<1>1. /\ loc \in [Client -> Local] /\ pc \in [Client -> Where] /\ tiers \in Seq(Seq(Nat))
      /\ files' = files
  BY Zenon DEF IdInv, TypeInv, Get, disk
<1>2. Range(Tables) \subseteq DOMAIN files
  BY Zenon, <1>1, FlattenRange DEF Tables, IdInv, TiersInv
<1>3. loc'[c].tables = Tables
  BY Zenon, <1>1 DEF Get, NoLocal
<1>4. \A d \in Client : d # c => pc'[d] = pc[d] /\ loc'[d] = loc[d]
  BY Zenon, <1>1 DEF Get
<1> QED
  BY Zenon, <1>1, <1>2, <1>3, <1>4 DEF ReadersKeepTables

LEMMA ContinueReaders ==
  ASSUME IdInv, ReadersKeepTables, NEW c \in Client, Continue(c)
  PROVE  ReadersKeepTables'
<1>0. \A f, x, v : DOMAIN f \subseteq DOMAIN Set(f, x, v)
  BY Zenon DEF Set
<1>1. loc \in [Client -> Local]
  BY Zenon DEF IdInv, TypeInv
<1>2. /\ "tombstone" # "lookup" /\ "swap" # "lookup" /\ "empty" # "lookup" /\ "build" # "lookup"
      /\ "header" # "lookup" /\ "unlink" # "lookup" /\ "install" # "lookup"
      /\ "help" # "lookup" /\ "compact" # "lookup"
  BY Zenon
<1>3. CASE GetLookup(c)
  <2>1. ReleaseTables(obsolete)
    BY Zenon, <1>3 DEF GetLookup
  <2>2. Return(c) \/ /\ pc' = [pc EXCEPT ![c] = "tombstone"]
                     /\ loc' = [loc EXCEPT ![c] = [NoLocal EXCEPT !.key = loc[c].key]]
    BY Zenon, <1>3 DEF GetLookup
  <2>3. SameReaders
    <3>1. CASE Return(c)
      BY Zenon, <3>1, ReturnReaders
    <3>2. CASE /\ pc' = [pc EXCEPT ![c] = "tombstone"]
               /\ loc' = [loc EXCEPT ![c] = [NoLocal EXCEPT !.key = loc[c].key]]
      <4>1. \A d \in Client : d # c => loc'[d] = loc[d]
        BY Zenon, <1>1, <3>2
      <4> QED
        BY Zenon, <1>2, <3>2, <4>1, MovesReaders
    <3> QED
      BY Zenon, <2>2, <3>1, <3>2
  <2> QED
    BY Zenon, <2>1, <2>3, ReadersStep
<1>4. CASE Delete(c)
  BY Zenon, <1>4, WriteReaders, ReadersStep DEF Delete
<1>5. CASE FlushSwap(c)
  <2>1. \A d \in Client : d # c => loc'[d] = loc[d]
    BY Zenon, <1>1, <1>5 DEF FlushSwap
  <2>2. (IF mems[gen] = Empty THEN "empty" ELSE "build") # "lookup"
    BY Zenon, <1>2
  <2>3. SameReaders
    BY Zenon, <1>5, <2>1, <2>2, MovesReaders DEF FlushSwap
  <2> QED
    BY Zenon, <1>5, <2>3, ReadersStep DEF FlushSwap
<1>6. CASE FlushBuild(c)
  <2>1. \A d \in Client : d # c => loc'[d] = loc[d]
    BY Zenon, <1>1, <1>6 DEF FlushBuild
  <2>2. SameReaders
    BY Zenon, <1>2, <1>6, <2>1, MovesReaders DEF FlushBuild
  <2> QED
    BY Zenon, <1>0, <1>6, <2>2, ReadersStep DEF FlushBuild, CreateTable
<1>7. CASE FlushHeader(c)
  <2>1. SameReaders
    BY Zenon, <1>2, <1>7, GotoReaders DEF FlushHeader
  <2> QED
    BY Zenon, <1>0, <1>7, <2>1, ReadersStep DEF FlushHeader, WriteHeader
<1>8. CASE FlushEmpty(c) \/ FlushUnlink(c) \/ FlushInstall(c) \/ Help(c)
  <2>1. SameReaders
    BY Zenon, <1>2, <1>8, GotoReaders, ReturnReaders
       DEF FlushEmpty, FlushUnlink, FlushInstall, Help
  <2>2. files' = files
    BY Zenon, <1>8 DEF FlushEmpty, FlushUnlink, FlushInstall, Help, disk
  <2> QED
    BY Zenon, <2>1, <2>2, ReadersStep
<1> QED
  BY Zenon, <1>3, <1>4, <1>5, <1>6, <1>7, <1>8 DEF Continue

LEMMA ReadersNext ==
  ASSUME IdInv, ReadersKeepTables, [Next]_vars
  PROVE  ReadersKeepTables'
<1>0. /\ \A f, x, v : DOMAIN f \subseteq DOMAIN Set(f, x, v)
      /\ "swap" # "lookup"
  BY Zenon DEF Set
<1>1. ASSUME NEW c \in Client, Call(c)
      PROVE  ReadersKeepTables'
  BY Zenon, <1>1, GetReaders, WriteReaders, ReadersStep DEF Call, Put
<1>2. ASSUME NEW c \in Client, Close(c)
      PROVE  ReadersKeepTables'
  <2>1. SameReaders
    BY Zenon, <1>0, <1>2, GotoReaders DEF Close, SameReaders
  <2> QED
    BY Zenon, <1>2, <2>1, ReadersStep DEF Close, disk
<1>3. ASSUME UNCHANGED <<pc, loc>>, DOMAIN files \subseteq DOMAIN files'
      PROVE  ReadersKeepTables'
  BY Zenon, <1>3, ReadersStep DEF SameReaders
<1>4. ASSUME Compaction
      PROVE  ReadersKeepTables'
  <2>1. CASE Compact
    BY Zenon, <1>3, <2>1 DEF Compact, disk
  <2>2. CASE CompactMerge
    BY Zenon, <1>0, <1>3, <2>2 DEF CompactMerge, CreateTable
  <2>3. CASE CompactHeader
    BY Zenon, <1>0, <1>3, <2>3 DEF CompactHeader, WriteHeader
  <2>4. CASE CompactInstall
    <3>1. SameReaders
      BY Zenon, <2>4, ReturnReaders DEF CompactInstall, SameReaders
    <3> QED
      BY Zenon, <2>4, <3>1, ReadersStep DEF CompactInstall
  <2> QED
    BY Zenon, <1>4, <2>1, <2>2, <2>3, <2>4 DEF Compaction
<1>5. ASSUME Constructor
      PROVE  ReadersKeepTables'
  BY Zenon, <1>3, <1>5 DEF Constructor, LoadManifest, Replay, RemoveOld
<1>6. ASSUME Restarted
      PROVE  ReadersKeepTables'
  <2>1. \A c \in Client : pc'[c] # "lookup"
    BY Zenon, <1>6 DEF Restarted
  <2> QED
    BY Zenon, <2>1 DEF ReadersKeepTables
<1>7. ASSUME UNCHANGED vars
      PROVE  ReadersKeepTables'
  BY Zenon, <1>3, <1>7 DEF vars, disk
<1> QED
  BY Zenon, <1>1, <1>2, <1>4, <1>5, <1>6, <1>7, ContinueReaders DEF Next, Reopen, Crash, Rest

\* A table that a compaction has replaced keeps its file as long as a Get that
\* copied the tiers before reads it: ~SSTable removes an obsolete table's file
\* when the last shared_ptr to it goes.  It needs that no table is in the tiers
\* twice, that ids are handed out once, and that obsolete tables are not in the
\* tiers, so that a new reader never takes one whose file is about to go.
THEOREM ReadersKept == Spec => []ReadersKeepTables
<1>1. Init => ReadersKeepTables
  <2>1. ASSUME Init
        PROVE  \A c \in Client : pc[c] # "lookup"
    BY Zenon, <2>1 DEF Init
  <2> QED
    BY Zenon, <2>1 DEF ReadersKeepTables
<1>2. IdInv /\ WalInv /\ ReadersKeepTables /\ [Next]_vars
        => IdInv' /\ WalInv' /\ ReadersKeepTables'
  BY Zenon, NextId, NextWal, ReadersNext
<1> QED
  BY <1>1, <1>2, InitId, InitWal, PTL DEF Spec

----------------------------------------------------------------------------
(* Table files and manifest.                                               *)

NobodyBuilds == (\A c \in Client : ~Building(c)) /\ (job # NoJob => job.out = Empty)

HoldsMemtable(c) == pc[c] \in {"build", "header"}

MemInv ==
  /\ engine # "start" => gen \in DOMAIN mems
  /\ \A c \in Client : HoldsMemtable(c) =>
       loc[c].gen < gen /\ loc[c].gen \in DOMAIN mems /\ mems[loc[c].gen] # Empty

\* A table that is to be installed is complete.
ClientFiles(c) ==
  /\ pc[c] = "header" => loc[c].fresh
  /\ pc[c] \in {"unlink", "install"} => files[loc[c].id] # Empty
JobFiles ==
  job # NoJob =>
    /\ job.stage = "merge" => job.out = Empty
    /\ job.stage = "header" => job.fresh /\ job.out # Empty
    /\ job.stage = "install" /\ job.out # Empty => files[job.id] = job.out

\* No table file has an id that the next table may get, the manifest is that of
\* the tiers, and the tables it names are complete.
FileInv ==
  /\ engine # "dead"
  /\ \A i \in DOMAIN files : i \in Nat
       /\ i < (IF engine = "start" THEN manifest.next_id ELSE next_id)
  /\ engine # "start" =>
       manifest.tiers = tiers /\ (NobodyBuilds => manifest.next_id = next_id)
  /\ (\A c \in Client : ClientFiles(c)) /\ JobFiles
  /\ \A i \in Named(manifest.tiers) : i \in DOMAIN files /\ files[i] # Empty

MergeInv ==
  job # NoJob =>
    /\ job.bottommost => \A u \in DOMAIN tiers : u > job.tier => tiers[u] = <<>>
    /\ job.out = IF job.stage = "merge" THEN Empty ELSE Merged

\* No crash comes while a table file exists that the manifest does not name.
SafeCrashes == CrashPoints \cap {"built", "unlogged"} = {}
----------------------------------------------------------------------------
(* Memtables: the active one exists, and the one a flush writes out. *)

LEMMA KeepsMemtables ==
  ASSUME NEW ms, KeepMemtables(ms)
  PROVE  /\ gen' \in DOMAIN ms => gen' \in DOMAIN mems'
         /\ \A c \in Client : pc'[c] \in {"lookup", "build", "header"} /\ loc'[c].gen \in DOMAIN ms
              => loc'[c].gen \in DOMAIN mems'
         /\ \A g \in DOMAIN mems' : g \in DOMAIN ms /\ mems'[g] = ms[g]
<1> DEFINE G == {loc'[c].gen : c \in {d \in Client : Holds(d)}}
<1>1. mems' = [g \in DOMAIN ms \ (DOMAIN ms \ ({gen'} \cup G)) |-> ms[g]]
  BY Zenon DEF KeepMemtables, Drop
<1>2. \A c \in Client : pc'[c] \in {"lookup", "build", "header"} => loc'[c].gen \in G
  BY Zenon DEF Holds
<1> HIDE DEF G
<1> QED
  BY Zenon, <1>1, <1>2

\* A step of one client that leaves the memtables alone or writes the active one.
LEMMA MemStep ==
  ASSUME IdInv, MemInv, gen' = gen, engine = "start" => engine' = "start",
         DOMAIN mems \subseteq DOMAIN mems',
         \A g \in DOMAIN mems : g # gen => mems'[g] = mems[g],
         \A c \in Client : HoldsMemtable(c)' => HoldsMemtable(c) /\ loc'[c].gen = loc[c].gen
  PROVE  MemInv'
<1>1. gen \in Nat /\ loc \in [Client -> Local]
  BY Zenon DEF IdInv, TypeInv
<1>2. engine' # "start" => gen' \in DOMAIN mems'
  BY Zenon DEF MemInv
<1>3. ASSUME NEW c \in Client, HoldsMemtable(c)'
      PROVE  loc'[c].gen < gen' /\ loc'[c].gen \in DOMAIN mems' /\ mems'[loc'[c].gen] # Empty
  <2>1. /\ loc[c].gen < gen /\ loc[c].gen \in DOMAIN mems /\ mems[loc[c].gen] # Empty
        /\ loc'[c].gen = loc[c].gen
    BY Zenon, <1>3 DEF MemInv
  <2>2. loc[c].gen \in Nat
    BY Zenon, <1>1 DEF Local
  <2>3. loc[c].gen # gen
    BY <1>1, <2>1, <2>2
  <2> QED
    BY Zenon, <2>1, <2>3
<1> QED
  BY Zenon, <1>2, <1>3 DEF MemInv

\* A step of one client to a place where it holds no memtable.
LEMMA LeavesMemtable ==
  ASSUME IdInv, NEW c, NEW l, pc' = [pc EXCEPT ![c] = l], l \notin {"build", "header"},
         \A d \in Client : d # c => loc'[d] = loc[d]
  PROVE  \A d \in Client : HoldsMemtable(d)' => HoldsMemtable(d) /\ loc'[d].gen = loc[d].gen
<1>1. pc \in [Client -> Where]
  BY Zenon DEF IdInv, TypeInv
<1>2. ASSUME NEW d \in Client, pc'[d] \in {"build", "header"}
      PROVE  d # c /\ pc[d] = pc'[d]
  BY Zenon, <1>1, <1>2
<1> QED
  BY Zenon, <1>2 DEF HoldsMemtable

LEMMA MovesMemtable ==
  ASSUME IdInv, NEW c, Return(c) \/ \E l : l \notin {"build", "header"} /\ Goto(c, l)
  PROVE  \A d \in Client : HoldsMemtable(d)' => HoldsMemtable(d) /\ loc'[d].gen = loc[d].gen
<1>1. loc \in [Client -> Local]
  BY Zenon DEF IdInv, TypeInv
<1>2. \A d \in Client : d # c => loc'[d] = loc[d]
  BY Zenon, <1>1 DEF Return, Goto
<1>3. "idle" \notin {"build", "header"}
  BY Zenon
<1> QED
  BY Zenon, <1>2, <1>3, LeavesMemtable DEF Return, Goto

LEMMA WriteMem ==
  ASSUME IdInv, MemInv, NEW c \in Client, NEW k, NEW e, Write(c, k, e)
  PROVE  MemInv'
<1>1. /\ gen' = gen /\ engine' = engine
      /\ mems' = [mems EXCEPT ![gen] = Set(mems[gen], k, e)]
  BY Zenon DEF Write
<1>2. /\ DOMAIN mems \subseteq DOMAIN mems'
      /\ \A g \in DOMAIN mems : g # gen => mems'[g] = mems[g]
  BY Zenon, <1>1
<1>3. "swap" \notin {"build", "header"}
  BY Zenon
<1>4. Return(c) \/ \E l : l \notin {"build", "header"} /\ Goto(c, l)
  BY Zenon, <1>3 DEF Write
<1> QED
  BY Zenon, <1>1, <1>2, <1>4, MovesMemtable, MemStep

LEMMA FlushSwapMem ==
  ASSUME IdInv, MemInv, NEW c \in Client, FlushSwap(c)
  PROVE  MemInv'
<1> DEFINE ms == Set(mems, gen', Empty)
<1>1. /\ gen \in Nat /\ gen' = gen + 1 /\ loc \in [Client -> Local] /\ pc \in [Client -> Where]
      /\ engine # "start" /\ gen \in DOMAIN mems
  BY Zenon DEF IdInv, TypeInv, FlushSwap, Up, MemInv
<1>2. /\ DOMAIN ms = DOMAIN mems \cup {gen'}
      /\ \A g \in DOMAIN mems : g # gen' => ms[g] = mems[g]
  BY Zenon DEF Set
<1>3. /\ gen' \in DOMAIN ms => gen' \in DOMAIN mems'
      /\ \A d \in Client : pc'[d] \in {"lookup", "build", "header"} /\ loc'[d].gen \in DOMAIN ms
           => loc'[d].gen \in DOMAIN mems'
      /\ \A g \in DOMAIN mems' : g \in DOMAIN ms /\ mems'[g] = ms[g]
  <2>1. KeepMemtables(ms)
    BY Zenon DEF FlushSwap
  <2> HIDE DEF ms
  <2> QED
    BY Zenon, <2>1, KeepsMemtables
<1> HIDE DEF ms
<1>4. ASSUME NEW d \in Client, pc'[d] \in {"build", "header"}
      PROVE  /\ loc'[d].gen < gen' /\ loc'[d].gen \in DOMAIN mems /\ mems[loc'[d].gen] # Empty
             /\ loc'[d].gen # gen'
  <2>1. CASE d = c
    <3>1. loc'[c].gen = gen
      BY Zenon, <1>1 DEF FlushSwap, NoLocal
    <3>2. mems[gen] # Empty
      BY Zenon, <1>1, <1>4, <2>1 DEF FlushSwap
    <3> QED
      BY <1>1, <2>1, <3>1, <3>2
  <2>2. CASE d # c
    <3>1. pc'[d] = pc[d] /\ loc'[d] = loc[d] /\ loc[d].gen \in Nat
      BY Zenon, <1>1, <2>2 DEF FlushSwap, Local
    <3>2. loc[d].gen < gen /\ loc[d].gen \in DOMAIN mems /\ mems[loc[d].gen] # Empty
      BY Zenon, <1>4, <3>1 DEF MemInv, HoldsMemtable
    <3> QED
      BY <1>1, <3>1, <3>2
  <2> QED
    BY Zenon, <2>1, <2>2
<1>5. \A d \in Client : HoldsMemtable(d)' =>
        loc'[d].gen < gen' /\ loc'[d].gen \in DOMAIN mems' /\ mems'[loc'[d].gen] # Empty
  BY Zenon, <1>2, <1>3, <1>4 DEF HoldsMemtable
<1> QED
  BY Zenon, <1>2, <1>3, <1>5 DEF MemInv

\* GetLookup and FlushHeader let a memtable go.
LEMMA LetsMemtableGo ==
  ASSUME IdInv, MemInv, gen' = gen, engine' = engine, KeepMemtables(mems),
         \A c \in Client : HoldsMemtable(c)' => HoldsMemtable(c) /\ loc'[c].gen = loc[c].gen
  PROVE  MemInv'
<1>1. /\ gen' \in DOMAIN mems => gen' \in DOMAIN mems'
      /\ \A c \in Client : pc'[c] \in {"lookup", "build", "header"} /\ loc'[c].gen \in DOMAIN mems
           => loc'[c].gen \in DOMAIN mems'
      /\ \A g \in DOMAIN mems' : g \in DOMAIN mems /\ mems'[g] = mems[g]
  BY Zenon, KeepsMemtables
<1> QED
  BY Zenon, <1>1 DEF MemInv, HoldsMemtable

LEMMA ContinueMem ==
  ASSUME IdInv, MemInv, NEW c \in Client, Continue(c)
  PROVE  MemInv'
<1>1. /\ loc \in [Client -> Local] /\ pc \in [Client -> Where] /\ gen \in Nat
      /\ \A d \in Client : loc[d].gen \in Nat
  BY Zenon DEF IdInv, TypeInv, Local
<1>2. /\ "tombstone" \notin {"build", "header"} /\ "unlink" \notin {"build", "header"}
      /\ "install" \notin {"build", "header"} /\ "help" \notin {"build", "header"}
      /\ "compact" \notin {"build", "header"}
  BY Zenon
<1>3. CASE GetLookup(c)
  <2>1. \A d \in Client : HoldsMemtable(d)' => HoldsMemtable(d) /\ loc'[d].gen = loc[d].gen
    <3>1. CASE Return(c)
      BY Zenon, <3>1, MovesMemtable
    <3>2. CASE /\ pc' = [pc EXCEPT ![c] = "tombstone"]
               /\ loc' = [loc EXCEPT ![c] = [NoLocal EXCEPT !.key = loc[c].key]]
      <4>1. \A d \in Client : d # c => loc'[d] = loc[d]
        BY Zenon, <1>1, <3>2
      <4> QED
        BY Zenon, <1>2, <3>2, <4>1, LeavesMemtable
    <3> QED
      BY Zenon, <1>3, <3>1, <3>2 DEF GetLookup
  <2> QED
    BY Zenon, <1>3, <2>1, LetsMemtableGo DEF GetLookup
<1>4. CASE FlushHeader(c)
  BY Zenon, <1>2, <1>4, MovesMemtable, LetsMemtableGo DEF FlushHeader
<1>5. CASE FlushBuild(c)
  <2>1. /\ UNCHANGED <<mems, gen, engine>> /\ pc[c] = "build"
        /\ \A d \in Client : loc'[d].gen = loc[d].gen
        /\ \A d \in Client : d # c => pc'[d] = pc[d]
    BY Zenon, <1>1, <1>5 DEF FlushBuild, Up, Local
  <2> QED
    BY Zenon, <2>1 DEF MemInv, HoldsMemtable
<1>6. CASE FlushEmpty(c) \/ FlushUnlink(c) \/ FlushInstall(c) \/ Help(c)
  <2>1. UNCHANGED <<mems, gen, engine>>
    BY Zenon, <1>6 DEF FlushEmpty, FlushUnlink, FlushInstall, Help, memory
  <2>2. Return(c) \/ \E l : l \notin {"build", "header"} /\ Goto(c, l)
    BY Zenon, <1>2, <1>6 DEF FlushEmpty, FlushUnlink, FlushInstall, Help
  <2> QED
    BY Zenon, <2>1, <2>2, MovesMemtable, MemStep
<1> QED
  BY Zenon, <1>3, <1>4, <1>5, <1>6, WriteMem, FlushSwapMem DEF Continue, Delete

LEMMA NextMem ==
  ASSUME IdInv, MemInv, [Next]_vars
  PROVE  MemInv'
<1>1. ASSUME UNCHANGED <<mems, gen, pc, loc>>, engine = "start" => engine' = "start"
      PROVE  MemInv'
  BY Zenon, <1>1 DEF MemInv, HoldsMemtable
<1>2. ASSUME NEW c \in Client, Call(c)
      PROVE  MemInv'
  <2>1. ASSUME NEW op, NEW k, Get(c, op, k)
        PROVE  MemInv'
    <3>1. loc \in [Client -> Local]
      BY Zenon DEF IdInv, TypeInv
    <3>2. \A d \in Client : d # c => loc'[d] = loc[d]
      BY Zenon, <2>1, <3>1 DEF Get
    <3>3. "lookup" \notin {"build", "header"}
      BY Zenon
    <3>4. \A d \in Client : HoldsMemtable(d)' => HoldsMemtable(d) /\ loc'[d].gen = loc[d].gen
      BY Zenon, <2>1, <3>2, <3>3, LeavesMemtable DEF Get
    <3> QED
      BY Zenon, <2>1, <3>4, MemStep DEF Get, memory
  <2> QED
    BY Zenon, <1>2, <2>1, WriteMem DEF Call, Put
<1>3. ASSUME NEW c \in Client, Close(c)
      PROVE  MemInv'
  <2>1. "swap" \notin {"build", "header"} /\ "up" # "start"
    BY Zenon
  <2>2. CASE Goto(c, "swap")
    BY Zenon, <1>3, <2>1, <2>2, MovesMemtable, MemStep DEF Close, memory
  <2> QED
    BY Zenon, <1>1, <1>3, <2>1, <2>2 DEF Close, memory
<1>4. ASSUME Compaction
      PROVE  MemInv'
  <2>1. CASE Compact \/ CompactMerge \/ CompactHeader
    BY Zenon, <1>1, <2>1 DEF Compact, CompactMerge, CompactHeader, memory
  <2>2. CASE CompactInstall
    <3>1. /\ UNCHANGED <<mems, gen>> /\ engine # "start"
          /\ (UNCHANGED <<pc, loc>>) \/ Return(job.by)
      BY Zenon, <2>2 DEF CompactInstall, Stage
    <3> QED
      BY Zenon, <1>1, <3>1, MovesMemtable, MemStep
  <2> QED
    BY Zenon, <1>4, <2>1, <2>2 DEF Compaction
<1>5. ASSUME LoadManifest
      PROVE  MemInv'
  <2>1. gen' \in DOMAIN mems'
    BY Zenon, <1>5 DEF LoadManifest, Set
  <2>2. \A c \in Client : pc'[c] = "idle"
    BY Zenon, <1>5 DEF LoadManifest, IdInv, TypeInv
  <2> QED
    BY Zenon, <2>1, <2>2 DEF MemInv, HoldsMemtable
<1>6. ASSUME Replay \/ RemoveOld
      PROVE  MemInv'
  <2>1. /\ UNCHANGED <<gen, pc, loc>> /\ engine # "start"
        /\ \/ UNCHANGED mems
           \/ LET r == Head(replay.records) IN mems' = [mems EXCEPT ![gen] = Set(@, r.key, r.entry)]
    BY Zenon, <1>6 DEF Replay, RemoveOld, memory
  <2>2. DOMAIN mems \subseteq DOMAIN mems' /\ \A g \in DOMAIN mems : g # gen => mems'[g] = mems[g]
    BY Zenon, <2>1
  <2> QED
    BY Zenon, <2>1, <2>2, MemStep DEF HoldsMemtable
<1>7. ASSUME Restarted
      PROVE  MemInv'
  <2>1. engine' = "start" /\ \A c \in Client : pc'[c] = "idle"
    BY Zenon, <1>7 DEF Restarted
  <2> QED
    BY Zenon, <2>1 DEF MemInv, HoldsMemtable
<1>8. ASSUME UNCHANGED vars
      PROVE  MemInv'
  BY Zenon, <1>1, <1>8 DEF vars, memory
<1> QED
  BY Zenon, <1>2, <1>3, <1>4, <1>5, <1>6, <1>7, <1>8, ContinueMem
     DEF Next, Constructor, Reopen, Crash, Rest

LEMMA InitMem == Init => MemInv
<1> SUFFICES ASSUME Init
             PROVE  MemInv
  BY Zenon
<1>1. gen \in DOMAIN mems /\ \A c \in Client : pc[c] = "idle"
  BY Zenon DEF Init, Set
<1> QED
  BY Zenon, <1>1 DEF MemInv, HoldsMemtable

----------------------------------------------------------------------------
(* Table files. *)

\* c builds a table in the next state only if it builds the same one now.
SamePlace(c) ==
  /\ Building(c)' <=> Building(c)
  /\ Building(c) => /\ loc'[c] = loc[c]
                    /\ pc'[c] = pc[c] \/ (pc[c] = "unlink" /\ pc'[c] = "install")

LEMMA OthersStay ==
  ASSUME IdInv, NEW c \in Client, NEW l, pc' = [pc EXCEPT ![c] = l],
         \A d \in Client : d # c => loc'[d] = loc[d]
  PROVE  \A d \in Client : d # c => SamePlace(d)
<1>1. pc \in [Client -> Where]
  BY Zenon DEF IdInv, TypeInv
<1>2. \A d \in Client : d # c => pc'[d] = pc[d]
  BY Zenon, <1>1
<1> QED
  BY Zenon, <1>2 DEF SamePlace, Building

\* A client that builds no table moves on.
LEMMA MovesPlace ==
  ASSUME IdInv, NEW c \in Client, NEW l, pc' = [pc EXCEPT ![c] = l],
         \A d \in Client : d # c => loc'[d] = loc[d],
         l \notin {"header", "unlink", "install"}, ~Building(c)
  PROVE  \A d \in Client : SamePlace(d)
<1>1. pc \in [Client -> Where]
  BY Zenon DEF IdInv, TypeInv
<1>2. pc'[c] = l
  BY Zenon, <1>1
<1>3. SamePlace(c)
  BY Zenon, <1>2 DEF SamePlace, Building
<1> QED
  BY Zenon, <1>3, OthersStay

LEMMA GoesPlace ==
  ASSUME IdInv, NEW c \in Client, ~Building(c),
         Return(c) \/ \E l : l \notin {"header", "unlink", "install"} /\ Goto(c, l)
  PROVE  \A d \in Client : SamePlace(d)
<1>1. loc \in [Client -> Local]
  BY Zenon DEF IdInv, TypeInv
<1>2. \A d \in Client : d # c => loc'[d] = loc[d]
  BY Zenon, <1>1 DEF Return, Goto
<1>3. "idle" \notin {"header", "unlink", "install"}
  BY Zenon
<1> QED
  BY Zenon, <1>2, <1>3, MovesPlace DEF Return, Goto

\* A step that creates, writes and installs no table.
LEMMA FilesStep ==
  ASSUME IdInv, IdInv', FileInv, UNCHANGED <<manifest, next_id, tiers>>,
         engine \notin {"start", "dead"}, engine' \notin {"start", "dead"},
         job' = job \/ (job = NoJob /\ job'.out = Empty /\ job'.stage = "merge"),
         DOMAIN files' \subseteq DOMAIN files, \A i \in DOMAIN files' : files'[i] = files[i],
         \A c \in Client : SamePlace(c)
  PROVE  FileInv'
<1>1. \A i \in DOMAIN files' : i \in Nat /\ i < next_id
  BY Zenon DEF FileInv
<1>2. manifest'.tiers = tiers' /\ (NobodyBuilds' => manifest'.next_id = next_id')
  <2>1. NobodyBuilds' => NobodyBuilds
    BY Zenon DEF NobodyBuilds, SamePlace, FileInv
  <2> QED
    BY Zenon, <2>1 DEF FileInv
<1>3. ASSUME NEW c \in Client
      PROVE  /\ pc'[c] = "header" => loc'[c].fresh
             /\ pc'[c] \in {"unlink", "install"} => files'[loc'[c].id] # Empty
  <2>1. CASE ~Building(c)
    BY Zenon, <2>1 DEF SamePlace, Building
  <2>2. CASE Building(c)
    <3>1. loc'[c] = loc[c] /\ (pc'[c] = pc[c] \/ (pc[c] = "unlink" /\ pc'[c] = "install"))
      BY Zenon, <2>2 DEF SamePlace
    <3>2. loc[c].id \in DOMAIN files'
      BY Zenon, <2>2, <3>1 DEF IdInv, FlushInv, Fresh, SamePlace
    <3>3. files'[loc[c].id] = files[loc[c].id]
      BY Zenon, <3>2
    <3>4. /\ pc[c] = "header" => loc[c].fresh
          /\ pc[c] \in {"unlink", "install"} => files[loc[c].id] # Empty
      BY Zenon DEF FileInv, ClientFiles
    <3> QED
      BY Zenon, <3>1, <3>3, <3>4
  <2> QED
    BY Zenon, <2>1, <2>2
<1>4. ASSUME job' # NoJob
      PROVE  /\ job'.stage = "merge" => job'.out = Empty
             /\ job'.stage = "header" => job'.fresh /\ job'.out # Empty
             /\ job'.stage = "install" /\ job'.out # Empty => files'[job'.id] = job'.out
  <2>1. CASE job' = job
    <3>1. job.out # Empty => files'[job.id] = files[job.id]
      BY Zenon, <1>4, <2>1 DEF IdInv, JobInv, Fresh
    <3> QED
      BY Zenon, <1>4, <2>1, <3>1 DEF FileInv, JobFiles
  <2>2. CASE job'.out = Empty /\ job'.stage = "merge"
    BY Zenon, <2>2
  <2> QED
    BY Zenon, <2>1, <2>2
<1>5. \A i \in Named(manifest'.tiers) : i \in DOMAIN files' /\ files'[i] # Empty
  <2>1. Named(manifest'.tiers) = Named(tiers')
    BY Zenon, <1>2
  <2>2. \A i \in Named(tiers') : i \in DOMAIN files'
    BY Zenon DEF IdInv, TiersInv
  <2>3. \A i \in Named(manifest'.tiers) : files[i] # Empty
    BY Zenon DEF FileInv
  <2> QED
    BY Zenon, <2>1, <2>2, <2>3
<1> QED
  BY Zenon, <1>1, <1>2, <1>3, <1>4, <1>5 DEF FileInv, ClientFiles, JobFiles

\* A step of the constructor, or none.
LEMMA SameFiles ==
  ASSUME FileInv, UNCHANGED <<manifest, next_id, tiers, job, files, pc, loc>>,
         engine' # "dead", engine' = "start" <=> engine = "start"
  PROVE  FileInv'
BY Zenon DEF FileInv, ClientFiles, JobFiles, NobodyBuilds, Building

LEMMA LocalFiles ==
  ASSUME IdInv, IdInv', FileInv, NEW c \in Client,
         \/ \E op, k : Get(c, op, k)
         \/ \E k, e : Write(c, k, e) /\ pc[c] \in {"idle", "tombstone"} /\ engine \in {"up", "closing"}
         \/ GetLookup(c) \/ FlushSwap(c) \/ FlushEmpty(c) \/ FlushUnlink(c) \/ Help(c)
  PROVE  FileInv'
<1>1. /\ loc \in [Client -> Local] /\ pc \in [Client -> Where]
      /\ engine \in {"up", "closing"} => engine \notin {"start", "dead"}
  BY Zenon DEF IdInv, TypeInv
<1>2. /\ "tombstone" \notin {"header", "unlink", "install"}
      /\ "swap" \notin {"header", "unlink", "install"}
      /\ "empty" \notin {"header", "unlink", "install"}
      /\ "build" \notin {"header", "unlink", "install"}
      /\ "lookup" \notin {"header", "unlink", "install"}
      /\ "compact" \notin {"header", "unlink", "install"}
      /\ \A p : p \in {"idle", "lookup", "tombstone", "swap", "empty", "help"} =>
           p \notin {"header", "unlink", "install"}
  BY Zenon
<1>3. ASSUME NEW op, NEW k, Get(c, op, k)
      PROVE  FileInv'
  <2>1. /\ engine = "up" /\ ~Building(c) /\ UNCHANGED <<manifest, next_id, tiers, job, files, engine>>
        /\ pc' = [pc EXCEPT ![c] = "lookup"]
    BY Zenon, <1>3 DEF Get, disk, memory, Building
  <2>2. \A d \in Client : d # c => loc'[d] = loc[d]
    BY Zenon, <1>1, <1>3 DEF Get
  <2>3. \A d \in Client : SamePlace(d)
    BY Zenon, <1>2, <2>1, <2>2, MovesPlace
  <2> QED
    BY Zenon, <2>1, <2>3, FilesStep
<1>4. ASSUME NEW k, NEW e, Write(c, k, e), pc[c] \in {"idle", "tombstone"},
             engine \in {"up", "closing"}
      PROVE  FileInv'
  <2>1. ~Building(c) /\ UNCHANGED <<manifest, next_id, tiers, job, files, engine>>
    BY Zenon, <1>4 DEF Write, Building
  <2>2. \A d \in Client : SamePlace(d)
    BY Zenon, <1>2, <1>4, <2>1, GoesPlace DEF Write
  <2> QED
    BY Zenon, <1>4, <2>1, <2>2, FilesStep
<1>5. CASE GetLookup(c)
  <2>1. /\ engine \in {"up", "closing"} /\ ~Building(c)
        /\ UNCHANGED <<manifest, next_id, tiers, job, engine>>
    BY Zenon, <1>5 DEF GetLookup, Up, Building
  <2>2. DOMAIN files' \subseteq DOMAIN files /\ \A i \in DOMAIN files' : files'[i] = files[i]
    BY Zenon, <1>5 DEF GetLookup, ReleaseTables, Drop
  <2>3. PICK l : /\ l \notin {"header", "unlink", "install"}
                 /\ pc' = [pc EXCEPT ![c] = l] /\ \A d \in Client : d # c => loc'[d] = loc[d]
    BY Zenon, <1>1, <1>5 DEF GetLookup, Return
  <2>4. \A d \in Client : SamePlace(d)
    BY Zenon, <2>1, <2>3, MovesPlace
  <2> QED
    BY Zenon, <1>1, <2>1, <2>2, <2>4, FilesStep
<1>6. CASE FlushSwap(c)
  <2>1. /\ engine \in {"up", "closing"} /\ ~Building(c)
        /\ UNCHANGED <<manifest, next_id, tiers, job, engine, files>>
    BY Zenon, <1>6 DEF FlushSwap, Up, Building
  <2>2. PICK l : /\ l \notin {"header", "unlink", "install"}
                 /\ pc' = [pc EXCEPT ![c] = l] /\ \A d \in Client : d # c => loc'[d] = loc[d]
    <3> DEFINE l == IF mems[gen] = Empty THEN "empty" ELSE "build"
    <3>1. pc' = [pc EXCEPT ![c] = l] /\ l \notin {"header", "unlink", "install"}
      BY Zenon, <1>2, <1>6 DEF FlushSwap
    <3>2. \A d \in Client : d # c => loc'[d] = loc[d]
      BY Zenon, <1>1, <1>6 DEF FlushSwap
    <3> QED
      BY Zenon, <3>1, <3>2
  <2>3. \A d \in Client : SamePlace(d)
    BY Zenon, <2>1, <2>2, MovesPlace
  <2> QED
    BY Zenon, <2>1, <2>3, FilesStep
<1>7. CASE FlushEmpty(c)
  <2>1. /\ engine \in {"up", "closing"} /\ ~Building(c)
        /\ UNCHANGED <<manifest, next_id, tiers, job, engine, files>>
    BY Zenon, <1>7 DEF FlushEmpty, Up, Building, memory
  <2>2. \A d \in Client : SamePlace(d)
    BY Zenon, <1>7, <2>1, GoesPlace DEF FlushEmpty
  <2> QED
    BY Zenon, <2>1, <2>2, FilesStep
<1>8. CASE FlushUnlink(c)
  <2>1. /\ engine \in {"up", "closing"} /\ pc[c] = "unlink" /\ Goto(c, "install")
        /\ UNCHANGED <<manifest, next_id, tiers, job, engine, files>>
    BY Zenon, <1>8 DEF FlushUnlink, Up, memory
  <2>2. pc'[c] = "install" /\ loc' = loc
    BY Zenon, <1>1, <2>1 DEF Goto
  <2>3. SamePlace(c)
    BY Zenon, <2>1, <2>2 DEF SamePlace, Building
  <2>4. \A d \in Client : d # c => SamePlace(d)
    BY Zenon, <2>1, OthersStay DEF Goto
  <2> QED
    BY Zenon, <2>1, <2>3, <2>4, FilesStep
<1>9. CASE Help(c)
  <2>1. /\ engine \in {"up", "closing"} /\ ~Building(c)
        /\ UNCHANGED <<manifest, next_id, tiers, engine, files>>
    BY Zenon, <1>9 DEF Help, Up, Building, disk, memory
  <2>2. \A d \in Client : SamePlace(d)
    BY Zenon, <1>2, <1>9, <2>1, GoesPlace DEF Help
  <2>3. job' = job \/ (job = NoJob /\ job'.out = Empty /\ job'.stage = "merge")
    BY Zenon, <1>9, Started DEF Help
  <2> QED
    BY Zenon, <2>1, <2>2, <2>3, FilesStep
<1> QED
  BY Zenon, <1>3, <1>4, <1>5, <1>6, <1>7, <1>8, <1>9

\* A step that creates a table file or writes its header: w is its id.
LEMMA WritesFile ==
  ASSUME IdInv, IdInv', FileInv, engine \notin {"start", "dead"}, engine' = engine,
         UNCHANGED <<manifest, tiers>>, next_id <= next_id', ~NobodyBuilds',
         NEW w \in Nat, w < next_id', w \notin Named(tiers),
         DOMAIN files' = DOMAIN files \cup {w},
         \A i \in DOMAIN files : i # w => files'[i] = files[i],
         \A c \in Client : ClientFiles(c)', JobFiles'
  PROVE  FileInv'
<1>0. next_id \in Nat /\ next_id' \in Nat
  BY Zenon DEF IdInv, TypeInv
<1>1. \A i \in DOMAIN files' : i \in Nat /\ i < next_id'
  <2>1. \A i \in DOMAIN files : i \in Nat /\ i < next_id
    BY Zenon DEF FileInv
  <2> QED
    BY <1>0, <2>1
<1>2. manifest'.tiers = tiers'
  BY Zenon DEF FileInv
<1>3. \A i \in Named(manifest'.tiers) : i \in DOMAIN files' /\ files'[i] # Empty
  BY Zenon, <1>2 DEF FileInv
<1> QED
  BY Zenon, <1>1, <1>2, <1>3 DEF FileInv

LEMMA ClientStays ==
  ASSUME IdInv, FileInv, NEW c \in Client, SamePlace(c),
         Building(c) => files'[loc[c].id] = files[loc[c].id]
  PROVE  ClientFiles(c)'
<1>1. ClientFiles(c)
  BY Zenon DEF FileInv
<1>2. CASE Building(c)
  BY Zenon, <1>1, <1>2 DEF SamePlace, ClientFiles
<1>3. CASE ~Building(c)
  BY Zenon, <1>3 DEF SamePlace, ClientFiles, Building
<1> QED
  BY Zenon, <1>2, <1>3

LEMMA JobStays ==
  ASSUME IdInv, FileInv, job' = job,
         job # NoJob /\ job.out # Empty => files'[job.id] = files[job.id]
  PROVE  JobFiles'
BY Zenon DEF FileInv, JobFiles

LEMMA FlushBuildFiles ==
  ASSUME IdInv, IdInv', FileInv, NEW c \in Client, FlushBuild(c)
  PROVE  FileInv'
<1>1. /\ next_id \in Nat /\ loc \in [Client -> Local] /\ pc \in [Client -> Where]
      /\ engine \in {"up", "closing"} /\ next_id' = next_id + 1 /\ CreateTable(next_id)
      /\ UNCHANGED <<manifest, tiers, job, engine>> /\ pc' = [pc EXCEPT ![c] = "header"]
      /\ loc' = [loc EXCEPT ![c].id = next_id, ![c].fresh = next_id \notin DOMAIN files]
      /\ ~Building(c)
  BY Zenon DEF FlushBuild, Up, IdInv, TypeInv, Building
<1>2. next_id \notin DOMAIN files
  <2>1. \A i \in DOMAIN files : i \in Nat /\ i < next_id
    BY Zenon, <1>1 DEF FileInv
  <2> QED
    BY <1>1, <2>1
<1>3. /\ DOMAIN files' = DOMAIN files \cup {next_id}
      /\ \A i \in DOMAIN files : i # next_id => files'[i] = files[i]
  BY Zenon, <1>1, <1>2 DEF CreateTable, Set
<1>4. pc'[c] = "header" /\ loc'[c].fresh /\ \A d \in Client : d # c => loc'[d] = loc[d]
  BY Zenon, <1>1, <1>2 DEF Local
<1>5. \A d \in Client : ClientFiles(d)'
  <2>1. ClientFiles(c)'
    BY Zenon, <1>4 DEF ClientFiles
  <2>2. ASSUME NEW d \in Client, d # c
        PROVE  ClientFiles(d)'
    <3>1. SamePlace(d)
      BY Zenon, <1>1, <1>4, <2>2, OthersStay
    <3>2. Building(d) => loc[d].id \in DOMAIN files
      BY Zenon DEF IdInv, FlushInv, Fresh
    <3> QED
      BY Zenon, <1>2, <1>3, <3>1, <3>2, ClientStays
  <2> QED
    BY Zenon, <2>1, <2>2
<1>6. JobFiles'
  <2>1. job # NoJob /\ job.out # Empty => job.id \in DOMAIN files
    BY Zenon DEF IdInv, JobInv, Fresh
  <2> QED
    BY Zenon, <1>1, <1>2, <1>3, <2>1, JobStays
<1>7. next_id \notin Named(tiers)
  BY Zenon, <1>2 DEF IdInv, TiersInv
<1>8. ~NobodyBuilds'
  BY Zenon, <1>4 DEF NobodyBuilds, Building
<1>9. next_id < next_id' /\ next_id <= next_id' /\ engine \notin {"start", "dead"}
  BY <1>1
<1> QED
  BY Zenon, <1>1, <1>3, <1>5, <1>6, <1>7, <1>8, <1>9, WritesFile

LEMMA FlushHeaderFiles ==
  ASSUME IdInv, IdInv', MemInv, FileInv, NEW c \in Client, FlushHeader(c)
  PROVE  FileInv'
<1> DEFINE w == loc[c].id
<1>1. /\ next_id \in Nat /\ loc \in [Client -> Local] /\ pc \in [Client -> Where]
      /\ engine \in {"up", "closing"} /\ pc[c] = "header" /\ Goto(c, "unlink")
      /\ UNCHANGED <<manifest, tiers, job, engine, next_id>>
      /\ WriteHeader(loc[c].id, loc[c].fresh, mems[loc[c].gen])
  BY Zenon DEF FlushHeader, Up, IdInv, TypeInv
<1>2. /\ w \in DOMAIN files /\ w \notin Named(tiers) /\ w < next_id
      /\ \A d \in Client : d # c /\ Building(d) => loc[d].id # w
      /\ job # NoJob /\ job.out # Empty => job.id # w
  <2>1. Building(c)
    BY Zenon, <1>1 DEF Building
  <2> QED
    BY Zenon, <2>1 DEF IdInv, FlushInv, JobInv, Fresh
<1>3. loc[c].fresh /\ mems[loc[c].gen] # Empty
  <2>1. pc[c] \in {"build", "header"}
    BY Zenon, <1>1
  <2> QED
    BY Zenon, <1>1, <2>1 DEF FileInv, ClientFiles, MemInv, HoldsMemtable
<1>4. files' = Set(files, w, mems[loc[c].gen])
  BY Zenon, <1>1, <1>3 DEF WriteHeader
<1>5. /\ DOMAIN files' = DOMAIN files \cup {w} /\ files'[w] # Empty
      /\ \A i \in DOMAIN files : i # w => files'[i] = files[i]
  BY Zenon, <1>3, <1>4 DEF Set
<1>6. pc'[c] = "unlink" /\ loc' = loc
  BY Zenon, <1>1 DEF Goto
<1>7. w \in Nat /\ next_id <= next_id' /\ engine \notin {"start", "dead"}
  <2>1. loc[c] \in Local
    BY Zenon, <1>1
  <2>2. next_id <= next_id' /\ engine \notin {"start", "dead"}
    BY <1>1
  <2> QED
    BY Zenon, <2>1, <2>2 DEF Local
<1>8. ~NobodyBuilds'
  BY Zenon, <1>6 DEF NobodyBuilds, Building
<1>9. \A d \in Client : ClientFiles(d)'
  <2>1. ClientFiles(c)'
    BY Zenon, <1>5, <1>6 DEF ClientFiles
  <2>2. ASSUME NEW d \in Client, d # c
        PROVE  ClientFiles(d)'
    <3>1. SamePlace(d)
      BY Zenon, <1>1, <1>6, <2>2, OthersStay DEF Goto
    <3>2. Building(d) => loc[d].id \in DOMAIN files /\ loc[d].id # w
      BY Zenon, <1>2, <2>2 DEF IdInv, FlushInv, Fresh
    <3> HIDE DEF w
    <3> QED
      BY Zenon, <1>5, <3>1, <3>2, ClientStays
  <2> QED
    BY Zenon, <2>1, <2>2
<1>10. JobFiles'
  <2>1. job # NoJob /\ job.out # Empty => job.id \in DOMAIN files
    BY Zenon DEF IdInv, JobInv, Fresh
  <2> QED
    BY Zenon, <1>1, <1>2, <1>5, <2>1, JobStays
<1> HIDE DEF w
<1> QED
  BY Zenon, <1>1, <1>2, <1>5, <1>7, <1>8, <1>9, <1>10, WritesFile

\* The tiers change and go to the manifest: no table file is created or written.
LEMMA InstallsFile ==
  ASSUME IdInv, IdInv', FileInv, engine \notin {"start", "dead"}, engine' = engine,
         UNCHANGED next_id, PersistManifest, ManifestFits',
         DOMAIN files' \subseteq DOMAIN files, \A i \in DOMAIN files' : files'[i] = files[i],
         \A i \in Named(tiers') : i \in DOMAIN files => files[i] # Empty,
         \A c \in Client : ClientFiles(c)', JobFiles'
  PROVE  FileInv'
<1>1. manifest' = [next_id |-> next_id, tiers |-> tiers']
  BY Zenon DEF PersistManifest, ManifestFits
<1>2. manifest'.tiers = tiers' /\ manifest'.next_id = next_id
  BY Zenon, <1>1
<1>3. \A i \in DOMAIN files' : i \in Nat /\ i < next_id'
  BY Zenon DEF FileInv
<1>4. \A i \in Named(manifest'.tiers) : i \in DOMAIN files' /\ files'[i] # Empty
  BY Zenon, <1>2 DEF IdInv, TiersInv
<1> QED
  BY Zenon, <1>2, <1>3, <1>4 DEF FileInv

LEMMA FlushInstallFiles ==
  ASSUME IdInv, IdInv', FileInv, ManifestFits', NEW c \in Client, FlushInstall(c)
  PROVE  FileInv'
<1>1. /\ loc \in [Client -> Local] /\ pc \in [Client -> Where] /\ tiers \in Seq(Seq(Nat))
      /\ Distinct(tiers) /\ engine \in {"up", "closing"} /\ pc[c] = "install"
      /\ UNCHANGED <<files, next_id, job, engine>>
      /\ tiers' = Prepend(tiers, loc[c].id) /\ PersistManifest
  BY Zenon DEF FlushInstall, Up, IdInv, TypeInv, TiersInv, Prepend
<1>2. /\ loc[c].id \notin Named(tiers) /\ files[loc[c].id] # Empty
  BY Zenon, <1>1 DEF IdInv, FlushInv, Fresh, Building, FileInv, ClientFiles
<1>3. loc[c].id \in Nat
  <2>1. loc[c] \in Local
    BY Zenon, <1>1
  <2> QED
    BY Zenon, <2>1 DEF Local
<1>4. Named(tiers') \subseteq Named(tiers) \cup {loc[c].id}
  BY Zenon, <1>1, <1>2, <1>3, PrependMoved
<1>5. \A i \in Named(tiers') : i \in DOMAIN files => files[i] # Empty
  <2>1. \A i \in Named(tiers) : files[i] # Empty
    <3>1. manifest.tiers = tiers
      BY Zenon, <1>1 DEF FileInv
    <3> QED
      BY Zenon, <3>1 DEF FileInv
  <2> QED
    BY Zenon, <1>2, <1>4, <2>1
<1>6. \A d \in Client : ClientFiles(d)'
  <2>1. PICK l : /\ l \in {"idle", "help"} /\ pc' = [pc EXCEPT ![c] = l]
                 /\ \A d \in Client : d # c => loc'[d] = loc[d]
    <3>1. Goto(c, "help") \/ Return(c)
      BY Zenon DEF FlushInstall
    <3> QED
      BY Zenon, <1>1, <3>1 DEF Goto, Return
  <2>2. ClientFiles(c)'
    BY Zenon, <1>1, <2>1 DEF ClientFiles
  <2>3. \A d \in Client : d # c => SamePlace(d)
    BY Zenon, <2>1, OthersStay
  <2> QED
    BY Zenon, <1>1, <2>2, <2>3, ClientStays
<1>7. JobFiles'
  BY Zenon, <1>1, JobStays
<1>8. engine \notin {"start", "dead"}
  BY Zenon, <1>1
<1> QED
  BY Zenon, <1>1, <1>5, <1>6, <1>7, <1>8, InstallsFile

LEMMA JobIsSome ==
  ASSUME NEW j, IsJob(j)
  PROVE  j # NoJob /\ \A r : DOMAIN r = DOMAIN j => r # NoJob
<1> DEFINE f == [by |-> j.by, stage |-> j.stage, tier |-> j.tier, tables |-> j.tables,
                 bottommost |-> j.bottommost, out |-> j.out, id |-> j.id, fresh |-> j.fresh]
<1>1. j = f
  BY Zenon DEF IsJob
<1>2. DOMAIN f = {"by", "stage", "tier", "tables", "bottommost", "out", "id", "fresh"}
  BY Zenon
<1> HIDE DEF f
<1>3. "stage" \in DOMAIN j
  BY Zenon, <1>1, <1>2
<1>4. DOMAIN NoJob = {"by"} /\ "stage" # "by"
  BY Zenon DEF NoJob
<1>5. "stage" \notin DOMAIN NoJob
  BY Zenon, <1>4
<1> QED
  BY Zenon, <1>3, <1>5

LEMMA CompactMergeFiles ==
  ASSUME IdInv, IdInv', FileInv, CompactMerge
  PROVE  FileInv'
<1>1. /\ engine \in {"up", "closing"} /\ job # NoJob /\ job.stage = "merge" /\ next_id \in Nat
      /\ UNCHANGED <<manifest, tiers, engine, pc, loc>>
  BY Zenon DEF CompactMerge, Stage, IdInv, TypeInv
<1>2. IsJob(job) /\ job.out = Empty
  BY Zenon, <1>1 DEF FileInv, JobFiles, IdInv, TypeInv
<1>3. engine \notin {"start", "dead"} /\ \A c \in Client : SamePlace(c)
  BY Zenon, <1>1 DEF SamePlace, Building
<1>4. CASE Merged = Empty
  <2>1. job' = [job EXCEPT !.stage = "install"] /\ UNCHANGED <<files, next_id>>
    BY Zenon, <1>4 DEF CompactMerge
  <2>2. job'.out = Empty /\ job'.stage = "install"
    BY Zenon, <1>2, <2>1 DEF IsJob
  <2>3. NobodyBuilds' => NobodyBuilds
    BY Zenon, <1>1, <1>2 DEF NobodyBuilds, Building
  <2>4. JobFiles'
    BY Zenon, <2>2 DEF JobFiles
  <2>5. \A c \in Client : ClientFiles(c)'
    BY Zenon, <1>1, <2>1 DEF FileInv, ClientFiles
  <2> QED
    BY Zenon, <1>1, <2>1, <2>3, <2>4, <2>5 DEF FileInv
<1>5. CASE Merged # Empty
  <2>1. /\ CreateTable(next_id) /\ next_id' = next_id + 1
        /\ job' = [job EXCEPT !.stage = "header", !.out = Merged, !.id = next_id,
                              !.fresh = next_id \notin DOMAIN files]
    BY Zenon, <1>5 DEF CompactMerge
  <2>2. next_id \notin DOMAIN files
    <3>1. \A i \in DOMAIN files : i \in Nat /\ i < next_id
      BY Zenon, <1>1 DEF FileInv
    <3> QED
      BY <1>1, <3>1
  <2>3. /\ DOMAIN files' = DOMAIN files \cup {next_id}
        /\ \A i \in DOMAIN files : i # next_id => files'[i] = files[i]
    BY Zenon, <2>1, <2>2 DEF CreateTable, Set
  <2>4. job'.stage = "header" /\ job'.out = Merged /\ job'.fresh /\ job' # NoJob
    <3> DEFINE m == Merged
    <3> HIDE DEF m
    <3>1. /\ job' = [job EXCEPT !.stage = "header", !.out = m, !.id = next_id,
                                !.fresh = next_id \notin DOMAIN files]
      BY Zenon, <2>1 DEF m
    <3>2. job'.stage = "header" /\ job'.out = m /\ job'.fresh
      BY Zenon, <1>2, <2>2, <3>1 DEF IsJob
    <3>3. job' # NoJob
      <4>1. DOMAIN job' = DOMAIN job
        BY Zenon, <1>2, <3>1
      <4> QED
        BY Zenon, <1>2, <4>1, JobIsSome
    <3> QED
      BY Zenon, <3>2, <3>3 DEF m
  <2>5. JobFiles'
    BY Zenon, <1>5, <2>4 DEF JobFiles
  <2>6. ~NobodyBuilds'
    BY Zenon, <1>5, <2>4 DEF NobodyBuilds
  <2>7. \A c \in Client : ClientFiles(c)'
    <3>1. \A c \in Client : Building(c) => loc[c].id \in DOMAIN files
      BY Zenon DEF IdInv, FlushInv, Fresh
    <3> QED
      BY Zenon, <1>3, <2>2, <2>3, <3>1, ClientStays
  <2>8. next_id \notin Named(tiers)
    BY Zenon, <2>2 DEF IdInv, TiersInv
  <2>9. next_id < next_id' /\ next_id <= next_id'
    BY <1>1, <2>1
  <2> QED
    BY Zenon, <1>1, <1>3, <2>3, <2>5, <2>6, <2>7, <2>8, <2>9, WritesFile
<1> QED
  BY Zenon, <1>4, <1>5

LEMMA CompactHeaderFiles ==
  ASSUME IdInv, IdInv', FileInv, CompactHeader
  PROVE  FileInv'
<1>1. /\ engine \in {"up", "closing"} /\ job # NoJob /\ job.stage = "header" /\ next_id \in Nat
      /\ UNCHANGED <<manifest, tiers, engine, pc, loc, next_id>>
      /\ job' = [job EXCEPT !.stage = "install"] /\ WriteHeader(job.id, job.fresh, job.out)
  BY Zenon DEF CompactHeader, Stage, IdInv, TypeInv, memory
<1>2. IsJob(job) /\ job.out # Empty /\ job.fresh
  BY Zenon, <1>1 DEF FileInv, JobFiles, IdInv, TypeInv
<1>3. engine \notin {"start", "dead"} /\ \A c \in Client : SamePlace(c)
  BY Zenon, <1>1 DEF SamePlace, Building
<1>4. /\ DOMAIN files' = DOMAIN files \cup {job.id} /\ files'[job.id] = job.out
      /\ \A i \in DOMAIN files : i # job.id => files'[i] = files[i]
  BY Zenon, <1>1, <1>2 DEF WriteHeader, Set
<1>5. /\ job.id < next_id /\ job.id \notin Named(tiers)
      /\ \A c \in Client : Building(c) => loc[c].id # job.id /\ loc[c].id \in DOMAIN files
  BY Zenon, <1>1, <1>2 DEF IdInv, JobInv, FlushInv, Fresh
<1>6. job'.stage = "install" /\ job'.out = job.out /\ job'.id = job.id /\ job.id \in Nat
  BY Zenon, <1>1, <1>2 DEF IsJob
<1>7. JobFiles'
  BY Zenon, <1>4, <1>6 DEF JobFiles
<1>8. ~NobodyBuilds'
  <2>1. DOMAIN job' = DOMAIN job
    BY Zenon, <1>1
  <2>2. job' # NoJob
    BY Zenon, <1>2, <2>1, JobIsSome
  <2> QED
    BY Zenon, <1>2, <1>6, <2>2 DEF NobodyBuilds
<1>9. \A c \in Client : ClientFiles(c)'
  BY Zenon, <1>3, <1>4, <1>5, ClientStays
<1>10. next_id <= next_id'
  BY <1>1
<1> QED
  BY Zenon, <1>1, <1>3, <1>4, <1>5, <1>6, <1>7, <1>8, <1>9, <1>10, WritesFile

LEMMA CompactInstallFiles ==
  ASSUME IdInv, IdInv', FileInv, ManifestFits', CompactInstall
  PROVE  FileInv'
<1>1. /\ Stage("install") /\ tiers' = Compacted /\ PersistManifest /\ job' = NoJob
      /\ UNCHANGED next_id /\ engine' = engine /\ ReleaseTables(obsolete \cup Range(job.tables))
      /\ IF job.by = Background THEN UNCHANGED <<pc, loc>> ELSE Return(job.by)
  BY Zenon DEF CompactInstall, ManifestFits
<1>2. /\ IsJob(job) /\ job # NoJob /\ job.stage = "install" /\ engine \notin {"start", "dead"}
      /\ job.by \in Client => pc[job.by] = "compact"
  <2>1. /\ IsJob(job) /\ job # NoJob /\ job.stage = "install" /\ engine \in {"up", "closing"}
        /\ job.by \in Client => pc[job.by] = "compact"
    BY Zenon, <1>1, StagedJob
  <2> QED
    BY Zenon, <2>1
<1>3. DOMAIN files' \subseteq DOMAIN files /\ \A i \in DOMAIN files' : files'[i] = files[i]
  BY Zenon, <1>1 DEF ReleaseTables, Drop
<1>4. \A i \in Named(tiers') : i \in DOMAIN files => files[i] # Empty
  <2>1. \A i \in Named(tiers') : i \in Named(tiers) \/ (job.out # Empty /\ i = job.id)
    BY Zenon, <1>1, CompactedMoved
  <2>2. \A i \in Named(tiers) : files[i] # Empty
    <3>1. manifest.tiers = tiers
      BY Zenon, <1>2 DEF FileInv
    <3> QED
      BY Zenon, <3>1 DEF FileInv
  <2>3. job.out # Empty => files[job.id] = job.out
    BY Zenon, <1>2 DEF FileInv, JobFiles
  <2> QED
    BY Zenon, <2>1, <2>2, <2>3
<1>5. \A c \in Client : SamePlace(c)
  <2>1. CASE job.by = Background
    BY Zenon, <1>1, <2>1 DEF SamePlace, Building
  <2>2. CASE job.by # Background
    <3>1. job.by \in Client /\ Return(job.by)
      BY Zenon, <1>1, <1>2, <2>2 DEF IsJob
    <3>2. ~Building(job.by)
      BY Zenon, <1>2, <3>1 DEF Building
    <3> QED
      BY Zenon, <3>1, <3>2, GoesPlace
  <2> QED
    BY Zenon, <2>1, <2>2
<1>6. \A c \in Client : ClientFiles(c)'
  <2>1. \A c \in Client : Building(c) => loc[c].id \in DOMAIN files'
    <3>1. \A c \in Client : Building(c) => Building(c)' /\ loc'[c] = loc[c]
      BY Zenon, <1>5 DEF SamePlace
    <3> QED
      BY Zenon, <3>1 DEF IdInv, FlushInv, Fresh
  <2> QED
    BY Zenon, <1>3, <1>5, <2>1, ClientStays
<1>7. JobFiles'
  BY Zenon, <1>1 DEF JobFiles
<1> QED
  BY Zenon, <1>1, <1>2, <1>3, <1>4, <1>6, <1>7, InstallsFile

\* After a crash that no table was waiting for, every table file is older than the
\* manifest's next id.
LEMMA RestartedFiles ==
  ASSUME IdInv, FileInv, Restarted, engine = "start" \/ NobodyBuilds
  PROVE  FileInv'
<1>1. /\ UNCHANGED <<manifest, files>> /\ engine' = "start" /\ job' = NoJob
      /\ pc' = [c \in Client |-> "idle"]
  BY Zenon DEF Restarted, disk
<1>2. \A i \in DOMAIN files : i \in Nat /\ i < manifest.next_id
  BY Zenon DEF FileInv
<1>3. engine' # "dead" /\ \A c \in Client : pc'[c] = "idle"
  BY Zenon, <1>1
<1>4. \A c \in Client : ClientFiles(c)'
  BY Zenon, <1>3 DEF ClientFiles
<1>5. JobFiles'
  BY Zenon, <1>1 DEF JobFiles
<1> QED
  BY Zenon, <1>1, <1>2, <1>3, <1>4, <1>5 DEF FileInv

LEMMA QuietCrash ==
  ASSUME IdInv, FileInv, SafeCrashes, Crash \/ Reopen
  PROVE  engine = "start" \/ NobodyBuilds
<1>1. CASE Reopen
  <2>1. job = NoJob /\ \A c \in Client : pc[c] = "idle"
    BY Zenon, <1>1 DEF Reopen, AllIdle
  <2> QED
    BY Zenon, <2>1 DEF NobodyBuilds, Building
<1>2. CASE Crash /\ engine \in {"start", "replay", "remove"}
  <2>1. job = NoJob /\ \A c \in Client : pc[c] = "idle"
    BY Zenon, <1>2 DEF IdInv, TypeInv
  <2> QED
    BY Zenon, <2>1 DEF NobodyBuilds, Building
<1>3. CASE Crash /\ engine \notin {"start", "replay", "remove"}
  <2>1. Situation \notin {"built", "unlogged"}
    BY Zenon, <1>3 DEF Crash, SafeCrashes
  <2>2. engine # "dead"
    BY Zenon DEF FileInv
  <2>3. ~ \E c \in Client : pc[c] = "install"
    BY Zenon, <1>3, <2>1, <2>2 DEF Situation
  <2>4. ~ (\/ \E c \in Client : pc[c] \in {"header", "unlink"}
           \/ job # NoJob /\ job.out # Empty)
    BY Zenon, <1>3, <2>1, <2>2, <2>3 DEF Situation
  <2> QED
    BY Zenon, <2>3, <2>4 DEF NobodyBuilds, Building
<1> QED
  BY Zenon, <1>1, <1>2, <1>3

LEMMA LoadManifestFiles ==
  ASSUME IdInv, IdInv', FileInv, LoadManifest
  PROVE  FileInv'
<1>1. /\ UNCHANGED <<manifest, obsolete, job, pc, loc>> /\ engine = "start" /\ engine' = "replay"
      /\ tiers' = manifest.tiers /\ next_id' = manifest.next_id
  BY Zenon DEF LoadManifest
<1>2. /\ job = NoJob /\ manifest \in Manifest /\ \A c \in Client : pc[c] = "idle"
  BY Zenon, <1>1 DEF IdInv, TypeInv
<1>3. Range(Flatten(tiers')) = Named(tiers')
  <2>1. tiers' \in Seq(Seq(Nat))
    BY Zenon DEF IdInv, TypeInv
  <2> QED
    BY Zenon, <2>1, FlattenRange
<1>4. \A i \in Named(tiers') : i \in DOMAIN files /\ files[i] # Empty
  BY Zenon, <1>1 DEF FileInv
<1>5. DOMAIN files' = DOMAIN files /\ \A i \in DOMAIN files : files'[i] = files[i]
  <2>1. DOMAIN files \cup Range(Flatten(tiers')) = DOMAIN files
    BY Zenon, <1>3, <1>4
  <2> QED
    BY Zenon, <2>1 DEF LoadManifest
<1>6. \A i \in DOMAIN files' : i \in Nat /\ i < next_id'
  BY Zenon, <1>1, <1>5 DEF FileInv
<1>7. engine' # "dead" /\ engine' # "start"
  BY Zenon, <1>1
<1>8. (\A c \in Client : ClientFiles(c)') /\ JobFiles'
  BY Zenon, <1>1, <1>2 DEF ClientFiles, JobFiles
<1> QED
  BY Zenon, <1>1, <1>4, <1>5, <1>6, <1>7, <1>8 DEF FileInv

LEMMA NextFiles ==
  ASSUME IdInv, IdInv', MemInv, FileInv, SafeCrashes, ManifestFits', [Next]_vars
  PROVE  FileInv'
<1>1. ASSUME NEW c \in Client, Call(c)
      PROVE  FileInv'
  <2>1. \A k, v : Put(c, k, v) =>
          Write(c, k, v) /\ pc[c] \in {"idle", "tombstone"} /\ engine \in {"up", "closing"}
    BY Zenon DEF Put
  <2> QED
    BY Zenon, <1>1, <2>1, LocalFiles DEF Call
<1>2. ASSUME NEW c \in Client, Continue(c)
      PROVE  FileInv'
  <2>1. Delete(c) => /\ Write(c, loc[c].key, Tombstone) /\ pc[c] \in {"idle", "tombstone"}
                     /\ engine \in {"up", "closing"}
    BY Zenon DEF Delete, Up
  <2> QED
    BY Zenon, <1>2, <2>1, LocalFiles, FlushBuildFiles, FlushHeaderFiles, FlushInstallFiles
       DEF Continue
<1>3. ASSUME NEW c \in Client, Close(c)
      PROVE  FileInv'
  <2>1. /\ engine = "up" /\ engine' = "closing" /\ pc[c] = "idle"
        /\ UNCHANGED <<manifest, next_id, tiers, job, files>>
    BY Zenon, <1>3 DEF Close, AllIdle, disk, memory
  <2>2. ~Building(c) /\ "swap" \notin {"header", "unlink", "install"}
    BY Zenon, <2>1 DEF Building
  <2>3. \A d \in Client : SamePlace(d)
    <3>1. CASE Goto(c, "swap")
      BY Zenon, <2>2, <3>1, GoesPlace
    <3>2. CASE UNCHANGED <<pc, loc>>
      BY Zenon, <3>2 DEF SamePlace, Building
    <3> QED
      BY Zenon, <1>3, <3>1, <3>2 DEF Close
  <2> QED
    BY Zenon, <2>1, <2>3, FilesStep
<1>4. ASSUME Compaction
      PROVE  FileInv'
  <2>1. CASE Compact
    <3>1. /\ engine = "up" /\ job = NoJob /\ NeedsCompaction # {} /\ StartJob(Background)
          /\ UNCHANGED <<manifest, next_id, tiers, files, pc, loc, engine>>
      BY Zenon, <2>1 DEF Compact, disk, memory
    <3>2. job'.out = Empty /\ job'.stage = "merge"
      BY Zenon, <3>1, Started
    <3>3. \A c \in Client : SamePlace(c)
      BY Zenon, <3>1 DEF SamePlace, Building
    <3> QED
      BY Zenon, <3>1, <3>2, <3>3, FilesStep
  <2> QED
    BY Zenon, <1>4, <2>1, CompactMergeFiles, CompactHeaderFiles, CompactInstallFiles DEF Compaction
<1>5. ASSUME Replay \/ RemoveOld
      PROVE  FileInv'
  <2>1. /\ UNCHANGED <<manifest, next_id, tiers, job, files, pc, loc>>
        /\ engine' # "dead" /\ (engine' = "start" <=> engine = "start")
    BY Zenon, <1>5 DEF Replay, RemoveOld, memory
  <2> QED
    BY Zenon, <2>1, SameFiles
<1>6. ASSUME UNCHANGED vars
      PROVE  FileInv'
  BY Zenon, <1>6, SameFiles DEF vars, disk, memory, FileInv
<1> QED
  BY Zenon, <1>1, <1>2, <1>3, <1>4, <1>5, <1>6, QuietCrash, RestartedFiles, LoadManifestFiles
     DEF Next, Constructor, Reopen, Crash, Rest

LEMMA InitFiles == Init => FileInv
<1> SUFFICES ASSUME Init
             PROVE  FileInv
  BY Zenon
<1>1. /\ DOMAIN files = {} /\ manifest.next_id = next_id /\ manifest.tiers = tiers
      /\ engine = "up" /\ job = NoJob /\ \A c \in Client : pc[c] = "idle"
  BY DEF Init, Empty
<1>2. Named(manifest.tiers) = {}
  BY DEF Init, Named
<1>3. (\A c \in Client : ClientFiles(c)) /\ JobFiles
  BY Zenon, <1>1 DEF ClientFiles, JobFiles
<1> QED
  BY Zenon, <1>1, <1>2, <1>3 DEF FileInv

LEMMA TablesExist ==
  ASSUME IdInv, FileInv
  PROVE  ManifestTablesExist
<1>1. manifest.tiers \in Seq(Seq(Nat))
  BY Zenon DEF IdInv, TypeInv, Manifest
<1>2. Range(Flatten(manifest.tiers)) = Named(manifest.tiers)
  BY Zenon, <1>1, FlattenRange
<1> QED
  BY Zenon, <1>2 DEF FileInv, ManifestTablesExist

\* Every table the manifest names has a complete file, wherever a crash comes that
\* does not leave a table file behind which the manifest does not know, and as
\* long as the tiers fit on the manifest page.  A crash at the other points is what
\* the code does not survive: an orphan file keeps its id, Build does not truncate.
THEOREM ManifestTablesComplete ==
  ASSUME SafeCrashes
  PROVE  Spec /\ []ManifestFits => []ManifestTablesExist
<1>1. /\ IdInv /\ WalInv /\ MemInv /\ FileInv /\ [Next]_vars /\ ManifestFits'
      => IdInv' /\ WalInv' /\ MemInv' /\ FileInv'
  BY Zenon, NextId, NextWal, NextMem, NextFiles
<1>2. IdInv /\ FileInv => ManifestTablesExist
  BY Zenon, TablesExist
<1> QED
  BY <1>1, <1>2, InitId, InitWal, InitMem, InitFiles, PTL DEF Spec
=============================================================================
