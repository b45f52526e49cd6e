---------------------------- MODULE MVCCProofs ----------------------------
(***************************************************************************)
(* Proofs about MVCCStore, for any number of transactions, keys, shards,   *)
(* calls and garbage collections: its invariants, the order of the         *)
(* versions in its chains, what Read and SERIALIZABLE_SNAPSHOT see, and    *)
(* that it implements SnapshotIsolation as long as nobody begins while     *)
(* RunGarbageCollection runs.                                              *)
(***************************************************************************)
EXTENDS MVCCSnapshot, WellFoundedInduction, TLAPS

----------------------------------------------------------------------------
(* A chain never loses its newest committed version.                       *)

\* A non-empty set of versions with bounded commit timestamps has a newest one.
LEMMA NewestExists ==
  ASSUME NEW S \in SUBSET Version, S # {}, NEW b \in Nat,
         \A v \in S : v.commit_ts \in Nat /\ v.commit_ts < b
  PROVE  \E m \in S : \A v \in S : v.commit_ts <= m.commit_ts
<1> DEFINE T == {b - v.commit_ts : v \in S}
<1>1. T \subseteq Nat
  OBVIOUS
<1>2. T # {}
  BY Zenon
<1>3. PICK x \in T : \A y \in T : ~ (<<y, x>> \in OpToRel(<, Nat))
  BY Zenon, <1>1, <1>2, NatLessThanWellFounded, WFMin
<1>4. \A y \in T : ~ (y < x)
  BY Zenon, <1>1, <1>3 DEF OpToRel
<1>5. PICK m \in S : x = b - m.commit_ts
  BY Zenon
<1>6. \A v \in S : b - v.commit_ts \in T
  BY Zenon
<1>7. \A v \in S : ~ (b - v.commit_ts < b - m.commit_ts)
  <2> HIDE DEF T
  <2> QED  BY <1>4, <1>5, <1>6
<1>8. \A v \in S : v.commit_ts <= m.commit_ts
  <2> HIDE DEF T
  <2> QED  BY <1>7
<1> QED
  BY Zenon, <1>8

----------------------------------------------------------------------------
(* The inductive invariant behind FirstCommitterWins.                      *)

InFlight(t) == pc[t] \in {"active", "chain", "push", "lock", "mark"}
Done(t) == pc[t] \in {"erase", "committed"}

\* A transaction owns a commit timestamp exactly from Validate on.
PcInv ==
  \A t \in Txn :
    /\ HasCommitted(t) <=> pc[t] = "mark" \/ Done(t)
    /\ pc[t] \in {"idle", "begin"} => txns[t].write_set = {}

\* The clock is ahead of every number drawn from it, and no number is drawn
\* twice.
ClockInv ==
  /\ \A t \in Txn : txns[t].commit_ts < global_ts
  /\ \A t \in Txn : pc[t] # "idle" => txns[t].start_ts < global_ts
  /\ \A k \in Key : \A v \in table[k] : v.commit_ts < global_ts
  /\ \A t, u \in Txn :
       pc[t] # "idle" /\ HasCommitted(u) => txns[t].start_ts # txns[u].commit_ts

\* A key a transaction wrote has a chain, so Commit finds it and locks it.
ChainInv ==
  \A t \in Txn :
    /\ pc[t] \in {"chain", "push"} => arg[t].key \in Key
    /\ pc[t] = "push" => arg[t].key \in chained
    /\ txns[t].write_set \subseteq chained
    /\ pc[t] = "lock" => txns[t].write_set \subseteq chains[t].todo \cup chains[t].found
    /\ pc[t] = "mark" => \A k \in txns[t].write_set : mutex[k] = t

\* Until Commit has marked them, a transaction's writes are in their chains.
PendingInv ==
  \A t \in Txn : InFlight(t) => \A k \in txns[t].write_set : Own(t, k) # {}

\* Committed versions come from the loader or from a Commit past its marking.
CommittedInv ==
  \A k \in Key : \A v \in table[k] :
    Committed(v) => v.txn = Loader \/ Done(v.txn)

\* Whatever garbage collection removed, a key a Commit wrote still holds a
\* committed version at least as new: the conflict check can see that Commit.
CoverInv ==
  \A t \in Txn : Done(t) =>
    \A k \in txns[t].write_set :
      \E v \in table[k] : Committed(v) /\ v.commit_ts >= txns[t].commit_ts

IInv ==
  /\ TypeOK /\ PcInv /\ ClockInv /\ ChainInv /\ PendingInv /\ CommittedInv
  /\ CoverInv /\ FirstCommitterWins

\* The types are preserved.
LEMMA TypeStep ==
  ASSUME IInv, [Next]_vars
  PROVE  TypeOK'
<1>1. ASSUME NEW t \in Txn, NEW level \in Levels, Begin(t, level)
     PROVE  TypeOK'
  <2>1. txns' = [txns EXCEPT ![t].isolation = level, ![t].start_ts = global_ts]
    BY Zenon, <1>1 DEF Begin
  <2>2. txns \in [Txn -> Transaction] /\ level \in IsolationLevels /\ global_ts \in Nat
    BY Zenon, <1>1, ConstantsAssumption DEF IInv, TypeOK
  <2>3. txns' \in [Txn -> Transaction]
    BY ZenonT(60), <2>1, <2>2 DEF Transaction
  <2> QED
    BY <2>3, <1>1 DEF IInv, TypeOK, ChainInv, Goto, Call, PcValues, Begin
<1>2. ASSUME NEW t \in Txn, Register(t)
     PROVE  TypeOK'
  BY Zenon, <1>2 DEF IInv, TypeOK, ChainInv, Goto, Call, PcValues, Register
<1>3. ASSUME NEW t \in Txn, NEW k \in Key, Read(t, k)
     PROVE  TypeOK'
  <2>1. txns' = [txns EXCEPT ![t].read_set = @ \cup {k}]
    BY Zenon, <1>3 DEF Read
  <2>2. txns \in [Txn -> Transaction]
    BY Zenon, <1>3 DEF IInv, TypeOK
  <2>3. txns' \in [Txn -> Transaction]
    BY Zenon, <2>1, <2>2 DEF Transaction
  <2> QED
    BY <2>3, <1>3 DEF IInv, TypeOK, ChainInv, Goto, Call, PcValues, Read
<1>4. ASSUME NEW t \in Txn, NEW k \in Key, Write(t, k)
     PROVE  TypeOK'
  BY <1>4 DEF IInv, TypeOK, ChainInv, Goto, Call, PcValues, Write
<1>5. ASSUME NEW t \in Txn, NEW k \in Key, Delete(t, k)
     PROVE  TypeOK'
  <2>1. txns' = [txns EXCEPT ![t].read_set = @ \cup {k}]
    BY Zenon, <1>5 DEF Delete
  <2>2. txns \in [Txn -> Transaction]
    BY Zenon, <1>5 DEF IInv, TypeOK
  <2>3. txns' \in [Txn -> Transaction]
    BY Zenon, <2>1, <2>2 DEF Transaction
  <2> QED
    BY <2>3, <1>5 DEF IInv, TypeOK, ChainInv, Goto, Call, PcValues, Delete
<1>6. ASSUME NEW t \in Txn, GetOrCreateChain(t)
     PROVE  TypeOK'
  BY <1>6 DEF IInv, TypeOK, ChainInv, Goto, Call, PcValues, GetOrCreateChain
<1>7. ASSUME NEW t \in Txn, Push(t)
     PROVE  TypeOK'
  <2> DEFINE k == arg[t].key
             new == [txn |-> t, seq |-> global_ts, commit_ts |-> NoTs,
                     deleted |-> arg[t].deleted]
  <2>1. k \in Key
    BY Zenon, <1>7 DEF Push, Goto, IInv, ChainInv
  <2>2. new \in Version
    BY Zenon DEF IInv, TypeOK, Version
  <2>3. /\ txns' = [txns EXCEPT ![t].write_set = @ \cup {k}]
        /\ table' = [table EXCEPT ![k] = (@ \ Own(t, k)) \cup {new}]
        /\ txns \in [Txn -> Transaction]
    BY Zenon, <1>7 DEF Push, IInv, TypeOK
  <2> HIDE DEF k, new
  <2>4. txns' \in [Txn -> Transaction]
    BY Zenon, <2>1, <2>3 DEF Transaction
  <2>5. table' \in [Key -> SUBSET Version]
    BY Zenon, <2>1, <2>2, <2>3 DEF IInv, TypeOK
  <2> QED
    BY <2>4, <2>5, <1>7 DEF IInv, TypeOK, Goto, PcValues, Push, NoArg
<1>8. ASSUME NEW t \in Txn, Commit(t)
     PROVE  TypeOK'
  <2>1. CheckKeys(t) \in SUBSET Key
    BY Zenon, <1>8 DEF CheckKeys, IInv, TypeOK, Transaction
  <2>2. chains' \in [Txn -> [todo : SUBSET Key, found : SUBSET Key]]
    BY <2>1, <1>8 DEF Commit, IInv, TypeOK
  <2>3. pc' \in [Txn -> PcValues]
    BY Zenon, <1>8 DEF Commit, Goto, PcValues, IInv, TypeOK
  <2> QED
    BY Zenon, <2>2, <2>3, <1>8 DEF IInv, TypeOK, Commit
<1>9. ASSUME NEW t \in Txn, NEW k \in Key, FindChain(t, k)
     PROVE  TypeOK'
  <2>1. chains' = [chains EXCEPT ![t].todo = @ \ {k}, ![t].found = @ \cup ({k} \cap chained)]
    BY Zenon, <1>9 DEF FindChain
  <2>2. chains \in [Txn -> [todo : SUBSET Key, found : SUBSET Key]]
    BY Zenon, <1>9 DEF IInv, TypeOK
  <2>3. chains' \in [Txn -> [todo : SUBSET Key, found : SUBSET Key]]
    BY Zenon, <2>1, <2>2 DEF Txn
  <2> QED
    BY Zenon, <2>3, <1>9 DEF IInv, TypeOK, ChainInv, Goto, Call, PcValues, FindChain
<1>10. ASSUME NEW t \in Txn, NEW k \in Key, LockChain(t, k)
     PROVE  TypeOK'
  BY Zenon, <1>10 DEF IInv, TypeOK, ChainInv, Goto, Call, PcValues, LockChain
<1>11. ASSUME NEW t \in Txn, Validate(t)
     PROVE  TypeOK'
  <2>1. txns' = [txns EXCEPT ![t].commit_ts = global_ts]
    BY Zenon, <1>11 DEF Validate
  <2>2. txns \in [Txn -> Transaction] /\ global_ts \in Nat
    BY Zenon, <1>11 DEF IInv, TypeOK
  <2>3. txns' \in [Txn -> Transaction]
    BY Zenon, <2>1, <2>2 DEF Transaction
  <2> QED
    BY <2>3, <1>11 DEF IInv, TypeOK, ChainInv, Goto, Call, PcValues, Validate
<1>12. ASSUME NEW t \in Txn, Reject(t)
     PROVE  TypeOK'
  BY Zenon, <1>12 DEF IInv, TypeOK, ChainInv, Goto, Call, PcValues, Reject, Released,
         NoChains
<1>13. ASSUME NEW t \in Txn, Mark(t)
     PROVE  TypeOK'
  <2>1. \A k \in Key : \A v \in table[k] : Marked(v, t) \in Version
    BY SMTT(30) DEF Marked, IInv, TypeOK, Version, Transaction
  <2>2. table' \in [Key -> SUBSET Version]
    BY Zenon, <1>13, <2>1 DEF Mark
  <2> QED
    BY Zenon, <2>2, <1>13 DEF IInv, TypeOK, Goto, PcValues, Mark, Released, NoChains
<1>14. ASSUME NEW t \in Txn, Abort(t)
     PROVE  TypeOK'
  BY Zenon, <1>14 DEF IInv, TypeOK, ChainInv, Goto, Call, PcValues, Abort
<1>15. ASSUME NEW t \in Txn, NEW k \in Key, Unlink(t, k)
     PROVE  TypeOK'
  BY Zenon, <1>15 DEF IInv, TypeOK, ChainInv, Goto, Call, PcValues, Unlink
<1>16. ASSUME NEW t \in Txn, Erase(t)
     PROVE  TypeOK'
  BY Zenon, <1>16 DEF IInv, TypeOK, ChainInv, Goto, Call, PcValues, Erase
<1>17. CASE GCCollect
  <2> DEFINE S == {txns[t].start_ts : t \in {u \in registered : u % ShardCount = gc.shard}}
  <2>1. S \in SUBSET Nat
    BY DEF IInv, TypeOK, Transaction
  <2>2. gc' = [gc EXCEPT !.pc = "collect", !.shard = @ + 1, !.starts = @ \cup S]
    BY Zenon, <1>17 DEF GCCollect
  <2> HIDE DEF S
  <2>a. gc \in [pc : {"idle", "collect", "sweep"}, shard : Nat,
                starts : SUBSET Nat, todo : SUBSET Key]
    BY Zenon DEF IInv, TypeOK
  <2>3. gc' \in [pc : {"idle", "collect", "sweep"}, shard : Nat,
                starts : SUBSET Nat, todo : SUBSET Key]
    <3>1. gc' = [pc |-> "collect", shard |-> gc.shard + 1, starts |-> gc.starts \cup S,
                 todo |-> gc.todo]
      BY Zenon, <2>2, <2>a
    <3>2. gc.shard + 1 \in Nat /\ gc.starts \in SUBSET Nat /\ gc.todo \in SUBSET Key
      BY <2>a
    <3>3. gc.starts \cup S \in SUBSET Nat
      BY Zenon, <2>1, <3>2
    <3> QED
      BY Zenon, <3>1, <3>2, <3>3
  <2>4. gc_runs' \in Nat
    BY <1>17 DEF GCCollect, IInv, TypeOK
  <2>5. UNCHANGED <<global_ts, chained, table, mutex, txns, registered, pc, arg, chains, ops>>
    BY Zenon, <1>17 DEF GCCollect
  <2> QED
    BY Zenon, <2>3, <2>4, <2>5 DEF IInv, TypeOK
<1>18. CASE GCLockTable
  BY Zenon, <1>18 DEF IInv, TypeOK, ChainInv, Goto, Call, PcValues, GCLockTable,
         Sweeping, NoGC
<1>19. ASSUME NEW k \in Key, GCSweep(k)
     PROVE  TypeOK'
  BY ZenonT(60), <1>19 DEF IInv, TypeOK, ChainInv, Goto, Call, PcValues, GCSweep,
         Sweeping, NoGC
<1>20. CASE UNCHANGED vars
  BY Zenon, <1>20 DEF IInv, TypeOK, ChainInv, Goto, Call, PcValues, vars
<1> QED
  BY Zenon, <1>1, <1>2, <1>3, <1>4, <1>5, <1>6, <1>7, <1>8, <1>9, <1>10, <1>11,
         <1>12, <1>13, <1>14, <1>15, <1>16, <1>17, <1>18, <1>19, <1>20 DEF
         Next, Invoke, Continue, GC, Finished

\* PcInv is preserved.
LEMMA PcStep ==
  ASSUME IInv, [Next]_vars
  PROVE  PcInv'
<1>1. ASSUME NEW t \in Txn, NEW level \in Levels, Begin(t, level)
     PROVE  PcInv'
  BY <1>1 DEF IInv, TypeOK, PcInv, Goto, Done, HasCommitted, Begin,
         Transaction
<1>2. ASSUME NEW t \in Txn, Register(t)
     PROVE  PcInv'
  BY Zenon, <1>2 DEF IInv, TypeOK, PcInv, Goto, Done, HasCommitted, Register
<1>3. ASSUME NEW t \in Txn, NEW k \in Key, Read(t, k)
     PROVE  PcInv'
  BY <1>3 DEF IInv, TypeOK, PcInv, Goto, Done, HasCommitted, Read, Transaction
<1>4. ASSUME NEW t \in Txn, NEW k \in Key, Write(t, k)
     PROVE  PcInv'
  BY Zenon, <1>4 DEF IInv, TypeOK, PcInv, Goto, Done, HasCommitted, Write
<1>5. ASSUME NEW t \in Txn, NEW k \in Key, Delete(t, k)
     PROVE  PcInv'
  BY <1>5 DEF IInv, TypeOK, PcInv, Goto, Done, HasCommitted, Delete,
         Transaction
<1>6. ASSUME NEW t \in Txn, GetOrCreateChain(t)
     PROVE  PcInv'
  BY Zenon, <1>6 DEF IInv, TypeOK, PcInv, Goto, Done, HasCommitted, GetOrCreateChain
<1>7. ASSUME NEW t \in Txn, Push(t)
     PROVE  PcInv'
  BY <1>7 DEF IInv, TypeOK, PcInv, Goto, Done, HasCommitted, Push, Transaction
<1>8. ASSUME NEW t \in Txn, Commit(t)
     PROVE  PcInv'
  BY Zenon, <1>8 DEF IInv, TypeOK, PcInv, Goto, Done, HasCommitted, Commit
<1>9. ASSUME NEW t \in Txn, NEW k \in Key, FindChain(t, k)
     PROVE  PcInv'
  BY Zenon, <1>9 DEF IInv, TypeOK, PcInv, Goto, Done, HasCommitted, FindChain
<1>10. ASSUME NEW t \in Txn, NEW k \in Key, LockChain(t, k)
     PROVE  PcInv'
  BY Zenon, <1>10 DEF IInv, TypeOK, PcInv, Goto, Done, HasCommitted, LockChain
<1>11. ASSUME NEW t \in Txn, Validate(t)
     PROVE  PcInv'
  BY <1>11 DEF IInv, TypeOK, PcInv, Goto, Done, HasCommitted, Validate,
         Transaction, NoTs
<1>12. ASSUME NEW t \in Txn, Reject(t)
     PROVE  PcInv'
  BY Zenon, <1>12 DEF IInv, TypeOK, PcInv, Goto, Done, HasCommitted, Reject
<1>13. ASSUME NEW t \in Txn, Mark(t)
     PROVE  PcInv'
  BY Zenon, <1>13 DEF IInv, TypeOK, PcInv, Goto, Done, HasCommitted, Mark
<1>14. ASSUME NEW t \in Txn, Abort(t)
     PROVE  PcInv'
  BY Zenon, <1>14 DEF IInv, TypeOK, PcInv, Goto, Done, HasCommitted, Abort
<1>15. ASSUME NEW t \in Txn, NEW k \in Key, Unlink(t, k)
     PROVE  PcInv'
  BY Zenon, <1>15 DEF IInv, TypeOK, PcInv, Goto, Done, HasCommitted, Unlink
<1>16. ASSUME NEW t \in Txn, Erase(t)
     PROVE  PcInv'
  BY Zenon, <1>16 DEF IInv, TypeOK, PcInv, Goto, Done, HasCommitted, Erase
<1>17. CASE GCCollect
  BY Zenon, <1>17 DEF IInv, TypeOK, PcInv, Goto, Done, HasCommitted, GCCollect
<1>18. CASE GCLockTable
  BY Zenon, <1>18 DEF IInv, TypeOK, PcInv, Goto, Done, HasCommitted, GCLockTable
<1>19. ASSUME NEW k \in Key, GCSweep(k)
     PROVE  PcInv'
  BY Zenon, <1>19 DEF IInv, TypeOK, PcInv, Goto, Done, HasCommitted, GCSweep
<1>20. CASE UNCHANGED vars
  BY Zenon, <1>20 DEF IInv, TypeOK, PcInv, Goto, Done, HasCommitted, vars
<1> QED
  BY Zenon, <1>1, <1>2, <1>3, <1>4, <1>5, <1>6, <1>7, <1>8, <1>9, <1>10, <1>11,
         <1>12, <1>13, <1>14, <1>15, <1>16, <1>17, <1>18, <1>19, <1>20 DEF
         Next, Invoke, Continue, GC, Finished

\* ChainInv is preserved.
LEMMA ChainStep ==
  ASSUME IInv, [Next]_vars
  PROVE  ChainInv'
<1>1. ASSUME NEW t \in Txn, NEW level \in Levels, Begin(t, level)
     PROVE  ChainInv'
  BY <1>1 DEF IInv, TypeOK, PcInv, ChainInv, Goto, Begin, Transaction
<1>2. ASSUME NEW t \in Txn, Register(t)
     PROVE  ChainInv'
  BY Zenon, <1>2 DEF IInv, TypeOK, PcInv, ChainInv, Goto, Register
<1>3. ASSUME NEW t \in Txn, NEW k \in Key, Read(t, k)
     PROVE  ChainInv'
  BY <1>3 DEF IInv, TypeOK, PcInv, ChainInv, Goto, Read, Transaction
<1>4. ASSUME NEW t \in Txn, NEW k \in Key, Write(t, k)
     PROVE  ChainInv'
  BY ZenonT(60), <1>4 DEF IInv, TypeOK, PcInv, ChainInv, Goto, Write
<1>5. ASSUME NEW t \in Txn, NEW k \in Key, Delete(t, k)
     PROVE  ChainInv'
  BY <1>5 DEF IInv, TypeOK, PcInv, ChainInv, Goto, Delete, Transaction
<1>6. ASSUME NEW t \in Txn, GetOrCreateChain(t)
     PROVE  ChainInv'
  BY Zenon, <1>6 DEF IInv, TypeOK, PcInv, ChainInv, Goto, GetOrCreateChain
<1>7. ASSUME NEW t \in Txn, Push(t)
     PROVE  ChainInv'
  BY <1>7 DEF IInv, TypeOK, PcInv, ChainInv, Goto, Push, Transaction
<1>8. ASSUME NEW t \in Txn, Commit(t)
     PROVE  ChainInv'
  BY <1>8 DEF IInv, TypeOK, PcInv, ChainInv, Goto, Commit, CheckKeys,
         Transaction
<1>9. ASSUME NEW t \in Txn, NEW k \in Key, FindChain(t, k)
     PROVE  ChainInv'
  BY <1>9 DEF IInv, TypeOK, PcInv, ChainInv, Goto, FindChain
<1>10. ASSUME NEW t \in Txn, NEW k \in Key, LockChain(t, k)
     PROVE  ChainInv'
  BY <1>10, ConstantsAssumption DEF IInv, TypeOK, PcInv, ChainInv, Goto,
         LockChain, Free, Txn
<1>11. ASSUME NEW t \in Txn, Validate(t)
     PROVE  ChainInv'
  BY <1>11 DEF IInv, TypeOK, PcInv, ChainInv, Goto, Validate, Transaction,
         AllLocked, Unlocked
<1>12. ASSUME NEW t \in Txn, Reject(t)
     PROVE  ChainInv'
  BY Zenon, <1>12 DEF IInv, TypeOK, PcInv, ChainInv, Goto, Reject, Released, NoChains
<1>13. ASSUME NEW t \in Txn, Mark(t)
     PROVE  ChainInv'
  BY Zenon, <1>13 DEF IInv, TypeOK, PcInv, ChainInv, Goto, Mark, Released, NoChains
<1>14. ASSUME NEW t \in Txn, Abort(t)
     PROVE  ChainInv'
  BY Zenon, <1>14 DEF IInv, TypeOK, PcInv, ChainInv, Goto, Abort
<1>15. ASSUME NEW t \in Txn, NEW k \in Key, Unlink(t, k)
     PROVE  ChainInv'
  BY Zenon, <1>15 DEF IInv, TypeOK, PcInv, ChainInv, Goto, Unlink
<1>16. ASSUME NEW t \in Txn, Erase(t)
     PROVE  ChainInv'
  BY Zenon, <1>16 DEF IInv, TypeOK, PcInv, ChainInv, Goto, Erase
<1>17. CASE GCCollect
  BY Zenon, <1>17 DEF IInv, TypeOK, PcInv, ChainInv, Goto, GCCollect
<1>18. CASE GCLockTable
  BY Zenon, <1>18 DEF IInv, TypeOK, PcInv, ChainInv, Goto, GCLockTable
<1>19. ASSUME NEW k \in Key, GCSweep(k)
     PROVE  ChainInv'
  BY Zenon, <1>19 DEF IInv, TypeOK, PcInv, ChainInv, Goto, GCSweep
<1>20. CASE UNCHANGED vars
  BY <1>20, SMTT(30) DEF IInv, TypeOK, PcInv, ChainInv, Goto, vars
<1> QED
  BY Zenon, <1>1, <1>2, <1>3, <1>4, <1>5, <1>6, <1>7, <1>8, <1>9, <1>10, <1>11,
         <1>12, <1>13, <1>14, <1>15, <1>16, <1>17, <1>18, <1>19, <1>20 DEF
         Next, Invoke, Continue, GC, Finished

\* ClockInv is preserved.
LEMMA ClockStep ==
  ASSUME IInv, [Next]_vars
  PROVE  ClockInv'
<1>1. ASSUME NEW t \in Txn, NEW level \in Levels, Begin(t, level)
     PROVE  ClockInv'
  <2>1. global_ts' = global_ts + 1 /\ global_ts \in Nat /\ table' = table
    BY Zenon, <1>1 DEF Begin, IInv, TypeOK
  <2>2. \A u \in Txn : /\ txns'[u].commit_ts = txns[u].commit_ts
                       /\ txns'[u].start_ts = IF u = t THEN global_ts ELSE txns[u].start_ts
                       /\ pc[u] # "idle" \/ u = t <=> pc'[u] # "idle"
    BY <1>1 DEF Begin, Goto, IInv, TypeOK, Transaction
  <2>3. \A u \in Txn : txns[u].commit_ts \in Nat \cup {NoTs} /\ txns[u].start_ts \in Nat
    BY Zenon DEF IInv, TypeOK, Transaction
  <2>4. \A j \in Key : \A v \in table[j] : v.commit_ts \in Nat \cup {NoTs}
    BY DEF IInv, TypeOK, Version
  <2> QED
    BY <2>1, <2>2, <2>3, <2>4 DEF IInv, ClockInv, HasCommitted, NoTs
<1>2. ASSUME NEW t \in Txn, Register(t)
     PROVE  ClockInv'
  BY Zenon, <1>2 DEF IInv, TypeOK, PcInv, ClockInv, Goto, HasCommitted, Register
<1>3. ASSUME NEW t \in Txn, NEW k \in Key, Read(t, k)
     PROVE  ClockInv'
  BY <1>3 DEF IInv, TypeOK, PcInv, ClockInv, Goto, HasCommitted, Read,
         Transaction
<1>4. ASSUME NEW t \in Txn, NEW k \in Key, Write(t, k)
     PROVE  ClockInv'
  BY Zenon, <1>4 DEF IInv, TypeOK, PcInv, ClockInv, Goto, HasCommitted, Write
<1>5. ASSUME NEW t \in Txn, NEW k \in Key, Delete(t, k)
     PROVE  ClockInv'
  BY <1>5 DEF IInv, TypeOK, PcInv, ClockInv, Goto, HasCommitted, Delete,
         Transaction
<1>6. ASSUME NEW t \in Txn, GetOrCreateChain(t)
     PROVE  ClockInv'
  BY Zenon, <1>6 DEF IInv, TypeOK, PcInv, ClockInv, Goto, HasCommitted,
         GetOrCreateChain
<1>7. ASSUME NEW t \in Txn, Push(t)
     PROVE  ClockInv'
  <2>1. global_ts' = global_ts + 1 /\ global_ts \in Nat
    BY Zenon, <1>7 DEF Push, IInv, TypeOK
  <2>2. \A u \in Txn : /\ txns'[u].commit_ts = txns[u].commit_ts
                       /\ txns'[u].start_ts = txns[u].start_ts
                       /\ pc[u] # "idle" <=> pc'[u] # "idle"
    BY <1>7 DEF Push, Goto, IInv, TypeOK, Transaction
  <2>3. \A u \in Txn : txns[u].commit_ts \in Nat \cup {NoTs} /\ txns[u].start_ts \in Nat
    BY Zenon DEF IInv, TypeOK, Transaction
  <2>4. \A j \in Key : \A v \in table[j] : v.commit_ts \in Nat \cup {NoTs}
    BY DEF IInv, TypeOK, Version
  <2>5. \A j \in Key : \A v \in table'[j] : v \in table[j] \/ v.commit_ts = NoTs
    BY <1>7 DEF Push, Own, IInv, TypeOK
  <2> QED
    BY <2>1, <2>2, <2>3, <2>4, <2>5 DEF IInv, ClockInv, HasCommitted, NoTs
<1>8. ASSUME NEW t \in Txn, Commit(t)
     PROVE  ClockInv'
  BY Zenon, <1>8 DEF IInv, TypeOK, PcInv, ClockInv, Goto, HasCommitted, Commit
<1>9. ASSUME NEW t \in Txn, NEW k \in Key, FindChain(t, k)
     PROVE  ClockInv'
  BY Zenon, <1>9 DEF IInv, TypeOK, PcInv, ClockInv, Goto, HasCommitted, FindChain
<1>10. ASSUME NEW t \in Txn, NEW k \in Key, LockChain(t, k)
     PROVE  ClockInv'
  BY Zenon, <1>10 DEF IInv, TypeOK, PcInv, ClockInv, Goto, HasCommitted, LockChain
<1>11. ASSUME NEW t \in Txn, Validate(t)
     PROVE  ClockInv'
  <2>1. global_ts' = global_ts + 1 /\ global_ts \in Nat /\ table' = table
    BY Zenon, <1>11 DEF Validate, IInv, TypeOK
  <2>2. \A u \in Txn : /\ txns'[u].commit_ts = IF u = t THEN global_ts ELSE txns[u].commit_ts
                       /\ txns'[u].start_ts = txns[u].start_ts
                       /\ pc[u] # "idle" <=> pc'[u] # "idle"
    BY <1>11 DEF Validate, Goto, IInv, TypeOK, Transaction
  <2>3. \A u \in Txn : txns[u].commit_ts \in Nat \cup {NoTs} /\ txns[u].start_ts \in Nat
    BY Zenon DEF IInv, TypeOK, Transaction
  <2>4. \A j \in Key : \A v \in table[j] : v.commit_ts \in Nat \cup {NoTs}
    BY DEF IInv, TypeOK, Version
  <2> QED
    BY <2>1, <2>2, <2>3, <2>4 DEF IInv, ClockInv, HasCommitted, NoTs
<1>12. ASSUME NEW t \in Txn, Reject(t)
     PROVE  ClockInv'
  BY Zenon, <1>12 DEF IInv, TypeOK, PcInv, ClockInv, Goto, HasCommitted, Reject
<1>13. ASSUME NEW t \in Txn, Mark(t)
     PROVE  ClockInv'
  BY <1>13 DEF IInv, TypeOK, PcInv, ClockInv, Goto, HasCommitted, Mark,
         Marked, Transaction, Version
<1>14. ASSUME NEW t \in Txn, Abort(t)
     PROVE  ClockInv'
  BY Zenon, <1>14 DEF IInv, TypeOK, PcInv, ClockInv, Goto, HasCommitted, Abort
<1>15. ASSUME NEW t \in Txn, NEW k \in Key, Unlink(t, k)
     PROVE  ClockInv'
  BY Zenon, <1>15 DEF IInv, TypeOK, PcInv, ClockInv, Goto, HasCommitted, Unlink
<1>16. ASSUME NEW t \in Txn, Erase(t)
     PROVE  ClockInv'
  BY Zenon, <1>16 DEF IInv, TypeOK, PcInv, ClockInv, Goto, HasCommitted, Erase
<1>17. CASE GCCollect
  BY Zenon, <1>17 DEF IInv, TypeOK, PcInv, ClockInv, Goto, HasCommitted, GCCollect
<1>18. CASE GCLockTable
  BY Zenon, <1>18 DEF IInv, TypeOK, PcInv, ClockInv, Goto, HasCommitted, GCLockTable
<1>19. ASSUME NEW k \in Key, GCSweep(k)
     PROVE  ClockInv'
  BY Zenon, <1>19 DEF IInv, TypeOK, PcInv, ClockInv, Goto, HasCommitted, GCSweep
<1>20. CASE UNCHANGED vars
  BY Zenon, <1>20 DEF IInv, TypeOK, PcInv, ClockInv, Goto, HasCommitted, vars
<1> QED
  BY Zenon, <1>1, <1>2, <1>3, <1>4, <1>5, <1>6, <1>7, <1>8, <1>9, <1>10, <1>11,
         <1>12, <1>13, <1>14, <1>15, <1>16, <1>17, <1>18, <1>19, <1>20 DEF
         Next, Invoke, Continue, GC, Finished

\* PendingInv is preserved.
LEMMA PendingStep ==
  ASSUME IInv, [Next]_vars
  PROVE  PendingInv'
<1>1. ASSUME NEW t \in Txn, NEW level \in Levels, Begin(t, level)
     PROVE  PendingInv'
  BY Zenon, <1>1 DEF IInv, TypeOK, PcInv, PendingInv, InFlight, Goto, Own, Begin,
         Transaction
<1>2. ASSUME NEW t \in Txn, Register(t)
     PROVE  PendingInv'
  BY Zenon, <1>2 DEF IInv, TypeOK, PcInv, PendingInv, InFlight, Goto, Own, Register
<1>3. ASSUME NEW t \in Txn, NEW k \in Key, Read(t, k)
     PROVE  PendingInv'
  BY <1>3 DEF IInv, TypeOK, PcInv, PendingInv, InFlight, Goto, Own, Read,
         Transaction
<1>4. ASSUME NEW t \in Txn, NEW k \in Key, Write(t, k)
     PROVE  PendingInv'
  BY Zenon, <1>4 DEF IInv, TypeOK, PcInv, PendingInv, InFlight, Goto, Own, Write
<1>5. ASSUME NEW t \in Txn, NEW k \in Key, Delete(t, k)
     PROVE  PendingInv'
  BY <1>5 DEF IInv, TypeOK, PcInv, PendingInv, InFlight, Goto, Own, Delete,
         Transaction
<1>6. ASSUME NEW t \in Txn, GetOrCreateChain(t)
     PROVE  PendingInv'
  BY Zenon, <1>6 DEF IInv, TypeOK, PcInv, PendingInv, InFlight, Goto, Own,
         GetOrCreateChain
<1>7. ASSUME NEW t \in Txn, Push(t)
     PROVE  PendingInv'
  <2>0. PICK k \in Key : k = arg[t].key
    BY Zenon, <1>7 DEF Push, Goto, IInv, ChainInv
  <2> DEFINE new == [txn |-> t, seq |-> global_ts, commit_ts |-> NoTs,
                     deleted |-> arg[t].deleted]
  <2>1. table' = [table EXCEPT ![k] = (@ \ Own(t, k)) \cup {new}]
    BY Zenon, <1>7, <2>0 DEF Push
  <2>2. \A u \in Txn : txns'[u].write_set =
                         IF u = t THEN txns[u].write_set \cup {k} ELSE txns[u].write_set
    <3>1. txns' = [txns EXCEPT ![t].write_set = @ \cup {k}]
      BY Zenon, <1>7, <2>0 DEF Push
    <3>2. txns \in [Txn -> Transaction]
      BY Zenon DEF IInv, TypeOK
    <3> QED
      BY Zenon, <3>1, <3>2 DEF Transaction
  <2>3. \A u \in Txn : InFlight(u)' => InFlight(u)
    BY Zenon, <1>7 DEF Push, Goto, InFlight, IInv, TypeOK
  <2>4. new \in table'[k] /\ new.txn = t /\ ~Committed(new)
    BY Zenon, <2>1 DEF IInv, TypeOK, Committed
  <2>5. \A u \in Txn, j \in Key : u # t \/ j # k => Own(u, j) \subseteq Own(u, j)'
    BY Zenon, <2>1 DEF IInv, TypeOK, Own, Committed
  <2>6. Own(t, k)' # {}
    BY Zenon, <2>4 DEF Own, Committed
  <2>7. \A u \in Txn : txns[u].write_set \subseteq Key
    BY Zenon DEF IInv, TypeOK, Transaction
  <2>8. SUFFICES ASSUME NEW u \in Txn, InFlight(u)', NEW j \in txns'[u].write_set
                PROVE  Own(u, j)' # {}
    BY Zenon DEF PendingInv
  <2>9. CASE u = t /\ j = k
    BY Zenon, <2>6, <2>9
  <2>10. CASE u # t \/ j # k
    <3>1. j \in txns[u].write_set
      BY Zenon, <2>2, <2>8, <2>10
    <3> QED
      BY Zenon, <2>3, <2>5, <2>7, <2>8, <2>10, <3>1 DEF IInv, PendingInv
  <2> QED
    BY Zenon, <2>9, <2>10
<1>8. ASSUME NEW t \in Txn, Commit(t)
     PROVE  PendingInv'
  BY Zenon, <1>8 DEF IInv, TypeOK, PcInv, PendingInv, InFlight, Goto, Own, Commit
<1>9. ASSUME NEW t \in Txn, NEW k \in Key, FindChain(t, k)
     PROVE  PendingInv'
  BY Zenon, <1>9 DEF IInv, TypeOK, PcInv, PendingInv, InFlight, Goto, Own, FindChain
<1>10. ASSUME NEW t \in Txn, NEW k \in Key, LockChain(t, k)
     PROVE  PendingInv'
  BY Zenon, <1>10 DEF IInv, TypeOK, PcInv, PendingInv, InFlight, Goto, Own, LockChain
<1>11. ASSUME NEW t \in Txn, Validate(t)
     PROVE  PendingInv'
  BY <1>11 DEF IInv, TypeOK, PcInv, PendingInv, InFlight, Goto, Own, Validate,
         Transaction
<1>12. ASSUME NEW t \in Txn, Reject(t)
     PROVE  PendingInv'
  BY Zenon, <1>12 DEF IInv, TypeOK, PcInv, PendingInv, InFlight, Goto, Own, Reject
<1>13. ASSUME NEW t \in Txn, Mark(t)
     PROVE  PendingInv'
  <2>1. \A u \in Txn : InFlight(u)' => InFlight(u) /\ u # t
    BY Zenon, <1>13 DEF Mark, Goto, InFlight, IInv, TypeOK
  <2>2. \A u \in Txn, j \in Key : u # t => Own(u, j) \subseteq Own(u, j)'
    BY Zenon, <1>13 DEF Mark, Marked, Own, Committed
  <2>3. txns' = txns /\ \A u \in Txn : txns[u].write_set \subseteq Key
    BY Zenon, <1>13 DEF Mark, IInv, TypeOK, Transaction
  <2> QED
    BY Zenon, <2>1, <2>2, <2>3 DEF IInv, PendingInv
<1>14. ASSUME NEW t \in Txn, Abort(t)
     PROVE  PendingInv'
  BY Zenon, <1>14 DEF IInv, TypeOK, PcInv, PendingInv, InFlight, Goto, Own, Abort
<1>15. ASSUME NEW t \in Txn, NEW k \in Key, Unlink(t, k)
     PROVE  PendingInv'
  <2>1. \A u \in Txn : InFlight(u)' => InFlight(u) /\ u # t
    BY Zenon, <1>15 DEF Unlink, InFlight, IInv, TypeOK
  <2>2. \A u \in Txn, j \in Key : u # t => Own(u, j) \subseteq Own(u, j)'
    BY Zenon, <1>15 DEF Unlink, Own, Committed, IInv, TypeOK
  <2>3. txns' = txns /\ \A u \in Txn : txns[u].write_set \subseteq Key
    BY <1>15, SMTT(30) DEF Unlink, IInv, TypeOK, Transaction
  <2> QED
    BY Zenon, <2>1, <2>2, <2>3 DEF IInv, PendingInv
<1>16. ASSUME NEW t \in Txn, Erase(t)
     PROVE  PendingInv'
  BY Zenon, <1>16 DEF IInv, TypeOK, PcInv, PendingInv, InFlight, Goto, Own, Erase
<1>17. CASE GCCollect
  BY <1>17, SMTT(30) DEF IInv, TypeOK, PcInv, PendingInv, InFlight, Goto, Own, GCCollect
<1>18. CASE GCLockTable
  BY Zenon, <1>18 DEF IInv, TypeOK, PcInv, PendingInv, InFlight, Goto, Own,
         GCLockTable
<1>19. ASSUME NEW k \in Key, GCSweep(k)
     PROVE  PendingInv'
  BY SMTT(30), <1>19 DEF IInv, TypeOK, PendingInv, InFlight, Own, GCSweep, Reclaimable
<1>20. CASE UNCHANGED vars
  BY Zenon, <1>20 DEF IInv, TypeOK, PcInv, PendingInv, InFlight, Goto, Own, vars
<1> QED
  BY Zenon, <1>1, <1>2, <1>3, <1>4, <1>5, <1>6, <1>7, <1>8, <1>9, <1>10, <1>11,
         <1>12, <1>13, <1>14, <1>15, <1>16, <1>17, <1>18, <1>19, <1>20 DEF
         Next, Invoke, Continue, GC, Finished

\* CommittedInv is preserved.
LEMMA CommittedStep ==
  ASSUME IInv, [Next]_vars
  PROVE  CommittedInv'
<1>0. /\ CommittedInv /\ PcInv
      /\ pc \in [Txn -> PcValues] /\ table \in [Key -> SUBSET Version]
  BY Zenon DEF IInv, TypeOK
<1>1. ASSUME NEW t \in Txn, NEW level \in Levels, Begin(t, level)
     PROVE  CommittedInv'
  BY <1>0, <1>1 DEF CommittedInv, Committed, Done, Goto, Begin
<1>2. ASSUME NEW t \in Txn, Register(t)
     PROVE  CommittedInv'
  BY <1>0, <1>2 DEF CommittedInv, Committed, Done, Goto,
         Register
<1>3. ASSUME NEW t \in Txn, NEW k \in Key, Read(t, k)
     PROVE  CommittedInv'
  BY Zenon, <1>0, <1>3 DEF CommittedInv, Committed, Done, Goto, Read
<1>4. ASSUME NEW t \in Txn, NEW k \in Key, Write(t, k)
     PROVE  CommittedInv'
  BY <1>0, <1>4 DEF CommittedInv, Committed, Done, Goto, Write
<1>5. ASSUME NEW t \in Txn, NEW k \in Key, Delete(t, k)
     PROVE  CommittedInv'
  BY <1>0, <1>5 DEF CommittedInv, Committed, Done, Goto, Delete
<1>6. ASSUME NEW t \in Txn, GetOrCreateChain(t)
     PROVE  CommittedInv'
  BY <1>0, <1>6 DEF CommittedInv, Committed, Done, Goto,
         GetOrCreateChain
<1>7. ASSUME NEW t \in Txn, Push(t)
     PROVE  CommittedInv'
  BY <1>0, <1>7 DEF CommittedInv, Committed, Done, Goto, Push,
         Own
<1>8. ASSUME NEW t \in Txn, Commit(t)
     PROVE  CommittedInv'
  BY <1>0, <1>8 DEF CommittedInv, Committed, Done, Goto, Commit
<1>9. ASSUME NEW t \in Txn, NEW k \in Key, FindChain(t, k)
     PROVE  CommittedInv'
  BY Zenon, <1>0, <1>9 DEF CommittedInv, Committed, Done, Goto,
         FindChain
<1>10. ASSUME NEW t \in Txn, NEW k \in Key, LockChain(t, k)
     PROVE  CommittedInv'
  BY Zenon, <1>0, <1>10 DEF CommittedInv, Committed, Done, Goto,
         LockChain
<1>11. ASSUME NEW t \in Txn, Validate(t)
     PROVE  CommittedInv'
  BY <1>0, <1>11 DEF CommittedInv, Committed, Done, Goto,
         Validate
<1>12. ASSUME NEW t \in Txn, Reject(t)
     PROVE  CommittedInv'
  BY <1>0, <1>12 DEF CommittedInv, Committed, Done, Goto,
         Reject
<1>13. ASSUME NEW t \in Txn, Mark(t)
     PROVE  CommittedInv'
  <2>1. \A j \in Key : \A w \in table'[j] : w.txn = t \/ w \in table[j]
    BY <1>13 DEF Mark, Marked, IInv, TypeOK, Version
  <2>2. Done(t)' /\ \A u \in Txn : Done(u) => Done(u)'
    BY Zenon, <1>13 DEF Mark, Goto, Done, IInv, TypeOK
  <2>3. \A j \in Key : \A v \in table[j] : v.txn \in Txn \cup {Loader}
    BY DEF IInv, TypeOK, Version
  <2> QED
    BY Zenon, <2>1, <2>2, <2>3 DEF IInv, CommittedInv, Committed, Done
<1>14. ASSUME NEW t \in Txn, Abort(t)
     PROVE  CommittedInv'
  BY <1>0, <1>14 DEF CommittedInv, Committed, Done, Goto, Abort
<1>15. ASSUME NEW t \in Txn, NEW k \in Key, Unlink(t, k)
     PROVE  CommittedInv'
  BY Zenon, <1>0, <1>15 DEF CommittedInv, Committed, Done, Goto,
         Unlink
<1>16. ASSUME NEW t \in Txn, Erase(t)
     PROVE  CommittedInv'
  BY <1>0, <1>16 DEF PcInv, CommittedInv, Committed, Done, Goto,
         Erase, HasCommitted
<1>17. CASE GCCollect
  BY Zenon, <1>0, <1>17 DEF CommittedInv, Committed, Done, Goto,
         GCCollect
<1>18. CASE GCLockTable
  BY Zenon, <1>0, <1>18 DEF CommittedInv, Committed, Done, Goto,
         GCLockTable
<1>19. ASSUME NEW k \in Key, GCSweep(k)
     PROVE  CommittedInv'
  BY Zenon, <1>0, <1>19 DEF CommittedInv, Committed, Done, Goto,
         GCSweep
<1>20. CASE UNCHANGED vars
  BY Zenon, <1>20 DEF IInv, CommittedInv, Committed, Done, vars
<1> QED
  BY Zenon, <1>1, <1>2, <1>3, <1>4, <1>5, <1>6, <1>7, <1>8, <1>9, <1>10, <1>11,
         <1>12, <1>13, <1>14, <1>15, <1>16, <1>17, <1>18, <1>19, <1>20 DEF
         Next, Invoke, Continue, GC, Finished

\* No step loses a committed version without leaving one at least as new.
LEMMA KeptStep ==
  ASSUME IInv, [Next]_vars
  PROVE  \A k \in Key : \A v \in table[k] : Committed(v) =>
           \E w \in table'[k] : w.commit_ts # NoTs /\ w.commit_ts >= v.commit_ts
<1>1. ASSUME NEW t \in Txn, NEW level \in Levels, Begin(t, level)
     PROVE  \A k \in Key : \A v \in table[k] : Committed(v) =>
           \E w \in table'[k] : w.commit_ts # NoTs /\ w.commit_ts >= v.commit_ts
  BY <1>1 DEF IInv, TypeOK, Version, Committed, NoTs, Begin
<1>2. ASSUME NEW t \in Txn, Register(t) \/ GetOrCreateChain(t) \/ Commit(t) \/
       Validate(t) \/ Reject(t) \/ Abort(t) \/ Erase(t)
     PROVE  \A k \in Key : \A v \in table[k] : Committed(v) =>
           \E w \in table'[k] : w.commit_ts # NoTs /\ w.commit_ts >= v.commit_ts
  BY <1>2 DEF IInv, TypeOK, Version, Committed, NoTs, Register,
         GetOrCreateChain, Commit, Validate, Reject, Abort, Erase
<1>3. ASSUME NEW t \in Txn, NEW k \in Key, Read(t, k) \/ Write(t, k) \/
       Delete(t, k) \/ FindChain(t, k) \/ LockChain(t, k)
     PROVE  \A j \in Key : \A v \in table[j] : Committed(v) =>
           \E w \in table'[j] : w.commit_ts # NoTs /\ w.commit_ts >= v.commit_ts
  BY <1>3 DEF IInv, TypeOK, Version, Committed, NoTs, Read, Write, Delete,
         FindChain, LockChain
<1>4. ASSUME NEW t \in Txn, Push(t)
     PROVE  \A k \in Key : \A v \in table[k] : Committed(v) =>
           \E w \in table'[k] : w.commit_ts # NoTs /\ w.commit_ts >= v.commit_ts
  <2>1. \A j \in Key : \A v \in table[j] : Committed(v) => v \in table'[j]
    BY Zenon, <1>4 DEF Push, Own, IInv, TypeOK
  <2> QED
    BY <2>1 DEF IInv, TypeOK, Version, Committed, NoTs
<1>5. ASSUME NEW t \in Txn, Mark(t)
     PROVE  \A k \in Key : \A v \in table[k] : Committed(v) =>
           \E w \in table'[k] : w.commit_ts # NoTs /\ w.commit_ts >= v.commit_ts
  <2>1. \A j \in Key : \A v \in table[j] : Committed(v) => v.txn # t
    BY <1>5, ConstantsAssumption DEF Mark, Goto, IInv, CommittedInv, Done, Txn, Loader
  <2>2. \A j \in Key : \A v \in table[j] : Committed(v) => v \in table'[j]
    BY Zenon, <1>5, <2>1 DEF Mark, Marked
  <2> QED
    BY <2>2 DEF IInv, TypeOK, Version, Committed, NoTs
<1>6. ASSUME NEW t \in Txn, NEW k \in Key, Unlink(t, k)
     PROVE  \A j \in Key : \A v \in table[j] : Committed(v) =>
           \E w \in table'[j] : w.commit_ts # NoTs /\ w.commit_ts >= v.commit_ts
  <2>1. \A j \in Key : \A v \in table[j] : Committed(v) => v \in table'[j]
    BY Zenon, <1>6 DEF Unlink, Own, IInv, TypeOK
  <2> QED
    BY <2>1 DEF IInv, TypeOK, Version, Committed, NoTs
<1>7. CASE GCCollect \/ GCLockTable
  BY <1>7 DEF IInv, TypeOK, Version, Committed, NoTs, GCCollect, GCLockTable
<1>8. ASSUME NEW k \in Key, GCSweep(k)
     PROVE  \A j \in Key : \A v \in table[j] : Committed(v) =>
           \E w \in table'[j] : w.commit_ts # NoTs /\ w.commit_ts >= v.commit_ts
  <2> SUFFICES ASSUME NEW j \in Key, NEW v \in table[j], Committed(v)
               PROVE  \E w \in table'[j] : w.commit_ts # NoTs /\ w.commit_ts >= v.commit_ts
    BY Zenon
  <2> DEFINE S == {w \in table[j] : Committed(w)}
  <2>1. S \in SUBSET Version /\ S # {} /\ global_ts \in Nat
    BY Zenon DEF IInv, TypeOK
  <2>2. \A w \in S : w.commit_ts \in Nat /\ w.commit_ts < global_ts
    BY DEF IInv, TypeOK, ClockInv, Version, Committed
  <2>3. PICK m \in S : \A w \in S : w.commit_ts <= m.commit_ts
    <3> HIDE DEF S
    <3> QED  BY <2>1, <2>2, NewestExists
  <2>4. ~Reclaimable(m, j)
    BY <2>2, <2>3 DEF Reclaimable
  <2>5. m \in table'[j]
    BY Zenon, <1>8, <2>4 DEF GCSweep, IInv, TypeOK
  <2> QED
    BY Zenon, <2>2, <2>3, <2>5 DEF Committed
<1>9. CASE UNCHANGED vars
  BY <1>9 DEF IInv, TypeOK, Version, Committed, NoTs, vars
<1> QED
  BY Zenon, <1>1, <1>2, <1>3, <1>4, <1>5, <1>6, <1>7, <1>8, <1>9 DEF Next, Invoke,
         Continue, GC, Finished

SameOutcome(u) ==
  /\ txns'[u].commit_ts = txns[u].commit_ts
  /\ txns'[u].start_ts = txns[u].start_ts
  /\ txns'[u].write_set = txns[u].write_set

\* A transaction is committed by Validate, and its record is fixed from there on.
LEMMA OutcomeStep ==
  ASSUME IInv, [Next]_vars
  PROVE  \A u \in Txn : HasCommitted(u)' =>
           (HasCommitted(u) /\ SameOutcome(u)) \/ Validate(u)
<1>0. PcInv /\ pc \in [Txn -> PcValues] /\ txns \in [Txn -> Transaction]
  BY Zenon DEF IInv, TypeOK
<1>1. ASSUME NEW t \in Txn, NEW level \in Levels, Begin(t, level)
     PROVE  \A u \in Txn : HasCommitted(u)' =>
           (HasCommitted(u) /\ SameOutcome(u)) \/ Validate(u)
  BY Zenon, <1>0, <1>1 DEF PcInv, Transaction, HasCommitted, SameOutcome,
         Done, Goto, Begin
<1>2. ASSUME NEW t \in Txn, Register(t) \/ GetOrCreateChain(t) \/ Push(t) \/
       Commit(t) \/ Validate(t) \/ Reject(t) \/ Mark(t) \/ Abort(t) \/
       Erase(t)
     PROVE  \A u \in Txn : HasCommitted(u)' =>
           (HasCommitted(u) /\ SameOutcome(u)) \/ Validate(u)
  BY SMTT(30), <1>0, <1>2 DEF PcInv, Transaction, HasCommitted, SameOutcome,
         Done, Goto, Register, GetOrCreateChain, Push, Commit, Validate,
         Reject, Mark, Abort, Erase
<1>3. ASSUME NEW t \in Txn, NEW k \in Key, Read(t, k) \/ Write(t, k) \/
       Delete(t, k) \/ FindChain(t, k) \/ LockChain(t, k) \/ Unlink(t, k)
     PROVE  \A u \in Txn : HasCommitted(u)' =>
           (HasCommitted(u) /\ SameOutcome(u)) \/ Validate(u)
  BY <1>0, <1>3 DEF PcInv, Transaction, HasCommitted, SameOutcome,
         Done, Goto, Read, Write, Delete, FindChain, LockChain, Unlink
<1>4. CASE GCCollect \/ GCLockTable
  BY Zenon, <1>0, <1>4 DEF PcInv, Transaction, HasCommitted, SameOutcome,
         Done, Goto, GCCollect, GCLockTable
<1>5. ASSUME NEW k \in Key, GCSweep(k)
     PROVE  \A u \in Txn : HasCommitted(u)' =>
           (HasCommitted(u) /\ SameOutcome(u)) \/ Validate(u)
  BY Zenon, <1>0, <1>5 DEF PcInv, Transaction, HasCommitted, SameOutcome,
         Done, Goto, GCSweep
<1>6. CASE UNCHANGED vars
  BY Zenon, <1>0, <1>6 DEF PcInv, Transaction, HasCommitted, SameOutcome,
         Done, Goto, vars
<1> QED
  BY Zenon, <1>1, <1>2, <1>3, <1>4, <1>5, <1>6 DEF Next, Invoke, Continue, GC,
         Finished

\* A transaction's versions become committed in Mark.
LEMMA DoneStep ==
  ASSUME IInv, [Next]_vars
  PROVE  \A u \in Txn : Done(u)' => Done(u) \/ Mark(u)
<1>1. ASSUME NEW t \in Txn, NEW level \in Levels, Begin(t, level)
     PROVE  \A u \in Txn : Done(u)' => Done(u) \/ Mark(u)
  BY Zenon, <1>1 DEF IInv, TypeOK, PcInv, HasCommitted, Done, Goto, Begin
<1>2. ASSUME NEW t \in Txn, Register(t) \/ GetOrCreateChain(t) \/ Push(t) \/
       Commit(t) \/ Validate(t) \/ Reject(t) \/ Abort(t) \/ Erase(t)
     PROVE  \A u \in Txn : Done(u)' => Done(u) \/ Mark(u)
  BY Zenon, <1>2 DEF IInv, TypeOK, PcInv, HasCommitted, Done, Goto, Register,
         GetOrCreateChain, Push, Commit, Validate, Reject, Abort, Erase
<1>3. ASSUME NEW t \in Txn, NEW k \in Key, Read(t, k) \/ Write(t, k) \/
       Delete(t, k) \/ FindChain(t, k) \/ LockChain(t, k) \/ Unlink(t, k)
     PROVE  \A u \in Txn : Done(u)' => Done(u) \/ Mark(u)
  BY Zenon, <1>3 DEF IInv, TypeOK, PcInv, HasCommitted, Done, Goto, Read, Write,
         Delete, FindChain, LockChain, Unlink
<1>4. ASSUME NEW t \in Txn, Mark(t)
     PROVE  \A u \in Txn : Done(u)' => Done(u) \/ Mark(u)
  <2>1. \A u \in Txn : u # t => pc'[u] = pc[u]
    BY Zenon, <1>4 DEF Mark, Goto, IInv, TypeOK
  <2> QED
    BY Zenon, <2>1, <1>4 DEF Done
<1>5. CASE GCCollect \/ GCLockTable
  BY Zenon, <1>5 DEF IInv, TypeOK, PcInv, HasCommitted, Done, Goto, GCCollect,
         GCLockTable
<1>6. ASSUME NEW k \in Key, GCSweep(k)
     PROVE  \A u \in Txn : Done(u)' => Done(u) \/ Mark(u)
  BY Zenon, <1>6 DEF IInv, TypeOK, PcInv, HasCommitted, Done, Goto, GCSweep
<1>7. CASE UNCHANGED vars
  BY Zenon, <1>7 DEF IInv, TypeOK, PcInv, HasCommitted, Done, Goto, vars
<1> QED
  BY Zenon, <1>1, <1>2, <1>3, <1>4, <1>5, <1>6, <1>7 DEF Next, Invoke, Continue, GC,
         Finished

\* CoverInv is preserved: by KeptStep what was covered stays covered, and Mark
\* covers its own writes.
LEMMA CoverStep ==
  ASSUME IInv, [Next]_vars
  PROVE  CoverInv'
<1> SUFFICES ASSUME NEW t \in Txn, Done(t)', NEW k \in txns'[t].write_set
             PROVE  \E v \in table'[k] :
                      v.commit_ts # NoTs /\ v.commit_ts >= txns'[t].commit_ts
  BY Zenon DEF CoverInv, Committed
<1>1. HasCommitted(t)'
  BY Zenon, PcStep DEF PcInv
<1>2. ~Validate(t)
  BY SMTT(30) DEF Validate, Goto, Done, IInv, TypeOK
<1>3. HasCommitted(t) /\ SameOutcome(t) /\ k \in Key
  BY Zenon, <1>1, <1>2, OutcomeStep DEF SameOutcome, IInv, TypeOK, Transaction
<1>4. CASE Done(t)
  <2>1. PICK v \in table[k] : Committed(v) /\ v.commit_ts >= txns[t].commit_ts
    BY ZenonT(60), <1>3, <1>4 DEF IInv, CoverInv, SameOutcome
  <2>2. PICK w \in table'[k] : w.commit_ts # NoTs /\ w.commit_ts >= v.commit_ts
    BY Zenon, <1>3, <2>1, KeptStep
  <2>3. /\ v.commit_ts \in Nat /\ w.commit_ts \in Nat
        /\ txns[t].commit_ts \in Nat
    <3>1. TypeOK'
      BY Zenon, TypeStep
    <3>2. w \in Version /\ v \in Version /\ txns[t] \in Transaction
      BY Zenon, <1>3, <2>1, <2>2, <3>1 DEF IInv, TypeOK
    <3> QED
      BY Zenon, <1>3, <2>1, <2>2, <3>2 DEF Version, Transaction, Committed, HasCommitted
  <2> QED
    <3>1. w.commit_ts >= txns[t].commit_ts
      BY <2>1, <2>2, <2>3
    <3>2. txns'[t].commit_ts = txns[t].commit_ts
      BY Zenon, <1>3 DEF SameOutcome
    <3> QED
      BY Zenon, <2>2, <3>1, <3>2
<1>5. CASE Mark(t)
  <2>1. PICK v \in table[k] : v.txn = t /\ ~Committed(v)
    BY Zenon, <1>3, <1>5 DEF IInv, PendingInv, InFlight, Mark, Goto, Own, SameOutcome
  <2>2. Marked(v, t) \in table'[k] /\ Marked(v, t).commit_ts = txns[t].commit_ts
    <3>1. v \in Version /\ Marked(v, t) = [v EXCEPT !.commit_ts = txns[t].commit_ts]
      BY Zenon, <1>3, <2>1 DEF Marked, IInv, TypeOK
    <3>2. Marked(v, t).commit_ts = txns[t].commit_ts
      BY Zenon, <3>1 DEF Version
    <3> QED
      BY Zenon, <1>3, <1>5, <3>2 DEF Mark
  <2>3. txns[t].commit_ts \in Nat
    BY Zenon, <1>3 DEF IInv, TypeOK, Transaction, HasCommitted
  <2> QED
    <3>1. txns'[t].commit_ts = txns[t].commit_ts
      BY Zenon, <1>3 DEF SameOutcome
    <3>2. txns[t].commit_ts # NoTs /\ txns[t].commit_ts >= txns[t].commit_ts
      BY <2>3 DEF NoTs
    <3> QED
      BY Zenon, <2>2, <3>1, <3>2
<1> QED
  BY Zenon, <1>4, <1>5, DoneStep

\* When a Commit passes its conflict check, every transaction that has
\* committed one of its keys did so before it began.
LEMMA ValidateOrder ==
  ASSUME IInv, NEW t \in Txn, Validate(t), NEW u \in Txn, u # t, HasCommitted(u),
         NEW k \in txns[t].write_set \cap txns[u].write_set
  PROVE  txns[u].commit_ts < txns[t].start_ts
<1>1. k \in Key
  BY Zenon DEF IInv, TypeOK, Transaction
<1>2. k \in chains[t].found /\ mutex[k] = t
  BY Zenon, <1>1 DEF IInv, ChainInv, Validate, Goto, AllLocked, Unlocked
<1>3. Done(u)
  BY Zenon, <1>2 DEF IInv, PcInv, ChainInv
<1>4. PICK v \in table[k] : Committed(v) /\ v.commit_ts >= txns[u].commit_ts
  BY Zenon, <1>3 DEF IInv, CoverInv
<1>5. v.txn # t
  BY <1>1, <1>4, ConstantsAssumption
     DEF IInv, CommittedInv, Validate, Goto, Done, Txn, Loader
<1>6. ~(v.commit_ts > txns[t].start_ts)
  BY Zenon, <1>2, <1>4, <1>5 DEF Validate, Conflict
<1>7. txns[t].start_ts # txns[u].commit_ts
  BY Zenon DEF IInv, ClockInv, Validate, Goto
<1>8. /\ v.commit_ts \in Nat /\ txns[u].commit_ts \in Nat
      /\ txns[t].start_ts \in Nat
  BY <1>1, <1>4 DEF IInv, TypeOK, Version, Transaction, Committed, HasCommitted
<1> QED
  BY <1>4, <1>6, <1>7, <1>8

\* FirstCommitterWins is preserved.
LEMMA FirstCommitterStep ==
  ASSUME IInv, [Next]_vars
  PROVE  FirstCommitterWins'
<1> SUFFICES ASSUME NEW t \in Txn, NEW u \in Txn, t # u,
                    HasCommitted(t)', HasCommitted(u)',
                    txns'[t].write_set \cap txns'[u].write_set # {}
             PROVE  \/ txns'[t].commit_ts < txns'[u].start_ts
                    \/ txns'[u].commit_ts < txns'[t].start_ts
  BY Zenon DEF FirstCommitterWins
<1>1. CASE HasCommitted(t) /\ SameOutcome(t) /\ HasCommitted(u) /\ SameOutcome(u)
  BY Zenon, <1>1 DEF IInv, FirstCommitterWins, SameOutcome
<1>2. ASSUME NEW a \in Txn, NEW b \in Txn, a # b, Validate(a),
             txns'[a].write_set \cap txns'[b].write_set # {}, HasCommitted(b)'
      PROVE  txns'[b].commit_ts < txns'[a].start_ts
  <2>1. ~Validate(b) /\ txns'[a].start_ts = txns[a].start_ts
        /\ txns'[a].write_set = txns[a].write_set
    BY <1>2 DEF Validate, Goto, IInv, TypeOK, Transaction
  <2>2. HasCommitted(b) /\ SameOutcome(b)
    BY Zenon, <1>2, <2>1, OutcomeStep
  <2> QED
    BY Zenon, <1>2, <2>1, <2>2, ValidateOrder DEF SameOutcome
<1>3. CASE Validate(t)
  BY Zenon, <1>2, <1>3
<1>4. CASE Validate(u)
  BY Zenon, <1>2, <1>4
<1> QED
  BY Zenon, <1>1, <1>3, <1>4, OutcomeStep

LEMMA InitIInv == Init => IInv
<1> SUFFICES ASSUME Init PROVE IInv
  BY SMTT(30)
<1>1. TypeOK
  <2>1. NoTransaction \in Transaction
    BY Zenon DEF NoTransaction, Transaction, IsolationLevels, NoTs
  <2>2. \A k \in Key : table[k] \subseteq Version
    <3>1. \A k \in Key : LoadedVersion(k) \in Version
      BY ConstantsAssumption DEF LoadedVersion, Version, NoTs, Loader, Key
    <3> QED
      BY Zenon, <3>1 DEF Init
  <2>3. global_ts \in Nat /\ chained \subseteq Key
    BY ConstantsAssumption DEF Init, Key
  <2>4. /\ table \in [Key -> SUBSET Version] /\ mutex \in [Key -> Txn \cup {Free}]
        /\ txns \in [Txn -> Transaction] /\ registered \subseteq Txn
    BY Zenon, <2>1, <2>2 DEF Init
  <2>5. /\ pc \in [Txn -> PcValues] /\ ops \in [Txn -> Nat]
        /\ arg \in [Txn -> [key : Key \cup {0}, deleted : BOOLEAN]]
        /\ chains \in [Txn -> [todo : SUBSET Key, found : SUBSET Key]]
    BY Zenon DEF Init, PcValues, NoArg, NoChains
  <2>6. /\ gc \in [pc : {"idle", "collect", "sweep"}, shard : Nat,
                   starts : SUBSET Nat, todo : SUBSET Key]
        /\ gc_runs \in Nat
    BY Zenon DEF Init, NoGC
  <2> QED
    BY Zenon, <2>3, <2>4, <2>5, <2>6 DEF TypeOK
<1>2. PcInv /\ ChainInv /\ PendingInv /\ CoverInv
  BY Zenon DEF Init, PcInv, ChainInv, PendingInv, CoverInv, HasCommitted, Done,
         InFlight, NoTransaction
<1>3. ClockInv
  BY SMTT(30), ConstantsAssumption
     DEF Init, ClockInv, LoadedVersion, NoTransaction, NoTs, HasCommitted
<1>4. CommittedInv
  BY DEF Init, CommittedInv, LoadedVersion
<1>5. FirstCommitterWins
  BY Zenon DEF Init, FirstCommitterWins, HasCommitted, NoTransaction
<1> QED
  BY Zenon, <1>1, <1>2, <1>3, <1>4, <1>5 DEF IInv

LEMMA NextIInv == IInv /\ [Next]_vars => IInv'
  BY Zenon, TypeStep, PcStep, ClockStep, ChainStep, PendingStep, CommittedStep,
     CoverStep, FirstCommitterStep DEF IInv

----------------------------------------------------------------------------
\* The types of MVCCStore's state are those of the C++ fields, always.
THEOREM TypeCorrect == Spec => []TypeOK
<1>1. IInv => TypeOK
  BY Zenon DEF IInv
<1> QED
  BY <1>1, InitIInv, NextIInv, PTL DEF Spec

\* No lost update: Commit's sorted locking and its conflict check make the
\* first committer of a key win, for any number of transactions and keys and
\* whatever RunGarbageCollection does meanwhile.
THEOREM NoLostUpdate == Spec => []FirstCommitterWins
<1>1. IInv => FirstCommitterWins
  BY Zenon DEF IInv
<1> QED
  BY <1>1, InitIInv, NextIInv, PTL DEF Spec

\* Every step keeps each chain's newest committed version: neither
\* RunGarbageCollection nor AbortInternal ever takes the history back.
THEOREM NewestSurvives == Spec => LatestCommittedKept
<1>1. IInv /\ [Next]_vars =>
        [\A k \in Key : \A v \in table[k] :
           Committed(v) => \E w \in table'[k] :
                             w.commit_ts # NoTs /\ w.commit_ts >= v.commit_ts]_vars
  BY Zenon, KeptStep
<1> QED
  BY <1>1, InitIInv, NextIInv, PTL DEF Spec, LatestCommittedKept

----------------------------------------------------------------------------
(* The order of the versions in a chain.                                   *)

\* A pending version belongs to a transaction inside a call or between calls.
Live(t) == pc[t] \in {"active", "chain", "push", "lock", "mark", "unlink"}

\* A transaction has at most one pending version of a key, which it drew after
\* it began; a version is committed after it was drawn.
SeqInv ==
  \A k \in Key : \A v \in table[k] :
    /\ v.seq < global_ts
    /\ Committed(v) => v.seq < v.commit_ts
    /\ ~Committed(v) =>
         /\ v.txn \in Txn /\ Live(v.txn) /\ k \in txns[v.txn].write_set
         /\ txns[v.txn].start_ts < v.seq
         /\ \A w \in table[k] : ~Committed(w) /\ w.txn = v.txn => w = v

\* What is committed on the keys of a Commit that is marking was committed
\* before its transaction began, and what it is about to commit was drawn
\* before its commit timestamp.
MarkInv ==
  \A t \in Txn : pc[t] = "mark" =>
    \A k \in txns[t].write_set : \A v \in table[k] :
      /\ Committed(v) => v.commit_ts <= txns[t].start_ts
      /\ v.txn = t => v.seq < txns[t].commit_ts

OrderInv == SeqInv /\ MarkInv /\ WriteOrderIsCommitOrder

\* A step that adds no version keeps the order of the versions, unless it ends a
\* transaction with versions pending or begins a marking.
LEMMA OrderKept ==
  ASSUME IInv, OrderInv,
         \A k \in Key : table'[k] \subseteq table[k],
         global_ts' \in Nat, global_ts <= global_ts',
         \A t \in Txn : Live(t) =>
           /\ Live(t)' \/ \A k \in Key : \A v \in table'[k] : v.txn = t => Committed(v)
           /\ txns'[t].start_ts = txns[t].start_ts
           /\ txns'[t].write_set = txns[t].write_set
  PROVE  /\ SeqInv' /\ WriteOrderIsCommitOrder'
         /\ (\A t \in Txn : pc'[t] = "mark" =>
               pc[t] = "mark" /\ txns'[t].commit_ts = txns[t].commit_ts) => MarkInv'
<1>1. SeqInv'
  <2> SUFFICES ASSUME NEW k \in Key, NEW v \in table'[k]
               PROVE  /\ v.seq < global_ts'
                      /\ Committed(v) => v.seq < v.commit_ts
                      /\ ~Committed(v) =>
                           /\ v.txn \in Txn /\ Live(v.txn)' /\ k \in txns'[v.txn].write_set
                           /\ txns'[v.txn].start_ts < v.seq
                           /\ \A w \in table'[k] : ~Committed(w) /\ w.txn = v.txn => w = v
    BY Zenon DEF SeqInv, Committed
  <2>1. v \in table[k] /\ table'[k] \subseteq table[k]
    BY Zenon
  <2>2. v.seq < global_ts'
    BY SMTT(30), <2>1 DEF OrderInv, SeqInv, IInv, TypeOK, Version
  <2>3. Committed(v) => v.seq < v.commit_ts
    BY Zenon, <2>1 DEF OrderInv, SeqInv
  <2>4. ASSUME ~Committed(v)
        PROVE  /\ v.txn \in Txn /\ Live(v.txn)' /\ k \in txns'[v.txn].write_set
               /\ txns'[v.txn].start_ts < v.seq
               /\ \A w \in table'[k] : ~Committed(w) /\ w.txn = v.txn => w = v
    <3>1. /\ v.txn \in Txn /\ Live(v.txn) /\ k \in txns[v.txn].write_set
          /\ txns[v.txn].start_ts < v.seq
          /\ \A w \in table[k] : ~Committed(w) /\ w.txn = v.txn => w = v
      BY Zenon, <2>1, <2>4 DEF OrderInv, SeqInv
    <3> QED
      BY Zenon, <2>1, <2>4, <3>1
  <2> QED
    BY Zenon, <2>2, <2>3, <2>4
<1>2. WriteOrderIsCommitOrder'
  BY Zenon DEF OrderInv, WriteOrderIsCommitOrder, Committed
<1>3. ASSUME \A t \in Txn : pc'[t] = "mark" =>
               pc[t] = "mark" /\ txns'[t].commit_ts = txns[t].commit_ts
      PROVE  MarkInv'
  <2>1. ASSUME NEW t \in Txn, pc'[t] = "mark"
        PROVE  /\ pc[t] = "mark" /\ txns'[t].start_ts = txns[t].start_ts
               /\ txns'[t].write_set = txns[t].write_set
               /\ txns'[t].commit_ts = txns[t].commit_ts
               /\ txns[t].write_set \subseteq Key
    BY Zenon, <1>3, <2>1 DEF Live, IInv, TypeOK, Transaction
  <2> QED
    BY Zenon, <2>1 DEF OrderInv, MarkInv, Committed
<1> QED
  BY Zenon, <1>1, <1>2, <1>3

LEMMA Ticks ==
  ASSUME NEW g \in Nat, NEW h \in {g, g + 1}
  PROVE  h \in Nat /\ g <= h
OBVIOUS

\* The frame of most steps: they leave the versions and the records alone, and
\* the thread goes on.
LEMMA OrderFrame ==
  ASSUME IInv, OrderInv, NEW t \in Txn, UNCHANGED table,
         global_ts' \in {global_ts, global_ts + 1},
         \A u \in Txn : Live(u) => /\ txns'[u].start_ts = txns[u].start_ts
                                   /\ txns'[u].write_set = txns[u].write_set,
         \A u \in Txn : u # t => txns'[u].commit_ts = txns[u].commit_ts,
         \A u \in Txn : u # t => pc'[u] = pc[u],
         Live(t) => Live(t)'
  PROVE  /\ SeqInv' /\ WriteOrderIsCommitOrder'
         /\ pc'[t] # "mark" \/ UNCHANGED <<pc, txns>> => MarkInv'
<1>0. global_ts \in Nat
  BY Zenon DEF IInv, TypeOK
<1>1. global_ts' \in Nat /\ global_ts <= global_ts'
  BY Zenon, <1>0, Ticks
<1>2. \A u \in Txn : Live(u) => Live(u)'
  BY Zenon DEF Live
<1>3. \A k \in Key : table'[k] \subseteq table[k]
  BY Zenon
<1>4. pc'[t] # "mark" \/ UNCHANGED <<pc, txns>> =>
        \A u \in Txn : pc'[u] = "mark" =>
          pc[u] = "mark" /\ txns'[u].commit_ts = txns[u].commit_ts
  BY Zenon
<1> QED
  BY Zenon, <1>1, <1>2, <1>3, <1>4, OrderKept

\* Every step keeps it.
LEMMA OrderStep ==
  ASSUME IInv, OrderInv, [Next]_vars
  PROVE  OrderInv'
<1>0. /\ pc \in [Txn -> PcValues] /\ txns \in [Txn -> Transaction]
      /\ table \in [Key -> SUBSET Version] /\ global_ts \in Nat
  BY Zenon DEF IInv, TypeOK
<1>1. ASSUME NEW t \in Txn, NEW level \in Levels, Begin(t, level)
      PROVE  OrderInv'
  <2>1. /\ \A u \in Txn : Live(u) => /\ txns'[u].start_ts = txns[u].start_ts
                                     /\ txns'[u].write_set = txns[u].write_set
        /\ \A u \in Txn : u # t => pc'[u] = pc[u] /\ txns'[u].commit_ts = txns[u].commit_ts
        /\ ~Live(t) /\ pc'[t] = "begin"
        /\ UNCHANGED table /\ global_ts' = global_ts + 1
    BY Zenon, <1>0, <1>1 DEF Begin, Goto, Live, Transaction
  <2> QED
    BY Zenon, <2>1, OrderFrame DEF OrderInv
<1>2. ASSUME NEW t \in Txn, Register(t) \/ GetOrCreateChain(t) \/ Commit(t) \/ Reject(t)
                            \/ Abort(t)
      PROVE  OrderInv'
  <2>1. /\ UNCHANGED <<txns, table, global_ts>>
        /\ \A u \in Txn : u # t => pc'[u] = pc[u]
        /\ Live(t)' /\ pc'[t] # "mark"
    BY Zenon, <1>0, <1>2 DEF Register, GetOrCreateChain, Commit, Reject, Abort, Goto, Live
  <2> QED
    BY Zenon, <2>1, OrderFrame DEF OrderInv
<1>3. ASSUME NEW t \in Txn, NEW k \in Key, Read(t, k) \/ Write(t, k) \/ Delete(t, k)
      PROVE  OrderInv'
  <2>1. /\ \A u \in Txn : /\ txns'[u].start_ts = txns[u].start_ts
                          /\ txns'[u].write_set = txns[u].write_set
        /\ \A u \in Txn : u # t => pc'[u] = pc[u] /\ txns'[u].commit_ts = txns[u].commit_ts
        /\ Live(t)' /\ pc'[t] # "mark"
        /\ UNCHANGED <<table, global_ts>>
    BY <1>0, <1>3 DEF Read, Write, Delete, Goto, Live, Transaction
  <2> QED
    BY Zenon, <2>1, OrderFrame DEF OrderInv
<1>4. ASSUME NEW t \in Txn, NEW k \in Key, FindChain(t, k) \/ LockChain(t, k)
      PROVE  OrderInv'
  <2>1. UNCHANGED <<txns, table, global_ts, pc>>
    BY Zenon, <1>4 DEF FindChain, LockChain
  <2>2. Live(t) => Live(t)'
    BY Zenon, <2>1 DEF Live
  <2> QED
    BY Zenon, <2>1, <2>2, OrderFrame DEF OrderInv
<1>5. ASSUME NEW t \in Txn, Push(t)
      PROVE  OrderInv'
  <2> DEFINE k == arg[t].key
             new == [txn |-> t, seq |-> global_ts, commit_ts |-> NoTs,
                     deleted |-> arg[t].deleted]
  <2>1. k \in Key /\ pc[t] = "push"
    BY Zenon, <1>5 DEF Push, Goto, IInv, ChainInv
  <2>2. /\ \A j \in Key : j # k => table'[j] = table[j]
        /\ table'[k] = (table[k] \ Own(t, k)) \cup {new}
        /\ global_ts' = global_ts + 1
    BY Zenon, <1>0, <1>5, <2>1 DEF Push
  <2>3. /\ new.txn = t /\ new.seq = global_ts /\ ~Committed(new)
        /\ txns[t].start_ts \in Nat /\ txns[t].start_ts < global_ts
    BY Zenon, <1>0, <2>1 DEF Committed, IInv, ClockInv, Transaction
  <2> HIDE DEF new
  <2>4. /\ \A u \in Txn : pc'[u] = IF u = t THEN "active" ELSE pc[u]
        /\ \A u \in Txn : /\ txns'[u].start_ts = txns[u].start_ts
                          /\ txns'[u].commit_ts = txns[u].commit_ts
        /\ \A u \in Txn : txns'[u].write_set =
             IF u = t THEN txns[t].write_set \cup {k} ELSE txns[u].write_set
    BY Zenon, <1>0, <1>5, <2>1 DEF Push, Goto, Transaction
  <2> HIDE DEF k
  <2>5. SeqInv'
    <3> SUFFICES ASSUME NEW j \in Key, NEW v \in table'[j]
                 PROVE  /\ v.seq < global_ts'
                        /\ Committed(v) => v.seq < v.commit_ts
                        /\ ~Committed(v) =>
                             /\ v.txn \in Txn /\ Live(v.txn)' /\ j \in txns'[v.txn].write_set
                             /\ txns'[v.txn].start_ts < v.seq
                             /\ \A w \in table'[j] : ~Committed(w) /\ w.txn = v.txn => w = v
      BY Zenon DEF SeqInv, Committed
    <3>1. CASE v \in table[j]
      <4>1. /\ v.seq < global_ts /\ v.seq \in Nat
            /\ Committed(v) => v.seq < v.commit_ts
            /\ ~Committed(v) =>
                 /\ v.txn \in Txn /\ Live(v.txn) /\ j \in txns[v.txn].write_set
                 /\ txns[v.txn].start_ts < v.seq
                 /\ \A w \in table[j] : ~Committed(w) /\ w.txn = v.txn => w = v
        BY SMTT(30), <1>0, <3>1 DEF OrderInv, SeqInv, Version
      <4>2. v.seq < global_ts'
        BY SMTT(30), <1>0, <2>2, <4>1
      <4>3. ASSUME ~Committed(v)
            PROVE  Live(v.txn)' /\ j \in txns'[v.txn].write_set
        BY Zenon, <2>4, <4>1, <4>3 DEF Live
      <4>4. ASSUME ~Committed(v), NEW w \in table'[j], ~Committed(w), w.txn = v.txn
            PROVE  w = v
        <5>1. CASE w \in table[j]
          BY Zenon, <4>1, <4>4, <5>1
        <5>2. CASE w \notin table[j]
          <6>1. w = new /\ j = k
            BY Zenon, <2>2, <4>4, <5>2
          <6>2. v \in Own(t, k)
            BY Zenon, <2>3, <3>1, <4>4, <6>1 DEF Own
          <6>3. v = new
            BY Zenon, <2>2, <6>1, <6>2
          <6> QED
            BY Zenon, <6>1, <6>3
        <5> QED
          BY Zenon, <5>1, <5>2
      <4> QED
        BY Zenon, <2>4, <4>1, <4>2, <4>3, <4>4
    <3>2. CASE v \notin table[j]
      <4>1. v = new /\ j = k
        BY Zenon, <2>2, <3>2
      <4>2. v.seq < global_ts' /\ txns'[t].start_ts < v.seq
        BY SMTT(30), <1>0, <2>2, <2>3, <2>4, <4>1
      <4>3. Live(t)' /\ j \in txns'[t].write_set
        BY Zenon, <2>4, <4>1 DEF Live
      <4>4. ASSUME NEW w \in table'[j], ~Committed(w), w.txn = t
            PROVE  w = v
        <5>1. w \in table[j] => w \in Own(t, k)
          BY Zenon, <4>1, <4>4 DEF Own
        <5> QED
          BY Zenon, <2>2, <4>1, <4>4, <5>1
      <4> QED
        BY Zenon, <2>3, <4>1, <4>2, <4>3, <4>4
    <3> QED
      BY Zenon, <3>1, <3>2
  <2>6. \A j \in Key : \A v \in table'[j] : Committed(v) => v \in table[j]
    BY Zenon, <2>2, <2>3
  <2>6a. \A j \in Key : \A v \in table'[j] : v.txn # t => v \in table[j]
    BY Zenon, <2>2, <2>3
  <2>7. WriteOrderIsCommitOrder'
    BY Zenon, <2>6 DEF OrderInv, WriteOrderIsCommitOrder, Committed
  <2>8. MarkInv'
    <3>1. ASSUME NEW u \in Txn, pc'[u] = "mark"
          PROVE  /\ pc[u] = "mark" /\ txns'[u].write_set = txns[u].write_set /\ u # t
                 /\ txns[u].write_set \subseteq Key
      BY Zenon, <1>0, <2>4, <3>1 DEF Transaction
    <3> QED
      BY Zenon, <2>4, <2>6, <2>6a, <3>1 DEF OrderInv, MarkInv, Committed
  <2> QED
    BY Zenon, <2>5, <2>7, <2>8 DEF OrderInv
<1>6. ASSUME NEW t \in Txn, Validate(t)
      PROVE  OrderInv'
  <2>1. /\ \A u \in Txn : /\ txns'[u].start_ts = txns[u].start_ts
                          /\ txns'[u].write_set = txns[u].write_set
        /\ \A u \in Txn : u # t => pc'[u] = pc[u] /\ txns'[u].commit_ts = txns[u].commit_ts
        /\ pc[t] = "lock" /\ Live(t)' /\ txns'[t].commit_ts = global_ts
        /\ UNCHANGED table /\ global_ts' = global_ts + 1
    BY Zenon, <1>0, <1>6 DEF Validate, Goto, Live, Transaction
  <2>2. SeqInv' /\ WriteOrderIsCommitOrder'
    BY Zenon, <2>1, OrderFrame
  <2>3. ASSUME NEW k \in txns[t].write_set, NEW v \in table[k], Committed(v)
        PROVE  v.commit_ts <= txns[t].start_ts
    <3>1. k \in Key /\ k \in chains[t].found
      BY Zenon, <1>0, <1>6, <2>1 DEF Transaction, IInv, ChainInv, Validate, AllLocked
    <3>2. v.txn # t
      BY <2>1, <2>3, <3>1, ConstantsAssumption DEF IInv, CommittedInv, Done, Txn, Loader
    <3>3. ~(v.commit_ts > txns[t].start_ts)
      BY Zenon, <1>6, <2>3, <3>1, <3>2 DEF Validate, Conflict
    <3>4. v.commit_ts \in Nat /\ txns[t].start_ts \in Nat
      BY <1>0, <2>3, <3>1 DEF Version, Committed, Transaction
    <3> QED
      BY <3>3, <3>4
  <2>4. \A k \in txns[t].write_set : \A v \in table[k] : v.seq < global_ts
    BY Zenon, <1>0 DEF OrderInv, SeqInv, Transaction
  <2>5. MarkInv'
    BY ZenonT(30), <2>1, <2>3, <2>4 DEF OrderInv, MarkInv, Committed
  <2> QED
    BY Zenon, <2>2, <2>5 DEF OrderInv
<1>7. ASSUME NEW t \in Txn, Mark(t)
      PROVE  OrderInv'
  <2> DEFINE c == txns[t].commit_ts
  <2>1. /\ pc[t] = "mark" /\ UNCHANGED <<txns, global_ts>>
        /\ \A u \in Txn : pc'[u] = IF u = t THEN "erase" ELSE pc[u]
        /\ \A k \in Key : table'[k] = {Marked(v, t) : v \in table[k]}
    BY Zenon, <1>0, <1>7 DEF Mark, Goto
  <2>1a. \A k \in Key : \A m \in table'[k] : \E v \in table[k] : m = Marked(v, t)
    BY <2>1
  <2>2. c \in Nat /\ c # NoTs /\ c < global_ts /\ txns[t].start_ts \in Nat
    BY Zenon, <1>0, <2>1 DEF IInv, PcInv, ClockInv, HasCommitted, Transaction, NoTs
  <2>3. \A k \in Key : \A v \in table[k] : Committed(v) => v.txn # t
    BY <2>1, ConstantsAssumption DEF IInv, CommittedInv, Done, Txn, Loader
  \* A version is marked, or as it was.
  <2>4. ASSUME NEW k \in Key, NEW v \in table[k]
        PROVE  LET m == Marked(v, t)
               IN  /\ m.seq = v.seq /\ m.txn = v.txn
                   /\ v.txn = t => ~Committed(v) /\ Committed(m) /\ m.commit_ts = c
                   /\ v.txn # t => m = v
    BY <1>0, <2>2, <2>3, <2>4 DEF Marked, Committed, Version
  <2> HIDE DEF c
  \* What was committed on a key of t is older than what t commits there.
  <2>5. ASSUME NEW k \in Key, NEW v \in table[k], v.txn = t
        PROVE  /\ v.seq < c
               /\ \A w \in table[k] : Committed(w) => w.seq < v.seq /\ w.commit_ts < c
    <3>1. /\ k \in txns[t].write_set /\ txns[t].start_ts < v.seq
      BY Zenon, <2>4, <2>5 DEF OrderInv, SeqInv
    <3>2. v.seq < c
      BY Zenon, <2>1, <2>5, <3>1 DEF OrderInv, MarkInv, c
    <3>3. ASSUME NEW w \in table[k], Committed(w)
          PROVE  w.seq < v.seq /\ w.commit_ts < c
      <4>1. w.commit_ts <= txns[t].start_ts
        BY Zenon, <2>1, <3>1, <3>3 DEF OrderInv, MarkInv
      <4>2. w.seq < w.commit_ts
        BY Zenon, <3>3 DEF OrderInv, SeqInv
      <4>3. w.seq \in Nat /\ w.commit_ts \in Nat /\ v.seq \in Nat
        BY <1>0, <3>3 DEF Version, Committed
      <4> QED
        BY <2>2, <3>1, <3>2, <4>1, <4>2, <4>3
    <3> QED
      BY Zenon, <3>2, <3>3
  <2>6. SeqInv'
    <3> SUFFICES ASSUME NEW k \in Key, NEW m \in table'[k]
                 PROVE  /\ m.seq < global_ts
                        /\ Committed(m) => m.seq < m.commit_ts
                        /\ ~Committed(m) =>
                             /\ m.txn \in Txn /\ Live(m.txn)' /\ k \in txns[m.txn].write_set
                             /\ txns[m.txn].start_ts < m.seq
                             /\ \A w \in table'[k] :
                                  ~Committed(w) /\ w.txn = m.txn => w = m
      BY Zenon, <2>1 DEF SeqInv, Committed
    <3>0. PICK v \in table[k] : m = Marked(v, t)
      BY Zenon, <2>1a
    <3>1. CASE v.txn = t
      BY SMTT(30), <2>4, <2>5, <3>0, <3>1 DEF OrderInv, SeqInv
    <3>2. CASE v.txn # t
      <4>1. m = v
        BY Zenon, <2>4, <3>0, <3>2
      <4>2. ASSUME ~Committed(v)
            PROVE  Live(v.txn)'
        BY Zenon, <2>1, <3>2, <4>2 DEF OrderInv, SeqInv, Live
      <4>3. ASSUME NEW w \in table'[k], w.txn = v.txn
            PROVE  w \in table[k]
        BY <2>1a, <2>4, <3>2, <4>3
      <4>4. /\ v.seq < global_ts
            /\ Committed(v) => v.seq < v.commit_ts
            /\ ~Committed(v) =>
                 /\ v.txn \in Txn /\ k \in txns[v.txn].write_set
                 /\ txns[v.txn].start_ts < v.seq
                 /\ \A w \in table[k] : ~Committed(w) /\ w.txn = v.txn => w = v
        BY Zenon DEF OrderInv, SeqInv
      <4> QED
        BY Zenon, <4>1, <4>2, <4>3, <4>4
    <3> QED
      BY Zenon, <3>1, <3>2
  <2>7. WriteOrderIsCommitOrder'
    <3> SUFFICES ASSUME NEW k \in Key, NEW v \in table[k], NEW w \in table[k],
                        Committed(Marked(v, t)), Committed(Marked(w, t))
                 PROVE  Marked(v, t).seq < Marked(w, t).seq
                          <=> Marked(v, t).commit_ts < Marked(w, t).commit_ts
      BY SMTT(30), <2>1a DEF WriteOrderIsCommitOrder, Committed
    <3>0. v.seq \in Nat /\ w.seq \in Nat
      BY <1>0 DEF Version
    <3>1. CASE v.txn = t /\ w.txn = t
      <4>1. v = w
        BY SMTT(30), <2>4, <3>1 DEF OrderInv, SeqInv
      <4> QED
        BY SMTT(30), <2>2, <2>4, <3>0, <3>1, <4>1
    <3>2. CASE v.txn = t /\ w.txn # t
      <4>1. /\ Marked(w, t) = w /\ Committed(w) /\ Marked(v, t).seq = v.seq
            /\ Marked(v, t).commit_ts = c
        BY Zenon, <2>4, <3>2
      <4>2. w.seq < v.seq /\ w.commit_ts < c /\ w.commit_ts \in Nat
        BY <1>0, <2>5, <3>2, <4>1 DEF Version, Committed
      <4> QED
        BY SMTT(30), <2>2, <3>0, <4>1, <4>2
    <3>3. CASE v.txn # t /\ w.txn = t
      <4>1. /\ Marked(v, t) = v /\ Committed(v) /\ Marked(w, t).seq = w.seq
            /\ Marked(w, t).commit_ts = c
        BY Zenon, <2>4, <3>3
      <4>2. v.seq < w.seq /\ v.commit_ts < c /\ v.commit_ts \in Nat
        BY <1>0, <2>5, <3>3, <4>1 DEF Version, Committed
      <4> QED
        BY Zenon, <2>2, <3>0, <4>1, <4>2
    <3>4. CASE v.txn # t /\ w.txn # t
      <4>1. Marked(v, t) = v /\ Marked(w, t) = w
        BY Zenon, <2>4, <3>4
      <4> QED
        BY Zenon, <4>1 DEF OrderInv, WriteOrderIsCommitOrder
    <3> QED
      BY Zenon, <3>1, <3>2, <3>3, <3>4
  <2>8. MarkInv'
    <3> SUFFICES ASSUME NEW u \in Txn, pc'[u] = "mark", NEW k \in txns[u].write_set,
                        NEW v \in table'[k]
                 PROVE  /\ Committed(v) => v.commit_ts <= txns[u].start_ts
                        /\ v.txn = u => v.seq < txns[u].commit_ts
      BY Zenon, <2>1 DEF MarkInv, Committed
    <3>1. u # t /\ pc[u] = "mark" /\ k \in Key
      BY Zenon, <1>0, <2>1 DEF Transaction
    <3>2. PICK x \in table[k] : v = Marked(x, t)
      BY Zenon, <2>1a, <3>1
    \* Both would hold the mutex of k.
    <3>3. k \notin txns[t].write_set
      BY SMTT(30), <2>1, <3>1 DEF IInv, ChainInv
    <3>4. x.txn # t
      BY Zenon, <2>4, <3>1, <3>3 DEF OrderInv, SeqInv
    <3> QED
      BY Zenon, <2>4, <3>1, <3>2, <3>4 DEF OrderInv, MarkInv
  <2> QED
    BY Zenon, <2>6, <2>7, <2>8 DEF OrderInv
<1>8. ASSUME NEW t \in Txn, Erase(t)
      PROVE  OrderInv'
  <2>1. /\ UNCHANGED <<txns, table, global_ts>>
        /\ \A u \in Txn : u # t => pc'[u] = pc[u]
        /\ pc'[t] \in {"aborted", "committed"}
    BY Zenon, <1>0, <1>8 DEF Erase
  <2>2. Live(t) => \A k \in Key : \A v \in table'[k] : v.txn = t => Committed(v)
    BY Zenon, <1>8, <2>1 DEF Erase, Live, Own
  <2>3. \A u \in Txn : u # t /\ Live(u) => Live(u)'
    BY Zenon, <2>1 DEF Live
  <2>4. \A u \in Txn : pc'[u] = "mark" => pc[u] = "mark"
    BY Zenon, <2>1
  <2>5. /\ \A k \in Key : table'[k] \subseteq table[k]
        /\ global_ts' \in Nat /\ global_ts <= global_ts'
    BY <1>0, <2>1
  <2>6. \A u \in Txn : Live(u) =>
          Live(u)' \/ \A k \in Key : \A v \in table'[k] : v.txn = u => Committed(v)
    BY Zenon, <2>2, <2>3
  <2> QED
    BY Zenon, <2>1, <2>4, <2>5, <2>6, OrderKept DEF OrderInv
<1>9. ASSUME UNCHANGED <<txns, global_ts, pc>>, \A k \in Key : table'[k] \subseteq table[k]
      PROVE  OrderInv'
  <2>1. \A u \in Txn : Live(u) => Live(u)'
    BY Zenon, <1>9 DEF Live
  <2>2. global_ts' \in Nat /\ global_ts <= global_ts'
    BY <1>0, <1>9
  <2> QED
    BY Zenon, <1>9, <2>1, <2>2, OrderKept DEF OrderInv
<1>10. ASSUME NEW t \in Txn, NEW k \in Key, Unlink(t, k)
       PROVE  OrderInv'
  BY Zenon, <1>0, <1>9, <1>10 DEF Unlink
<1>11. ASSUME NEW k \in Key, GCSweep(k)
       PROVE  OrderInv'
  BY Zenon, <1>0, <1>9, <1>11 DEF GCSweep
<1>12. ASSUME GCCollect \/ GCLockTable \/ Finished \/ UNCHANGED vars
       PROVE  OrderInv'
  BY Zenon, <1>9, <1>12 DEF GCCollect, GCLockTable, Finished, vars
<1> QED
  BY Zenon, <1>1, <1>2, <1>3, <1>4, <1>5, <1>6, <1>7, <1>8, <1>10, <1>11, <1>12
     DEF Next, Invoke, Continue, GC

\* The loader leaves the chains in order.
LEMMA InitOrder == Init => OrderInv
<1> SUFFICES ASSUME Init PROVE OrderInv
  BY Zenon
<1>1. ASSUME NEW k \in Key, NEW v \in table[k]
      PROVE  v = LoadedVersion(k) /\ Preloaded # {}
  BY Zenon, <1>1 DEF Init
<1>2. SeqInv
  BY SMTT(30), <1>1, ConstantsAssumption DEF Init, SeqInv, LoadedVersion, Committed, NoTs, Key
<1>3. MarkInv
  BY Zenon DEF Init, MarkInv
<1>4. WriteOrderIsCommitOrder
  BY <1>1, ConstantsAssumption DEF WriteOrderIsCommitOrder, LoadedVersion, Key
<1> QED
  BY Zenon, <1>2, <1>3, <1>4 DEF OrderInv

\* OrderInv is inductive relative to IInv.
LEMMA NextOrder == IInv /\ OrderInv /\ [Next]_vars => OrderInv'
  BY Zenon, OrderStep

\* The committed versions of a chain are in the order of their writes: the level
\* that picks by seq and those that pick by commit_ts agree on the newest one.
THEOREM WritesCommitInOrder == Spec => []WriteOrderIsCommitOrder
<1>1. OrderInv => WriteOrderIsCommitOrder
  BY Zenon DEF OrderInv
<1> QED
  BY <1>1, InitIInv, NextIInv, InitOrder, NextOrder, PTL DEF Spec

\* No Commit, Abort or rejected Commit returns with a version of its transaction
\* still pending in some chain.
THEOREM NoOrphanVersion == Spec => []PendingHasOwner
<1>1. OrderInv => PendingHasOwner
  BY Zenon DEF OrderInv, SeqInv, Live, PendingHasOwner, PcValues
<1> QED
  BY <1>1, InitIInv, NextIInv, InitOrder, NextOrder, PTL DEF Spec

----------------------------------------------------------------------------
(* The committed history of a key: the numbers of its versions and the      *)
(* timestamps they are, or are about to be, committed with.                 *)

Shows(k, n, s) == \E v \in table[k] : v.seq = n /\ CommitTsOf(v) = s /\ s # NoTs

\* The step leaves the history of the key alone.
SameHistory(k) == \A n, s : Shows(k, n, s)' <=> Shows(k, n, s)

\* The step of Validate adds the transaction's own versions.
AddsOwn(t, k) ==
  \A n, s : Shows(k, n, s)' <=>
    (Shows(k, n, s) \/ (s = global_ts /\ \E v \in Own(t, k) : v.seq = n))

SameMarking == \A u \in Txn : /\ pc'[u] = "mark" <=> pc[u] = "mark"
                              /\ txns'[u].commit_ts = txns[u].commit_ts

LEMMA SameTs ==
  ASSUME NEW v, v.txn \in Txn => /\ pc'[v.txn] = "mark" <=> pc[v.txn] = "mark"
                                 /\ txns'[v.txn].commit_ts = txns[v.txn].commit_ts
  PROVE  CommitTsOf(v)' = CommitTsOf(v)
BY Zenon DEF CommitTsOf, Committed

LEMMA HistoryFrame ==
  ASSUME UNCHANGED table, SameMarking, NEW k
  PROVE  SameHistory(k)
<1>1. \A v : CommitTsOf(v)' = CommitTsOf(v)
  BY Zenon, SameTs DEF SameMarking
<1> QED
  BY Zenon, <1>1 DEF SameHistory, Shows

\* Versions that are not committed and not being marked may come and go.
LEMMA HistoryPending ==
  ASSUME SameMarking, NEW k,
         \A v \in table'[k] : v \notin table[k] => CommitTsOf(v)' = NoTs,
         \A v \in table[k] : v \notin table'[k] => CommitTsOf(v) = NoTs
  PROVE  SameHistory(k)
<1>1. \A v : CommitTsOf(v)' = CommitTsOf(v)
  BY Zenon, SameTs DEF SameMarking
<1> QED
  BY Zenon, <1>1 DEF SameHistory, Shows

LEMMA PushHistory ==
  ASSUME IInv, NEW t \in Txn, Push(t), NEW k \in Key
  PROVE  SameHistory(k)
<1>0. /\ pc \in [Txn -> PcValues] /\ txns \in [Txn -> Transaction]
      /\ table \in [Key -> SUBSET Version] /\ global_ts \in Nat
  BY Zenon DEF IInv, TypeOK
<1> DEFINE j == arg[t].key
           new == [txn |-> t, seq |-> global_ts, commit_ts |-> NoTs, deleted |-> arg[t].deleted]
<1>1. /\ pc[t] = "push" /\ pc' = [pc EXCEPT ![t] = "active"]
      /\ table' = [table EXCEPT ![j] = (@ \ Own(t, j)) \cup {new}]
      /\ txns' = [txns EXCEPT ![t].write_set = @ \cup {j}]
  BY Zenon DEF Push, Goto
<1>2. SameMarking
  BY Zenon, <1>0, <1>1 DEF SameMarking, Transaction
<1>3. new.txn = t /\ new.commit_ts = NoTs
  BY Zenon
<1>4. pc'[t] # "mark" /\ pc[t] # "mark"
  BY Zenon, <1>0, <1>1
<1>5. table'[k] = IF k = j THEN (table[k] \ Own(t, k)) \cup {new} ELSE table[k]
  BY Zenon, <1>0, <1>1
<1> HIDE DEF new, j
<1>6. \A v \in table'[k] : v \notin table[k] => CommitTsOf(v)' = NoTs
  BY Zenon, <1>3, <1>4, <1>5 DEF CommitTsOf, Committed
<1>7. \A v \in table[k] : v \notin table'[k] => CommitTsOf(v) = NoTs
  BY Zenon, <1>4, <1>5 DEF CommitTsOf, Own
<1> QED
  BY Zenon, <1>2, <1>6, <1>7, HistoryPending

LEMMA UnlinkHistory ==
  ASSUME IInv, NEW t \in Txn, NEW j \in Key, Unlink(t, j), NEW k \in Key
  PROVE  SameHistory(k)
<1>0. table \in [Key -> SUBSET Version]
  BY Zenon DEF IInv, TypeOK
<1>1. /\ pc[t] = "unlink" /\ UNCHANGED <<pc, txns>>
      /\ table' = [table EXCEPT ![j] = @ \ Own(t, j)]
  BY Zenon DEF Unlink
<1>2. SameMarking
  BY Zenon, <1>1 DEF SameMarking
<1>3. table'[k] = IF k = j THEN table[k] \ Own(t, k) ELSE table[k]
  BY Zenon, <1>0, <1>1
<1>4. pc[t] # "mark"
  BY Zenon, <1>1
<1>5. \A v \in table'[k] : v \in table[k]
  BY Zenon, <1>3
<1>6. \A v \in table[k] : v \notin table'[k] => CommitTsOf(v) = NoTs
  BY Zenon, <1>3, <1>4 DEF CommitTsOf, Own
<1> QED
  BY Zenon, <1>2, <1>5, <1>6, HistoryPending

LEMMA MarkHistory ==
  ASSUME IInv, NEW t \in Txn, Mark(t), NEW k \in Key
  PROVE  SameHistory(k)
<1>0. /\ pc \in [Txn -> PcValues] /\ txns \in [Txn -> Transaction]
      /\ table \in [Key -> SUBSET Version] /\ global_ts \in Nat
  BY Zenon DEF IInv, TypeOK
<1>1. /\ pc[t] = "mark" /\ pc' = [pc EXCEPT ![t] = "erase"] /\ txns' = txns
      /\ table'[k] = {Marked(v, t) : v \in table[k]}
  BY Zenon DEF Mark, Goto
<1>2. txns[t].commit_ts # NoTs
  BY Zenon, <1>1 DEF IInv, PcInv, HasCommitted
<1>3. ASSUME NEW v \in table[k], NEW w, w = Marked(v, t)
      PROVE  w.seq = v.seq /\ CommitTsOf(w)' = CommitTsOf(v)
  <2>1. v \in Version
    BY Zenon, <1>0
  <2>2. CASE v.txn = t
    <3>1. ~Committed(v)
      <4>1. ~Done(t) /\ t # Loader
        BY <1>1 DEF Done, Txn, Loader
      <4> QED
        BY Zenon, <2>2, <4>1 DEF IInv, CommittedInv
    <3>2. w = [v EXCEPT !.commit_ts = txns[t].commit_ts]
      BY Zenon, <1>3, <2>2 DEF Marked
    <3>3. w.seq = v.seq /\ w.commit_ts = txns[t].commit_ts
      BY Zenon, <2>1, <3>2 DEF Version
    <3>4. CommitTsOf(v) = txns[t].commit_ts
      BY Zenon, <1>1, <2>2, <3>1 DEF CommitTsOf
    <3> QED
      BY Zenon, <1>2, <3>3, <3>4 DEF CommitTsOf, Committed
  <2>3. CASE v.txn # t
    <3>1. w = v
      BY Zenon, <1>3, <2>3 DEF Marked
    <3>2. v.txn \in Txn => /\ pc'[v.txn] = "mark" <=> pc[v.txn] = "mark"
                           /\ txns'[v.txn].commit_ts = txns[v.txn].commit_ts
      BY Zenon, <1>0, <1>1, <2>3
    <3>3. CommitTsOf(v)' = CommitTsOf(v)
      BY Zenon, <3>2, SameTs
    <3> QED
      BY Zenon, <3>1, <3>3
  <2> QED
    BY Zenon, <2>2, <2>3
<1>4. ASSUME NEW n, NEW s
      PROVE  Shows(k, n, s)' <=> Shows(k, n, s)
  <2>1. ASSUME NEW w \in table'[k], w.seq = n, CommitTsOf(w)' = s, s # NoTs
        PROVE  Shows(k, n, s)
    <3>1. PICK v \in table[k] : w = Marked(v, t)
      BY Zenon, <1>1
    <3> QED
      BY Zenon, <1>3, <2>1, <3>1 DEF Shows
  <2>2. ASSUME NEW v \in table[k], v.seq = n, CommitTsOf(v) = s, s # NoTs
        PROVE  Shows(k, n, s)'
    <3>1. PICK w \in table'[k] : w = Marked(v, t)
      BY Zenon, <1>1
    <3>2. w.seq = n /\ CommitTsOf(w)' = s
      BY Zenon, <1>3, <2>2, <3>1
    <3> QED
      BY Zenon, <2>2, <3>2 DEF Shows
  <2> QED
    BY Zenon, <2>1, <2>2 DEF Shows
<1> QED
  BY Zenon, <1>4 DEF SameHistory

LEMMA ValidateHistory ==
  ASSUME IInv, OrderInv, NEW t \in Txn, Validate(t), NEW k \in Key
  PROVE  AddsOwn(t, k) /\ (k \notin txns[t].write_set => SameHistory(k))
<1>0. /\ pc \in [Txn -> PcValues] /\ txns \in [Txn -> Transaction]
      /\ table \in [Key -> SUBSET Version] /\ global_ts \in Nat
  BY Zenon DEF IInv, TypeOK
<1>1. /\ pc[t] = "lock" /\ pc' = [pc EXCEPT ![t] = "mark"] /\ table' = table
      /\ txns' = [txns EXCEPT ![t].commit_ts = global_ts]
  BY Zenon DEF Validate, Goto
<1>2. /\ pc'[t] = "mark" /\ pc[t] # "mark" /\ txns'[t].commit_ts = global_ts /\ global_ts # NoTs
      /\ \A u \in Txn : u # t => pc'[u] = pc[u] /\ txns'[u].commit_ts = txns[u].commit_ts
  BY <1>0, <1>1 DEF Transaction, NoTs
<1>3. \A v \in table[k] : v \notin Own(t, k) => CommitTsOf(v)' = CommitTsOf(v)
  <2> SUFFICES ASSUME NEW v \in table[k], v \notin Own(t, k)
               PROVE  CommitTsOf(v)' = CommitTsOf(v)
    BY Zenon
  <2>1. CASE v.txn = t
    BY Zenon, <2>1 DEF Own, CommitTsOf, Committed
  <2>2. CASE v.txn # t
    BY Zenon, <1>2, <2>2, SameTs
  <2> QED
    BY Zenon, <2>1, <2>2
<1>4. \A v \in Own(t, k) : /\ v \in table[k] /\ CommitTsOf(v)' = global_ts
                           /\ CommitTsOf(v) = NoTs /\ k \in txns[t].write_set
  BY Zenon, <1>2 DEF Own, CommitTsOf, Committed, OrderInv, SeqInv
<1> QED
  BY Zenon, <1>1, <1>2, <1>3, <1>4 DEF AddsOwn, SameHistory, Shows

\* Only Validate adds to a key's history, and only the collector takes from it.
LEMMA HistoryStep ==
  ASSUME IInv, OrderInv, [Next]_vars, NEW k \in Key
  PROVE  \/ SameHistory(k)
         \/ \E t \in Txn : Validate(t) /\ k \in txns[t].write_set /\ AddsOwn(t, k)
         \/ GCSweep(k)
<1>0. /\ pc \in [Txn -> PcValues] /\ txns \in [Txn -> Transaction]
      /\ table \in [Key -> SUBSET Version]
  BY Zenon DEF IInv, TypeOK
<1>1. ASSUME NEW t \in Txn, Invoke(t)
      PROVE  SameHistory(k)
  <2>1. table' = table
    BY Zenon, <1>1 DEF Invoke, Begin, Read, Write, Delete, Commit, Abort
  <2>2. SameMarking
    <3>1. pc[t] # "mark" /\ \E l : l # "mark" /\ pc' = [pc EXCEPT ![t] = l]
      BY Zenon, <1>0, <1>1 DEF Invoke, Begin, Read, Write, Delete, Commit, Abort, Goto
    <3>2. \A u \in Txn : txns'[u].commit_ts = txns[u].commit_ts
      <4>1. \/ \E level : txns' = [txns EXCEPT ![t].isolation = level, ![t].start_ts = global_ts]
            \/ \E j : txns' = [txns EXCEPT ![t].read_set = @ \cup {j}]
            \/ txns' = txns
        BY Zenon, <1>1 DEF Invoke, Begin, Read, Write, Delete, Commit, Abort
      <4>2. ASSUME NEW level, txns' = [txns EXCEPT ![t].isolation = level, ![t].start_ts = global_ts]
            PROVE  txns'[t].commit_ts = txns[t].commit_ts
        BY Zenon, <1>0, <4>2 DEF Transaction
      <4>3. ASSUME NEW j, txns' = [txns EXCEPT ![t].read_set = @ \cup {j}]
            PROVE  txns'[t].commit_ts = txns[t].commit_ts
        BY Zenon, <1>0, <4>3 DEF Transaction
      <4> QED
        BY Zenon, <1>0, <4>1, <4>2, <4>3
    <3> QED
      BY Zenon, <1>0, <3>1, <3>2 DEF SameMarking
  <2> QED
    BY Zenon, <2>1, <2>2, HistoryFrame
<1>2. ASSUME NEW t \in Txn, Register(t) \/ GetOrCreateChain(t) \/ Reject(t) \/ Erase(t)
      PROVE  SameHistory(k)
  <2>1. table' = table /\ txns' = txns
    BY Zenon, <1>2 DEF Register, GetOrCreateChain, Reject, Erase
  <2>2. pc[t] # "mark" /\ \E l : l # "mark" /\ pc' = [pc EXCEPT ![t] = l]
    BY Zenon, <1>0, <1>2 DEF Register, GetOrCreateChain, Reject, Erase, Goto
  <2>3. SameMarking
    BY Zenon, <1>0, <2>1, <2>2 DEF SameMarking
  <2> QED
    BY Zenon, <2>1, <2>3, HistoryFrame
<1>3. ASSUME NEW t \in Txn, NEW j \in Key, FindChain(t, j) \/ LockChain(t, j)
      PROVE  SameHistory(k)
  BY Zenon, <1>3, HistoryFrame DEF FindChain, LockChain, SameMarking
<1>4. CASE GCCollect \/ GCLockTable \/ UNCHANGED vars
  BY Zenon, <1>4, HistoryFrame DEF GCCollect, GCLockTable, SameMarking, vars
<1>5. ASSUME NEW j \in Key, GCSweep(j), j # k
      PROVE  SameHistory(k)
  <2>1. table'[k] = table[k] /\ SameMarking
    BY Zenon, <1>0, <1>5 DEF GCSweep, SameMarking
  <2> QED
    BY Zenon, <2>1, HistoryPending
<1> QED
  BY Zenon, <1>1, <1>2, <1>3, <1>4, <1>5, PushHistory, UnlinkHistory, MarkHistory, ValidateHistory
     DEF Next, Continue, GC, Finished

----------------------------------------------------------------------------
(* Read sees the snapshot.                                                  *)

\* The versions of an unlocked chain are committed or belong to a transaction
\* that has not drawn its commit timestamp.
LEMMA UnlockedTs ==
  ASSUME IInv, OrderInv, NEW k \in Key, mutex[k] = Free, NEW v \in table[k]
  PROVE  CommitTsOf(v) = v.commit_ts
<1>1. CASE Committed(v)
  BY Zenon, <1>1 DEF CommitTsOf
<1>2. CASE ~Committed(v)
  <2>1. v.txn \in Txn /\ k \in txns[v.txn].write_set
    BY Zenon, <1>2 DEF OrderInv, SeqInv
  <2>2. pc[v.txn] # "mark"
    <3>1. v.txn # Free
      BY <2>1 DEF Txn, Free
    <3> QED
      BY Zenon, <2>1, <3>1 DEF IInv, ChainInv
  <2> QED
    BY Zenon, <1>2, <2>2 DEF CommitTsOf, Committed
<1> QED
  BY Zenon, <1>1, <1>2

LEMMA ReadsSnapshotHolds ==
  ASSUME IInv, OrderInv
  PROVE  ReadsSnapshot
<1> SUFFICES ASSUME NEW t \in registered, NEW k \in Key, Running(t), mutex[k] = Free,
                    txns[t].isolation \in SnapshotLevels
             PROVE  {v.seq : v \in ReadVersion(t, k)} =
                      IF PendingMap[t][k] # {} THEN PendingMap[t][k] ELSE SnapMap[t][k]
  BY Zenon DEF ReadsSnapshot
<1>1. t \in Txn
  BY Zenon DEF IInv, TypeOK
<1>2. /\ PendingMap[t][k] = {v.seq : v \in Own(t, k)}
      /\ SnapMap[t][k] = SnapshotSeq(t, k)
  BY Zenon, <1>1 DEF PendingMap, SnapMap
<1>3. CASE Own(t, k) # {}
  <2>1. ReadVersion(t, k) = Own(t, k)
    BY Zenon, <1>3 DEF ReadVersion
  <2>2. {v.seq : v \in Own(t, k)} # {}
    BY Zenon, <1>3
  <2> QED
    BY Zenon, <1>2, <2>1, <2>2
<1>4. CASE Own(t, k) = {}
  <2>1. txns[t].isolation # ReadUncommitted
    BY Zenon DEF SnapshotLevels, Snapshot, Serializable, ReadUncommitted
  <2>2. ReadVersion(t, k) = NewestByCommit(CommittedVisible(t, k))
    BY Zenon, <1>4, <2>1 DEF ReadVersion
  <2>3. \A v \in table[k] : CommitTsOf(v) = v.commit_ts
    BY Zenon, UnlockedTs
  <2>4. CommittedVisible(t, k) = InSnapshot(t, k)
    BY Zenon, <2>3 DEF CommittedVisible, InSnapshot, Committed, IsVisible
  <2>5. \A v \in InSnapshot(t, k) : CommitTsOf(v) = v.commit_ts
    BY Zenon, <2>3 DEF InSnapshot
  <2>6. NewestByCommit(InSnapshot(t, k)) =
          {w \in InSnapshot(t, k) : \A x \in InSnapshot(t, k) : CommitTsOf(x) <= CommitTsOf(w)}
    BY Zenon, <2>5 DEF NewestByCommit
  <2>7. {v.seq : v \in Own(t, k)} = {}
    BY Zenon, <1>4
  <2> QED
    BY Zenon, <1>2, <2>2, <2>4, <2>6, <2>7 DEF SnapshotSeq
<1> QED
  BY Zenon, <1>3, <1>4

\* Read of a SNAPSHOT or SERIALIZABLE_SNAPSHOT transaction returns its own
\* pending write or else what its snapshot holds, whatever other commits, aborts
\* and garbage collections are half way through.
THEOREM ReadsAreSnapshotReads == Spec => []ReadsSnapshot
<1>1. Init => IInv /\ OrderInv
  BY Zenon, InitIInv, InitOrder
<1>2. IInv /\ OrderInv /\ [Next]_vars => (IInv /\ OrderInv)'
  BY Zenon, NextIInv, NextOrder
<1>3. IInv /\ OrderInv => ReadsSnapshot
  BY Zenon, ReadsSnapshotHolds
<1> QED
  BY <1>1, <1>2, <1>3, PTL DEF Spec

----------------------------------------------------------------------------
(* Serializable transactions read current values.                           *)

\* Key k has a version committed before transaction t began.
Old(t, k) == \E n, s : Shows(k, n, s) /\ s < txns[t].start_ts

\* Every key with a version has a chain.
ChainedInv == \A k \in Key : table[k] # {} => k \in chained

\* Commit of a serializable transaction looks up, and then has found, every key
\* it read that somebody had written before.
ReadInv ==
  \A t \in Txn : pc[t] = "lock" /\ txns[t].isolation = Serializable =>
    \A k \in txns[t].read_set : Old(t, k) => k \in chains[t].todo \cup chains[t].found

CurrentRead(t, u) ==
  \A k \in txns[t].read_set \cap txns[u].write_set : Old(t, k) =>
    \/ txns[u].commit_ts < txns[t].start_ts
    \/ txns[t].commit_ts < txns[u].commit_ts

SerialInv ==
  \A t, u \in Txn :
    t # u /\ HasCommitted(t) /\ HasCommitted(u) /\ txns[t].isolation = Serializable
      => CurrentRead(t, u)

ReadsInv == ChainedInv /\ ReadInv /\ SerialInv

\* What a transaction's record keeps: its start and level once it began, its key
\* sets once it is committing.
Committing(t) == pc[t] \in {"lock", "mark", "erase", "committed"}
Fixed(t) ==
  /\ pc[t] # "idle" => /\ txns'[t].start_ts = txns[t].start_ts
                       /\ txns'[t].isolation = txns[t].isolation
                       /\ pc'[t] # "idle"
  /\ Committing(t) => /\ txns'[t].read_set = txns[t].read_set
                      /\ txns'[t].write_set = txns[t].write_set

LEMMA FixedStep ==
  ASSUME IInv, [Next]_vars, NEW u \in Txn
  PROVE  Fixed(u)
<1>0. /\ pc \in [Txn -> PcValues] /\ txns \in [Txn -> Transaction]
  BY Zenon DEF IInv, TypeOK
<1>1. ASSUME NEW t \in Txn, NEW level, Begin(t, level)
      PROVE  Fixed(u)
  BY Zenon, <1>0, <1>1 DEF Begin, Goto, Fixed, Committing, Transaction
<1>2. ASSUME NEW t \in Txn, NEW k \in Key, Read(t, k) \/ Delete(t, k)
      PROVE  Fixed(u)
  BY <1>0, <1>2 DEF Read, Delete, Goto, Fixed, Committing, Transaction
<1>3. ASSUME NEW t \in Txn, Push(t)
      PROVE  Fixed(u)
  BY Zenon, <1>0, <1>3 DEF Push, Goto, Fixed, Committing, Transaction
<1>4. ASSUME NEW t \in Txn, Validate(t)
      PROVE  Fixed(u)
  BY Zenon, <1>0, <1>4 DEF Validate, Goto, Fixed, Committing, Transaction
<1>5. ASSUME NEW t \in Txn, \/ Register(t) \/ GetOrCreateChain(t) \/ Commit(t) \/ Reject(t)
                            \/ Mark(t) \/ Abort(t) \/ Erase(t) \/ \E k \in Key : Write(t, k)
      PROVE  Fixed(u)
  <2>1. txns' = txns
    BY Zenon, <1>5 DEF Register, GetOrCreateChain, Commit, Reject, Mark, Abort, Erase, Write
  <2>2. \E l : l # "idle" /\ pc' = [pc EXCEPT ![t] = l]
    BY Zenon, <1>0, <1>5 DEF Register, GetOrCreateChain, Commit, Reject, Mark, Abort, Erase, Write, Goto
  <2> QED
    BY Zenon, <1>0, <2>1, <2>2 DEF Fixed
<1>6. CASE \/ \E t \in Txn, k \in Key : FindChain(t, k) \/ LockChain(t, k) \/ Unlink(t, k)
           \/ GC \/ UNCHANGED vars
  BY Zenon, <1>6 DEF FindChain, LockChain, Unlink, GC, GCCollect, GCLockTable, GCSweep, vars, Fixed
<1> QED
  BY Zenon, <1>1, <1>2, <1>3, <1>4, <1>5, <1>6 DEF Next, Invoke, Continue, Finished

\* The collector adds nothing to a key's history.
LEMMA SweepHistory ==
  ASSUME IInv, NEW j \in Key, GCSweep(j), NEW k \in Key
  PROVE  \A n, s : Shows(k, n, s)' => Shows(k, n, s)
<1>1. /\ table'[k] \subseteq table[k] /\ UNCHANGED <<pc, txns>>
  BY Zenon DEF GCSweep, IInv, TypeOK
<1>2. \A v : CommitTsOf(v)' = CommitTsOf(v)
  BY Zenon, <1>1, SameTs
<1> QED
  BY Zenon, <1>1, <1>2 DEF Shows

\* Nothing is committed in the past of a transaction that has begun.
LEMMA OldStep ==
  ASSUME IInv, OrderInv, [Next]_vars, NEW t \in Txn, pc[t] # "idle", NEW k \in Key, Old(t, k)'
  PROVE  Old(t, k)
<1>1. txns'[t].start_ts = txns[t].start_ts
  BY Zenon, FixedStep DEF Fixed
<1>2. PICK n, s : Shows(k, n, s)' /\ s < txns[t].start_ts
  BY Zenon, <1>1 DEF Old
<1>3. s # global_ts
  BY <1>2 DEF IInv, ClockInv, TypeOK, Transaction
<1>4. Shows(k, n, s)
  <2>1. CASE SameHistory(k)
    BY Zenon, <1>2, <2>1 DEF SameHistory
  <2>2. ASSUME NEW u \in Txn, AddsOwn(u, k)
        PROVE  Shows(k, n, s)
    BY <1>2, <1>3, <2>2 DEF AddsOwn
  <2>3. CASE GCSweep(k)
    BY Zenon, <1>2, <2>3, SweepHistory
  <2> QED
    BY Zenon, <2>1, <2>2, <2>3, HistoryStep
<1> QED
  BY Zenon, <1>2, <1>4 DEF Old

LEMMA ChainedStep ==
  ASSUME IInv, ChainedInv, [Next]_vars
  PROVE  ChainedInv'
<1>0. /\ table \in [Key -> SUBSET Version] /\ chained \subseteq Key
  BY Zenon DEF IInv, TypeOK
<1>1. ASSUME NEW t \in Txn, Push(t)
      PROVE  ChainedInv'
  <2>1. \A k \in Key : table'[k] # {} => table[k] # {} \/ k = arg[t].key
    BY Zenon, <1>0, <1>1 DEF Push
  <2>2. arg[t].key \in chained /\ chained' = chained
    BY Zenon, <1>1 DEF Push, Goto, IInv, ChainInv
  <2> QED
    BY Zenon, <2>1, <2>2 DEF ChainedInv
<1>2. ASSUME chained \subseteq chained', \A k \in Key : table'[k] # {} => table[k] # {}
      PROVE  ChainedInv'
  BY Zenon, <1>2 DEF ChainedInv
<1>3. ASSUME NEW t \in Txn, Invoke(t)
      PROVE  ChainedInv'
  <2>1. chained \subseteq chained' /\ table' = table
    BY Zenon, <1>3 DEF Invoke, Begin, Read, Write, Delete, Commit, Abort
  <2> QED
    BY Zenon, <1>2, <2>1
<1>4. ASSUME NEW t \in Txn, Register(t) \/ GetOrCreateChain(t) \/ Validate(t) \/ Reject(t) \/ Erase(t)
      PROVE  ChainedInv'
  <2>1. chained \subseteq chained' /\ table' = table
    BY Zenon, <1>4 DEF Register, GetOrCreateChain, Validate, Reject, Erase
  <2> QED
    BY Zenon, <1>2, <2>1
<1>5. ASSUME NEW t \in Txn, NEW j \in Key, FindChain(t, j) \/ LockChain(t, j) \/ Unlink(t, j)
      PROVE  ChainedInv'
  <2>1. chained' = chained /\ \A k \in Key : table'[k] \subseteq table[k]
    BY Zenon, <1>0, <1>5 DEF FindChain, LockChain, Unlink
  <2> QED
    BY Zenon, <1>2, <2>1
<1>6. ASSUME NEW t \in Txn, Mark(t)
      PROVE  ChainedInv'
  <2>1. chained' = chained /\ \A k \in Key : table'[k] = {Marked(v, t) : v \in table[k]}
    BY Zenon, <1>6 DEF Mark
  <2> QED
    BY Zenon, <1>2, <2>1
<1>7. CASE GC \/ UNCHANGED vars
  <2>1. chained' = chained /\ \A k \in Key : table'[k] \subseteq table[k]
    BY Zenon, <1>0, <1>7 DEF GC, GCCollect, GCLockTable, GCSweep, vars
  <2> QED
    BY Zenon, <1>2, <2>1
<1> QED
  BY Zenon, <1>1, <1>3, <1>4, <1>5, <1>6, <1>7 DEF Next, Continue, Finished

\* A transaction is at the locks of Commit because it just called it, or was
\* there before.
LEMMA LockStep ==
  ASSUME IInv, [Next]_vars, NEW t \in Txn, pc'[t] = "lock"
  PROVE  \/ Commit(t)
         \/ pc[t] = "lock" /\ chains'[t] = chains[t]
         \/ \E j \in Key : FindChain(t, j)
<1>0. /\ pc \in [Txn -> PcValues] /\ chains \in [Txn -> [todo : SUBSET Key, found : SUBSET Key]]
  BY Zenon DEF IInv, TypeOK
<1> DEFINE Goal == \/ Commit(t)
                   \/ pc[t] = "lock" /\ chains'[t] = chains[t]
                   \/ \E j \in Key : FindChain(t, j)
<1>1. ASSUME NEW u \in Txn, Commit(u) \/ Reject(u) \/ Mark(u)
      PROVE  Goal
  <2>1. CASE u = t
    BY Zenon, <1>0, <1>1, <2>1 DEF Commit, Reject, Mark, Goto
  <2>2. CASE u # t
    <3>1. pc'[t] = pc[t] /\ chains'[t] = chains[t]
      BY Zenon, <1>0, <1>1, <2>2 DEF Commit, Reject, Mark, Goto
    <3> QED
      BY Zenon, <3>1
  <2> QED
    BY Zenon, <2>1, <2>2
<1>2. ASSUME NEW u \in Txn, NEW j \in Key, FindChain(u, j)
      PROVE  Goal
  BY Zenon, <1>0, <1>2 DEF FindChain
<1>3. ASSUME chains' = chains,
             pc' = pc \/ \E u \in Txn : \E l : l # "lock" /\ pc' = [pc EXCEPT ![u] = l]
      PROVE  Goal
  BY Zenon, <1>0, <1>3
<1>4. ASSUME NEW u \in Txn, \/ Register(u) \/ GetOrCreateChain(u) \/ Push(u) \/ Validate(u)
                            \/ Erase(u) \/ Abort(u) \/ (\E l \in Levels : Begin(u, l))
                            \/ (\E k \in Key : Read(u, k) \/ Write(u, k) \/ Delete(u, k))
      PROVE  Goal
  <2>1. chains' = chains
    BY Zenon, <1>4 DEF Register, GetOrCreateChain, Push, Validate, Erase, Abort, Begin, Read,
                       Write, Delete
  <2>2. \E l : l # "lock" /\ pc' = [pc EXCEPT ![u] = l]
    BY Zenon, <1>0, <1>4 DEF Register, GetOrCreateChain, Push, Validate, Erase, Abort, Begin, Read,
                      Write, Delete, Goto
  <2> QED
    BY Zenon, <1>3, <2>1, <2>2
<1>5. CASE \/ \E u \in Txn, k \in Key : LockChain(u, k) \/ Unlink(u, k)
           \/ GC \/ UNCHANGED vars
  <2>1. chains' = chains /\ pc' = pc
    BY Zenon, <1>5 DEF LockChain, Unlink, GC, GCCollect, GCLockTable, GCSweep, vars
  <2> QED
    BY Zenon, <1>3, <2>1
<1> QED
  BY Zenon, <1>1, <1>2, <1>4, <1>5 DEF Next, Invoke, Continue, Finished

LEMMA ReadStep ==
  ASSUME IInv, OrderInv, ChainedInv, ReadInv, [Next]_vars
  PROVE  ReadInv'
<1> SUFFICES ASSUME NEW t \in Txn, pc'[t] = "lock", txns'[t].isolation = Serializable,
                    NEW k \in txns'[t].read_set, Old(t, k)'
             PROVE  k \in chains'[t].todo \cup chains'[t].found
  BY Zenon DEF ReadInv
<1>0. /\ txns \in [Txn -> Transaction] /\ txns' \in [Txn -> Transaction]
      /\ chains \in [Txn -> [todo : SUBSET Key, found : SUBSET Key]]
  BY Zenon, TypeStep DEF IInv, TypeOK
<1>1. k \in Key
  BY Zenon, <1>0 DEF Transaction
<1>2. CASE Commit(t)
  <2>1. txns' = txns /\ chains' = [chains EXCEPT ![t].todo = CheckKeys(t)]
    BY Zenon, <1>2 DEF Commit
  <2>2. k \in CheckKeys(t)
    BY Zenon, <2>1 DEF CheckKeys
  <2>3. chains'[t].todo = CheckKeys(t)
    BY Zenon, <1>0, <2>1
  <2> QED
    BY Zenon, <2>2, <2>3
<1>3. ASSUME pc[t] = "lock"
      PROVE  Old(t, k) /\ k \in chains[t].todo \cup chains[t].found
  <2>1. pc[t] # "idle" /\ Committing(t)
    BY Zenon, <1>3 DEF Committing
  <2>2. txns'[t].isolation = txns[t].isolation /\ txns'[t].read_set = txns[t].read_set
    BY Zenon, <2>1, FixedStep DEF Fixed
  <2>3. Old(t, k)
    BY Zenon, <1>1, <2>1, OldStep
  <2> QED
    BY Zenon, <1>3, <2>2, <2>3 DEF ReadInv
<1>4. ASSUME NEW j \in Key, FindChain(t, j)
      PROVE  k \in chains'[t].todo \cup chains'[t].found
  <2>1. pc[t] = "lock" /\ chains' = [chains EXCEPT ![t].todo = @ \ {j},
                                                  ![t].found = @ \cup ({j} \cap chained)]
    BY Zenon, <1>4 DEF FindChain
  <2>2. /\ chains'[t].todo = chains[t].todo \ {j}
        /\ chains'[t].found = chains[t].found \cup ({j} \cap chained)
    BY Zenon, <1>0, <2>1
  <2>3. k \in chained
    BY Zenon, <1>1, <1>3, <2>1 DEF Old, Shows, ChainedInv
  <2> QED
    BY Zenon, <1>3, <2>1, <2>2, <2>3
<1> QED
  BY Zenon, <1>2, <1>3, <1>4, LockStep

\* The read half of the conflict check: what u committed on a key that t read and
\* now holds is visible to the check.
LEMMA ValidateReads ==
  ASSUME IInv, OrderInv, ReadInv, NEW t \in Txn, NEW u \in Txn, t # u, Validate(t),
         HasCommitted(u), txns[t].isolation = Serializable,
         NEW k \in txns[t].read_set \cap txns[u].write_set, Old(t, k)
  PROVE  txns[u].commit_ts < txns[t].start_ts
<1>0. /\ txns \in [Txn -> Transaction] /\ table \in [Key -> SUBSET Version]
      /\ pc[t] = "lock" /\ AllLocked(t) /\ ~Conflict(t)
  BY Zenon DEF IInv, TypeOK, Validate, Goto
<1>1. k \in chains[t].found /\ mutex[k] = t /\ k \in Key
  <2>1. k \in Key
    BY Zenon, <1>0 DEF Transaction
  <2> QED
    BY Zenon, <1>0, <2>1 DEF ReadInv, AllLocked, Unlocked
<1>2. Done(u)
  BY Zenon, <1>1 DEF IInv, PcInv, ChainInv
<1>3. PICK v \in table[k] : Committed(v) /\ v.commit_ts >= txns[u].commit_ts
  BY Zenon, <1>2 DEF IInv, CoverInv
<1>4. v.txn # t
  <2>1. ~Done(t) /\ t # Loader
    BY <1>0 DEF Done, Txn, Loader
  <2> QED
    BY Zenon, <1>1, <1>3, <2>1 DEF IInv, CommittedInv
<1>5. ~(v.commit_ts > txns[t].start_ts)
  BY Zenon, <1>0, <1>1, <1>3, <1>4 DEF Conflict
<1>6. txns[t].start_ts # txns[u].commit_ts
  <2>1. pc[t] # "idle"
    BY Zenon, <1>0
  <2> QED
    BY Zenon, <2>1 DEF IInv, ClockInv
<1>7. v \in Version
  BY Zenon, <1>0, <1>1
<1> QED
  BY <1>0, <1>3, <1>5, <1>6, <1>7 DEF Version, Transaction, Committed, HasCommitted, NoTs

LEMMA SerialStep ==
  ASSUME IInv, OrderInv, ReadInv, SerialInv, [Next]_vars
  PROVE  SerialInv'
<1> SUFFICES ASSUME NEW t \in Txn, NEW u \in Txn, t # u, HasCommitted(t)', HasCommitted(u)',
                    txns'[t].isolation = Serializable,
                    NEW k \in txns'[t].read_set \cap txns'[u].write_set, Old(t, k)'
             PROVE  \/ txns'[u].commit_ts < txns'[t].start_ts
                    \/ txns'[t].commit_ts < txns'[u].commit_ts
  BY Zenon DEF SerialInv, CurrentRead
<1>0. /\ txns \in [Txn -> Transaction] /\ txns' \in [Txn -> Transaction]
  BY Zenon, TypeStep DEF IInv, TypeOK
<1>1. k \in Key
  BY Zenon, <1>0 DEF Transaction
<1>2. /\ (HasCommitted(t) /\ SameOutcome(t)) \/ Validate(t)
      /\ (HasCommitted(u) /\ SameOutcome(u)) \/ Validate(u)
  BY Zenon, OutcomeStep
<1>3. /\ pc[t] # "idle" /\ Committing(t) /\ Committing(u)
  <2>1. ASSUME NEW w \in Txn, HasCommitted(w) \/ Validate(w)
        PROVE  pc[w] # "idle" /\ Committing(w)
    <3>1. pc[w] \in {"lock", "mark", "erase", "committed"}
      BY Zenon, <2>1 DEF IInv, PcInv, Done, Validate, Goto
    <3> QED
      BY Zenon, <3>1 DEF Committing
  <2> QED
    BY Zenon, <1>2, <2>1
<1>4. /\ txns'[t].start_ts = txns[t].start_ts /\ txns'[t].isolation = txns[t].isolation
      /\ txns'[t].read_set = txns[t].read_set /\ txns'[u].write_set = txns[u].write_set
  BY Zenon, <1>3, FixedStep DEF Fixed
<1>5. Old(t, k)
  BY Zenon, <1>1, <1>3, OldStep
<1>6. CASE HasCommitted(t) /\ SameOutcome(t) /\ HasCommitted(u) /\ SameOutcome(u)
  <2>1. txns[u].commit_ts < txns[t].start_ts \/ txns[t].commit_ts < txns[u].commit_ts
    BY Zenon, <1>4, <1>5, <1>6 DEF SerialInv, CurrentRead
  <2> QED
    BY Zenon, <1>4, <1>6, <2>1 DEF SameOutcome
<1>7. CASE Validate(t)
  <2>1. HasCommitted(u) /\ txns'[u].commit_ts = txns[u].commit_ts
    BY Zenon, <1>0, <1>7 DEF Validate, HasCommitted
  <2>2. txns[u].commit_ts < txns[t].start_ts
    BY Zenon, <1>4, <1>5, <1>7, <2>1, ValidateReads
  <2> QED
    BY Zenon, <1>4, <2>1, <2>2
<1>8. CASE Validate(u)
  <2>1. txns'[u].commit_ts = global_ts /\ txns'[t].commit_ts = txns[t].commit_ts
    BY Zenon, <1>0, <1>8 DEF Validate, Transaction
  <2>2. txns[t].commit_ts < global_ts
    BY Zenon DEF IInv, ClockInv
  <2> QED
    BY Zenon, <2>1, <2>2
<1> QED
  BY Zenon, <1>2, <1>6, <1>7, <1>8

LEMMA InitReads == Init => ReadsInv
<1> SUFFICES ASSUME Init PROVE ReadsInv
  BY Zenon
<1>1. ChainedInv
  BY Zenon DEF Init, ChainedInv
<1>2. \A t \in Txn : pc[t] = "idle" /\ txns[t].commit_ts = NoTs
  BY Zenon DEF Init, NoTransaction
<1>3. ReadInv
  BY Zenon, <1>2 DEF ReadInv
<1>4. SerialInv
  BY Zenon, <1>2 DEF SerialInv, HasCommitted
<1> QED
  BY Zenon, <1>1, <1>3, <1>4 DEF ReadsInv

LEMMA NextReads == IInv /\ OrderInv /\ ReadsInv /\ [Next]_vars => ReadsInv'
BY Zenon, ChainedStep, ReadStep, SerialStep DEF ReadsInv

\* Every committed SERIALIZABLE_SNAPSHOT transaction read current values of the
\* keys that had been written before it began: Commit also locks and checks the
\* keys of the read set.
THEOREM SerializableReads == Spec => []SerializableReadsCurrent
<1>1. Init => IInv /\ OrderInv /\ ReadsInv
  BY Zenon, InitIInv, InitOrder, InitReads
<1>2. IInv /\ OrderInv /\ ReadsInv /\ [Next]_vars => (IInv /\ OrderInv /\ ReadsInv)'
  BY Zenon, NextIInv, NextOrder, NextReads
<1>3. ReadsInv => SerializableReadsCurrent
  <2>1. \A t, k, v : v \in table[k] /\ Committed(v) /\ v.commit_ts < txns[t].start_ts => Old(t, k)
    BY Zenon DEF Old, Shows, CommitTsOf, Committed
  <2> QED
    BY Zenon, <2>1 DEF ReadsInv, SerialInv, CurrentRead, SerializableReadsCurrent
<1> QED
  BY <1>1, <1>2, <1>3, PTL DEF Spec
----------------------------------------------------------------------------
(* MVCCStore implements SnapshotIsolation.                                  *)

\* The callers' side: nobody is between drawing a start timestamp and entering
\* the shard while RunGarbageCollection runs.
Quiet == gc.pc # "idle" => \A t \in Txn : pc[t] # "begin"

\* Number n is the newest write of key k committed up to timestamp b.
TopAt(k, b, n, s) ==
  Shows(k, n, s) /\ s <= b /\ \A m, r : Shows(k, m, r) /\ r <= b => r <= s
NewestAt(k, b, n) == \E s : TopAt(k, b, n, s)

LEMMA ShowsTypes ==
  ASSUME IInv, NEW k \in Key, NEW n, NEW s, Shows(k, n, s)
  PROVE  n \in Nat /\ s \in Nat /\ s < global_ts
<1>1. PICK v \in table[k] : v.seq = n /\ CommitTsOf(v) = s /\ s # NoTs
  BY Zenon DEF Shows
<1>2. v \in Version
  BY Zenon DEF IInv, TypeOK
<1>3. CASE Committed(v)
  <2>1. s = v.commit_ts
    BY Zenon, <1>1, <1>3 DEF CommitTsOf
  <2>2. v.commit_ts < global_ts
    BY Zenon DEF IInv, ClockInv
  <2> QED
    BY Zenon, <1>1, <1>2, <2>1, <2>2 DEF Version
<1>4. CASE ~Committed(v)
  <2>1. v.txn \in Txn /\ s = txns[v.txn].commit_ts
    BY Zenon, <1>1, <1>4 DEF CommitTsOf
  <2>2. txns[v.txn].commit_ts < global_ts /\ txns[v.txn] \in Transaction
    BY Zenon, <2>1 DEF IInv, ClockInv, TypeOK
  <2> QED
    BY Zenon, <1>1, <1>2, <2>1, <2>2 DEF Version, Transaction
<1> QED
  BY Zenon, <1>3, <1>4

LEMMA SnapshotIs ==
  ASSUME NEW t, NEW k, NEW n
  PROVE  n \in SnapshotSeq(t, k) <=> NewestAt(k, txns[t].start_ts, n)
<1>1. \A v : v \in InSnapshot(t, k) <=>
        v \in table[k] /\ CommitTsOf(v) # NoTs /\ CommitTsOf(v) <= txns[t].start_ts
  BY Zenon DEF InSnapshot
<1>2. n \in SnapshotSeq(t, k) <=>
        \E v \in InSnapshot(t, k) :
          v.seq = n /\ \A x \in InSnapshot(t, k) : CommitTsOf(x) <= CommitTsOf(v)
  BY Zenon DEF SnapshotSeq
<1>3. ASSUME NEW v \in InSnapshot(t, k), v.seq = n,
             \A x \in InSnapshot(t, k) : CommitTsOf(x) <= CommitTsOf(v)
      PROVE  NewestAt(k, txns[t].start_ts, n)
  <2>1. Shows(k, n, CommitTsOf(v)) /\ CommitTsOf(v) <= txns[t].start_ts
    BY Zenon, <1>1, <1>3 DEF Shows
  <2>2. \A m, r : Shows(k, m, r) /\ r <= txns[t].start_ts => r <= CommitTsOf(v)
    BY Zenon, <1>1, <1>3 DEF Shows
  <2> QED
    BY Zenon, <2>1, <2>2 DEF NewestAt, TopAt
<1>4. ASSUME NewestAt(k, txns[t].start_ts, n)
      PROVE  \E v \in InSnapshot(t, k) :
               v.seq = n /\ \A x \in InSnapshot(t, k) : CommitTsOf(x) <= CommitTsOf(v)
  BY Zenon, <1>1, <1>4 DEF NewestAt, TopAt, Shows
<1> QED
  BY Zenon, <1>2, <1>3, <1>4

LEMMA StoreIs ==
  ASSUME IInv, NEW k \in Key, NEW b \in Nat, global_ts <= b, NEW n
  PROVE  n \in StoreMap[k] <=> NewestAt(k, b, n)
<1>1. \A m, s : Shows(k, m, s) => s <= b
  BY ShowsTypes DEF IInv, TypeOK
<1>2. \A v : v \in CommittedIn(k) <=> v \in table[k] /\ CommitTsOf(v) # NoTs
  BY Zenon DEF CommittedIn
<1>3. n \in StoreMap[k] <=>
        \E v \in CommittedIn(k) :
          v.seq = n /\ \A x \in CommittedIn(k) : CommitTsOf(x) <= CommitTsOf(v)
  BY Zenon DEF StoreMap
<1>4. ASSUME NEW v \in CommittedIn(k), v.seq = n,
             \A x \in CommittedIn(k) : CommitTsOf(x) <= CommitTsOf(v)
      PROVE  NewestAt(k, b, n)
  <2>1. Shows(k, n, CommitTsOf(v)) /\ CommitTsOf(v) <= b
    BY Zenon, <1>1, <1>2, <1>4 DEF Shows
  <2>2. \A m, r : Shows(k, m, r) => r <= CommitTsOf(v)
    BY Zenon, <1>2, <1>4 DEF Shows
  <2> QED
    BY Zenon, <2>1, <2>2 DEF NewestAt, TopAt
<1>5. ASSUME NewestAt(k, b, n)
      PROVE  \E v \in CommittedIn(k) :
               v.seq = n /\ \A x \in CommittedIn(k) : CommitTsOf(x) <= CommitTsOf(v)
  <2>1. PICK s : Shows(k, n, s) /\ \A m, r : Shows(k, m, r) => r <= s
    BY Zenon, <1>1, <1>5 DEF NewestAt, TopAt
  <2> QED
    BY Zenon, <1>2, <2>1 DEF Shows
<1> QED
  BY Zenon, <1>3, <1>4, <1>5

\* The same in the next state.
LEMMA SnapshotIsNext ==
  ASSUME NEW t, NEW k, NEW n
  PROVE  n \in SnapshotSeq(t, k)' <=> NewestAt(k, txns[t].start_ts, n)'
<1>1. (n \in SnapshotSeq(t, k) <=> NewestAt(k, txns[t].start_ts, n))'
  BY SnapshotIs, PTL
<1> QED
  BY Zenon, <1>1

LEMMA NewestSame ==
  ASSUME NEW k, SameHistory(k), NEW b, NEW n
  PROVE  NewestAt(k, b, n)' <=> NewestAt(k, b, n)
BY Zenon DEF SameHistory, NewestAt, TopAt

LEMMA StoreIsNext ==
  ASSUME NEW k \in Key, NEW b \in Nat, NEW n
  PROVE  IInv' /\ global_ts' <= b => (n \in StoreMap'[k] <=> NewestAt(k, b, n)')
<1>1. IInv /\ global_ts <= b => (n \in StoreMap[k] <=> NewestAt(k, b, n))
  BY Zenon, StoreIs
<1>2. (IInv /\ global_ts <= b => (n \in StoreMap[k] <=> NewestAt(k, b, n)))'
  BY <1>1, PTL
<1> QED
  BY Zenon, <1>2

\* What the history of a key determines.
LEMMA StoreKept ==
  ASSUME IInv, IInv', NEW k \in Key, NEW b \in Nat, global_ts <= b, global_ts' <= b,
         \A n : NewestAt(k, b, n)' <=> NewestAt(k, b, n)
  PROVE  StoreMap'[k] = StoreMap[k]
<1>3. \A n : n \in StoreMap'[k] <=> NewestAt(k, b, n)'
  BY Zenon, StoreIsNext
<1>4. \A n : n \in StoreMap[k] <=> NewestAt(k, b, n)
  BY Zenon, StoreIs
<1>5. \A n : n \in StoreMap'[k] <=> n \in StoreMap[k]
  BY Zenon, <1>3, <1>4
<1>6. StoreMap'[k] = {v.seq : v \in {w \in CommittedIn(k)' :
                    \A x \in CommittedIn(k)' : CommitTsOf(x)' <= CommitTsOf(w)'}}
  BY Zenon DEF StoreMap
<1>7. StoreMap[k] = {v.seq : v \in {w \in CommittedIn(k) :
                    \A x \in CommittedIn(k) : CommitTsOf(x) <= CommitTsOf(w)}}
  BY Zenon DEF StoreMap
<1> QED
  BY Zenon, <1>5, <1>6, <1>7

LEMMA SnapshotKept ==
  ASSUME NEW t, NEW k, NEW b, txns'[t].start_ts = b, txns[t].start_ts = b,
         \A n : NewestAt(k, b, n)' <=> NewestAt(k, b, n)
  PROVE  SnapshotSeq(t, k)' = SnapshotSeq(t, k)
<1>1. \A n : n \in SnapshotSeq(t, k) <=> NewestAt(k, b, n)
  BY Zenon, SnapshotIs
<1>2. \A n : NewestAt(k, txns[t].start_ts, n)' <=> NewestAt(k, b, n)'
  BY Zenon DEF NewestAt, TopAt
<1>3. \A n : n \in SnapshotSeq(t, k)' <=> NewestAt(k, b, n)'
  BY Zenon, <1>2, SnapshotIsNext
<1>4. \A n : n \in SnapshotSeq(t, k)' <=> n \in SnapshotSeq(t, k)
  BY Zenon, <1>1, <1>3
<1> QED
  BY Zenon, <1>4 DEF SnapshotSeq

----------------------------------------------------------------------------
(* Garbage collection leaves the store and every running snapshot alone.    *)

\* Every running transaction past Begin is registered; the collector has the
\* start timestamps of the shards it has passed.
GCInv ==
  /\ \A t \in Txn : Running(t) /\ pc[t] # "begin" => t \in registered
  /\ gc.pc = "idle" => gc = NoGC
  /\ \A t \in Txn : Running(t) =>
       /\ gc.pc = "collect" /\ t % ShardCount < gc.shard => txns[t].start_ts \in gc.starts
       /\ gc.pc = "sweep" => txns[t].start_ts \in gc.starts

\* The newest version of an unlocked chain up to a collected start is kept.
LEMMA SweepKeeps ==
  ASSUME IInv, OrderInv, NEW k \in Key, GCSweep(k), NEW b \in Nat,
         b \in gc.starts \/ global_ts <= b, NEW n, NEW s, TopAt(k, b, n, s)
  PROVE  TopAt(k, b, n, s)'
<1>0. table \in [Key -> SUBSET Version] /\ global_ts \in Nat
  BY Zenon DEF IInv, TypeOK
<1>1. /\ table'[k] = {v \in table[k] : ~Reclaimable(v, k)} /\ mutex[k] = Free
      /\ UNCHANGED <<pc, txns>>
  BY Zenon, <1>0 DEF GCSweep
<1>2. \A v : CommitTsOf(v)' = CommitTsOf(v)
  BY Zenon, <1>1, SameTs
<1>3. \A v \in table[k] : CommitTsOf(v) = v.commit_ts
  BY Zenon, <1>1, UnlockedTs
<1>4. Shows(k, n, s) /\ s <= b /\ \A m, r : Shows(k, m, r) /\ r <= b => r <= s
  BY Zenon DEF TopAt
<1>5. PICK v \in table[k] : v.seq = n /\ v.commit_ts = s /\ s # NoTs
  BY Zenon, <1>3, <1>4 DEF Shows
<1>6. ~Reclaimable(v, k)
  <2> SUFFICES ASSUME Reclaimable(v, k) PROVE FALSE
    BY Zenon
  <2>1. ASSUME NEW w \in table[k], Committed(w), w.commit_ts > s
        PROVE  ~(w.commit_ts <= b)
    <3>1. Shows(k, w.seq, w.commit_ts)
      BY Zenon, <1>3, <2>1 DEF Shows, Committed
    <3>2. w.commit_ts \in Nat /\ s \in Nat
      BY Zenon, <1>4, <3>1, ShowsTypes
    <3>3. w.commit_ts <= b => w.commit_ts <= s
      BY Zenon, <1>4, <3>1
    <3> QED
      BY <2>1, <3>2, <3>3
  <2>2. \A w \in table[k] : w.commit_ts < global_ts
    BY Zenon DEF IInv, ClockInv
  <2>3. \A w \in table[k] : w.commit_ts \in Nat \cup {NoTs}
    BY <1>0 DEF Version
  <2>4. CASE b \in gc.starts
    <3>1. b >= v.commit_ts
      BY Zenon, <1>4, <1>5
    <3>2. PICK w \in table[k] : Committed(w) /\ w.commit_ts > s /\ b >= w.commit_ts
      BY Zenon, <1>5, <2>4, <3>1 DEF Reclaimable
    <3> QED
      BY Zenon, <2>1, <2>3, <3>2 DEF NoTs
  <2>5. CASE global_ts <= b
    <3>1. PICK w \in table[k] : Committed(w) /\ w.commit_ts > s
      BY Zenon, <1>5 DEF Reclaimable
    <3> QED
      BY <1>0, <2>1, <2>2, <2>3, <2>5, <3>1 DEF NoTs
  <2> QED
    BY Zenon, <2>4, <2>5
<1>7. v \in table'[k] /\ CommitTsOf(v)' = s
  BY Zenon, <1>1, <1>2, <1>3, <1>5, <1>6
<1>8. Shows(k, n, s)'
  BY Zenon, <1>5, <1>7 DEF Shows
<1>9. \A m, r : Shows(k, m, r)' => Shows(k, m, r)
  BY Zenon, SweepHistory
<1> QED
  BY Zenon, <1>4, <1>8, <1>9 DEF TopAt

\* A key with anything committed up to b has a newest such write.
LEMMA NewestIs ==
  ASSUME IInv, NEW k \in Key, mutex[k] = Free, OrderInv, NEW b \in Nat,
         NEW m, NEW r, Shows(k, m, r), r <= b
  PROVE  \E n, s : TopAt(k, b, n, s)
<1> DEFINE S == {v \in table[k] : v.commit_ts # NoTs /\ v.commit_ts <= b}
<1>1. \A v \in table[k] : CommitTsOf(v) = v.commit_ts
  BY Zenon, UnlockedTs
<1>2. \A j, q : Shows(k, j, q) <=> \E v \in table[k] : v.seq = j /\ v.commit_ts = q /\ q # NoTs
  BY Zenon, <1>1 DEF Shows
<1>3. S \in SUBSET Version /\ S # {}
  <2>1. PICK v \in table[k] : v.commit_ts = r /\ r # NoTs
    BY Zenon, <1>2
  <2>2. v \in S
    BY Zenon, <2>1
  <2> QED
    BY Zenon, <2>2 DEF IInv, TypeOK
<1>4. \A v \in S : v.commit_ts \in Nat /\ v.commit_ts < b + 1
  BY SMTT(30), <1>3 DEF Version
<1>5. b + 1 \in Nat
  OBVIOUS
<1>6. PICK v \in S : \A w \in S : w.commit_ts <= v.commit_ts
  <2> HIDE DEF S
  <2> QED  BY <1>3, <1>4, <1>5, NewestExists
<1>7. Shows(k, v.seq, v.commit_ts) /\ v.commit_ts <= b
  BY Zenon, <1>2
<1>8. \A j, q : Shows(k, j, q) /\ q <= b => q <= v.commit_ts
  <2> SUFFICES ASSUME NEW j, NEW q, Shows(k, j, q), q <= b
               PROVE  q <= v.commit_ts
    BY Zenon
  <2>1. PICK w \in table[k] : w.commit_ts = q /\ q # NoTs
    BY Zenon, <1>2
  <2>2. w \in S
    BY Zenon, <2>1
  <2> QED
    BY Zenon, <1>6, <2>1, <2>2
<1> QED
  BY Zenon, <1>7, <1>8 DEF TopAt

LEMMA SweepNewest ==
  ASSUME IInv, OrderInv, NEW k \in Key, GCSweep(k), NEW b \in Nat,
         b \in gc.starts \/ global_ts <= b, NEW n
  PROVE  NewestAt(k, b, n)' <=> NewestAt(k, b, n)
<1>1. ASSUME NewestAt(k, b, n)'
      PROVE  NewestAt(k, b, n)
  <2>0. mutex[k] = Free
    BY Zenon DEF GCSweep
  <2>1. PICK s : TopAt(k, b, n, s)'
    BY Zenon, <1>1 DEF NewestAt
  <2>2. Shows(k, n, s) /\ s <= b
    BY Zenon, <2>1, SweepHistory DEF TopAt
  <2>3. PICK m, r : TopAt(k, b, m, r)
    BY Zenon, <2>0, <2>2, NewestIs
  <2>4. TopAt(k, b, m, r)'
    BY Zenon, <2>3, SweepKeeps
  <2>5. r <= s /\ s <= r
    BY Zenon, <2>1, <2>2, <2>3, <2>4 DEF TopAt
  <2>6. s \in Nat /\ r \in Nat
    BY Zenon, <2>2, <2>3, ShowsTypes DEF TopAt
  <2>7. r = s
    BY <2>5, <2>6
  <2> QED
    BY Zenon, <2>2, <2>3, <2>7 DEF TopAt, NewestAt
<1>2. ASSUME NewestAt(k, b, n)
      PROVE  NewestAt(k, b, n)'
  <2>1. PICK s : TopAt(k, b, n, s)
    BY Zenon, <1>2 DEF NewestAt
  <2>2. TopAt(k, b, n, s)'
    BY Zenon, <2>1, SweepKeeps
  <2> QED
    BY Zenon, <2>2 DEF NewestAt
<1> QED
  BY Zenon, <1>1, <1>2

\* A step of a transaction leaves the others where they are, and none starts to
\* run but through Begin.
LEMMA ThreadStep ==
  ASSUME IInv, NEW t \in Txn, Invoke(t) \/ Continue(t), NEW u \in Txn
  PROVE  /\ gc' = gc
         /\ Running(u)' => Running(u) \/ pc'[u] = "begin"
         /\ Running(u)' /\ pc'[u] # "begin" /\ u \in registered => u \in registered'
         /\ Running(u)' /\ pc'[u] # "begin" =>
              (Running(u) /\ pc[u] # "begin") \/ u \in registered'
<1>0. pc \in [Txn -> PcValues]
  BY Zenon DEF IInv, TypeOK
<1>1. gc' = gc
  BY Zenon DEF Invoke, Continue, Begin, Read, Write, Delete, Commit, Abort, Register,
     GetOrCreateChain, Push, FindChain, LockChain, Unlink, Validate, Reject, Mark, Erase
<1>2. CASE Register(t)
  BY Zenon, <1>0, <1>1, <1>2 DEF Register, Goto, Running
<1>3. CASE Abort(t) \/ Erase(t)
  BY Zenon, <1>0, <1>1, <1>3 DEF Abort, Erase, Goto, Running
<1>4. CASE \E level \in Levels : Begin(t, level)
  BY Zenon, <1>0, <1>1, <1>4 DEF Begin, Goto, Running
<1>5. CASE \/ GetOrCreateChain(t) \/ Push(t) \/ Validate(t) \/ Reject(t) \/ Mark(t) \/ Commit(t)
           \/ \E k \in Key : \/ Read(t, k) \/ Write(t, k) \/ Delete(t, k)
                             \/ FindChain(t, k) \/ LockChain(t, k) \/ Unlink(t, k)
  <2>1. registered' = registered
    BY Zenon, <1>5 DEF GetOrCreateChain, Push, Validate, Reject, Mark, Commit, Read, Write,
       Delete, FindChain, LockChain, Unlink
  <2>2. \/ pc' = pc
        \/ /\ pc[t] \in {"active", "chain", "push", "lock", "mark"}
           /\ \E l : pc' = [pc EXCEPT ![t] = l] /\ l # "begin" /\ (pc[t] = "mark" => l = "erase")
    BY Zenon, <1>5 DEF GetOrCreateChain, Push, Validate, Reject, Mark, Commit, Read, Write,
       Delete, FindChain, LockChain, Unlink, Goto
  <2> QED
    BY Zenon, <1>0, <1>1, <2>1, <2>2 DEF Running
<1> QED
  BY Zenon, <1>2, <1>3, <1>4, <1>5 DEF Invoke, Continue

LEMMA GCStep ==
  ASSUME IInv, GCInv, Quiet', [Next]_vars
  PROVE  GCInv'
<1>0. /\ gc \in [pc : {"idle", "collect", "sweep"}, shard : Nat,
                 starts : SUBSET Nat, todo : SUBSET Key]
      /\ ShardCount \in Nat \ {0}
  BY Zenon, ConstantsAssumption DEF IInv, TypeOK
<1>1. ASSUME NEW t \in Txn, Invoke(t) \/ Continue(t)
      PROVE  GCInv'
  <2>0. gc' = gc
    BY Zenon, <1>1, ThreadStep
  <2>1. \A u \in Txn : Running(u)' /\ pc'[u] # "begin" => u \in registered'
    BY Zenon, <1>1, ThreadStep DEF GCInv
  <2>2. ASSUME NEW u \in Txn, Running(u)', gc.pc # "idle"
        PROVE  Running(u) /\ txns'[u].start_ts = txns[u].start_ts
    <3>1. pc'[u] # "begin"
      BY Zenon, <2>0, <2>2 DEF Quiet
    <3>2. Running(u)
      BY Zenon, <1>1, <2>2, <3>1, ThreadStep
    <3>3. pc[u] # "idle"
      BY Zenon, <3>2 DEF Running
    <3> QED
      BY Zenon, <3>2, <3>3, FixedStep DEF Fixed
  <2>3. "collect" # "idle" /\ "sweep" # "idle"
    BY Zenon
  <2> QED
    BY Zenon, <2>0, <2>1, <2>2, <2>3 DEF GCInv
<1>2. ASSUME GC \/ UNCHANGED vars
      PROVE  /\ UNCHANGED <<registered, txns, pc>> /\ (\A u \in Txn : Running(u)' <=> Running(u))
             /\ \A u \in Txn : Running(u) /\ pc[u] # "begin" => u \in registered
             /\ gc'.pc # "idle" => \A u \in Txn : Running(u) => u \in registered
  <2>1. UNCHANGED <<registered, txns, pc>>
    BY Zenon, <1>2 DEF GC, GCCollect, GCLockTable, GCSweep, vars
  <2> QED
    BY Zenon, <2>1 DEF Running, GCInv, Quiet
<1>3. CASE UNCHANGED vars
  <2>1. gc' = gc
    BY Zenon, <1>3 DEF vars
  <2> QED
    BY Zenon, <1>2, <1>3, <2>1 DEF GCInv
<1>4. CASE GCCollect
  <2>1. gc' = [gc EXCEPT !.pc = "collect", !.shard = @ + 1,
                 !.starts = @ \cup {txns[t].start_ts :
                                     t \in {u \in registered : u % ShardCount = gc.shard}}]
    BY Zenon, <1>4 DEF GCCollect
  <2>2. /\ gc'.pc = "collect" /\ gc'.shard = gc.shard + 1
        /\ gc'.starts = gc.starts \cup {txns[t].start_ts :
                          t \in {u \in registered : u % ShardCount = gc.shard}}
    BY Zenon, <1>0, <2>1
  <2>3. gc.pc = "collect" \/ gc.shard = 0
    BY <1>4 DEF GCCollect, GCInv, NoGC
  <2>4. gc'.pc # "idle" /\ gc'.pc # "sweep"
    BY Zenon, <2>2
  <2>5. ASSUME NEW u \in Txn, Running(u), u % ShardCount < gc'.shard
        PROVE  txns[u].start_ts \in gc'.starts
    <3>1. u \in registered
      BY Zenon, <1>2, <1>4, <2>4, <2>5 DEF GC
    <3>2. u % ShardCount \in Nat
      BY <1>0 DEF Txn
    <3>3. CASE u % ShardCount = gc.shard
      BY Zenon, <2>2, <3>1, <3>3
    <3>4. CASE u % ShardCount # gc.shard
      <4> DEFINE r == u % ShardCount
      <4>0. r \in Nat /\ r < gc'.shard /\ r # gc.shard
        BY Zenon, <2>5, <3>2, <3>4
      <4> HIDE DEF r
      <4>1. r < gc.shard /\ gc.pc = "collect"
        BY <1>0, <2>2, <2>3, <4>0
      <4>2. u % ShardCount < gc.shard
        BY Zenon, <4>1 DEF r
      <4> QED
        BY Zenon, <2>2, <2>5, <4>1, <4>2 DEF GCInv
    <3> QED
      BY Zenon, <3>3, <3>4
  <2> QED
    BY Zenon, <1>2, <1>4, <2>4, <2>5 DEF GCInv, GC
<1>5. ASSUME NEW S, gc' = Sweeping(S), UNCHANGED <<registered, txns, pc>>,
             \A u \in Txn : Running(u) => txns[u].start_ts \in gc.starts,
             \A u \in Txn : Running(u)' <=> Running(u)
      PROVE  GCInv'
  <2>1. CASE S = {}
    <3>1. gc' = NoGC /\ gc'.pc = "idle"
      BY Zenon, <1>5, <2>1 DEF Sweeping, NoGC
    <3>2. gc'.pc # "collect" /\ gc'.pc # "sweep"
      BY Zenon, <3>1
    <3> QED
      BY Zenon, <1>5, <3>1, <3>2 DEF GCInv
  <2>2. CASE S # {}
    <3>1. gc'.pc = "sweep" /\ gc'.starts = gc.starts
      BY Zenon, <1>0, <1>5, <2>2 DEF Sweeping
    <3>2. gc'.pc # "collect" /\ gc'.pc # "idle"
      BY Zenon, <3>1
    <3> QED
      BY Zenon, <1>5, <3>1, <3>2 DEF GCInv
  <2> QED
    BY Zenon, <2>1, <2>2
<1>6. CASE GCLockTable
  <2>1. \A u \in Txn : u % ShardCount < gc.shard
    BY <1>0, <1>6 DEF GCLockTable, Txn
  <2>2. \A u \in Txn : Running(u) => txns[u].start_ts \in gc.starts
    BY Zenon, <1>6, <2>1 DEF GCLockTable, GCInv
  <2> QED
    BY Zenon, <1>2, <1>5, <1>6, <2>2 DEF GCLockTable, GC
<1>7. ASSUME NEW k \in Key, GCSweep(k)
      PROVE  GCInv'
  <2>1. gc.pc = "sweep" /\ gc' = Sweeping(gc.todo \ {k})
    BY Zenon, <1>7 DEF GCSweep
  <2>2. \A u \in Txn : Running(u) => txns[u].start_ts \in gc.starts
    BY Zenon, <2>1 DEF GCInv
  <2>3. GC
    BY Zenon, <1>7 DEF GC
  <2> QED
    BY Zenon, <1>2, <1>5, <2>1, <2>2, <2>3
<1> QED
  BY Zenon, <1>1, <1>3, <1>4, <1>6, <1>7 DEF Next, GC, Finished

LEMMA InitGC == Init => GCInv
BY Zenon DEF Init, GCInv, Running, NoGC

----------------------------------------------------------------------------
(* Snapshots and the store from one state to the next.                     *)

LEMMA ClockGrows ==
  ASSUME IInv, [Next]_vars
  PROVE  global_ts' \in Nat /\ global_ts <= global_ts'
<1>1. global_ts \in Nat
  BY Zenon DEF IInv, TypeOK
<1>2. global_ts' = global_ts \/ global_ts' = global_ts + 1
  BY ZenonT(60) DEF Next, Invoke, Continue, GC, Finished, Begin, Read, Write, Delete, Commit, Abort,
     Register, GetOrCreateChain, Push, FindChain, LockChain, Unlink, Validate, Reject, Mark,
     Erase, GCCollect, GCLockTable, GCSweep, vars
<1> QED
  BY <1>1, <1>2

\* Versions committed after b do not change what is newest up to b.
LEMMA AddedLater ==
  ASSUME IInv, NEW t, NEW k, AddsOwn(t, k), NEW b \in Nat, b < global_ts, NEW n
  PROVE  NewestAt(k, b, n)' <=> NewestAt(k, b, n)
<1>1. ~(global_ts <= b)
  BY DEF IInv, TypeOK
<1>2. \A m, s : s <= b => (Shows(k, m, s)' <=> Shows(k, m, s))
  BY <1>1 DEF AddsOwn
<1> QED
  BY Zenon, <1>2 DEF NewestAt, TopAt

\* The snapshot of a running transaction never changes.
LEMMA SnapshotStep ==
  ASSUME IInv, OrderInv, GCInv, [Next]_vars, NEW u \in Txn, Running(u), NEW k \in Key
  PROVE  SnapshotSeq(u, k)' = SnapshotSeq(u, k)
<1>1. PICK b : b = txns[u].start_ts
  BY Zenon
<1>2. pc[u] # "idle"
  BY Zenon DEF Running
<1>3. b \in Nat /\ b < global_ts
  BY Zenon, <1>1, <1>2 DEF IInv, TypeOK, Transaction, ClockInv
<1>4. txns'[u].start_ts = b
  BY Zenon, <1>1, <1>2, FixedStep DEF Fixed
<1>5. \A n : NewestAt(k, b, n)' <=> NewestAt(k, b, n)
  <2>1. CASE SameHistory(k)
    BY Zenon, <2>1, NewestSame
  <2>2. ASSUME NEW t \in Txn, AddsOwn(t, k)
        PROVE  \A n : NewestAt(k, b, n)' <=> NewestAt(k, b, n)
    BY Zenon, <1>3, <2>2, AddedLater
  <2>3. CASE GCSweep(k)
    <3>1. b \in gc.starts
      BY Zenon, <1>1, <2>3 DEF GCSweep, GCInv
    <3> QED
      BY Zenon, <1>3, <2>3, <3>1, SweepNewest
  <2> QED
    BY Zenon, <2>1, <2>2, <2>3, HistoryStep
<1> QED
  BY Zenon, <1>1, <1>4, <1>5, SnapshotKept

\* Nothing but the commit point changes the store.
LEMMA StoreStep ==
  ASSUME IInv, IInv', OrderInv, [Next]_vars, NEW k \in Key,
         \A t \in Txn : Validate(t) => k \notin txns[t].write_set
  PROVE  StoreMap'[k] = StoreMap[k]
<1>1. PICK b \in Nat : b = global_ts'
  BY Zenon, ClockGrows
<1>2. global_ts <= b /\ global_ts' <= b
  BY <1>1, ClockGrows
<1>3. \A n : NewestAt(k, b, n)' <=> NewestAt(k, b, n)
  <2>1. CASE SameHistory(k)
    BY Zenon, <2>1, NewestSame
  <2>2. CASE GCSweep(k)
    BY Zenon, <1>2, <2>2, SweepNewest
  <2> QED
    BY Zenon, <2>1, <2>2, HistoryStep
<1> QED
  BY Zenon, <1>2, <1>3, StoreKept

----------------------------------------------------------------------------
(* What a step does to the abstract record of a transaction.                *)

OwnSeqs(t, k) == {v.seq : v \in Own(t, k)}

SameRecord(u) ==
  /\ StatusMap'[u] = StatusMap[u]
  /\ SnapMap'[u] = SnapMap[u]
  /\ PendingMap'[u] = PendingMap[u]

StatusIs(u) ==
  /\ pc[u] = "idle" => StatusMap[u] = "idle"
  /\ Running(u) => StatusMap[u] = "active"
  /\ pc[u] # "idle" /\ ~Running(u) /\ HasCommitted(u) => StatusMap[u] = "committed"
  /\ pc[u] # "idle" /\ ~Running(u) /\ ~HasCommitted(u) => StatusMap[u] = "aborted"

LEMMA StatusHolds ==
  ASSUME NEW u \in Txn
  PROVE  (IInv => StatusIs(u)) /\ (IInv' => StatusIs(u)')
<1>1. IInv => StatusIs(u)
  <2> SUFFICES ASSUME IInv PROVE StatusIs(u)
    BY Zenon
  <2>1. StatusMap[u] = CASE pc[u] = "idle" -> "idle"
                         [] Running(u) -> "active"
                         [] HasCommitted(u) -> "committed"
                         [] OTHER -> "aborted"
    BY Zenon DEF StatusMap
  <2>2. Running(u) => pc[u] # "idle" /\ ~HasCommitted(u)
    BY Zenon DEF Running, IInv, PcInv, Done
  <2>3. pc[u] = "idle" => ~HasCommitted(u)
    BY Zenon DEF IInv, PcInv, Done
  <2>4. pc[u] = "idle" => StatusMap[u] = "idle"
    BY Zenon, <2>1, <2>2, <2>3
  <2>5. Running(u) => StatusMap[u] = "active"
    BY Zenon, <2>1, <2>2
  <2>6. pc[u] # "idle" /\ ~Running(u) /\ HasCommitted(u) => StatusMap[u] = "committed"
    BY Zenon, <2>1
  <2>7. pc[u] # "idle" /\ ~Running(u) /\ ~HasCommitted(u) => StatusMap[u] = "aborted"
    BY Zenon, <2>1
  <2> QED
    BY Zenon, <2>4, <2>5, <2>6, <2>7 DEF StatusIs
<1>2. (IInv => StatusIs(u))'
  BY <1>1, PTL
<1> QED
  BY Zenon, <1>1, <1>2

LEMMA SameRecordIf ==
  ASSUME IInv, OrderInv, GCInv, [Next]_vars, NEW u \in Txn,
         Running(u)' <=> Running(u), pc'[u] = "idle" <=> pc[u] = "idle",
         HasCommitted(u)' <=> HasCommitted(u),
         Running(u) => \A k \in Key : OwnSeqs(u, k)' = OwnSeqs(u, k)
  PROVE  SameRecord(u)
<1>1. StatusMap'[u] = StatusMap[u]
  BY Zenon, NextIInv, StatusHolds DEF StatusIs
<1>2. SnapMap'[u] = SnapMap[u]
  <2>1. CASE Running(u)
    <3>1. \A k \in Key : SnapshotSeq(u, k)' = SnapshotSeq(u, k)
      BY Zenon, <2>1, SnapshotStep
    <3> QED
      BY Zenon, <2>1, <3>1 DEF SnapMap
  <2>2. CASE ~Running(u)
    BY Zenon, <2>2 DEF SnapMap
  <2> QED
    BY Zenon, <2>1, <2>2
<1>3. PendingMap'[u] = PendingMap[u]
  BY Zenon DEF PendingMap, OwnSeqs
<1> QED
  BY Zenon, <1>1, <1>2, <1>3 DEF SameRecord

LEMMA OwnStep ==
  ASSUME IInv, NEW t \in Txn, Invoke(t) \/ Continue(t), NEW u \in Txn, NEW k \in Key,
         u # t \/ table' = table
  PROVE  Own(u, k)' = Own(u, k)
<1>0. table \in [Key -> SUBSET Version]
  BY Zenon DEF IInv, TypeOK
<1>1. CASE table' = table
  BY Zenon, <1>1 DEF Own
<1>2. CASE Push(t) /\ u # t
  <2> DEFINE new == [txn |-> t, seq |-> global_ts, commit_ts |-> NoTs, deleted |-> arg[t].deleted]
  <2>1. new.txn = t
    BY Zenon
  <2>2. table' = [table EXCEPT ![arg[t].key] = (@ \ Own(t, arg[t].key)) \cup {new}]
    BY Zenon, <1>2 DEF Push
  <2> HIDE DEF new
  <2>3. \A v : v.txn = u => (v \in table'[k] <=> v \in table[k])
    BY Zenon, <1>0, <1>2, <2>1, <2>2 DEF Own
  <2> QED
    BY Zenon, <2>3 DEF Own
<1>3. ASSUME NEW j \in Key, Unlink(t, j), u # t
      PROVE  Own(u, k)' = Own(u, k)
  <2>1. table' = [table EXCEPT ![j] = @ \ Own(t, j)]
    BY Zenon, <1>3 DEF Unlink
  <2>2. \A v : v.txn = u => (v \in table'[k] <=> v \in table[k])
    BY Zenon, <1>0, <1>3, <2>1 DEF Own
  <2> QED
    BY Zenon, <2>2 DEF Own
<1>4. CASE Mark(t) /\ u # t
  <2>1. table'[k] = {Marked(v, t) : v \in table[k]}
    BY Zenon, <1>4 DEF Mark
  <2>2. \A v \in table[k] : Marked(v, t).txn = v.txn
    BY <1>0 DEF Marked, Version
  <2>3. \A v : v.txn # t => Marked(v, t) = v
    BY Zenon DEF Marked
  <2>4. \A v : v.txn = u => (v \in table'[k] <=> v \in table[k])
    BY Zenon, <1>4, <2>1, <2>2, <2>3
  <2> QED
    BY Zenon, <2>4 DEF Own
<1>5. ASSUME ~Push(t), ~Mark(t), \A j \in Key : ~Unlink(t, j)
      PROVE  table' = table
  BY Zenon, <1>5 DEF Invoke, Continue, Begin, Read, Write, Delete, Commit, Abort, Register,
     GetOrCreateChain, FindChain, LockChain, Validate, Reject, Erase
<1> QED
  BY Zenon, <1>1, <1>2, <1>3, <1>4, <1>5

LEMMA OthersStep ==
  ASSUME IInv, OrderInv, GCInv, [Next]_vars, NEW t \in Txn, Invoke(t) \/ Continue(t),
         NEW u \in Txn, u # t
  PROVE  SameRecord(u)
<1>0. /\ pc \in [Txn -> PcValues] /\ txns \in [Txn -> Transaction]
  BY Zenon DEF IInv, TypeOK
<1>1. pc'[u] = pc[u] /\ txns'[u] = txns[u]
  BY Zenon, <1>0 DEF Invoke, Continue, Begin, Read, Write, Delete, Commit, Abort, Register,
     GetOrCreateChain, Push, FindChain, LockChain, Unlink, Validate, Reject, Mark, Erase, Goto
<1>2. \A k \in Key : OwnSeqs(u, k)' = OwnSeqs(u, k)
  BY Zenon, OwnStep DEF OwnSeqs
<1> QED
  BY Zenon, <1>1, <1>2, SameRecordIf DEF Running, HasCommitted

LEMMA GCRecords ==
  ASSUME IInv, OrderInv, GCInv, [Next]_vars, GC \/ UNCHANGED vars, NEW u \in Txn
  PROVE  SameRecord(u)
<1>0. table \in [Key -> SUBSET Version]
  BY Zenon DEF IInv, TypeOK
<1>1. UNCHANGED <<pc, txns>>
  BY Zenon DEF GC, GCCollect, GCLockTable, GCSweep, vars
<1>2. ASSUME NEW k \in Key
      PROVE  Own(u, k)' = Own(u, k)
  <2>1. \A v : ~Committed(v) => (v \in table'[k] <=> v \in table[k])
    BY Zenon, <1>0 DEF GC, GCCollect, GCLockTable, GCSweep, vars, Reclaimable
  <2> QED
    BY Zenon, <2>1 DEF Own, Committed
<1>3. \A k \in Key : OwnSeqs(u, k)' = OwnSeqs(u, k)
  BY Zenon, <1>2 DEF OwnSeqs
<1> QED
  BY Zenon, <1>1, <1>3, SameRecordIf DEF Running, HasCommitted

----------------------------------------------------------------------------
(* The steps of the refinement.                                             *)

LEMMA StatusShape ==
  /\ StatusMap = [u \in Txn |-> StatusMap[u]]
  /\ StatusMap' = [u \in Txn |-> StatusMap'[u]]
<1>1. StatusMap = [u \in Txn |-> StatusMap[u]]
  BY DEF StatusMap
<1>2. (StatusMap = [u \in Txn |-> StatusMap[u]])'
  BY <1>1, PTL
<1> QED
  BY Zenon, <1>1, <1>2

\* The abstract variables after a step of transaction t alone.
LEMMA RecordsOf ==
  ASSUME NEW t \in Txn, \A u \in Txn : u # t => SameRecord(u)
  PROVE  /\ StatusMap' = [StatusMap EXCEPT ![t] = StatusMap'[t]]
         /\ SnapMap' = [SnapMap EXCEPT ![t] = SnapMap'[t]]
         /\ PendingMap' = [PendingMap EXCEPT ![t] = PendingMap'[t]]
<1>1. StatusMap' = [StatusMap EXCEPT ![t] = StatusMap'[t]]
  <2>1. \A u \in Txn : u # t => StatusMap'[u] = StatusMap[u]
    BY Zenon DEF SameRecord
  <2>2. StatusMap = [u \in Txn |-> StatusMap[u]] /\ StatusMap' = [u \in Txn |-> StatusMap'[u]]
    BY Zenon, StatusShape
  <2> QED
    BY Zenon, <2>1, <2>2
<1>2. SnapMap' = [SnapMap EXCEPT ![t] = SnapMap'[t]]
  <2>1. \A u \in Txn : u # t => SnapMap'[u] = SnapMap[u]
    BY Zenon DEF SameRecord
  <2>2. SnapMap = [u \in Txn |-> SnapMap[u]] /\ SnapMap' = [u \in Txn |-> SnapMap'[u]]
    BY Zenon DEF SnapMap
  <2> QED
    BY Zenon, <2>1, <2>2
<1>3. PendingMap' = [PendingMap EXCEPT ![t] = PendingMap'[t]]
  <2>1. \A u \in Txn : u # t => PendingMap'[u] = PendingMap[u]
    BY Zenon DEF SameRecord
  <2>2. PendingMap = [u \in Txn |-> PendingMap[u]] /\ PendingMap' = [u \in Txn |-> PendingMap'[u]]
    BY Zenon DEF PendingMap
  <2> QED
    BY Zenon, <2>1, <2>2
<1> QED
  BY Zenon, <1>1, <1>2, <1>3

StoreSame == StoreMap' = StoreMap

LEMMA StoreUnchanged ==
  ASSUME IInv, IInv', OrderInv, [Next]_vars, \A t \in Txn : ~Validate(t)
  PROVE  StoreSame
<1>1. \A k \in Key : StoreMap'[k] = StoreMap[k]
  BY Zenon, StoreStep
<1>2. StoreMap = [k \in Key |-> StoreMap[k]] /\ StoreMap' = [k \in Key |-> StoreMap'[k]]
  BY Zenon DEF StoreMap
<1> QED
  BY Zenon, <1>1, <1>2 DEF StoreSame

Stutters == UNCHANGED <<StoreMap, StatusMap, SnapMap, PendingMap>>

LEMMA AllSame ==
  ASSUME StoreSame, \A u \in Txn : SameRecord(u)
  PROVE  Stutters
<1>1. /\ StatusMap = [u \in Txn |-> StatusMap[u]] /\ StatusMap' = [u \in Txn |-> StatusMap'[u]]
  BY Zenon, StatusShape
<1>2. SnapMap = [u \in Txn |-> SnapMap[u]] /\ SnapMap' = [u \in Txn |-> SnapMap'[u]]
  BY Zenon DEF SnapMap
<1>3. PendingMap = [u \in Txn |-> PendingMap[u]] /\ PendingMap' = [u \in Txn |-> PendingMap'[u]]
  BY Zenon DEF PendingMap
<1>4. /\ \A u \in Txn : StatusMap'[u] = StatusMap[u]
      /\ \A u \in Txn : SnapMap'[u] = SnapMap[u]
      /\ \A u \in Txn : PendingMap'[u] = PendingMap[u]
  BY Zenon DEF SameRecord
<1> QED
  BY Zenon, <1>1, <1>2, <1>3, <1>4 DEF Stutters, StoreSame

\* The steps inside a call that the abstract specification does not see.
LEMMA HiddenSteps ==
  ASSUME IInv, IInv', OrderInv, GCInv, [Next]_vars, NEW t \in Txn,
         \/ Register(t) \/ GetOrCreateChain(t) \/ Commit(t) \/ Mark(t) \/ Erase(t)
         \/ \E k \in Key : \/ Read(t, k) \/ Write(t, k) \/ Delete(t, k)
                           \/ FindChain(t, k) \/ LockChain(t, k) \/ Unlink(t, k)
  PROVE  Stutters
<1>0. /\ pc \in [Txn -> PcValues] /\ txns \in [Txn -> Transaction]
  BY Zenon DEF IInv, TypeOK
<1>1. Invoke(t) \/ Continue(t)
  BY Zenon DEF Invoke, Continue
<1>2. \A u \in Txn : ~Validate(u)
  <2> SUFFICES ASSUME NEW u \in Txn, Validate(u) PROVE FALSE
    BY Zenon
  <2>1. global_ts' = global_ts + 1
    BY Zenon DEF Validate
  <2>2. global_ts' = global_ts
    BY Zenon DEF Register, GetOrCreateChain, Commit, Mark, Erase, Read, Write, Delete, FindChain,
       LockChain, Unlink
  <2> QED
    BY <2>1, <2>2 DEF IInv, TypeOK
<1>3. /\ Running(t)' <=> Running(t)
      /\ pc'[t] = "idle" <=> pc[t] = "idle"
  BY Zenon, <1>0 DEF Register, GetOrCreateChain, Commit, Mark, Erase, Read, Write, Delete, FindChain,
     LockChain, Unlink, Goto, Running
<1>4. txns'[t].commit_ts = txns[t].commit_ts
  <2>1. txns' = txns \/ \E k : txns' = [txns EXCEPT ![t].read_set = @ \cup {k}]
    BY Zenon DEF Register, GetOrCreateChain, Commit, Mark, Erase, Read, Write, Delete, FindChain,
       LockChain, Unlink
  <2> QED
    BY Zenon, <1>0, <2>1 DEF Transaction
<1>5. Running(t) => table' = table
  BY Zenon DEF Register, GetOrCreateChain, Commit, Mark, Erase, Read, Write, Delete, FindChain,
     LockChain, Unlink, Goto, Running
<1>6. Running(t) => \A k \in Key : OwnSeqs(t, k)' = OwnSeqs(t, k)
  BY Zenon, <1>1, <1>5, OwnStep DEF OwnSeqs
<1>7. SameRecord(t)
  BY Zenon, <1>3, <1>4, <1>6, SameRecordIf DEF HasCommitted
<1>8. \A u \in Txn : SameRecord(u)
  BY Zenon, <1>1, <1>7, OthersStep
<1> QED
  BY Zenon, <1>2, <1>8, StoreUnchanged, AllSame

LEMMA BeginStep ==
  ASSUME IInv, IInv', OrderInv, GCInv, [Next]_vars, NEW t \in Txn, NEW level \in Levels,
         Begin(t, level)
  PROVE  SI!ABegin(t)
<1>0. /\ pc \in [Txn -> PcValues] /\ txns \in [Txn -> Transaction] /\ global_ts \in Nat
  BY Zenon DEF IInv, TypeOK
<1>1. /\ pc[t] = "idle" /\ pc' = [pc EXCEPT ![t] = "begin"] /\ table' = table
      /\ txns' = [txns EXCEPT ![t].isolation = level, ![t].start_ts = global_ts]
  BY Zenon DEF Begin, Goto
<1>2. pc'[t] = "begin" /\ txns'[t].start_ts = global_ts
  BY Zenon, <1>0, <1>1 DEF Transaction
<1>3. /\ ~Running(t) /\ Running(t)' /\ ~Live(t) /\ "begin" # "lock"
  BY Zenon, <1>1, <1>2 DEF Running, Live
<1>4. \A u \in Txn : ~Validate(u)
  BY Zenon, <1>0, <1>1, <1>3 DEF Validate, Goto
<1>5. StoreSame
  BY Zenon, <1>4, StoreUnchanged
<1>6. \A u \in Txn : u # t => SameRecord(u)
  BY Zenon, OthersStep DEF Invoke
<1>7. StatusMap[t] = "idle" /\ StatusMap'[t] = "active"
  BY Zenon, <1>1, <1>3, StatusHolds DEF StatusIs
<1>8. ASSUME NEW k \in Key
      PROVE  SnapshotSeq(t, k)' = StoreMap[k]
  <2>1. PICK b \in Nat : b = global_ts
    BY Zenon, <1>0
  <2>2. global_ts <= b /\ b = txns'[t].start_ts
    BY <1>0, <1>2, <2>1
  <2>3. SameHistory(k)
    <3>1. ~GCSweep(k)
      BY Zenon, <1>0, <1>1, <1>2 DEF GCSweep
    <3> QED
      BY Zenon, <1>4, <3>1, HistoryStep
  <2>4. \A n : NewestAt(k, txns[t].start_ts, n)' <=> NewestAt(k, b, n)'
    BY Zenon, <2>2 DEF NewestAt, TopAt
  <2>5. \A n : n \in SnapshotSeq(t, k)' <=> NewestAt(k, b, n)
    BY Zenon, <2>3, <2>4, SnapshotIsNext, NewestSame
  <2>6. \A n : n \in StoreMap[k] <=> NewestAt(k, b, n)
    BY Zenon, <2>2, StoreIs
  <2>7. \A n : n \in SnapshotSeq(t, k)' <=> n \in StoreMap[k]
    BY Zenon, <2>5, <2>6
  <2>8. StoreMap[k] = {v.seq : v \in {w \in CommittedIn(k) :
                        \A x \in CommittedIn(k) : CommitTsOf(x) <= CommitTsOf(w)}}
    BY Zenon DEF StoreMap
  <2> QED
    BY Zenon, <2>7, <2>8 DEF SnapshotSeq
<1>9. SnapMap'[t] = StoreMap
  <2>1. SnapMap'[t] = [k \in Key |-> SnapshotSeq(t, k)']
    BY Zenon, <1>3 DEF SnapMap
  <2>2. StoreMap = [k \in Key |-> StoreMap[k]]
    BY Zenon DEF StoreMap
  <2> QED
    BY Zenon, <1>8, <2>1, <2>2
<1>10. PendingMap'[t] = PendingMap[t]
  <2>1. \A k \in Key : Own(t, k) = {} /\ Own(t, k)' = {}
    BY Zenon, <1>1, <1>3 DEF Own, OrderInv, SeqInv
  <2>2. \A k \in Key : {v.seq : v \in Own(t, k)'} = {}
    BY Zenon, <2>1
  <2> QED
    BY Zenon, <1>3, <2>2 DEF PendingMap
<1>11. PendingMap' = PendingMap
  <2>1. \A u \in Txn : PendingMap'[u] = PendingMap[u]
    BY Zenon, <1>6, <1>10 DEF SameRecord
  <2> QED
    BY Zenon, <2>1 DEF PendingMap
<1>12. /\ StatusMap' = [StatusMap EXCEPT ![t] = "active"]
       /\ SnapMap' = [SnapMap EXCEPT ![t] = StoreMap]
  BY Zenon, <1>6, <1>7, <1>9, RecordsOf
<1> QED
  BY Zenon, <1>5, <1>7, <1>11, <1>12 DEF SI!ABegin, StoreSame

LEMMA PushStep ==
  ASSUME IInv, IInv', OrderInv, GCInv, [Next]_vars, NEW t \in Txn, Push(t)
  PROVE  \E k \in Key : SI!AWrite(t, k)
<1>0. /\ pc \in [Txn -> PcValues] /\ txns \in [Txn -> Transaction] /\ global_ts \in Nat
      /\ table \in [Key -> SUBSET Version]
  BY Zenon DEF IInv, TypeOK
<1>j. PICK j : j = arg[t].key
  BY Zenon
<1>n. PICK new : new = [txn |-> t, seq |-> global_ts, commit_ts |-> NoTs,
                        deleted |-> arg[t].deleted]
  BY Zenon
<1>1. /\ pc[t] = "push" /\ pc' = [pc EXCEPT ![t] = "active"]
      /\ table' = [table EXCEPT ![j] = (@ \ Own(t, j)) \cup {new}]
      /\ txns' = [txns EXCEPT ![t].write_set = @ \cup {j}]
  BY Zenon, <1>j, <1>n DEF Push, Goto
<1>2. j \in Key
  BY Zenon, <1>j, <1>1 DEF IInv, ChainInv
<1>3. new.txn = t /\ new.commit_ts = NoTs /\ new.seq = global_ts
  BY Zenon, <1>n
<1>4. pc'[t] = "active" /\ txns'[t].commit_ts = txns[t].commit_ts
  BY Zenon, <1>0, <1>1 DEF Transaction
<1>5. /\ Running(t) /\ Running(t)' /\ pc[t] # "idle" /\ pc'[t] # "idle"
  BY Zenon, <1>1, <1>4 DEF Running
<1>6. \A u \in Txn : ~Validate(u)
  BY Zenon, <1>0, <1>1 DEF Validate, Goto
<1>7. StoreSame
  BY Zenon, <1>6, StoreUnchanged
<1>8. \A u \in Txn : u # t => SameRecord(u)
  BY Zenon, OthersStep DEF Continue
<1>9. StatusMap[t] = "active" /\ StatusMap'[t] = "active"
  BY Zenon, <1>5, StatusHolds DEF StatusIs
<1>10. SnapMap'[t] = SnapMap[t]
  <2>1. \A k \in Key : SnapshotSeq(t, k)' = SnapshotSeq(t, k)
    BY Zenon, <1>5, SnapshotStep
  <2> QED
    BY Zenon, <1>5, <2>1 DEF SnapMap
<1>11. \A k \in Key : k # j => PendingMap'[t][k] = PendingMap[t][k]
  <2>1. \A k \in Key : k # j => table'[k] = table[k]
    BY Zenon, <1>0, <1>1
  <2>2. \A k \in Key : k # j => Own(t, k)' = Own(t, k)
    BY Zenon, <2>1 DEF Own
  <2> QED
    BY Zenon, <1>5, <2>2 DEF PendingMap
<1>12. PendingMap'[t][j] = {global_ts}
  <2>1. table'[j] = (table[j] \ Own(t, j)) \cup {new}
    BY Zenon, <1>0, <1>1, <1>2
  <2>2. Own(t, j)' = {new}
    BY Zenon, <1>3, <2>1 DEF Own, Committed
  <2>3. {v.seq : v \in {new}} = {global_ts}
    BY Zenon, <1>3
  <2> QED
    BY Zenon, <1>2, <1>5, <2>2, <2>3 DEF PendingMap
<1>13. SI!IsWrite(PendingMap'[t][j])
  BY Zenon, <1>0, <1>12 DEF SI!IsWrite
<1>14. PendingMap' = [PendingMap EXCEPT ![t] = PendingMap'[t]]
  BY Zenon, <1>8, RecordsOf
<1>15. PendingMap'[t] = [PendingMap[t] EXCEPT ![j] = PendingMap'[t][j]]
  <2>1. /\ PendingMap[t] = [k \in Key |-> PendingMap[t][k]]
        /\ PendingMap'[t] = [k \in Key |-> PendingMap'[t][k]]
    BY Zenon DEF PendingMap
  <2> QED
    BY Zenon, <1>2, <1>11, <2>1
<1>16. PendingMap' = [PendingMap EXCEPT ![t][j] = PendingMap'[t][j]]
  BY Zenon, <1>14, <1>15
<1>17. StatusMap' = StatusMap /\ SnapMap' = SnapMap
  <2>1. \A u \in Txn : StatusMap'[u] = StatusMap[u] /\ SnapMap'[u] = SnapMap[u]
    BY Zenon, <1>8, <1>9, <1>10 DEF SameRecord
  <2>2. SnapMap = [u \in Txn |-> SnapMap[u]] /\ SnapMap' = [u \in Txn |-> SnapMap'[u]]
    BY Zenon DEF SnapMap
  <2> QED
    BY Zenon, <2>1, <2>2, StatusShape
<1>18. SI!AWrite(t, j)
  BY Zenon, <1>7, <1>9, <1>13, <1>16, <1>17 DEF SI!AWrite, StoreSame
<1> QED
  BY Zenon, <1>2, <1>18

\* The end of a transaction, for a caller that sees only the abstract state.
LEMMA EndStep ==
  ASSUME IInv, IInv', OrderInv, GCInv, [Next]_vars, NEW t \in Txn, Invoke(t) \/ Continue(t),
         Running(t), ~Running(t)', pc'[t] # "idle", NEW how,
         how = IF HasCommitted(t)' THEN "committed" ELSE "aborted"
  PROVE  SI!End(t, how)
<1>1. \A u \in Txn : u # t => SameRecord(u)
  BY Zenon, OthersStep
<1>2. StatusMap[t] = "active" /\ StatusMap'[t] = how
  BY Zenon, StatusHolds DEF StatusIs
<1>3. /\ SnapMap'[t] = [k \in Key |-> {}]
      /\ PendingMap'[t] = [k \in Key |-> {}]
  BY Zenon DEF SnapMap, PendingMap
<1>4. /\ StatusMap' = [StatusMap EXCEPT ![t] = how]
      /\ SnapMap' = [SnapMap EXCEPT ![t] = [k \in Key |-> {}]]
      /\ PendingMap' = [PendingMap EXCEPT ![t] = [k \in Key |-> {}]]
  BY Zenon, <1>1, <1>2, <1>3, RecordsOf
<1> QED
  BY Zenon, <1>2, <1>4 DEF SI!End, SI!Nothing, SI!NoWrite

\* What is committed on a key that a Commit holds and found no conflict on was
\* committed before its transaction began.
LEMMA NoneSince ==
  ASSUME IInv, OrderInv, NEW t \in Txn, Validate(t), NEW k \in txns[t].write_set,
         NEW n, NEW s, Shows(k, n, s)
  PROVE  s <= txns[t].start_ts
<1>0. /\ txns \in [Txn -> Transaction] /\ table \in [Key -> SUBSET Version]
      /\ pc[t] = "lock" /\ AllLocked(t) /\ ~Conflict(t)
  BY Zenon DEF IInv, TypeOK, Validate, Goto
<1>1. k \in Key
  BY Zenon, <1>0 DEF Transaction
<1>2. k \in chains[t].found /\ mutex[k] = t
  BY Zenon, <1>0, <1>1 DEF IInv, ChainInv, AllLocked, Unlocked
<1>3. ~Done(t) /\ t # Loader /\ pc[t] # "mark"
  BY <1>0 DEF Done, Txn, Loader
<1>4. PICK v \in table[k] : CommitTsOf(v) = s /\ s # NoTs
  BY Zenon DEF Shows
<1>5. Committed(v)
  <2> SUFFICES ASSUME ~Committed(v) PROVE FALSE
    BY Zenon
  <2>1. v.txn \in Txn /\ pc[v.txn] = "mark" /\ k \in txns[v.txn].write_set
    BY Zenon, <1>1, <1>4 DEF CommitTsOf, OrderInv, SeqInv
  <2> QED
    BY Zenon, <1>2, <1>3, <2>1 DEF IInv, ChainInv
<1>6. v.txn # t /\ s = v.commit_ts
  BY Zenon, <1>1, <1>3, <1>4, <1>5 DEF IInv, CommittedInv, CommitTsOf
<1>7. ~(s > txns[t].start_ts)
  BY Zenon, <1>0, <1>2, <1>5, <1>6 DEF Conflict
<1>8. s \in Nat /\ txns[t].start_ts \in Nat
  BY Zenon, <1>0, <1>1, ShowsTypes DEF Transaction
<1> QED
  BY <1>7, <1>8

\* Nobody committed the key since the transaction began: the store holds what its
\* snapshot holds.
LEMMA CommitCurrent ==
  ASSUME IInv, OrderInv, NEW t \in Txn, Validate(t), NEW k \in txns[t].write_set
  PROVE  SnapshotSeq(t, k) = StoreMap[k]
<1>0. /\ txns \in [Txn -> Transaction] /\ global_ts \in Nat
  BY Zenon DEF IInv, TypeOK
<1>1. k \in Key /\ global_ts <= global_ts
  BY <1>0 DEF Transaction
<1>2. \A n, s : Shows(k, n, s) => s <= txns[t].start_ts
  BY Zenon, NoneSince
<1>3. \A n, s : Shows(k, n, s) => s <= global_ts
  BY <1>0, <1>1, ShowsTypes
<1>4. \A n : NewestAt(k, txns[t].start_ts, n) <=> NewestAt(k, global_ts, n)
  BY Zenon, <1>2, <1>3 DEF NewestAt, TopAt
<1>5. \A n : n \in SnapshotSeq(t, k) <=> n \in StoreMap[k]
  BY Zenon, <1>0, <1>1, <1>4, SnapshotIs, StoreIs
<1>6. StoreMap[k] = {v.seq : v \in {w \in CommittedIn(k) :
                      \A x \in CommittedIn(k) : CommitTsOf(x) <= CommitTsOf(w)}}
  BY Zenon, <1>1 DEF StoreMap
<1> QED
  BY Zenon, <1>5, <1>6 DEF SnapshotSeq

LEMMA CommitStores ==
  ASSUME IInv, IInv', OrderInv, [Next]_vars, NEW t \in Txn, Validate(t),
         NEW k \in txns[t].write_set
  PROVE  StoreMap'[k] = OwnSeqs(t, k)
<1>0. /\ txns \in [Txn -> Transaction] /\ global_ts \in Nat /\ pc[t] = "lock"
  BY Zenon DEF IInv, TypeOK, Validate, Goto
<1>1. k \in Key
  BY Zenon, <1>0 DEF Transaction
<1>2. PICK b \in Nat : b = global_ts'
  BY Zenon, ClockGrows
<1>3. b = global_ts + 1 /\ global_ts' <= b /\ global_ts # NoTs
  BY <1>0, <1>2 DEF Validate, NoTs
<1>4. \A n, s : Shows(k, n, s)' <=>
        (Shows(k, n, s) \/ (s = global_ts /\ n \in OwnSeqs(t, k)))
  <2>1. AddsOwn(t, k)
    BY Zenon, <1>1, ValidateHistory
  <2>2. \A n : n \in OwnSeqs(t, k) <=> \E v \in Own(t, k) : v.seq = n
    BY Zenon DEF OwnSeqs
  <2> SUFFICES ASSUME NEW n, NEW s
               PROVE  Shows(k, n, s)' <=> (Shows(k, n, s) \/ (s = global_ts /\ n \in OwnSeqs(t, k)))
    BY Zenon
  <2>3. Shows(k, n, s)' <=> (Shows(k, n, s) \/ (s = global_ts /\ \E v \in Own(t, k) : v.seq = n))
    BY Zenon, <2>1 DEF AddsOwn
  <2> QED
    BY Zenon, <2>2, <2>3
<1>5. \A n, s : Shows(k, n, s) => s \in Nat /\ s < global_ts
  BY Zenon, <1>1, ShowsTypes
<1>6. PICK m : m \in OwnSeqs(t, k)
  <2>1. InFlight(t)
    BY Zenon, <1>0 DEF InFlight
  <2> QED
    BY Zenon, <2>1 DEF IInv, PendingInv, OwnSeqs
<1>7. \A n : n \in OwnSeqs(t, k) => NewestAt(k, b, n)'
  <2> SUFFICES ASSUME NEW n \in OwnSeqs(t, k) PROVE NewestAt(k, b, n)'
    BY Zenon
  <2>1. PICK g : g = global_ts
    BY Zenon
  <2>2. Shows(k, n, g)' /\ g <= b
    <3>1. g <= b
      BY <1>0, <1>3, <2>1
    <3> QED
      BY Zenon, <1>4, <2>1, <3>1
  <2>3. ASSUME NEW j, NEW r, Shows(k, j, r)'
        PROVE  r <= g
    <3>0. Shows(k, j, r)' <=> (Shows(k, j, r) \/ (r = global_ts /\ j \in OwnSeqs(t, k)))
      BY Zenon, <1>4
    <3>1. Shows(k, j, r) \/ r = global_ts
      BY Zenon, <2>3, <3>0
    <3>2. (r \in Nat /\ r < global_ts) \/ r = global_ts
      BY Zenon, <1>5, <3>1
    <3> QED
      BY <1>0, <2>1, <3>2
  <2> QED
    BY Zenon, <2>2, <2>3 DEF NewestAt, TopAt
<1>8. \A n : NewestAt(k, b, n)' => n \in OwnSeqs(t, k)
  <2> SUFFICES ASSUME NEW n, NewestAt(k, b, n)' PROVE n \in OwnSeqs(t, k)
    BY Zenon
  <2>1. PICK s : /\ Shows(k, n, s)' /\ \A j, r : Shows(k, j, r)' /\ r <= b => r <= s
    BY Zenon DEF NewestAt, TopAt
  <2>2. PICK g : g = global_ts
    BY Zenon
  <2>3. global_ts <= s
    <3>1. Shows(k, m, g)' /\ g <= b
      <4>1. g <= b
        BY <1>0, <1>3, <2>2
      <4> QED
        BY Zenon, <1>4, <1>6, <2>2, <4>1
    <3> QED
      BY Zenon, <2>1, <2>2, <3>1
  <2>4. ~Shows(k, n, s)
    BY <1>0, <1>5, <2>3
  <2> QED
    BY Zenon, <1>4, <2>1, <2>4
<1>9. \A n : n \in StoreMap'[k] <=> n \in OwnSeqs(t, k)
  BY Zenon, <1>1, <1>3, <1>7, <1>8, StoreIsNext
<1>10. StoreMap'[k] = {v.seq : v \in {w \in CommittedIn(k)' :
                         \A x \in CommittedIn(k)' : CommitTsOf(x)' <= CommitTsOf(w)'}}
  BY Zenon, <1>1 DEF StoreMap
<1> QED
  BY Zenon, <1>9, <1>10 DEF OwnSeqs

LEMMA CommitStep ==
  ASSUME IInv, IInv', OrderInv, GCInv, [Next]_vars, NEW t \in Txn, Validate(t)
  PROVE  SI!ACommit(t)
<1>0. /\ txns \in [Txn -> Transaction] /\ pc \in [Txn -> PcValues] /\ global_ts \in Nat
  BY Zenon DEF IInv, TypeOK
<1>1. /\ pc[t] = "lock" /\ pc' = [pc EXCEPT ![t] = "mark"]
      /\ txns' = [txns EXCEPT ![t].commit_ts = global_ts]
  BY Zenon DEF Validate, Goto
<1>2. pc'[t] = "mark" /\ txns'[t].commit_ts = global_ts /\ global_ts # NoTs
  BY <1>0, <1>1 DEF Transaction, NoTs
<1>3. Running(t) /\ ~Running(t)' /\ pc'[t] # "idle" /\ HasCommitted(t)' /\ InFlight(t)
  BY Zenon, <1>1, <1>2 DEF Running, HasCommitted, InFlight
<1>4. SI!End(t, "committed")
  BY Zenon, <1>3, EndStep DEF Continue
<1>5. \A k \in Key : /\ PendingMap[t][k] = OwnSeqs(t, k)
                     /\ SnapMap[t][k] = SnapshotSeq(t, k)
                     /\ OwnSeqs(t, k) # {} <=> k \in txns[t].write_set
  <2>1. \A k \in Key : PendingMap[t][k] = OwnSeqs(t, k) /\ SnapMap[t][k] = SnapshotSeq(t, k)
    BY Zenon, <1>3 DEF PendingMap, SnapMap, OwnSeqs
  <2>2. \A k \in Key : Own(t, k) # {} <=> k \in txns[t].write_set
    <3>1. \A k \in Key : \A v \in Own(t, k) : k \in txns[t].write_set
      BY Zenon DEF Own, OrderInv, SeqInv
    <3> QED
      BY Zenon, <1>3, <3>1 DEF IInv, PendingInv
  <2>3. \A k \in Key : OwnSeqs(t, k) # {} <=> Own(t, k) # {}
    BY Zenon DEF OwnSeqs
  <2> QED
    BY Zenon, <2>1, <2>2, <2>3
<1>6. \A k \in Key : PendingMap[t][k] # {} => StoreMap[k] = SnapMap[t][k]
  BY Zenon, <1>5, CommitCurrent
<1>7. \A u \in Txn : Validate(u) => u = t
  BY Zenon, <1>0, <1>1 DEF Validate, Goto
<1>8. \A k \in Key : StoreMap'[k] = IF PendingMap[t][k] = {} THEN StoreMap[k] ELSE PendingMap[t][k]
  <2> SUFFICES ASSUME NEW k \in Key
               PROVE  StoreMap'[k] = IF PendingMap[t][k] = {} THEN StoreMap[k]
                                     ELSE PendingMap[t][k]
    BY Zenon
  <2>1. CASE k \in txns[t].write_set
    <3>1. StoreMap'[k] = OwnSeqs(t, k)
      BY Zenon, <2>1, CommitStores
    <3> QED
      BY Zenon, <1>5, <2>1, <3>1
  <2>2. CASE k \notin txns[t].write_set
    <3>1. StoreMap'[k] = StoreMap[k]
      BY Zenon, <1>7, <2>2, StoreStep
    <3> QED
      BY Zenon, <1>5, <2>2, <3>1
  <2> QED
    BY Zenon, <2>1, <2>2
<1>9. StoreMap' = [k \in Key |-> IF PendingMap[t][k] = {} THEN StoreMap[k] ELSE PendingMap[t][k]]
  <2>1. StoreMap' = [k \in Key |-> StoreMap'[k]]
    BY Zenon DEF StoreMap
  <2> QED
    BY Zenon, <1>8, <2>1
<1> QED
  BY Zenon, <1>4, <1>6, <1>9 DEF SI!ACommit, SI!NoWrite

LEMMA AbortStep ==
  ASSUME IInv, IInv', OrderInv, GCInv, [Next]_vars, NEW t \in Txn, Abort(t) \/ Reject(t)
  PROVE  SI!AAbort(t)
<1>0. /\ txns \in [Txn -> Transaction] /\ pc \in [Txn -> PcValues] /\ global_ts \in Nat
  BY Zenon DEF IInv, TypeOK
<1>1. /\ pc[t] \in {"active", "lock"} /\ pc' = [pc EXCEPT ![t] = "unlink"]
      /\ txns' = txns /\ global_ts' = global_ts
  BY Zenon DEF Abort, Reject, Goto
<1>2. pc'[t] = "unlink"
  BY Zenon, <1>0, <1>1
<1>3. Running(t) /\ ~Running(t)' /\ pc'[t] # "idle"
  BY Zenon, <1>1, <1>2 DEF Running
<1>4. ~HasCommitted(t)'
  BY Zenon, <1>1 DEF IInv, PcInv, Done, HasCommitted
<1>5. SI!End(t, "aborted")
  BY Zenon, <1>3, <1>4, EndStep DEF Invoke, Continue
<1>6. \A u \in Txn : ~Validate(u)
  BY <1>0, <1>1 DEF Validate
<1> QED
  BY Zenon, <1>5, <1>6, StoreUnchanged DEF SI!AAbort, StoreSame

LEMMA InitRefines == Init => SI!AInit
<1> SUFFICES ASSUME Init PROVE SI!AInit
  BY Zenon
<1>0. IInv
  BY Zenon, InitIInv
<1>1. ASSUME NEW k \in Key
      PROVE  StoreMap[k] = {} \/ StoreMap[k] = {k}
  <2>1. table[k] = {} \/ table[k] = {LoadedVersion(k)}
    BY Zenon DEF Init
  <2>2. LoadedVersion(k).seq = k
    BY Zenon DEF LoadedVersion
  <2>3. StoreMap[k] = {v.seq : v \in {w \in CommittedIn(k) :
                        \A x \in CommittedIn(k) : CommitTsOf(x) <= CommitTsOf(w)}}
    BY Zenon DEF StoreMap
  <2>4. \A n \in StoreMap[k] : table[k] # {} /\ n = k
    BY Zenon, <2>1, <2>2, <2>3 DEF CommittedIn
  <2> QED
    BY Zenon, <2>4
<1>2. \A k \in Key : k \in Nat
  BY DEF Key
<1>3. StoreMap \in [Key -> SUBSET Nat]
  <2>1. StoreMap = [k \in Key |-> StoreMap[k]]
    BY Zenon DEF StoreMap
  <2>2. \A k \in Key : StoreMap[k] \in SUBSET Nat
    BY Zenon, <1>1, <1>2
  <2> QED
    BY Zenon, <2>1, <2>2
<1>4. \A k \in Key : StoreMap[k] = {} \/ SI!IsWrite(StoreMap[k])
  BY Zenon, <1>1, <1>2 DEF SI!IsWrite
<1>5. \A t \in Txn : pc[t] = "idle" /\ ~Running(t)
  BY Zenon DEF Init, Running
<1>6. StatusMap = [t \in Txn |-> "idle"]
  <2>1. \A t \in Txn : StatusMap[t] = "idle"
    BY Zenon, <1>0, <1>5, StatusHolds DEF StatusIs
  <2> QED
    BY Zenon, <2>1, StatusShape
<1>7. /\ SnapMap = [t \in Txn |-> [k \in Key |-> {}]]
      /\ PendingMap = [t \in Txn |-> [k \in Key |-> {}]]
  BY Zenon, <1>5 DEF SnapMap, PendingMap
<1> QED
  BY Zenon, <1>3, <1>4, <1>6, <1>7 DEF SI!AInit, SI!Nothing, SI!NoWrite

\* Every step of the store is a step of the abstract specification or leaves the
\* abstract state alone.
LEMMA NextRefines ==
  ASSUME IInv, IInv', OrderInv, GCInv, [Next]_vars
  PROVE  SI!ANext \/ Stutters
<1>1. ASSUME GC \/ UNCHANGED vars
      PROVE  Stutters
  <2>1. \A t \in Txn : ~Validate(t)
    <3> SUFFICES ASSUME NEW t \in Txn, Validate(t) PROVE FALSE
      BY Zenon
    <3>1. global_ts' = global_ts + 1
      BY Zenon DEF Validate
    <3>2. global_ts' = global_ts
      BY Zenon, <1>1 DEF GC, GCCollect, GCLockTable, GCSweep, vars
    <3> QED
      BY <3>1, <3>2 DEF IInv, TypeOK
  <2> QED
    BY Zenon, <1>1, <2>1, GCRecords, StoreUnchanged, AllSame
<1>2. ASSUME NEW t \in Txn, Invoke(t) \/ Continue(t)
      PROVE  SI!ANext \/ Stutters
  <2>1. ASSUME NEW level \in Levels, Begin(t, level)
        PROVE  SI!ANext
    BY Zenon, <2>1, BeginStep DEF SI!ANext
  <2>2. CASE Push(t)
    BY Zenon, <2>2, PushStep DEF SI!ANext
  <2>3. CASE Validate(t)
    BY Zenon, <2>3, CommitStep DEF SI!ANext
  <2>4. CASE Abort(t) \/ Reject(t)
    BY Zenon, <2>4, AbortStep DEF SI!ANext
  <2>5. CASE \/ Register(t) \/ GetOrCreateChain(t) \/ Commit(t) \/ Mark(t) \/ Erase(t)
             \/ \E k \in Key : \/ Read(t, k) \/ Write(t, k) \/ Delete(t, k)
                               \/ FindChain(t, k) \/ LockChain(t, k) \/ Unlink(t, k)
    BY Zenon, <2>5, HiddenSteps
  <2> QED
    BY Zenon, <1>2, <2>1, <2>2, <2>3, <2>4, <2>5 DEF Invoke, Continue
<1> QED
  BY Zenon, <1>1, <1>2 DEF Next, Finished

LEMMA Histories ==
  Spec /\ []Quiet => [](IInv /\ OrderInv /\ GCInv)
<1>1. Init => IInv /\ OrderInv /\ GCInv
  BY Zenon, InitIInv, InitOrder, InitGC
<1>2. IInv /\ OrderInv /\ GCInv /\ Quiet' /\ [Next]_vars => (IInv /\ OrderInv /\ GCInv)'
  BY Zenon, NextIInv, NextOrder, GCStep
<1> QED
  BY <1>1, <1>2, PTL DEF Spec

\* The store implements snapshot isolation as long as no Begin is half way
\* through while RunGarbageCollection runs: snapshots are those of the moment of
\* Begin, commits are atomic, the first committer wins.
THEOREM StoreImplementsSI == Spec /\ []Quiet => ImplementsSnapshotIsolation
<1>1. IInv /\ OrderInv /\ GCInv /\ IInv' /\ [Next]_vars => [SI!ANext]_(SI!avars)
  BY Zenon, NextRefines DEF Stutters, SI!avars
<1> QED
  BY <1>1, Histories, InitRefines, PTL DEF Spec, ImplementsSnapshotIsolation, SI!ASpec

\* Under the same condition the snapshot of an active transaction never changes:
\* the collector of RunGarbageCollection removes no version a snapshot resolves to.
THEOREM SnapshotsAreStable == Spec /\ []Quiet => SnapshotStable
<1>1. IInv /\ OrderInv /\ GCInv /\ [Next]_vars =>
        [\A t \in Txn, k \in Key :
           pc[t] = "active" /\ pc'[t] = "active" => SnapshotSeq(t, k)' = SnapshotSeq(t, k)]_vars
  <2>1. \A t \in Txn : pc[t] = "active" => Running(t)
    BY Zenon DEF Running
  <2> QED
    BY Zenon, <2>1, SnapshotStep
<1> QED
  BY <1>1, Histories, PTL DEF Spec, SnapshotStable
============================================================================
