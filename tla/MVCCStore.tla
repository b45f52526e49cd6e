----------------------------- MODULE MVCCStore -----------------------------
(***************************************************************************)
(* The multi-version store of src/src/mvcc/mvcc_store.{h,cpp}.             *)
(*                                                                         *)
(* One process per transaction (the class's contract: one thread drives a  *)
(* txn_id) and one garbage collector.  A step is what the code does        *)
(* between two synchronisation points: an atomic fetch_add, a shard mutex, *)
(* the table's shared_mutex, or a chain mutex.                             *)
(*                                                                         *)
(* A value is never written down: the sequence number drawn by the write   *)
(* identifies it.  A chain is a set of versions, since no operation looks  *)
(* at the order of the list.                                               *)
(***************************************************************************)
EXTENDS Integers, FiniteSets

CONSTANTS
  TxnCount,     \* transaction ids are 1 .. TxnCount, each begun at most once
  MaxKey,       \* keys are 1 .. MaxKey
  Levels,       \* isolation levels the clients ask for
  Calls,        \* which of Read, Write, Delete and Abort the clients call
  MaxOps,       \* bound: Read, Write and Delete calls per transaction
  MaxGC,        \* bound: calls of RunGarbageCollection
  ShardCount,   \* kTxnShardCount
  Preloaded     \* the keys that a loader wrote before the run starts

ReadUncommitted == "READ_UNCOMMITTED"
ReadCommitted == "READ_COMMITTED"
Snapshot == "SNAPSHOT"
Serializable == "SERIALIZABLE_SNAPSHOT"
IsolationLevels == {ReadUncommitted, ReadCommitted, Snapshot, Serializable}

ASSUME ConstantsAssumption ==
  /\ TxnCount \in Nat /\ MaxKey \in Nat /\ MaxOps \in Nat /\ MaxGC \in Nat
  /\ ShardCount \in Nat \ {0}
  /\ Levels \subseteq IsolationLevels
  /\ Calls \subseteq {"Read", "Write", "Delete", "Abort"}
  /\ Preloaded \subseteq 1 .. MaxKey

Txn == 1 .. TxnCount
Key == 1 .. MaxKey
Loader == 0                    \* the transaction that preloaded the keys
Free == -1                     \* owner of an unlocked chain mutex
NoTs == -1                     \* commit_ts of a version not committed yet
SnapshotLevels == {Snapshot, Serializable}

Version == [txn : Txn \cup {Loader}, seq : Nat, commit_ts : Nat \cup {NoTs},
            deleted : BOOLEAN]
Transaction == [isolation : IsolationLevels, start_ts : Nat,
                commit_ts : Nat \cup {NoTs},
                write_set : SUBSET Key, read_set : SUBSET Key]

VARIABLES
  global_ts,    \* the counter behind start, sequence and commit numbers
  chained,      \* keys that have a VersionChain in table_
  table,        \* the versions of each key's chain
  mutex,        \* owner of each chain's mutex between steps
  txns,         \* the Transaction object of each id
  registered,   \* ids present in txn_shards_
  pc,           \* where each transaction's thread is
  arg,          \* key and deleted flag of the WriteInternal in progress
  chains,       \* Commit: keys still to look up, and keys whose chain it holds
  ops,          \* calls made so far
  gc,           \* the garbage collector's locals
  gc_runs       \* calls of RunGarbageCollection so far

vars == <<global_ts, chained, table, mutex, txns, registered, pc, arg, chains,
          ops, gc, gc_runs>>

PcValues == {"idle", "begin", "active", "chain", "push", "lock", "mark",
             "unlink", "erase", "committed", "aborted"}

----------------------------------------------------------------------------
(* What an operation sees of a chain. *)

Committed(v) == v.commit_ts # NoTs

Own(t, k) == {v \in table[k] : v.txn = t /\ ~Committed(v)}

IsVisible(v, t) ==
  txns[t].isolation \in SnapshotLevels => v.commit_ts <= txns[t].start_ts

CommittedVisible(t, k) == {v \in table[k] : Committed(v) /\ IsVisible(v, t)}

NewestBySeq(S) == {v \in S : \A w \in S : w.seq <= v.seq}
NewestByCommit(S) == {v \in S : \A w \in S : w.commit_ts <= v.commit_ts}

\* The version Read resolves to, as a set with at most one element.
ReadVersion(t, k) ==
  CASE Own(t, k) # {} -> Own(t, k)
    [] Own(t, k) = {} /\ txns[t].isolation = ReadUncommitted
         -> NewestBySeq(table[k])
    [] OTHER -> NewestByCommit(CommittedVisible(t, k))

----------------------------------------------------------------------------
LoadedVersion(k) == [txn |-> Loader, seq |-> k, commit_ts |-> MaxKey + 1,
                     deleted |-> FALSE]

NoTransaction == [isolation |-> Snapshot, start_ts |-> 0, commit_ts |-> NoTs,
                  write_set |-> {}, read_set |-> {}]

NoGC == [pc |-> "idle", shard |-> 0, starts |-> {}, todo |-> {}]
NoChains == [todo |-> {}, found |-> {}]
NoArg == [key |-> 0, deleted |-> FALSE]

Init ==
  /\ global_ts = IF Preloaded # {} THEN MaxKey + 2 ELSE 0
  /\ chained = Preloaded
  /\ table = [k \in Key |-> IF k \in Preloaded THEN {LoadedVersion(k)} ELSE {}]
  /\ mutex = [k \in Key |-> Free]
  /\ txns = [t \in Txn |-> NoTransaction]
  /\ registered = {}
  /\ pc = [t \in Txn |-> "idle"]
  /\ arg = [t \in Txn |-> NoArg]
  /\ chains = [t \in Txn |-> NoChains]
  /\ ops = [t \in Txn |-> 0]
  /\ gc = NoGC
  /\ gc_runs = 0

Goto(t, from, to) == pc[t] = from /\ pc' = [pc EXCEPT ![t] = to]

----------------------------------------------------------------------------
(* Begin: the start timestamp is drawn before the shard mutex is taken. *)

Begin(t, level) ==
  /\ Goto(t, "idle", "begin")
  /\ txns' = [txns EXCEPT ![t].isolation = level, ![t].start_ts = global_ts]
  /\ global_ts' = global_ts + 1
  /\ UNCHANGED <<chained, table, mutex, registered, arg, chains, ops, gc,
                 gc_runs>>

Register(t) ==
  /\ Goto(t, "begin", "active")
  /\ registered' = registered \cup {t}
  /\ UNCHANGED <<global_ts, chained, table, mutex, txns, arg, chains, ops, gc,
                 gc_runs>>

----------------------------------------------------------------------------
(* Read, Write, Delete.  The chain lookup of Read needs no step of its     *)
(* own: chains are never removed, so a null lookup is a read of an empty   *)
(* chain and any other lookup is followed by the locked evaluation.        *)

Call(t, name) ==
  /\ name \in Calls /\ ops[t] < MaxOps
  /\ ops' = [ops EXCEPT ![t] = @ + 1]

Read(t, k) ==
  /\ Goto(t, "active", "active")
  /\ Call(t, "Read")
  /\ mutex[k] = Free
  /\ txns' = [txns EXCEPT ![t].read_set = @ \cup {k}]
  /\ UNCHANGED <<global_ts, chained, table, mutex, registered, arg, chains, gc,
                 gc_runs>>

\* Creating a chain takes table_mutex_ exclusively; a sweep holds it shared.
CanChain(k) == k \in chained \/ gc.pc # "sweep"

Write(t, k) ==
  /\ Goto(t, "active", "push")
  /\ Call(t, "Write")
  /\ CanChain(k)
  /\ chained' = chained \cup {k}
  /\ arg' = [arg EXCEPT ![t] = [key |-> k, deleted |-> FALSE]]
  /\ UNCHANGED <<global_ts, table, mutex, txns, registered, chains, gc, gc_runs>>

\* Delete first reads the key, then writes a tombstone.
Delete(t, k) ==
  /\ Goto(t, "active", "chain")
  /\ Call(t, "Delete")
  /\ mutex[k] = Free
  /\ txns' = [txns EXCEPT ![t].read_set = @ \cup {k}]
  /\ arg' = [arg EXCEPT ![t] = [key |-> k, deleted |-> TRUE]]
  /\ UNCHANGED <<global_ts, chained, table, mutex, registered, chains, gc,
                 gc_runs>>

GetOrCreateChain(t) ==
  /\ Goto(t, "chain", "push")
  /\ CanChain(arg[t].key)
  /\ chained' = chained \cup {arg[t].key}
  /\ UNCHANGED <<global_ts, table, mutex, txns, registered, arg, chains, ops,
                 gc, gc_runs>>

\* WriteInternal under the chain mutex: replace the own pending version or
\* push a new one.
Push(t) ==
  LET k == arg[t].key
      new == [txn |-> t, seq |-> global_ts, commit_ts |-> NoTs,
              deleted |-> arg[t].deleted]
  IN /\ Goto(t, "push", "active")
     /\ mutex[k] = Free
     /\ table' = [table EXCEPT ![k] = (@ \ Own(t, k)) \cup {new}]
     /\ txns' = [txns EXCEPT ![t].write_set = @ \cup {k}]
     /\ global_ts' = global_ts + 1
     /\ arg' = [arg EXCEPT ![t] = NoArg]
     /\ UNCHANGED <<chained, mutex, registered, chains, ops, gc, gc_runs>>

----------------------------------------------------------------------------
(* Commit. *)

\* Mutation of CheckKeys: no level validates its reads.
CheckKeys_WritesOnly(t) == txns[t].write_set

CheckKeys(t) ==
  txns[t].write_set
    \cup (IF txns[t].isolation = Serializable THEN txns[t].read_set ELSE {})

IsFirst(k, S) == k \in S /\ \A j \in S : k <= j

Commit(t) ==
  /\ Goto(t, "active", "lock")
  /\ chains' = [chains EXCEPT ![t].todo = CheckKeys(t)]
  /\ UNCHANGED <<global_ts, chained, table, mutex, txns, registered, arg, ops,
                 gc, gc_runs>>

\* One chain lookup per key, in key order; a key without a chain is skipped.
FindChain(t, k) ==
  /\ pc[t] = "lock"
  /\ IsFirst(k, chains[t].todo)
  /\ chains' = [chains EXCEPT ![t].todo = @ \ {k},
                              ![t].found = @ \cup ({k} \cap chained)]
  /\ UNCHANGED <<global_ts, chained, table, mutex, txns, registered, pc, arg,
                 ops, gc, gc_runs>>

Unlocked(t) == {k \in chains[t].found : mutex[k] # t}

\* Mutation of LockChain: the mutexes are taken in any order.
LockChain_AnyOrder(t, k) ==
  /\ pc[t] = "lock" /\ chains[t].todo = {}
  /\ k \in Unlocked(t)
  /\ mutex[k] = Free
  /\ mutex' = [mutex EXCEPT ![k] = t]
  /\ UNCHANGED <<global_ts, chained, table, txns, registered, pc, arg, chains,
                 ops, gc, gc_runs>>

\* Only after all lookups are the mutexes taken, again in key order.
LockChain(t, k) ==
  /\ pc[t] = "lock" /\ chains[t].todo = {}
  /\ IsFirst(k, Unlocked(t))
  /\ mutex[k] = Free
  /\ mutex' = [mutex EXCEPT ![k] = t]
  /\ UNCHANGED <<global_ts, chained, table, txns, registered, pc, arg, chains,
                 ops, gc, gc_runs>>

\* Mutation of AllLocked: Commit validates without waiting for the locks.
AllLocked_NotAwaited(t) == chains[t].todo = {}

AllLocked(t) == chains[t].todo = {} /\ Unlocked(t) = {}

\* Mutation of Conflict: a write older than the snapshot is taken for a commit
\* older than it.
Conflict_BySeq(t) ==
  \E k \in chains[t].found : \E v \in table[k] :
    Committed(v) /\ v.txn # t /\ v.seq > txns[t].start_ts

Conflict(t) ==
  \E k \in chains[t].found : \E v \in table[k] :
    Committed(v) /\ v.txn # t /\ v.commit_ts > txns[t].start_ts

Released(t) == [k \in Key |-> IF mutex[k] = t THEN Free ELSE mutex[k]]

\* Mutation of Validate: the locks are released before the versions are marked.
Validate_Unlocks(t) ==
  /\ Goto(t, "lock", "mark")
  /\ AllLocked(t)
  /\ ~Conflict(t)
  /\ txns' = [txns EXCEPT ![t].commit_ts = global_ts]
  /\ global_ts' = global_ts + 1
  /\ mutex' = Released(t)
  /\ UNCHANGED <<chained, table, registered, arg, chains, ops, gc, gc_runs>>

\* All locks held, no conflict: the commit timestamp is drawn.
Validate(t) ==
  /\ Goto(t, "lock", "mark")
  /\ AllLocked(t)
  /\ ~Conflict(t)
  /\ txns' = [txns EXCEPT ![t].commit_ts = global_ts]
  /\ global_ts' = global_ts + 1
  /\ UNCHANGED <<chained, table, mutex, registered, arg, chains, ops, gc,
                 gc_runs>>

Reject(t) ==
  /\ Goto(t, "lock", "unlink")
  /\ AllLocked(t)
  /\ Conflict(t)
  /\ mutex' = Released(t)
  /\ chains' = [chains EXCEPT ![t] = NoChains]
  /\ UNCHANGED <<global_ts, chained, table, txns, registered, arg, ops, gc,
                 gc_runs>>

Marked(v, t) ==
  IF v.txn = t THEN [v EXCEPT !.commit_ts = txns[t].commit_ts] ELSE v

\* Mutation of Mark: only one of the chains gets its version committed.
Mark_OneChain(t) ==
  /\ Goto(t, "mark", "erase")
  /\ table' = [k \in Key |-> IF IsFirst(k, chains[t].found)
                             THEN {Marked(v, t) : v \in table[k]} ELSE table[k]]
  /\ mutex' = Released(t)
  /\ chains' = [chains EXCEPT ![t] = NoChains]
  /\ UNCHANGED <<global_ts, chained, txns, registered, arg, ops, gc, gc_runs>>

\* Every version the transaction wrote becomes committed, then all locks go.
Mark(t) ==
  /\ Goto(t, "mark", "erase")
  /\ table' = [k \in Key |-> {Marked(v, t) : v \in table[k]}]
  /\ mutex' = Released(t)
  /\ chains' = [chains EXCEPT ![t] = NoChains]
  /\ UNCHANGED <<global_ts, chained, txns, registered, arg, ops, gc, gc_runs>>

\* Abort unregisters first and unlinks the versions afterwards.
Abort(t) ==
  /\ Goto(t, "active", "unlink")
  /\ "Abort" \in Calls
  /\ registered' = registered \ {t}
  /\ UNCHANGED <<global_ts, chained, table, mutex, txns, arg, chains, ops, gc,
                 gc_runs>>

\* AbortInternal: one chain at a time, each under its mutex.
Unlink(t, k) ==
  /\ pc[t] = "unlink"
  /\ Own(t, k) # {}
  /\ mutex[k] = Free
  /\ table' = [table EXCEPT ![k] = @ \ Own(t, k)]
  /\ UNCHANGED <<global_ts, chained, mutex, txns, registered, pc, arg, chains,
                 ops, gc, gc_runs>>

\* Mutation of Erase: Abort returns before all its versions are unlinked.
Erase_Early(t) ==
  /\ pc[t] \in {"erase", "unlink"}
  /\ pc' = [pc EXCEPT ![t] =
              IF txns[t].commit_ts = NoTs THEN "aborted" ELSE "committed"]
  /\ registered' = registered \ {t}
  /\ ops' = [ops EXCEPT ![t] = 0]
  /\ UNCHANGED <<global_ts, chained, table, mutex, txns, arg, chains, gc,
                 gc_runs>>

\* The end of Commit and of Abort: the shard forgets the transaction (Abort
\* has done so already).
Erase(t) ==
  /\ \/ pc[t] = "erase"
     \/ pc[t] = "unlink" /\ \A k \in Key : Own(t, k) = {}
  /\ pc' = [pc EXCEPT ![t] =
              IF txns[t].commit_ts = NoTs THEN "aborted" ELSE "committed"]
  /\ registered' = registered \ {t}
  /\ ops' = [ops EXCEPT ![t] = 0]
  /\ UNCHANGED <<global_ts, chained, table, mutex, txns, arg, chains, gc,
                 gc_runs>>

----------------------------------------------------------------------------
(* RunGarbageCollection: the start timestamps are collected shard by shard, *)
(* then the chains are swept one by one in no particular order.             *)

GCCollect ==
  /\ \/ gc.pc = "idle" /\ gc_runs < MaxGC
     \/ gc.pc = "collect" /\ gc.shard < ShardCount
  /\ gc_runs' = IF gc.pc = "idle" THEN gc_runs + 1 ELSE gc_runs
  /\ gc' = [gc EXCEPT
       !.pc = "collect",
       !.shard = @ + 1,
       !.starts = @ \cup {txns[t].start_ts :
                           t \in {u \in registered : u % ShardCount = gc.shard}}]
  /\ UNCHANGED <<global_ts, chained, table, mutex, txns, registered, pc, arg,
                 chains, ops>>

\* The collector with the chains of keys S left to sweep; with none left it
\* has released table_mutex_ and returned.
Sweeping(S) ==
  IF S = {} THEN NoGC ELSE [gc EXCEPT !.pc = "sweep", !.todo = S]

GCLockTable ==
  /\ gc.pc = "collect" /\ gc.shard = ShardCount
  /\ gc' = Sweeping(chained)
  /\ UNCHANGED <<global_ts, chained, table, mutex, txns, registered, pc, arg,
                 chains, ops, gc_runs>>

\* Mutations of Reclaimable: the newest version may go too; only the newest
\* version is kept, whoever still reads an older one.
Reclaimable_Newest(v, k) ==
  LET newer == {w \in table[k] : Committed(w) /\ w.commit_ts > v.commit_ts}
  IN /\ Committed(v)
     /\ \A s \in gc.starts :
          s >= v.commit_ts => \E w \in newer : s >= w.commit_ts
Reclaimable_AnyNewer(v, k) ==
  Committed(v) /\ \E w \in table[k] : Committed(w) /\ w.commit_ts > v.commit_ts

\* v is reclaimable: some newer version is committed, and no collected start
\* lies between v and the next committed version.
Reclaimable(v, k) ==
  LET newer == {w \in table[k] : Committed(w) /\ w.commit_ts > v.commit_ts}
  IN /\ Committed(v)
     /\ newer # {}
     /\ \A s \in gc.starts :
          s >= v.commit_ts => \E w \in newer : s >= w.commit_ts

GCSweep(k) ==
  /\ gc.pc = "sweep" /\ k \in gc.todo
  /\ mutex[k] = Free
  /\ table' = [table EXCEPT ![k] = {v \in @ : ~Reclaimable(v, k)}]
  /\ gc' = Sweeping(gc.todo \ {k})
  /\ UNCHANGED <<global_ts, chained, mutex, txns, registered, pc, arg, chains,
                 ops, gc_runs>>

----------------------------------------------------------------------------
\* The steps a thread takes on its own once a call has been made.
Continue(t) ==
  \/ Register(t) \/ GetOrCreateChain(t) \/ Push(t)
  \/ \E k \in Key : FindChain(t, k) \/ LockChain(t, k) \/ Unlink(t, k)
  \/ Validate(t) \/ Reject(t) \/ Mark(t) \/ Erase(t)

\* The calls a client may make.
Invoke(t) ==
  \/ \E level \in Levels : Begin(t, level)
  \/ \E k \in Key : Read(t, k) \/ Write(t, k) \/ Delete(t, k)
  \/ Commit(t) \/ Abort(t)

GC == GCCollect \/ GCLockTable \/ \E k \in Key : GCSweep(k)

\* Every transaction ended and the collector is idle: nothing left to do.
Finished ==
  /\ \A t \in Txn : pc[t] \in {"committed", "aborted"}
  /\ gc.pc = "idle" /\ gc_runs = MaxGC
  /\ UNCHANGED vars

Next ==
  \/ \E t \in Txn : Invoke(t) \/ Continue(t)
  \/ GC
  \/ Finished

Spec == Init /\ [][Next]_vars

\* A thread inside a call is scheduled and its mutexes are granted: no step of
\* the code waits for a client.
Fairness == (\A t \in Txn : WF_vars(Continue(t))) /\ WF_vars(gc.pc # "idle" /\ GC)

FairSpec == Spec /\ Fairness

----------------------------------------------------------------------------
(* Properties. *)

\* The types of the fields, and the facts about ids they carry.
TypeOK ==
  /\ global_ts \in Nat
  /\ chained \subseteq Key
  /\ table \in [Key -> SUBSET Version]
  /\ mutex \in [Key -> Txn \cup {Free}]
  /\ txns \in [Txn -> Transaction]
  /\ registered \subseteq Txn
  /\ pc \in [Txn -> PcValues]
  /\ arg \in [Txn -> [key : Key \cup {0}, deleted : BOOLEAN]]
  /\ chains \in [Txn -> [todo : SUBSET Key, found : SUBSET Key]]
  /\ ops \in [Txn -> Nat]
  /\ gc \in [pc : {"idle", "collect", "sweep"}, shard : Nat,
             starts : SUBSET Nat, todo : SUBSET Key]
  /\ gc_runs \in Nat

HasCommitted(t) == txns[t].commit_ts # NoTs

\* No lost update: of two transactions that wrote the same key, one committed
\* before the other began (the conflict check of Commit, at every level,
\* whatever the interleaving of commits and garbage collection).
FirstCommitterWins ==
  \A t, u \in Txn :
    /\ t # u /\ HasCommitted(t) /\ HasCommitted(u)
    /\ txns[t].write_set \cap txns[u].write_set # {}
    => \/ txns[t].commit_ts < txns[u].start_ts
       \/ txns[u].commit_ts < txns[t].start_ts

\* READ_UNCOMMITTED picks versions by seq, every other level by commit_ts; on
\* the committed versions of a chain the two orders are the same one.
WriteOrderIsCommitOrder ==
  \A k \in Key : \A v, w \in table[k] :
    Committed(v) /\ Committed(w) =>
      (v.seq < w.seq <=> v.commit_ts < w.commit_ts)

\* A pending version is always one its transaction can still commit or unlink:
\* neither a finished Commit nor a finished Abort leaves one behind.
PendingHasOwner ==
  \A k \in Key : \A v \in table[k] :
    ~Committed(v) =>
      /\ pc[v.txn] \in PcValues \ {"idle", "begin", "erase", "committed",
                                   "aborted"}
      /\ k \in txns[v.txn].write_set

\* A committed SERIALIZABLE_SNAPSHOT transaction read no value, or tombstone,
\* that another transaction overwrote between its start and its commit (the
\* read-set half of the conflict check).  Keys nobody had written are left
\* out: NoWriteSkew is about them.
SerializableReadsCurrent ==
  \A t, u \in Txn :
    /\ t # u /\ HasCommitted(t) /\ HasCommitted(u)
    /\ txns[t].isolation = Serializable
    /\ \E k \in txns[t].read_set \cap txns[u].write_set :
         \E v \in table[k] : Committed(v) /\ v.commit_ts < txns[t].start_ts
    => \/ txns[u].commit_ts < txns[t].start_ts
       \/ txns[t].commit_ts < txns[u].commit_ts

\* Write skew: two concurrent transactions, each reading what the other writes.
\* SERIALIZABLE_SNAPSHOT is documented to prevent it.
NoWriteSkew ==
  \A t, u \in Txn :
    /\ t # u /\ HasCommitted(t) /\ HasCommitted(u)
    /\ txns[t].isolation = Serializable /\ txns[u].isolation = Serializable
    /\ txns[t].read_set \cap txns[u].write_set # {}
    /\ txns[u].read_set \cap txns[t].write_set # {}
    => \/ txns[t].commit_ts < txns[u].start_ts
       \/ txns[u].commit_ts < txns[t].start_ts

\* What a chain says has been committed last never goes back: garbage
\* collection keeps the newest committed version and Abort erases only
\* pending ones.  The conflict check is blind without it.
LatestCommittedKept ==
  [][\A k \in Key : \A v \in table[k] :
       Committed(v) => \E w \in table'[k] :
                         w.commit_ts # NoTs /\ w.commit_ts >= v.commit_ts]_vars

\* The version of k in the snapshot of t; commits that have drawn their
\* timestamp but still hold the locks count.
CommitTsOf(v) ==
  IF Committed(v) THEN v.commit_ts
  ELSE IF v.txn \in Txn /\ pc[v.txn] = "mark" THEN txns[v.txn].commit_ts
  ELSE NoTs
InSnapshot(t, k) ==
  {v \in table[k] : CommitTsOf(v) # NoTs /\ CommitTsOf(v) <= txns[t].start_ts}
SnapshotSeq(t, k) ==
  {v.seq : v \in {w \in InSnapshot(t, k) :
                    \A x \in InSnapshot(t, k) : CommitTsOf(x) <= CommitTsOf(w)}}

\* The snapshot of a transaction that may still read never changes under it:
\* garbage collection removes only versions no active snapshot resolves to.
SnapshotStable ==
  [][\A t \in Txn, k \in Key :
       pc[t] = "active" /\ pc'[t] = "active"
         => SnapshotSeq(t, k)' = SnapshotSeq(t, k)]_vars

InCall(t) == pc[t] \notin {"idle", "active", "committed", "aborted"}

\* Every call returns: commits that lock overlapping chains, the aborts of those
\* that lose and writers that create chains never wait for one another in a cycle.
CallsReturn == \A t \in Txn : InCall(t) ~> ~InCall(t)
============================================================================
