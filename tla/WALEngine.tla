----------------------------- MODULE WALEngine -----------------------------
(***************************************************************************)
(* The logging engine of src/src/wal/wal_b_plus_tree_engine.{h,cpp}:       *)
(* transactions, live abort, sharp checkpoints, and the three passes of    *)
(* restart recovery, with a crash possible between any two writes to the   *)
(* log, to the tree or to the files.                                       *)
(*                                                                         *)
(* mutex_ serialises the calls, so the concurrency is that of open         *)
(* transactions with each other, with page eviction and with crashes.  The *)
(* B+-tree is a map from keys to values; its pages are given as sets of    *)
(* keys (Pages), so an eviction or a flush writes the keys of one page.    *)
(* LSNs start at 1 and 0 is the code's -1.                                 *)
(***************************************************************************)
EXTENDS Integers, Sequences, FiniteSets, FiniteSetsExt

CONSTANTS
  Key, Value,
  Absent,               \* no value: the key is not in the tree
  Pages,                \* the keys of each leaf page
  Calls,                \* which of Delete, Commit and Abort the clients call
  CheckpointInterval,   \* checkpoint_interval_txns_
  PowerLoss,            \* TRUE: a crash may also lose what was never fsynced
  MaxTxns,              \* bound: transactions begun per restart
  MaxLog,               \* bound: log length at which clients stop
  MaxCrashes            \* bound: crashes

ASSUME ConstantsAssumption ==
  /\ Absent \notin Value
  /\ UNION Pages = Key
  /\ \A p, q \in Pages : p = q \/ p \cap q = {}
  /\ Calls \subseteq {"Delete", "Commit", "Abort"}
  /\ CheckpointInterval \in Nat /\ PowerLoss \in BOOLEAN
  /\ MaxTxns \in Nat /\ MaxLog \in Nat /\ MaxCrashes \in Nat

VARIABLES
  log,      \* the records appended to the .wal file
  synced,   \* length of the log at the last fsync
  tree,     \* the tree as the buffer pool shows it
  disk,     \* the tree in the database file
  meta,     \* last_checkpoint_begin_lsn in the database file
  stable,   \* the versions before the last that the device holds: [disk, meta]
  active,   \* active_txns_: last_lsn and undo_log by transaction id
  next_id,  \* next_txn_id_
  since,    \* txns_since_checkpoint_
  pc,       \* where the engine is in the current call or in recovery
  local,    \* the locals of that call
  acked,    \* history: LSN of the last COMMIT a client was told of
  crashes   \* crashes so far

vars == <<log, synced, tree, disk, meta, stable, active, next_id, since, pc,
          local, acked, crashes>>

files == <<disk, meta, stable>>
aux == <<acked, crashes>>

Cell == Value \cup {Absent}
Id == 0 .. MaxTxns - 1

\* The fields of LogRecord a record of each type uses; a PUT carries a value in
\* new, a DELETE carries Absent.  Nothing reads the prev_lsn of a CLR.
Begun(t) == [type |-> "BEGIN", txn |-> t, prev |-> 0]
Update(t, prev, k, old, new) ==
  [type |-> "UPDATE", txn |-> t, prev |-> prev, key |-> k, old |-> old,
   new |-> new]
Clr(t, k, new, undo_next) ==
  [type |-> "CLR", txn |-> t, key |-> k, new |-> new, undo_next |-> undo_next]
Ended(type, t, prev) == [type |-> type, txn |-> t, prev |-> prev]
ActiveTxn(t, last) == [type |-> "ACTIVE_TXN", txn |-> t, last |-> last]
Bracket(type) == [type |-> type]

NoLocal == [txn |-> 0, lsn |-> 0, entries |-> <<>>, pages |-> {}, txns |-> {}]

Init ==
  /\ log = <<>> /\ synced = 0
  /\ tree = [k \in Key |-> Absent] /\ disk = tree /\ meta = 0
  /\ stable = [disk |-> disk, meta |-> 0]
  /\ active = <<>> /\ next_id = 0 /\ since = 0
  /\ pc = "idle" /\ local = NoLocal /\ acked = 0 /\ crashes = 0

\* LogManager::Append writes the record through to the file.
Log(r) == log' = Append(log, r)
Lsn == Len(log) + 1

Open == DOMAIN active

----------------------------------------------------------------------------
(* Transactions. *)

MayLog == pc = "idle" /\ Len(log) < MaxLog

Begin ==
  /\ MayLog /\ next_id < MaxTxns
  /\ Log(Begun(next_id))
  /\ active' = [t \in Open \cup {next_id} |->
                  IF t = next_id THEN [last_lsn |-> Lsn, undo_log |-> <<>>]
                  ELSE active[t]]
  /\ next_id' = next_id + 1
  /\ UNCHANGED <<synced, tree, files, since, pc, local, aux>>

\* Mutation of Change: the undo entry points at the update itself.
Change_SelfLink(t, k, new) ==
  /\ MayLog /\ t \in Open
  /\ new = Absent => tree[k] # Absent /\ "Delete" \in Calls
  /\ Log(Update(t, active[t].last_lsn, k, tree[k], new))
  /\ active' = [active EXCEPT ![t] =
       [last_lsn |-> Lsn,
        undo_log |-> Append(@.undo_log, [key |-> k, old |-> tree[k],
                                         undo_next |-> Lsn])]]
  /\ tree' = [tree EXCEPT ![k] = new]
  /\ UNCHANGED <<synced, files, next_id, since, pc, local, aux>>

\* Put (new is a value) and Delete (new is Absent) of an open transaction.
\* Delete of a key that is not there changes nothing.
Change(t, k, new) ==
  /\ MayLog /\ t \in Open
  /\ new = Absent => tree[k] # Absent /\ "Delete" \in Calls
  /\ Log(Update(t, active[t].last_lsn, k, tree[k], new))
  /\ active' = [active EXCEPT ![t] =
       [last_lsn |-> Lsn,
        undo_log |-> Append(@.undo_log, [key |-> k, old |-> tree[k],
                                         undo_next |-> @.last_lsn])]]
  /\ tree' = [tree EXCEPT ![k] = new]
  /\ UNCHANGED <<synced, files, next_id, since, pc, local, aux>>

Without(t) == [u \in Open \ {t} |-> active[u]]

\* What Commit and Abort do last: count the transaction, maybe checkpoint.
EndTxn ==
  IF since + 1 >= CheckpointInterval
  THEN since' = 0 /\ pc' = "flush" /\ local' = [NoLocal EXCEPT !.pages = Pages]
  ELSE since' = since + 1 /\ pc' = "idle" /\ local' = NoLocal

Commit(t) ==
  /\ MayLog /\ t \in Open /\ "Commit" \in Calls
  /\ Log(Ended("COMMIT", t, active[t].last_lsn))
  /\ pc' = "commit" /\ local' = [NoLocal EXCEPT !.txn = t]
  /\ UNCHANGED <<synced, tree, files, active, next_id, since, aux>>

\* Mutation of CommitFlush: Commit returns without the fsync.
CommitFlush_Unsynced ==
  /\ pc = "commit"
  /\ acked' = Len(log)
  /\ active' = Without(local.txn)
  /\ EndTxn
  /\ UNCHANGED <<log, synced, tree, files, next_id, crashes>>

CommitFlush ==
  /\ pc = "commit"
  /\ synced' = Len(log)
  /\ acked' = Len(log)
  /\ active' = Without(local.txn)
  /\ EndTxn
  /\ UNCHANGED <<log, tree, files, next_id, crashes>>

Abort(t) ==
  /\ MayLog /\ t \in Open /\ "Abort" \in Calls
  /\ Log(Ended("ABORT", t, active[t].last_lsn))
  /\ active' = Without(t)
  /\ pc' = "abort"
  /\ local' = [NoLocal EXCEPT !.txn = t, !.entries = active[t].undo_log]
  /\ UNCHANGED <<synced, tree, files, next_id, since, aux>>

LastEntry == local.entries[Len(local.entries)]

\* Abort applies a compensation to the tree first and logs it afterwards.
AbortApply ==
  /\ pc = "abort" /\ local.entries # <<>>
  /\ tree' = [tree EXCEPT ![LastEntry.key] = LastEntry.old]
  /\ pc' = "abort_clr"
  /\ UNCHANGED <<log, synced, files, active, next_id, since, local, aux>>

AbortLog ==
  /\ pc = "abort_clr"
  /\ Log(Clr(local.txn, LastEntry.key, LastEntry.old, LastEntry.undo_next))
  /\ pc' = "abort"
  /\ local' = [local EXCEPT !.entries = SubSeq(@, 1, Len(@) - 1)]
  /\ UNCHANGED <<synced, tree, files, active, next_id, since, aux>>

AbortFlush ==
  /\ pc = "abort" /\ local.entries = <<>>
  /\ synced' = Len(log)
  /\ EndTxn
  /\ UNCHANGED <<log, tree, files, active, next_id, aux>>

----------------------------------------------------------------------------
(* DoCheckpoint: every page, the bracket of log records, then the pointer   *)
(* in the meta page.                                                        *)

Written(p) == [k \in Key |-> IF k \in p THEN tree[k] ELSE disk[k]]

\* The database file is never fsynced: the version of a page that a write
\* replaces may have reached the device before, or never will.
WritePage(p) ==
  /\ disk' = Written(p)
  /\ \/ UNCHANGED stable
     \/ /\ PowerLoss
        /\ stable' = [disk |-> [k \in Key |-> IF k \in p THEN disk[k] ELSE stable.disk[k]],
                      meta |-> stable.meta]

\* bpm_->FlushAllPages, one page at a time.
CheckpointPage(p) ==
  /\ pc = "flush" /\ p \in local.pages
  /\ WritePage(p)
  /\ local' = [local EXCEPT !.pages = @ \ {p}]
  /\ UNCHANGED <<log, synced, tree, meta, active, next_id, since, pc, aux>>

\* Mutation of CheckpointBegin: the bracket does not wait for the pages.
CheckpointBegin_Unflushed ==
  /\ pc = "flush"
  /\ Log(Bracket("CHECKPOINT_BEGIN"))
  /\ pc' = "bracket" /\ local' = [NoLocal EXCEPT !.lsn = Lsn, !.txns = Open]
  /\ UNCHANGED <<synced, tree, files, active, next_id, since, aux>>

CheckpointBegin ==
  /\ pc = "flush" /\ local.pages = {}
  /\ Log(Bracket("CHECKPOINT_BEGIN"))
  /\ pc' = "bracket" /\ local' = [NoLocal EXCEPT !.lsn = Lsn, !.txns = Open]
  /\ UNCHANGED <<synced, tree, files, active, next_id, since, aux>>

CheckpointActive(t) ==
  /\ pc = "bracket" /\ t \in local.txns
  /\ Log(ActiveTxn(t, active[t].last_lsn))
  /\ local' = [local EXCEPT !.txns = @ \ {t}]
  /\ UNCHANGED <<synced, tree, files, active, next_id, since, pc, aux>>

\* Mutation of CheckpointEnd: the bracket is not fsynced before the pointer.
CheckpointEnd_Unsynced ==
  /\ pc = "bracket" /\ local.txns = {}
  /\ Log(Bracket("CHECKPOINT_END"))
  /\ pc' = "meta"
  /\ UNCHANGED <<synced, tree, files, active, next_id, since, local, aux>>

CheckpointEnd ==
  /\ pc = "bracket" /\ local.txns = {}
  /\ Log(Bracket("CHECKPOINT_END"))
  /\ synced' = Lsn
  /\ pc' = "meta"
  /\ UNCHANGED <<tree, files, active, next_id, since, local, aux>>

CheckpointMeta ==
  /\ pc = "meta"
  /\ meta' = local.lsn
  /\ \/ UNCHANGED stable
     \/ PowerLoss /\ stable' = [disk |-> stable.disk, meta |-> meta]
  /\ pc' = "idle" /\ local' = NoLocal
  /\ UNCHANGED <<log, synced, tree, disk, active, next_id, since, aux>>

----------------------------------------------------------------------------
(* The environment. *)

\* The buffer pool writes a dirty page back to reuse its frame.
Evict(p) ==
  /\ pc # "start" /\ Written(p) # disk
  /\ WritePage(p)
  /\ UNCHANGED <<log, synced, tree, meta, active, next_id, since, pc, local, aux>>

Restarted ==
  /\ active' = <<>> /\ next_id' = 0 /\ since' = 0
  /\ pc' = "start" /\ local' = NoLocal
  /\ crashes < MaxCrashes /\ crashes' = crashes + 1 /\ UNCHANGED acked

\* The process dies: what was written to the files is kept.
Crash ==
  /\ Restarted
  /\ tree' = disk
  /\ UNCHANGED <<log, synced, files>>

\* The machine dies: the log keeps what was fsynced, and the device holds of
\* each page of the database file its last version or an earlier one.
LosePower ==
  /\ PowerLoss /\ Restarted
  /\ \E n \in synced .. Len(log) : log' = SubSeq(log, 1, n) /\ synced' = n
  /\ \E S \in SUBSET Pages :
       disk' = [k \in Key |-> IF k \in UNION S THEN disk[k] ELSE stable.disk[k]]
  /\ meta' \in {meta, stable.meta}
  /\ tree' = disk'
  /\ stable' = [disk |-> disk', meta |-> meta']

----------------------------------------------------------------------------
(* RecoverOnStartup. *)

Types(i) == log[i].type

\* The checkpoint the meta page points to, if its bracket is complete.
BracketEnd(b) ==
  CHOOSE e \in b + 1 .. Len(log) + 1 :
    /\ e = Len(log) + 1 \/ Types(e) # "ACTIVE_TXN"
    /\ \A i \in b + 1 .. e - 1 : Types(i) = "ACTIVE_TXN"

HasCheckpoint ==
  /\ meta \in 1 .. Len(log)
  /\ Types(meta) = "CHECKPOINT_BEGIN"
  /\ BracketEnd(meta) <= Len(log)
  /\ Types(BracketEnd(meta)) = "CHECKPOINT_END"

\* Mutation of CheckpointTxns: the ACTIVE_TXN records are not read.
CheckpointTxns_Ignored == {}

CheckpointTxns ==
  IF HasCheckpoint
  THEN {<<log[i].txn, log[i].last>> : i \in meta + 1 .. BracketEnd(meta) - 1}
  ELSE {}

RedoStart ==
  IF HasCheckpoint THEN Min({meta} \cup {e[2] : e \in CheckpointTxns}) ELSE 1

\* ANALYSIS: transactions with a record and no COMMIT after it.
Seen(t, from) ==
  {i \in from .. Len(log) : Types(i) \in {"BEGIN", "UPDATE", "CLR"} /\ log[i].txn = t}
Commits(t, from) ==
  {i \in from .. Len(log) : Types(i) = "COMMIT" /\ log[i].txn = t}

Losers(from, seed) ==
  {e \in Id \X (1 .. Len(log)) :
     LET S == Seen(e[1], from) \cup {s[2] : s \in {x \in seed : x[1] = e[1]}}
     IN /\ e[2] \in S /\ \A i \in S : i <= e[2]
        /\ \A c \in Commits(e[1], from) : c < e[2]}

RecoverOnStartup ==
  /\ pc = "start"
  /\ IF log = <<>>
     THEN pc' = "idle" /\ local' = NoLocal
     ELSE /\ pc' = "redo"
          /\ local' = [NoLocal EXCEPT !.lsn = RedoStart,
                                      !.txns = Losers(RedoStart, CheckpointTxns)]
  /\ UNCHANGED <<log, synced, tree, files, active, next_id, since, aux>>

\* REDO: every UPDATE and CLR from the redo point on, whoever wrote it.
Redo ==
  /\ pc = "redo"
  /\ LET r == log[local.lsn] IN
       /\ tree' = IF r.type \in {"UPDATE", "CLR"}
                  THEN [tree EXCEPT ![r.key] = r.new] ELSE tree
       /\ IF local.lsn = Len(log)
          THEN pc' = "losers" /\ local' = [local EXCEPT !.lsn = 0]
          ELSE pc' = "redo" /\ local' = [local EXCEPT !.lsn = @ + 1]
  /\ UNCHANGED <<log, synced, files, active, next_id, since, aux>>

\* UNDO: the losers one after the other, in the order of an unordered_map.
NextLoser ==
  /\ pc = "losers"
  /\ \/ /\ local.txns = {}
        /\ pc' = "idle" /\ local' = NoLocal
     \/ \E e \in local.txns :
          /\ pc' = "undo"
          /\ local' = [local EXCEPT !.txn = e[1], !.lsn = e[2], !.txns = @ \ {e}]
  /\ UNCHANGED <<log, synced, tree, files, active, next_id, since, aux>>

\* Mutation of Undo: a CLR's undo_next is not followed.
Undo_ClrStays ==
  /\ pc = "undo"
  /\ IF local.lsn = 0 \/ Types(local.lsn) = "BEGIN"
     THEN pc' = "losers" /\ synced' = Len(log) /\ UNCHANGED <<tree, local>>
     ELSE LET r == log[local.lsn] IN
          /\ UNCHANGED <<synced, local>>
          /\ \/ r.type = "CLR" /\ pc' = "undo" /\ tree' = tree
             \/ /\ r.type = "UPDATE" /\ pc' = "undo_clr"
                /\ tree' = [tree EXCEPT ![r.key] = r.old]
  /\ UNCHANGED <<log, files, active, next_id, since, aux>>

\* One turn of UndoTransactionFromLog's loop; an UPDATE is compensated in the
\* tree before its CLR is logged.  The loop passes over a record of any other
\* type, but a loser's chain has none.
Undo ==
  /\ pc = "undo"
  /\ IF local.lsn = 0 \/ Types(local.lsn) = "BEGIN"
     THEN pc' = "losers" /\ synced' = Len(log) /\ UNCHANGED <<tree, local>>
     ELSE LET r == log[local.lsn] IN
          /\ UNCHANGED synced
          /\ \/ /\ r.type = "CLR"
                /\ pc' = "undo" /\ tree' = tree
                /\ local' = [local EXCEPT !.lsn = r.undo_next]
             \/ /\ r.type = "UPDATE"
                /\ pc' = "undo_clr" /\ local' = local
                /\ tree' = [tree EXCEPT ![r.key] = r.old]
  /\ UNCHANGED <<log, files, active, next_id, since, aux>>

\* Mutation of UndoLog: the CLR sends the next recovery back to its update.
UndoLog_SameLsn ==
  /\ pc = "undo_clr"
  /\ LET r == log[local.lsn] IN
       /\ Log(Clr(local.txn, r.key, r.old, local.lsn))
       /\ local' = [local EXCEPT !.lsn = r.prev]
  /\ pc' = "undo"
  /\ UNCHANGED <<synced, tree, files, active, next_id, since, aux>>

UndoLog ==
  /\ pc = "undo_clr"
  /\ LET r == log[local.lsn] IN
       /\ Log(Clr(local.txn, r.key, r.old, r.prev))
       /\ local' = [local EXCEPT !.lsn = r.prev]
  /\ pc' = "undo"
  /\ UNCHANGED <<synced, tree, files, active, next_id, since, aux>>

----------------------------------------------------------------------------
Client ==
  \/ Begin
  \/ \E t \in Open :
       Commit(t) \/ Abort(t) \/ \E k \in Key, v \in Cell : Change(t, k, v)

Engine ==
  \/ CommitFlush \/ AbortApply \/ AbortLog \/ AbortFlush
  \/ \E p \in Pages : CheckpointPage(p)
  \/ CheckpointBegin \/ (\E t \in Open : CheckpointActive(t)) \/ CheckpointEnd
  \/ CheckpointMeta
  \/ RecoverOnStartup \/ Redo \/ NextLoser \/ Undo \/ UndoLog

Environment == Crash \/ LosePower \/ \E p \in Pages : Evict(p)

\* No call is in progress and no client makes one.
Idle == pc = "idle" /\ UNCHANGED vars

Next == Client \/ Engine \/ Environment \/ Idle

Spec == Init /\ [][Next]_vars

\* mutex_ is held by a running call: it goes on until it returns.
FairSpec == Spec /\ WF_vars(Engine)

\* The locking discipline the header leaves to the caller ("there's no
\* isolation"): open transactions write different keys.
WrittenBy(t) == {active[t].undo_log[i].key : i \in DOMAIN active[t].undo_log}
NoSharedWrites == \A t, u \in Open : t = u \/ WrittenBy(t) \cap WrittenBy(u) = {}
IsolatedSpec == Init /\ [][Next /\ NoSharedWrites']_vars

----------------------------------------------------------------------------
(* Properties. *)

\* Record i belongs to a transaction that committed; ids start again from 0
\* after a restart, so a BEGIN of the same id separates two transactions.
Won(i) ==
  \E c \in i + 1 .. Len(log) :
    /\ Types(c) = "COMMIT" /\ log[c].txn = log[i].txn
    /\ \A b \in i + 1 .. c : ~(Types(b) = "BEGIN" /\ log[b].txn = log[i].txn)
Updates(k) == {i \in DOMAIN log : Types(i) = "UPDATE" /\ log[i].key = k}
CommittedUpdates(k) == {i \in Updates(k) : Won(i)}

\* Keys no open transaction is changing, when no call is in progress.
Settled == IF pc = "idle" THEN Key \ UNION {WrittenBy(t) : t \in Open} ELSE {}

\* Durability: whatever crashes and recoveries came in between, the last
\* committed write of a key is the one the tree shows.
CommittedSurvives ==
  \A k \in Settled :
    CommittedUpdates(k) # {} => tree[k] = log[Max(CommittedUpdates(k))].new

\* Atomicity: a key only transactions without a COMMIT ever wrote is not in the
\* tree once they aborted or the engine recovered.
LosersUndone ==
  \A k \in Settled : CommittedUpdates(k) = {} => tree[k] = Absent

\* "an undo interrupted by another crash can resume without redoing or
\* re-undoing work": no UPDATE gets two compensation records, however often
\* Abort or recovery is cut short.
CompensatedOnce ==
  \A i, j \in DOMAIN log :
    /\ Types(i) = "CLR" /\ Types(j) = "CLR"
    /\ log[i].txn = log[j].txn /\ log[i].undo_next = log[j].undo_next
    => i = j

\* Abort works from the undo_log in memory, recovery from the prev_lsn chain in
\* the log: for every open transaction the two describe the same undo.
UndoLogIsChain ==
  LET chain[i \in 0 .. Len(log)] ==
        IF i = 0 \/ Types(i) # "UPDATE" THEN <<>>
        ELSE Append(chain[log[i].prev],
                    [key |-> log[i].key, old |-> log[i].old,
                     undo_next |-> log[i].prev])
  IN \A t \in Open : active[t].undo_log = chain[active[t].last_lsn]

\* The meta page never points at a checkpoint whose bracket the log does not
\* hold in full, even after a power failure.
CheckpointComplete == meta # 0 => HasCheckpoint

\* A COMMIT record Commit has returned from stays in the log whatever fails:
\* "COMMIT must be fsynced before Commit() returns to the caller".
AckedCommitKept ==
  [][acked # 0 => acked <= Len(log') /\ log'[acked] = log[acked]]_vars

\* Every call and every recovery comes to an end, crashes permitting.
CallsReturn == pc # "idle" ~> pc = "idle"
=============================================================================
