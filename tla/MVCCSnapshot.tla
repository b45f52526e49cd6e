---------------------------- MODULE MVCCSnapshot ----------------------------
(***************************************************************************)
(* MVCCStore implements SnapshotIsolation: the refinement mapping.         *)
(*                                                                         *)
(* The abstract commit is the step that draws the commit timestamp         *)
(* (Validate); the versions it will mark count as committed from there on, *)
(* which no reader can tell because their chains stay locked.  The snapshot*)
(* of a transaction is computed from the versions its chains still hold,   *)
(* so a version collected too early is a snapshot that changed.            *)
(***************************************************************************)
EXTENDS MVCCStore

Running(t) == pc[t] \in {"begin", "active", "chain", "push", "lock"}

CommittedIn(k) == {v \in table[k] : CommitTsOf(v) # NoTs}

StoreMap ==
  [k \in Key |-> {v.seq : v \in {w \in CommittedIn(k) :
                    \A x \in CommittedIn(k) : CommitTsOf(x) <= CommitTsOf(w)}}]

StatusMap ==
  [t \in Txn |-> CASE pc[t] = "idle" -> "idle"
                   [] Running(t) -> "active"
                   [] HasCommitted(t) -> "committed"
                   [] OTHER -> "aborted"]

SnapMap == [t \in Txn |-> [k \in Key |->
              IF Running(t) THEN SnapshotSeq(t, k) ELSE {}]]

PendingMap == [t \in Txn |-> [k \in Key |->
                 IF Running(t) THEN {v.seq : v \in Own(t, k)} ELSE {}]]

SI == INSTANCE SnapshotIsolation
        WITH store <- StoreMap, status <- StatusMap, snap <- SnapMap,
             pending <- PendingMap

\* The store implements the abstract specification: snapshots are those of the
\* moment of Begin, commits are atomic, and the first committer wins.
ImplementsSnapshotIsolation == SI!ASpec

\* Read returns the own pending write, else the snapshot's version: the
\* committed flag and the lock Read waits for give it exactly the abstract
\* snapshot, even while other transactions are half way through Commit.
ReadsSnapshot ==
  \A t \in registered, k \in Key :
    Running(t) /\ mutex[k] = Free /\ txns[t].isolation \in SnapshotLevels =>
      {v.seq : v \in ReadVersion(t, k)} =
        IF PendingMap[t][k] # {} THEN PendingMap[t][k] ELSE SnapMap[t][k]
============================================================================
