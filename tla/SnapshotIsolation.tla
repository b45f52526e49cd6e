------------------------- MODULE SnapshotIsolation -------------------------
(***************************************************************************)
(* What src/src/mvcc/mvcc_store.h promises a SNAPSHOT client, with no      *)
(* versions, locks, timestamps or garbage collection: a transaction works  *)
(* on the store as it was when it began, and commits all its writes in one *)
(* step if nobody committed one of its keys in between.                    *)
(***************************************************************************)
EXTENDS Naturals

CONSTANTS Txn, Key

\* A write is {n}, n the number it drew; {} stands for no write of the key.
NoWrite == {}
IsWrite(w) == \E n \in w : n \in Nat /\ w = {n}

VARIABLES
  store,    \* last committed write of each key
  status,   \* where each transaction is
  snap,     \* the store when it began
  pending   \* its own writes

avars == <<store, status, snap, pending>>

Nothing == [k \in Key |-> NoWrite]

AInit ==
  /\ store \in [Key -> SUBSET Nat]
  /\ \A k \in Key : store[k] = NoWrite \/ IsWrite(store[k])
  /\ status = [t \in Txn |-> "idle"]
  /\ snap = [t \in Txn |-> Nothing]
  /\ pending = [t \in Txn |-> Nothing]

ABegin(t) ==
  /\ status[t] = "idle"
  /\ status' = [status EXCEPT ![t] = "active"]
  /\ snap' = [snap EXCEPT ![t] = store]
  /\ UNCHANGED <<store, pending>>

AWrite(t, k) ==
  /\ status[t] = "active"
  /\ IsWrite(pending'[t][k])
  /\ pending' = [pending EXCEPT ![t][k] = pending'[t][k]]
  /\ UNCHANGED <<store, status, snap>>

End(t, how) ==
  /\ status[t] = "active"
  /\ status' = [status EXCEPT ![t] = how]
  /\ snap' = [snap EXCEPT ![t] = Nothing]
  /\ pending' = [pending EXCEPT ![t] = Nothing]

ACommit(t) ==
  /\ End(t, "committed")
  /\ \A k \in Key : pending[t][k] # NoWrite => store[k] = snap[t][k]
  /\ store' = [k \in Key |-> IF pending[t][k] = NoWrite THEN store[k]
                             ELSE pending[t][k]]

AAbort(t) == End(t, "aborted") /\ UNCHANGED store

ANext ==
  \E t \in Txn :
    ABegin(t) \/ ACommit(t) \/ AAbort(t) \/ \E k \in Key : AWrite(t, k)

ASpec == AInit /\ [][ANext]_avars
============================================================================
