------------------------------- MODULE MC_Mem -------------------------------
(***************************************************************************)
(* MemTable for TLC.                                                       *)
(***************************************************************************)
EXTENDS MemTable

CONSTANTS v1, t1, t2

PutOf(k) == [op |-> "PUT", key |-> k, value |-> v1]
DeleteOf(k) == [op |-> "DELETE", key |-> k]
MCRecord == {PutOf(k) : k \in Key} \cup {DeleteOf(2)}

Live(k, v) == <<k, [value |-> v, deleted |-> FALSE]>>
Dead(k) == <<k, Tombstone>>

\* A table of two pages, under a newer one that hides its first key and deletes
\* its last.
MCTables ==
  << <<Live(1, t1), Dead(3)>>, <<Live(1, t2), Live(2, t2), Live(3, t2)>> >>

\* Spread hashes; key 2's bits are among key 4's.
MCHash1 == [k \in TableKey |-> (5 * k + 3) % 16]
MCHash2 == [k \in TableKey |-> (7 * k + 2) % 16]
=============================================================================
