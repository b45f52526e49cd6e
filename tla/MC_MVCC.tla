------------------------------- MODULE MC_MVCC -------------------------------
EXTENDS MVCCSnapshot

\* Transaction ids are given out in the order of the Begins (next_txn_id_), as
\* an action constraint: a behaviour it cuts is another one with the
\* transactions renamed.
BegunInOrder ==
  (\A t \in Txn : pc[t] # "idle" => \A u \in 1 .. t : pc[u] # "idle")'

\* An assumption on the callers, as an action constraint: nobody is inside a
\* Begin, with a start timestamp and not registered, while
\* RunGarbageCollection runs.
NoBeginDuringGC == (gc.pc # "idle" => \A t \in Txn : pc[t] # "begin")'
==============================================================================
