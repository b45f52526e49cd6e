--------------------------- MODULE KeyValueStore ---------------------------
(***************************************************************************)
(* What src/src/engine/storage_engine.h promises of an engine's writes: a  *)
(* Put sets the value of its key, present or not, a Delete removes its     *)
(* key, each in one step of the call, and the rest of the call changes     *)
(* nothing that the engine holds.  One call runs at a time.                *)
(***************************************************************************)
CONSTANTS Key, Value

VARIABLES
  store,  \* the pairs of a key and its value
  busy    \* whether a call has made its change and not yet returned

vars == <<store, busy>>

Init == store = {} /\ busy = FALSE

Without(held, k) == {e \in held : e[1] # k}

\* What a Put, and a Delete, may leave of what is held.
AfterPut(held) == {Without(held, k) \cup {<<k, v>>} : k \in Key, v \in Value}
AfterDelete(held) == {Without(held, k) : k \in Key}

Put == ~busy /\ busy' = TRUE /\ store' \in AfterPut(store)

Delete == ~busy /\ busy' = TRUE /\ store' \in AfterDelete(store)

Return == busy /\ busy' = FALSE /\ UNCHANGED store

Next == Put \/ Delete \/ Return

Spec == Init /\ [][Next]_vars
=============================================================================
