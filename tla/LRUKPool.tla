------------------------------ MODULE LRUKPool ------------------------------
(***************************************************************************)
(* BufferPool with its production replacer,                                *)
(* src/src/buffer/lru_k_replacer.{h,cpp}: each frame's last K access times *)
(* and the choice of a victim by backward K-distance.  A step of the pool  *)
(* is a step of BufferPool together with the replacer calls it makes.      *)
(***************************************************************************)
EXTENDS BufferPool

CONSTANTS
  K,           \* k_
  MaxAccesses  \* bound: NewPage and FetchPage calls

ASSUME ReplacerAssumption == K \in Nat \ {0} /\ MaxAccesses \in Nat

VARIABLES
  history,   \* frames_[f].history: the last K access times, oldest first
  clock,     \* current_timestamp_
  count      \* evictable_count_

replacer == <<history, clock, count>>

ReplacerInit == Init /\ history = [f \in {} |-> <<>>] /\ clock = 0 /\ count = 0

\* RecordAccess; a frame that was free or has just been evicted is not tracked.
RecordAccess(old, f) ==
  LET h == Append(IF f \in DOMAIN old THEN old[f] ELSE <<>>, clock)
  IN /\ clock < MaxAccesses /\ clock' = clock + 1
     /\ history' = Set(old, f, IF Len(h) > K THEN Tail(h) ELSE h)

\* SetEvictable adjusts the count when the flag of f really changes.
Recount(f) ==
  LET was == f \in Evictable IN
  count' = count + (IF evictable'[f] /\ ~was THEN 1
                    ELSE IF ~evictable'[f] /\ was THEN -1 ELSE 0)

----------------------------------------------------------------------------
(* Evict: one pass over the frames in the order the hash map yields them,   *)
(* keeping the best so far.                                                 *)

IsInf(f) == Len(history[f]) < K
Metric(f) == IF IsInf(f) THEN Head(history[f]) ELSE clock - Head(history[f])

\* Mutation of Outranks: among hot frames the smallest distance wins.
Outranks_MostRecent(f, best) ==
  IF IsInf(f) # IsInf(best) THEN IsInf(f) ELSE Metric(f) < Metric(best)

\* Among frames with fewer than K accesses the oldest first touch wins, among
\* the others the largest backward distance; the former outrank the latter.
Outranks(f, best) ==
  IF IsInf(f) # IsInf(best) THEN IsInf(f)
  ELSE IF IsInf(f) THEN Metric(f) < Metric(best)
  ELSE Metric(f) > Metric(best)

Adopt(best, f) ==
  IF f \in Evictable /\ (best = <<>> \/ Outranks(f, best[1])) THEN <<f>> ELSE best
Evict(order) ==
  LET best[i \in 0 .. Len(order)] ==
        IF i = 0 THEN <<>> ELSE Adopt(best[i - 1], order[i])
  IN best[Len(order)]

\* The orders in which the hash map may yield the frames it tracks.
Orders == {o \in [1 .. Cardinality(DOMAIN history) -> DOMAIN history] :
             \A i, j \in DOMAIN o : o[i] = o[j] => i = j}

\* The frame AcquireFrame takes, and what it leaves of the histories.
Chosen(f) ==
  free_list = {} => \E order \in Orders : Evict(order) = <<f>>
Acquired(f) ==
  /\ Chosen(f)
  /\ RecordAccess(Drop(history, {f}), f)
  /\ count' = IF free_list = {} THEN count - 1 ELSE count

----------------------------------------------------------------------------
New(t, f) == NewPage(t, f) /\ Acquired(f)
Miss(t, p, f) == FetchMiss(t, p, f) /\ Acquired(f)
Hit(t, p) ==
  /\ FetchHit(t, p)
  /\ RecordAccess(history, page_table[p]) /\ Recount(page_table[p])
Unpin(t, p) ==
  /\ UnpinPage(t, p) /\ Recount(page_table[p]) /\ UNCHANGED <<history, clock>>
\* SetEvictable(true), which an unpinned frame already is, and Remove.
Delete(p) ==
  /\ DeletePage(p) /\ UNCHANGED clock
  /\ IF p \in DOMAIN page_table
     THEN history' = Drop(history, {page_table[p]}) /\ count' = count - 1
     ELSE UNCHANGED <<history, count>>

\* The steps of the pool that do not call the replacer.
Elsewhere ==
  \/ \E t \in Thread, p \in PageId, d \in Data : Change(t, p, d)
  \/ \E p \in PageId : FlushPage(p)
  \/ FlushAllPages

ReplacerNext ==
  \/ \E t \in Thread, f \in Frame : New(t, f) \/ \E p \in PageId : Miss(t, p, f)
  \/ \E t \in Thread, p \in PageId : Hit(t, p) \/ Unpin(t, p)
  \/ \E p \in PageId : Delete(p)
  \/ Elsewhere /\ UNCHANGED replacer

ReplacerSpec == ReplacerInit /\ [][ReplacerNext]_<<vars, replacer>>

----------------------------------------------------------------------------
(* Properties. *)

\* LRU-K, in whatever order the hash map yields the frames: there is a victim
\* exactly when a frame is evictable; it is one touched fewer than K times if
\* there is one, so that a page touched once by a scan never pushes out a hot
\* one; and no evictable frame of its kind had its K-th last access (its first,
\* if it has fewer) before the victim's.  Size() counts the evictable frames,
\* and those are the frames whose page nobody has pinned.
VictimIsLRUK ==
  /\ count = Cardinality(Evictable)
  /\ Evictable = {f \in Frame : pages[f].page # NoPage /\ pages[f].pin = 0}
  /\ \A order \in Orders :
       /\ Evict(order) = <<>> <=> Evictable = {}
       /\ \A v, f \in Evictable :
            Evict(order) = <<v>>
              => \/ IsInf(v) /\ ~IsInf(f)
                 \/ IsInf(v) = IsInf(f) /\ Head(history[v]) <= Head(history[f])
=============================================================================
