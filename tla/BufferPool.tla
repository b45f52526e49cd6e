----------------------------- MODULE BufferPool -----------------------------
(***************************************************************************)
(* The buffer pool of src/src/buffer/buffer_pool_manager.{h,cpp} over the  *)
(* disk manager of src/src/storage/disk/disk_manager.cpp, with the         *)
(* replacer as its interface (replacer.h) describes it: it may pick any    *)
(* evictable frame.  LRUKPool adds the production policy.                  *)
(*                                                                         *)
(* latch_ makes every public method one step.  Several threads share the   *)
(* pool; each pins pages, changes the bytes of a page it has pinned        *)
(* without any latch, and says so when it unpins the page.                 *)
(***************************************************************************)
EXTENDS Integers, Sequences, FiniteSets

CONSTANTS
  Thread,
  Frame,     \* frame ids
  Data,      \* what callers write into a page
  Zero,      \* the bytes of a page never written
  NoPage,    \* INVALID_PAGE_ID
  MaxPages,  \* bound: pages allocated
  MaxPins    \* bound: pins a thread holds on one page

ASSUME ConstantsAssumption ==
  /\ Zero \notin Data /\ NoPage \notin Nat
  /\ MaxPages \in Nat /\ MaxPins \in Nat

VARIABLES
  pages,       \* pages_: what each frame holds
  page_table,  \* page_table_
  free_list,   \* free_list_, as a set: which free frame is used makes no difference
  evictable,   \* the replacer's frames_: which of them SetEvictable made evictable
  disk,        \* the file, by page id
  next_page,   \* next_page_id_
  pins,        \* the pins each thread holds on each page
  changed,     \* the pages each thread changed and has yet to unpin as dirty
  bytes        \* history: what was last written into each page in use

pool == <<pages, page_table, free_list, evictable>>
vars == <<pool, disk, next_page, pins, changed, bytes>>

PageId == 0 .. MaxPages - 1
Content == Data \cup {Zero}
Slot == [page : PageId \cup {NoPage}, pin : Nat, dirty : BOOLEAN, data : Content]

Set(f, x, v) == [y \in DOMAIN f \cup {x} |-> IF y = x THEN v ELSE f[y]]
Drop(f, S) == [y \in DOMAIN f \ S |-> f[y]]

\* Page::ResetMemory
Blank == [page |-> NoPage, pin |-> 0, dirty |-> FALSE, data |-> Zero]

Init ==
  /\ pages = [f \in Frame |-> Blank] /\ free_list = Frame
  /\ page_table = [p \in {} |-> 0] /\ evictable = [f \in {} |-> TRUE]
  /\ disk = [p \in PageId |-> Zero] /\ next_page = 0
  /\ pins = [t \in Thread |-> [p \in PageId |-> 0]]
  /\ changed = [t \in Thread |-> {}]
  /\ bytes = [p \in {} |-> Zero]

----------------------------------------------------------------------------
Evictable == {f \in DOMAIN evictable : evictable[f]}

\* AcquireFrame may return f: the free list first, then a victim, whose page is
\* written back if it is dirty.
Acquires(f) == IF free_list # {} THEN f \in free_list ELSE f \in Evictable

WriteBack(f) ==
  IF pages[f].dirty THEN [disk EXCEPT ![pages[f].page] = pages[f].data] ELSE disk

\* Frame f, acquired, now holds page p with one pin.
Install(f, p, data) ==
  /\ pages' = [pages EXCEPT ![f] = [page |-> p, pin |-> 1, dirty |-> FALSE,
                                    data |-> data]]
  /\ page_table' = Set(Drop(page_table, {pages[f].page}), p, f)
  /\ free_list' = free_list \ {f}
  /\ evictable' = Set(evictable, f, FALSE)

Pin(t, p) ==
  /\ pins[t][p] < MaxPins
  /\ pins' = [pins EXCEPT ![t][p] = @ + 1]

\* The page is all zeros: the frame was blank or has just been reset.
NewPage(t, f) ==
  /\ next_page < MaxPages /\ Acquires(f)
  /\ disk' = WriteBack(f)
  /\ Install(f, next_page, Zero)
  /\ Pin(t, next_page)
  /\ next_page' = next_page + 1
  /\ bytes' = Set(bytes, next_page, Zero)
  /\ UNCHANGED changed

\* Mutation of FetchHit: the frame stays evictable while it is pinned again.
FetchHit_Evictable(t, p) ==
  /\ p \in DOMAIN page_table
  /\ LET f == page_table[p] IN pages' = [pages EXCEPT ![f].pin = @ + 1]
  /\ Pin(t, p)
  /\ UNCHANGED <<page_table, free_list, evictable, disk, next_page, changed, bytes>>

FetchHit(t, p) ==
  /\ p \in DOMAIN page_table
  /\ LET f == page_table[p] IN
       /\ pages' = [pages EXCEPT ![f].pin = @ + 1]
       /\ evictable' = Set(evictable, f, FALSE)
  /\ Pin(t, p)
  /\ UNCHANGED <<page_table, free_list, disk, next_page, changed, bytes>>

\* The victim is written back before the page is read.
FetchMiss(t, p, f) ==
  /\ p \in DOMAIN bytes \ DOMAIN page_table /\ Acquires(f)
  /\ disk' = WriteBack(f)
  /\ Install(f, p, disk'[p])
  /\ Pin(t, p)
  /\ UNCHANGED <<next_page, changed, bytes>>

\* A caller writes through the Page* it holds; the pool does not see it.
Change(t, p, d) ==
  /\ pins[t][p] > 0 /\ p \in DOMAIN page_table
  /\ pages' = [pages EXCEPT ![page_table[p]].data = d]
  /\ changed' = [changed EXCEPT ![t] = @ \cup {p}]
  /\ bytes' = [bytes EXCEPT ![p] = d]
  /\ UNCHANGED <<page_table, free_list, evictable, disk, next_page, pins>>

\* Mutation of UnpinPage: the dirty flag is assigned, not OR'd.
UnpinPage_Assigns(t, p) ==
  /\ pins[t][p] > 0 /\ p \in DOMAIN page_table
  /\ LET f == page_table[p] IN
       /\ pages[f].pin > 0
       /\ pages' = [pages EXCEPT ![f].pin = @ - 1, ![f].dirty = p \in changed[t]]
       /\ evictable' = IF pages[f].pin = 1 THEN Set(evictable, f, TRUE) ELSE evictable
  /\ pins' = [pins EXCEPT ![t][p] = @ - 1]
  /\ changed' = [changed EXCEPT ![t] = @ \ {p}]
  /\ UNCHANGED <<page_table, free_list, disk, next_page, bytes>>

UnpinPage(t, p) ==
  /\ pins[t][p] > 0 /\ p \in DOMAIN page_table
  /\ LET f == page_table[p] IN
       /\ pages[f].pin > 0
       /\ pages' = [pages EXCEPT ![f].pin = @ - 1,
                                 ![f].dirty = @ \/ p \in changed[t]]
       /\ evictable' = IF pages[f].pin = 1 THEN Set(evictable, f, TRUE) ELSE evictable
  /\ pins' = [pins EXCEPT ![t][p] = @ - 1]
  /\ changed' = [changed EXCEPT ![t] = @ \ {p}]
  /\ UNCHANGED <<page_table, free_list, disk, next_page, bytes>>

FlushPage(p) ==
  /\ p \in DOMAIN page_table
  /\ LET f == page_table[p] IN
       /\ disk' = [disk EXCEPT ![p] = pages[f].data]
       /\ pages' = [pages EXCEPT ![f].dirty = FALSE]
  /\ UNCHANGED <<page_table, free_list, evictable, next_page, pins, changed, bytes>>

FlushAllPages ==
  /\ disk' = [p \in PageId |->
                IF p \in DOMAIN page_table THEN WriteBack(page_table[p])[p]
                ELSE disk[p]]
  /\ pages' = [f \in Frame |-> [pages[f] EXCEPT !.dirty = FALSE]]
  /\ UNCHANGED <<page_table, free_list, evictable, next_page, pins, changed, bytes>>

\* Mutation of DeletePage: the frame does not go back to the free list.
DeletePage_LeaksFrame(p) ==
  /\ p \in DOMAIN bytes
  /\ IF p \in DOMAIN page_table
     THEN LET f == page_table[p] IN
          /\ pages[f].pin = 0
          /\ evictable' = Drop(evictable, {f})
          /\ page_table' = Drop(page_table, {p})
          /\ pages' = [pages EXCEPT ![f] = Blank]
          /\ free_list' = free_list
     ELSE UNCHANGED pool
  /\ bytes' = Drop(bytes, {p})
  /\ UNCHANGED <<disk, next_page, pins, changed>>

\* The caller is done with page p for good; page ids are not used again.  A page
\* that is not in the pool has nothing to remove.
DeletePage(p) ==
  /\ p \in DOMAIN bytes
  /\ IF p \in DOMAIN page_table
     THEN LET f == page_table[p] IN
          /\ pages[f].pin = 0
          /\ evictable' = Drop(evictable, {f})
          /\ page_table' = Drop(page_table, {p})
          /\ pages' = [pages EXCEPT ![f] = Blank]
          /\ free_list' = free_list \cup {f}
     ELSE UNCHANGED pool
  /\ bytes' = Drop(bytes, {p})
  /\ UNCHANGED <<disk, next_page, pins, changed>>

Next ==
  \/ \E t \in Thread, f \in Frame :
       NewPage(t, f) \/ \E p \in PageId : FetchMiss(t, p, f)
  \/ \E t \in Thread, p \in PageId :
       FetchHit(t, p) \/ UnpinPage(t, p) \/ \E d \in Data : Change(t, p, d)
  \/ \E p \in PageId : FlushPage(p) \/ DeletePage(p)
  \/ FlushAllPages

Spec == Init /\ [][Next]_vars

----------------------------------------------------------------------------
(* Properties. *)

\* The types of the pool's state.
TypeOK ==
  /\ pages \in [Frame -> Slot] /\ free_list \subseteq Frame
  /\ DOMAIN page_table \subseteq PageId
  /\ \A p \in DOMAIN page_table : page_table[p] \in Frame
  /\ DOMAIN evictable \subseteq Frame
  /\ \A f \in DOMAIN evictable : evictable[f] \in BOOLEAN
  /\ disk \in [PageId -> Content] /\ next_page \in 0 .. MaxPages
  /\ pins \in [Thread -> [PageId -> Nat]]
  /\ changed \in [Thread -> SUBSET PageId]
  /\ DOMAIN bytes \subseteq PageId /\ \A p \in DOMAIN bytes : bytes[p] \in Content

\* "can change once unpinned and evicted" and not before (page.h): the frame of
\* a page a thread has pinned holds that page, with what was last written to it.
PinnedPageStays ==
  \A t \in Thread, p \in PageId :
    pins[t][p] > 0 => /\ p \in DOMAIN page_table
                      /\ pages[page_table[p]].page = p
                      /\ pages[page_table[p]].data = bytes[p]

\* No write is lost: a page in use reads back as it was last written, from its
\* frame if it has one and from the file if not, and a clean frame whose
\* writers have all unpinned it agrees with the file.
NoWriteLost ==
  \A p \in DOMAIN bytes :
    IF p \in DOMAIN page_table
    THEN LET s == pages[page_table[p]] IN
         /\ s.data = bytes[p]
         /\ ~s.dirty /\ (\A t \in Thread : p \notin changed[t]) => disk[p] = s.data
    ELSE disk[p] = bytes[p]

\* The pool runs out of frames only if every frame is pinned: "Returns nullptr
\* if the pool is full and every frame is pinned" (buffer_pool_manager.h).
NullMeansAllPinned ==
  (\A f \in Frame : ~Acquires(f)) => \A f \in Frame : pages[f].pin > 0
=============================================================================
